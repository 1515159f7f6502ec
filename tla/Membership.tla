----------------------------- MODULE Membership -----------------------------
(***************************************************************************)
(* Where users stand: the organization > complex > role hierarchy, the     *)
(* administrators who change it, and the access tokens that carry a copy   *)
(* of it.                                                                  *)
(*                                                                         *)
(* Code: src/users/user-hierarchy.service.ts, the hierarchy half of        *)
(* src/users/users.service.ts, login and switchComplex of                  *)
(* src/auth/auth.service.ts, and what src/organizations and                *)
(* src/residential-complexes write to organization_id and status.          *)
(*                                                                         *)
(* A client holds an access token and runs one request at a time with it;  *)
(* two clients may belong to one user.  An action is what a handler does   *)
(* between two reads or writes of the database; a request whose later      *)
(* steps can neither be disturbed nor observed is one action.  No row lock *)
(* is taken before the final write, which is by id and unconditional.      *)
(* A token is never revoked and nothing makes a client replace it, so its  *)
(* claims may be as old as they like.                                      *)
(*                                                                         *)
(* Abstracted: the status of users, e-mails and removal (see Accounts): a  *)
(* login or a switch may be refused for them at any time.                  *)
(***************************************************************************)

CONSTANTS
    Users,          \* user ids a database may ever generate
    Orgs,           \* organization ids a database may ever generate
    Complexes,      \* complex ids a database may ever generate
    Clients,        \* browser sessions: an access token, one request at a time
    Nil,            \* SQL NULL, undefined, and "no value"
    Dev, Admin,     \* the two users the seed creates
    HomeOrg,        \* the organization the seed creates
    HomeComplex     \* the complex the seed creates

ASSUME SeedAssumption ==
    /\ {Dev, Admin} \subseteq Users /\ Dev # Admin
    /\ HomeOrg \in Orgs
    /\ HomeComplex \in Complexes

VARIABLES
    user,           \* table users: role and place in the hierarchy
    organization,   \* table organizations: status
    complex,        \* table residential_complexes: organization and status
    claims,         \* the claims of the access token each client holds
    request,        \* what each client's request is doing, with its local variables
    owners,         \* history: the organizations that have owned each complex
    raced           \* history: rows that changed under an update in flight

vars == <<user, organization, complex, claims, request, owners, raced>>
history == <<owners, raced>>

-----------------------------------------------------------------------------
COMPLEX_SCOPED_ROLES == {"COMPLEX_ADMIN", "SECURITY", "RESIDENT"}
RoleCode == {"DEV", "ORG_ADMIN"} \cup COMPLEX_SCOPED_ROLES

ASSUME NilAssumption ==
    /\ Nil \notin Users \cup Orgs \cup Complexes
    /\ Nil \notin RoleCode
    /\ Nil \notin {0, 1}

\* organizationId and residentialComplexId, in rows, tokens and inputs.
Place == [org : Orgs \cup {Nil}, complex : Complexes \cup {Nil}]
At(o, c) == [org |-> o, complex |-> c]
Nowhere == At(Nil, Nil)

UserRow == [role : RoleCode \cup {Nil}, at : Place]
NoUser == [role |-> Nil, at |-> Nowhere]

\* Status 1 is active, 0 is deactivated; Nil is a row not created yet.
OrganizationRow == {Nil, 0, 1}
ComplexRow == [org : Orgs \cup {Nil}, status : {Nil, 0, 1}]
NoComplex == [org |-> Nil, status |-> Nil]

Points == {"idle", "invite", "resolve", "write", "complexWrite", "switch"}
Claims == [sub : Users, role : RoleCode, at : Place]

Idle == [pc |-> "idle", user |-> Nil, complex |-> Nil,
         role |-> Nil, at |-> Nowhere, resolved |-> FALSE]

RequestState == [pc : Points,
                 user : Users \cup {Nil},
                 complex : Complexes \cup {Nil},
                 role : RoleCode \cup {Nil},
                 at : Place,
                 resolved : BOOLEAN]

TablesOK ==
    /\ user \in [Users -> UserRow]
    /\ organization \in [Orgs -> OrganizationRow]
    /\ complex \in [Complexes -> ComplexRow]
    /\ \A c \in Complexes : complex[c].status # Nil =>
          complex[c].org \in Orgs /\ organization[complex[c].org] # Nil

RequestsOK ==
    /\ request \in [Clients -> RequestState]
    /\ \A r \in Clients :
          /\ request[r].pc # "idle" => claims[r] # Nil
          /\ request[r].pc \in {"resolve", "write"} => request[r].user \in Users
          /\ request[r].pc \in {"complexWrite", "switch"} => request[r].complex \in Complexes
          /\ request[r].pc \in {"invite", "resolve"} => request[r].role \in RoleCode
          /\ request[r].pc = "complexWrite" =>
                /\ complex[request[r].complex].status # Nil
                /\ request[r].at.org # Nil => organization[request[r].at.org] # Nil

(* Rows hold what their columns may hold; a complex has an organization    *)
(* (organization_id is NOT NULL) that exists, and a request in flight has  *)
(* a requester and a target.                                               *)
TypeOK ==
    /\ TablesOK
    /\ claims \in [Clients -> Claims \cup {Nil}]
    /\ RequestsOK
    /\ owners \in [Complexes -> SUBSET Orgs]
    /\ raced \subseteq Users \cup Complexes

Init ==
    /\ user = [u \in Users |->
                  IF u = Dev THEN [role |-> "DEV", at |-> At(HomeOrg, HomeComplex)]
                  ELSE IF u = Admin THEN [role |-> "ORG_ADMIN", at |-> At(HomeOrg, HomeComplex)]
                  ELSE NoUser]
    /\ organization = [o \in Orgs |-> IF o = HomeOrg THEN 1 ELSE Nil]
    /\ complex = [c \in Complexes |-> IF c = HomeComplex THEN [org |-> HomeOrg, status |-> 1]
                                      ELSE NoComplex]
    /\ claims = [r \in Clients |-> Nil]
    /\ request = [r \in Clients |-> Idle]
    /\ owners = [c \in Complexes |-> IF c = HomeComplex THEN {HomeOrg} ELSE {}]
    /\ raced = {}

-----------------------------------------------------------------------------
Running(r, pc) == request[r].pc = pc
Start(r, state) == request' = [request EXCEPT ![r] = state]
Finish(r) == request' = [request EXCEPT ![r] = Idle]

\* JwtStrategy and RolesGuard: the client sends a token whose role may call this.
Authorized(r, roles) ==
    /\ Running(r, "idle")
    /\ claims[r] # Nil
    /\ claims[r].role \in roles

\* scopeWhereClause: the users that the requester with claims `by` can reach.
ScopeWhereClause(by, u) ==
    /\ user[u].role # Nil
    /\ CASE by.role = "DEV"       -> TRUE
         [] by.role = "ORG_ADMIN" -> by.at.org # Nil /\ user[u].at.org = by.at.org
         [] OTHER                 -> by.at.complex # Nil /\ user[u].at.complex = by.at.complex

\* Mutated form: the complex is optional for a role scoped to one.
CanResolveUnplaced(role, in) ==
    CASE role = "DEV"       -> in = Nowhere
      [] role = "ORG_ADMIN" -> in.org # Nil /\ in.complex = Nil /\ organization[in.org] = 1
      [] OTHER              -> in.org = Nil /\ (in.complex # Nil => complex[in.complex].status = 1)

\* resolve: the input it accepts for a role ...
CanResolve(role, in) ==
    CASE role = "DEV"       -> in = Nowhere
      [] role = "ORG_ADMIN" -> in.org # Nil /\ in.complex = Nil /\ organization[in.org] = 1
      [] OTHER              -> in.org = Nil /\ in.complex # Nil /\ complex[in.complex].status = 1

\* Mutated form: the organization is the one of the input, not of the complex.
ResolveInput(role, in) == in

\* ... and the place it makes of it.
Resolve(role, in) ==
    IF role \in COMPLEX_SCOPED_ROLES /\ in.complex # Nil
    THEN At(complex[in.complex].org, in.complex)
    ELSE in

\* Mutated form: an administrator of a complex may name any role there.
MayAssignAnyRole(by, role, at) ==
    CASE by.role = "DEV"           -> TRUE
      [] by.role = "ORG_ADMIN"     -> role # "DEV" /\ at.org = by.at.org
      [] by.role = "COMPLEX_ADMIN" -> at.complex = by.at.complex
      [] OTHER                     -> FALSE

\* assertRequesterCanAssign
MayAssign(by, role, at) ==
    CASE by.role = "DEV"           -> TRUE
      [] by.role = "ORG_ADMIN"     -> role # "DEV" /\ at.org = by.at.org
      [] by.role = "COMPLEX_ADMIN" -> role \in {"SECURITY", "RESIDENT"} /\ at.complex = by.at.complex
      [] OTHER                     -> FALSE

-----------------------------------------------------------------------------
(* Users: invitation, and update of a user's role.                         *)

\* The transaction of inviteUser up to the insert.
InviteUser(r, role, in) ==
    /\ Authorized(r, {"DEV", "ORG_ADMIN", "COMPLEX_ADMIN"})
    /\ CanResolve(role, in)
    /\ MayAssign(claims[r], role, Resolve(role, in))
    /\ Start(r, [Idle EXCEPT !.pc = "invite", !.role = role,
                             !.at = Resolve(role, in)])
    /\ UNCHANGED <<user, organization, complex, claims, history>>

InsertUser(r, u) ==
    /\ Running(r, "invite")
    /\ user[u] = NoUser
    /\ user' = [user EXCEPT ![u] = [role |-> request[r].role, at |-> request[r].at]]
    /\ Finish(r)
    /\ UNCHANGED <<organization, complex, claims, history>>

\* The scoped read of update: dto.roleId is absent or the role the row has ...
UpdateUser(r, u, role) ==
    /\ Authorized(r, {"DEV", "ORG_ADMIN", "COMPLEX_ADMIN"})
    /\ ScopeWhereClause(claims[r], u)
    /\ role \in {Nil, user[u].role}
    /\ Start(r, [Idle EXCEPT !.pc = "write", !.user = u, !.role = role])
    /\ UNCHANGED <<user, organization, complex, claims, history>>

\* ... or another role, for which a place has to be resolved.
UpdateRole(r, u, role) ==
    /\ Authorized(r, {"DEV", "ORG_ADMIN", "COMPLEX_ADMIN"})
    /\ ScopeWhereClause(claims[r], u)
    /\ role # user[u].role
    /\ Start(r, [Idle EXCEPT !.pc = "resolve", !.user = u, !.role = role, !.at = user[u].at])
    /\ UNCHANGED <<user, organization, complex, claims, history>>

\* What update passes on of the row it read.
HierarchyInput(role, at) ==
    CASE role = "ORG_ADMIN" -> At(at.org, Nil)
      [] role = "DEV"       -> Nowhere
      [] OTHER              -> At(Nil, at.complex)

ResolveHierarchy(r) ==
    LET role == request[r].role
        in == HierarchyInput(role, request[r].at)
    IN  /\ Running(r, "resolve")
        /\ CanResolve(role, in)
        /\ MayAssign(claims[r], role, Resolve(role, in))
        /\ request' = [request EXCEPT ![r].pc = "write", ![r].at = Resolve(role, in),
                                      ![r].resolved = TRUE]
        /\ UNCHANGED <<user, organization, complex, claims, history>>

\* Other requests that hold a read of the row x, to be written back.
Holding(r, x) ==
    \E q \in Clients \ {r} :
        \/ request[q].pc \in {"resolve", "write"} /\ request[q].user = x
        \/ request[q].pc = "complexWrite" /\ request[q].complex = x

\* The role is written whenever it was sent, the place only if it was resolved.
WriteUser(r) ==
    LET u == request[r].user
    IN  /\ Running(r, "write")
        /\ user' = [user EXCEPT ![u].role = IF request[r].role # Nil THEN request[r].role ELSE @,
                                ![u].at = IF request[r].resolved THEN request[r].at ELSE @]
        /\ raced' = IF user'[u] # user[u] /\ Holding(r, u) THEN raced \cup {u} ELSE raced
        /\ Finish(r)
        /\ UNCHANGED <<organization, complex, claims, owners>>

-----------------------------------------------------------------------------
(* Organizations and complexes.                                            *)

\* An ORG_ADMIN with an organization may not create another.
CreateOrganization(r, o) ==
    /\ Authorized(r, {"DEV", "ORG_ADMIN"})
    /\ claims[r].role = "ORG_ADMIN" => claims[r].at.org = Nil
    /\ organization[o] = Nil
    /\ organization' = [organization EXCEPT ![o] = 1]
    /\ UNCHANGED <<user, complex, claims, request, history>>

RemoveOrganization(r, o) ==
    /\ Authorized(r, {"DEV"})
    /\ organization[o] = 1
    /\ organization' = [organization EXCEPT ![o] = 0]
    /\ UNCHANGED <<user, complex, claims, request, history>>

\* The organization must exist; whether it is active is not asked.
CreateComplex(r, c, o) ==
    /\ Authorized(r, {"DEV", "ORG_ADMIN"})
    /\ claims[r].role = "ORG_ADMIN" => o = claims[r].at.org
    /\ organization[o] # Nil
    /\ complex[c] = NoComplex
    /\ complex' = [complex EXCEPT ![c] = [org |-> o, status |-> 1]]
    /\ owners' = [owners EXCEPT ![c] = @ \cup {o}]
    /\ UNCHANGED <<user, organization, claims, request, raced>>

\* dto.organizationId is absent or names an organization; for an ORG_ADMIN it
\* is overwritten with their own.
UpdateComplex(r, c, o) ==
    /\ Authorized(r, {"DEV", "ORG_ADMIN"})
    /\ complex[c].status = 1
    /\ claims[r].role = "ORG_ADMIN" => complex[c].org = claims[r].at.org /\ o = claims[r].at.org
    /\ o # Nil => organization[o] # Nil
    /\ Start(r, [Idle EXCEPT !.pc = "complexWrite", !.complex = c,
                             !.at = At(o, Nil)])
    /\ UNCHANGED <<user, organization, complex, claims, history>>

\* Mutated form: the column is written even when the dto does not have it.
WrittenOrgAlways(c, o) == o

WrittenOrg(c, o) == IF o # Nil THEN o ELSE complex[c].org

WriteComplex(r) ==
    LET c == request[r].complex
        o == WrittenOrg(c, request[r].at.org)
    IN  /\ Running(r, "complexWrite")
        /\ complex' = [complex EXCEPT ![c].org = o]
        /\ owners' = [owners EXCEPT ![c] = @ \cup ({o} \ {Nil})]
        /\ raced' = IF complex[c].org # o /\ Holding(r, c) THEN raced \cup {c} ELSE raced
        /\ Finish(r)
        /\ UNCHANGED <<user, organization, claims>>

RemoveComplex(r, c) ==
    /\ Authorized(r, {"DEV"})
    /\ complex[c].status = 1
    /\ complex' = [complex EXCEPT ![c].status = 0]
    /\ UNCHANGED <<user, organization, claims, request, history>>

-----------------------------------------------------------------------------
(* Access tokens.                                                          *)

\* One read of the row decides everything that login signs.
Login(r, v) ==
    /\ Running(r, "idle")
    /\ user[v].role # Nil
    /\ claims' = [claims EXCEPT ![r] = [sub |-> v, role |-> user[v].role, at |-> user[v].at]]
    /\ UNCHANGED <<user, organization, complex, request, history>>

\* switchComplex reads the user ...
SwitchComplex(r, c) ==
    LET by == claims[r]
        row == user[by.sub]
    IN  /\ Authorized(r, {"DEV", "ORG_ADMIN", "COMPLEX_ADMIN", "RESIDENT"})
        /\ row.role = by.role
        /\ CASE by.role = "DEV"       -> TRUE
             [] by.role = "ORG_ADMIN" -> by.at.org # Nil /\ row.at.org = by.at.org
             [] OTHER                 -> row.at.complex = c
        /\ Start(r, [Idle EXCEPT !.pc = "switch", !.complex = c, !.at = row.at])
        /\ UNCHANGED <<user, organization, complex, claims, history>>

\* ... then the complex, whose organization the new token carries.
ResolveSwitchTarget(r) ==
    LET c == request[r].complex
        org == request[r].at.org
    IN  /\ Running(r, "switch")
        /\ complex[c].status = 1
        /\ \/ claims[r].role = "DEV"
           \/ (claims[r].role # "ORG_ADMIN" /\ org = Nil)
           \/ complex[c].org = org
        /\ claims' = [claims EXCEPT ![r].at = At(complex[c].org, c)]
        /\ Finish(r)
        /\ UNCHANGED <<user, organization, complex, history>>

-----------------------------------------------------------------------------
\* A later check refuses the request, the database refuses the statement, or
\* the connection or the process is lost: nothing was written.
Abort(r) ==
    /\ ~ Running(r, "idle")
    /\ Finish(r)
    /\ UNCHANGED <<user, organization, complex, claims, history>>

Arrive(r) ==
    \/ \E v \in Users : Login(r, v)
    \/ \E role \in RoleCode, in \in Place : InviteUser(r, role, in)
    \/ \E u \in Users, role \in RoleCode \cup {Nil} : UpdateUser(r, u, role)
    \/ \E u \in Users, role \in RoleCode : UpdateRole(r, u, role)
    \/ \E o \in Orgs : CreateOrganization(r, o)
    \/ \E o \in Orgs : RemoveOrganization(r, o)
    \/ \E c \in Complexes, o \in Orgs : CreateComplex(r, c, o)
    \/ \E c \in Complexes, o \in Orgs \cup {Nil} : UpdateComplex(r, c, o)
    \/ \E c \in Complexes : RemoveComplex(r, c)
    \/ \E c \in Complexes : SwitchComplex(r, c)

Continue(r) ==
    \/ \E u \in Users : InsertUser(r, u)
    \/ ResolveHierarchy(r)
    \/ WriteUser(r)
    \/ WriteComplex(r)
    \/ ResolveSwitchTarget(r)
    \/ Abort(r)

Next == \E r \in Clients : Arrive(r) \/ Continue(r)

Spec == Init /\ [][Next]_vars

-----------------------------------------------------------------------------
(* No row of users and no access token ever pairs a complex with an        *)
(* organization that never owned it, whatever updates, moves of complexes  *)
(* and switches overlap.                                                   *)
Paired(at) == at.complex # Nil => at.org \in owners[at.complex]

PairsWereTrue ==
    /\ \A u \in Users : Paired(user[u].at)
    /\ \A r \in Clients : claims[r] # Nil => Paired(claims[r].at)

(* A user whose role is scoped to a complex has a complex, and an          *)
(* administrator of an organization has an organization, unless the row    *)
(* changed between the read and the write of another update of it.         *)
Placed(u) ==
    /\ user[u].role \in COMPLEX_SCOPED_ROLES => user[u].at.complex # Nil
    /\ user[u].role = "ORG_ADMIN" => user[u].at.org # Nil

RolesArePlaced == \A u \in Users : u \notin raced => Placed(u)

(* Nobody changes what is outside their reach.  A request of an ORG_ADMIN  *)
(* only changes users who are, and stay, in the organization of its token, *)
(* and makes nobody DEV; one of a COMPLEX_ADMIN only users of that         *)
(* complex, to SECURITY or RESIDENT; only a DEV moves a complex.  The      *)
(* checks are made on a read, so a row that changed under it is excepted.  *)
WithinReach(by, u) ==
    LET was == user[u]
        is == user'[u]
    IN  \/ by.role = "DEV"
        \/ /\ by.role = "ORG_ADMIN"
           /\ is.at.org = by.at.org /\ (was # NoUser => was.at.org = by.at.org)
           /\ is.role # "DEV"
        \/ /\ by.role = "COMPLEX_ADMIN"
           /\ is.at.complex = by.at.complex /\ (was # NoUser => was.at.complex = by.at.complex)
           /\ is.role \in {"SECURITY", "RESIDENT"}

UsersWithinReach ==
    \A r \in Clients, u \in Users :
        request'[r] # request[r] /\ user'[u] # user[u] =>
            u \in raced \/ WithinReach(claims[r], u)

ComplexesWithinReach ==
    \A r \in Clients, c \in Complexes :
        /\ request'[r] # request[r]
        /\ complex[c] # NoComplex
        /\ complex'[c].org # complex[c].org
        => c \in raced \/ claims[r].role = "DEV"

ChangesWithinReach == [][UsersWithinReach /\ ComplexesWithinReach]_vars

-----------------------------------------------------------------------------
(* The inductive invariant: what makes the properties hold step by step.   *)

ComplexesOK == \A c \in Complexes : complex[c].status # Nil => complex[c].org \in owners[c]

\* A place that was resolved is one the role may have and the requester assign.
ResolvedOK(r) ==
    request[r].pc = "invite" \/ (request[r].pc = "write" /\ request[r].resolved) =>
        /\ request[r].role \in RoleCode
        /\ Paired(request[r].at)
        /\ request[r].role \in COMPLEX_SCOPED_ROLES => request[r].at.complex # Nil
        /\ request[r].role = "ORG_ADMIN" => request[r].at.org # Nil
        /\ MayAssign(claims[r], request[r].role, request[r].at)

\* Unless it raced, the row an update is about to write is as it was read.
UpdateOK(r) ==
    request[r].pc \in {"resolve", "write"} /\ request[r].user \notin raced =>
        /\ ScopeWhereClause(claims[r], request[r].user)
        /\ request[r].pc = "write" /\ ~ request[r].resolved =>
              request[r].role \in {Nil, user[request[r].user].role}

ComplexUpdateOK(r) ==
    request[r].pc = "complexWrite" /\ request[r].complex \notin raced =>
        \/ claims[r].role = "DEV"
        \/ complex[request[r].complex].org = request[r].at.org

IInv ==
    /\ TypeOK
    /\ ComplexesOK
    /\ PairsWereTrue
    /\ RolesArePlaced
    /\ \A r \in Clients : ResolvedOK(r) /\ UpdateOK(r) /\ ComplexUpdateOK(r)

-----------------------------------------------------------------------------
(* "A complex-scoped user's organizationId is derived from the complex"    *)
(* (users.service.ts:243): it is the organization of that complex.         *)
OrganizationFollowsComplex ==
    \A u \in Users : user[u].role \in COMPLEX_SCOPED_ROLES /\ user[u].at.complex # Nil =>
        user[u].at.org = complex[user[u].at.complex].org

=============================================================================
