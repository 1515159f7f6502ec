-------------------------- MODULE MembershipProofs --------------------------
(* Proofs about Membership: its types, and that rows and tokens only pair  *)
(* complexes and organizations that belonged together, that roles are      *)
(* placed where they must be, and that nobody changes what is out of their *)
(* reach, for any number of users, organizations, complexes and clients.   *)
EXTENDS Membership, TLAPS

LEMMA PlaceOK ==
    ASSUME NEW o \in Orgs \cup {Nil}, NEW c \in Complexes \cup {Nil}
    PROVE  At(o, c) \in Place /\ At(o, c).org = o /\ At(o, c).complex = c
BY DEF At, Place

LEMMA IdleOK == Idle \in RequestState /\ Idle.pc = "idle"
BY DEF Idle, RequestState, Points, Nowhere, At, Place

LEMMA ResolvePlace ==
    ASSUME TypeOK, NEW role \in RoleCode, NEW in \in Place, CanResolve(role, in)
    PROVE  /\ Resolve(role, in) \in Place
           /\ role \in COMPLEX_SCOPED_ROLES => Resolve(role, in).complex # Nil
           /\ role = "ORG_ADMIN" => Resolve(role, in).org # Nil
           /\ ComplexesOK => Paired(Resolve(role, in))
<1>1. CASE role \in COMPLEX_SCOPED_ROLES
  <2>1. role # "DEV" /\ role # "ORG_ADMIN"
    BY <1>1 DEF COMPLEX_SCOPED_ROLES
  <2>2. in.complex \in Complexes /\ complex[in.complex].status = 1
    BY <2>1 DEF CanResolve, Place
  <2>3. complex[in.complex].org \in Orgs \cup {Nil}
    BY <2>2 DEF TypeOK, TablesOK, ComplexRow
  <2>4. complex[in.complex].status # Nil
    BY <2>2, NilAssumption
  <2>5. in.complex # Nil
    BY <2>2, NilAssumption
  <2>6. Resolve(role, in) = At(complex[in.complex].org, in.complex)
    BY <1>1, <2>5 DEF Resolve
  <2> QED
    BY <2>1, <2>2, <2>3, <2>4, <2>5, <2>6, PlaceOK DEF ComplexesOK, Paired
<1>2. CASE role \notin COMPLEX_SCOPED_ROLES
  <2>1. role = "DEV" \/ role = "ORG_ADMIN"
    BY <1>2 DEF RoleCode
  <2>2. Resolve(role, in) = in
    BY <1>2 DEF Resolve
  <2>3. in.complex = Nil /\ (role = "ORG_ADMIN" => in.org # Nil)
    BY <2>1 DEF CanResolve, Nowhere, At
  <2> QED
    BY <1>2, <2>2, <2>3 DEF Paired
<1> QED
  BY <1>1, <1>2

LEMMA InputPlace ==
    ASSUME NEW role \in RoleCode, NEW at \in Place
    PROVE  HierarchyInput(role, at) \in Place
BY PlaceOK DEF HierarchyInput, Nowhere, Place

-----------------------------------------------------------------------------
LEMMA TypeInit == Init => TypeOK
<1> SUFFICES ASSUME Init PROVE TypeOK
  OBVIOUS
<1>1. \A u \in Users : user[u] \in UserRow
  BY SeedAssumption, PlaceOK DEF Init, UserRow, NoUser, Nowhere, RoleCode
<1>2. \A c \in Complexes : complex[c] \in ComplexRow
  BY SeedAssumption DEF Init, ComplexRow, NoComplex
<1>3. \A c \in Complexes : complex[c].status # Nil => c = HomeComplex
  BY DEF Init, NoComplex
<1>4. organization[HomeOrg] # Nil
  BY SeedAssumption, NilAssumption DEF Init
<1>5. \A c \in Complexes : complex[c].status # Nil =>
         complex[c].org \in Orgs /\ organization[complex[c].org] # Nil
  BY <1>3, <1>4, SeedAssumption DEF Init
<1> QED
  BY <1>1, <1>2, <1>5, IdleOK, SeedAssumption DEF Init, TypeOK, TablesOK, RequestsOK, OrganizationRow

LEMMA FinishOK ==
    ASSUME TypeOK, NEW r \in Clients, Finish(r), organization' = organization,
           \A c \in Complexes : complex'[c].status = complex[c].status,
           \A s \in Clients : claims[s] # Nil => claims'[s] # Nil
    PROVE  RequestsOK'
BY IdleOK DEF Finish, TypeOK, RequestsOK

LEMMA StartOK ==
    ASSUME TypeOK, NEW r \in Clients, NEW s \in RequestState, Start(r, s), claims[r] # Nil,
           organization' = organization, complex' = complex, claims' = claims,
           s.pc \in {"resolve", "write"} => s.user \in Users,
           s.pc \in {"complexWrite", "switch"} => s.complex \in Complexes,
           s.pc \in {"invite", "resolve"} => s.role \in RoleCode,
           s.pc = "complexWrite" =>
              /\ complex[s.complex].status # Nil
              /\ s.at.org # Nil => organization[s.at.org] # Nil
    PROVE  RequestsOK'
<1>1. request' = [request EXCEPT ![r] = s]
  BY DEF Start
<1>2. \A q \in Clients : request'[q] = IF q = r THEN s ELSE request[q]
  BY <1>1 DEF TypeOK, RequestsOK
<1>3. request' \in [Clients -> RequestState]
  BY <1>1 DEF TypeOK, RequestsOK
<1> QED
  BY <1>2, <1>3 DEF TypeOK, RequestsOK

LEMMA OrganizationsStay ==
    ASSUME TypeOK, organization' \in [Orgs -> OrganizationRow],
           \A p \in Orgs : organization[p] # Nil => organization'[p] # Nil,
           UNCHANGED <<user, complex, claims, request, owners, raced>>
    PROVE  TypeOK'
<1>1. TablesOK'
  BY DEF TypeOK, TablesOK
<1>2. \A r \in Clients : request[r].at.org \in Orgs \cup {Nil}
  BY DEF TypeOK, RequestsOK, RequestState, Place
<1>3. RequestsOK'
  BY <1>2 DEF TypeOK, RequestsOK
<1> QED
  BY <1>1, <1>3 DEF TypeOK

LEMMA TypeStep == TypeOK /\ [Next]_vars => TypeOK'
<1> SUFFICES ASSUME TypeOK, [Next]_vars PROVE TypeOK'
  OBVIOUS
<1> USE DEF history
<1>r. \A r \in Clients : request[r] \in RequestState
  BY DEF TypeOK, RequestsOK
<1>n. Nowhere \in Place
  BY PlaceOK DEF Nowhere
<1>t. UNCHANGED <<user, organization, complex>> => TablesOK'
  BY DEF TypeOK, TablesOK
<1>1. ASSUME NEW r \in Clients, NEW v \in Users, Login(r, v) PROVE TypeOK'
  <2>1. [sub |-> v, role |-> user[v].role, at |-> user[v].at] \in Claims
    BY <1>1 DEF Login, TypeOK, TablesOK, UserRow, Claims
  <2>2. claims' \in [Clients -> Claims \cup {Nil}]
    BY <1>1, <2>1 DEF Login, TypeOK
  <2>3. \A s \in Clients : request[s].pc # "idle" => claims'[s] = claims[s]
    BY <1>1 DEF Login, Running, TypeOK
  <2>4. RequestsOK'
    BY <1>1, <2>3 DEF Login, TypeOK, RequestsOK
  <2> QED
    BY <1>1, <1>t, <2>2, <2>4 DEF Login, TypeOK
<1>2. ASSUME NEW r \in Clients, NEW role \in RoleCode, NEW in \in Place, InviteUser(r, role, in)
      PROVE  TypeOK'
  <2> DEFINE s == [Idle EXCEPT !.pc = "invite", !.role = role, !.at = Resolve(role, in)]
  <2>1. Resolve(role, in) \in Place
    BY <1>2, ResolvePlace DEF InviteUser
  <2>2. s \in RequestState /\ s.pc = "invite" /\ s.role = role
    BY <2>1, <1>n DEF Idle, RequestState, Points
  <2>3. Start(r, s) /\ claims[r] # Nil
    BY <1>2 DEF InviteUser, Authorized
  <2> HIDE DEF s
  <2>4. RequestsOK'
    BY <1>2, <2>2, <2>3, StartOK DEF InviteUser
  <2> QED
    BY <1>2, <1>t, <2>4 DEF InviteUser, TypeOK
<1>3. ASSUME NEW r \in Clients, NEW u \in Users, NEW role \in RoleCode \cup {Nil},
             UpdateUser(r, u, role)
      PROVE  TypeOK'
  <2> DEFINE s == [Idle EXCEPT !.pc = "write", !.user = u, !.role = role]
  <2>1. s \in RequestState /\ s.pc = "write" /\ s.user = u
    BY <1>n DEF Idle, RequestState, Points
  <2>2. Start(r, s) /\ claims[r] # Nil
    BY <1>3 DEF UpdateUser, Authorized
  <2> HIDE DEF s
  <2>3. RequestsOK'
    BY <1>3, <2>1, <2>2, StartOK DEF UpdateUser
  <2> QED
    BY <1>3, <1>t, <2>3 DEF UpdateUser, TypeOK
<1>4. ASSUME NEW r \in Clients, NEW u \in Users, NEW role \in RoleCode, UpdateRole(r, u, role)
      PROVE  TypeOK'
  <2> DEFINE s == [Idle EXCEPT !.pc = "resolve", !.user = u, !.role = role, !.at = user[u].at]
  <2>1. s \in RequestState /\ s.pc = "resolve" /\ s.user = u /\ s.role = role
    BY DEF Idle, RequestState, Points, TypeOK, TablesOK, UserRow
  <2>2. Start(r, s) /\ claims[r] # Nil
    BY <1>4 DEF UpdateRole, Authorized
  <2> HIDE DEF s
  <2>3. RequestsOK'
    BY <1>4, <2>1, <2>2, StartOK DEF UpdateRole
  <2> QED
    BY <1>4, <1>t, <2>3 DEF UpdateRole, TypeOK
<1>5. ASSUME NEW r \in Clients, NEW o \in Orgs, CreateOrganization(r, o) PROVE TypeOK'
  <2>1. \A p \in Orgs : organization[p] # Nil => organization'[p] # Nil
    BY <1>5, NilAssumption DEF CreateOrganization, TypeOK, TablesOK
  <2>2. organization' \in [Orgs -> OrganizationRow]
    BY <1>5 DEF CreateOrganization, TypeOK, TablesOK, OrganizationRow
  <2> QED
    BY <1>5, <2>1, <2>2, OrganizationsStay DEF CreateOrganization
<1>6. ASSUME NEW r \in Clients, NEW o \in Orgs, RemoveOrganization(r, o) PROVE TypeOK'
  <2>1. \A p \in Orgs : organization[p] # Nil => organization'[p] # Nil
    BY <1>6, NilAssumption DEF RemoveOrganization, TypeOK, TablesOK
  <2>2. organization' \in [Orgs -> OrganizationRow]
    BY <1>6 DEF RemoveOrganization, TypeOK, TablesOK, OrganizationRow
  <2> QED
    BY <1>6, <2>1, <2>2, OrganizationsStay DEF RemoveOrganization
<1>7. ASSUME NEW r \in Clients, NEW c \in Complexes, NEW o \in Orgs, CreateComplex(r, c, o)
      PROVE  TypeOK'
  <2>1. TablesOK'
    BY <1>7 DEF CreateComplex, TypeOK, TablesOK, ComplexRow
  <2>2. \A d \in Complexes : complex[d].status # Nil => complex'[d].status # Nil
    BY <1>7, NilAssumption DEF CreateComplex, TypeOK, TablesOK
  <2>3. RequestsOK'
    BY <1>7, <2>2 DEF CreateComplex, TypeOK, RequestsOK
  <2> QED
    BY <1>7, <2>1, <2>3 DEF CreateComplex, TypeOK
<1>8. ASSUME NEW r \in Clients, NEW c \in Complexes, NEW o \in Orgs \cup {Nil},
             UpdateComplex(r, c, o)
      PROVE  TypeOK'
  <2> DEFINE s == [Idle EXCEPT !.pc = "complexWrite", !.complex = c, !.at = At(o, Nil)]
  <2>1. At(o, Nil) \in Place /\ At(o, Nil).org = o
    BY PlaceOK
  <2>2. s \in RequestState /\ s.pc = "complexWrite" /\ s.complex = c /\ s.at.org = o
    BY <2>1 DEF Idle, RequestState, Points
  <2>3. Start(r, s) /\ claims[r] # Nil /\ (o # Nil => organization[o] # Nil)
        /\ complex[c].status # Nil
    BY <1>8, NilAssumption DEF UpdateComplex, Authorized
  <2> HIDE DEF s
  <2>4. RequestsOK'
    BY <1>8, <2>2, <2>3, StartOK DEF UpdateComplex
  <2> QED
    BY <1>8, <1>t, <2>4 DEF UpdateComplex, TypeOK
<1>9. ASSUME NEW r \in Clients, NEW c \in Complexes, RemoveComplex(r, c) PROVE TypeOK'
  <2>1. complex[c].status # Nil
    BY <1>9, NilAssumption DEF RemoveComplex
  <2>2. TablesOK'
    BY <1>9, <2>1 DEF RemoveComplex, TypeOK, TablesOK, ComplexRow
  <2>a. \A d \in Complexes : complex[d].status # Nil => complex'[d].status # Nil
    BY <1>9, NilAssumption DEF RemoveComplex, TypeOK, TablesOK
  <2>3. RequestsOK'
    BY <1>9, <2>a DEF RemoveComplex, TypeOK, RequestsOK
  <2> QED
    BY <1>9, <2>2, <2>3 DEF RemoveComplex, TypeOK
<1>10. ASSUME NEW r \in Clients, NEW c \in Complexes, SwitchComplex(r, c) PROVE TypeOK'
  <2> DEFINE s == [Idle EXCEPT !.pc = "switch", !.complex = c, !.at = user[claims[r].sub].at]
  <2>1. Start(r, s) /\ claims[r] # Nil /\ claims[r] \in Claims
    BY <1>10 DEF SwitchComplex, Authorized, TypeOK
  <2>2. user[claims[r].sub].at \in Place
    BY <2>1 DEF TypeOK, TablesOK, Claims, UserRow
  <2>3. s \in RequestState /\ s.pc = "switch" /\ s.complex = c
    BY <2>2 DEF Idle, RequestState, Points
  <2> HIDE DEF s
  <2>4. RequestsOK'
    BY <1>10, <2>1, <2>3, StartOK DEF SwitchComplex
  <2> QED
    BY <1>10, <1>t, <2>4 DEF SwitchComplex, TypeOK
<1>11. ASSUME NEW r \in Clients, NEW u \in Users, InsertUser(r, u) PROVE TypeOK'
  <2>1. [role |-> request[r].role, at |-> request[r].at] \in UserRow
    BY <1>11, <1>r DEF InsertUser, RequestState, UserRow
  <2>2. TablesOK'
    BY <1>11, <2>1 DEF InsertUser, TypeOK, TablesOK
  <2>3. RequestsOK'
    BY <1>11, FinishOK DEF InsertUser
  <2> QED
    BY <1>11, <2>2, <2>3 DEF InsertUser, TypeOK
<1>12. ASSUME NEW r \in Clients, ResolveHierarchy(r) PROVE TypeOK'
  <2> DEFINE role == request[r].role
             in == HierarchyInput(role, request[r].at)
             s == [request[r] EXCEPT !.pc = "write", !.at = Resolve(role, in), !.resolved = TRUE]
  <2>1. role \in RoleCode /\ request[r].at \in Place /\ request[r].user \in Users
        /\ claims[r] # Nil
    BY <1>12, <1>r DEF ResolveHierarchy, Running, TypeOK, RequestsOK, RequestState
  <2>2. Resolve(role, in) \in Place
    BY <1>12, <2>1, InputPlace, ResolvePlace DEF ResolveHierarchy
  <2>3. s \in RequestState /\ s.pc = "write" /\ s.user = request[r].user
    BY <1>r, <2>2 DEF RequestState, Points
  <2>4. Start(r, s)
    <3>1. request' = [request EXCEPT ![r].pc = "write", ![r].at = Resolve(role, in),
                                     ![r].resolved = TRUE]
      BY <1>12 DEF ResolveHierarchy
    <3> QED
      BY <1>r, <3>1 DEF Start, TypeOK, RequestsOK, RequestState
  <2> HIDE DEF s
  <2>5. RequestsOK'
    BY <1>12, <2>1, <2>3, <2>4, StartOK DEF ResolveHierarchy
  <2> QED
    BY <1>12, <1>t, <2>5 DEF ResolveHierarchy, TypeOK
<1>13. ASSUME NEW r \in Clients, WriteUser(r) PROVE TypeOK'
  <2> DEFINE u == request[r].user
  <2>1. u \in Users /\ request[r].role \in RoleCode \cup {Nil} /\ request[r].at \in Place
    BY <1>13, <1>r DEF WriteUser, Running, TypeOK, RequestsOK, RequestState
  <2>2. user' \in [Users -> UserRow]
    BY <1>13, <2>1 DEF WriteUser, TypeOK, TablesOK, UserRow
  <2>3. raced' \subseteq Users \cup Complexes
    BY <1>13, <2>1 DEF WriteUser, TypeOK
  <2>4. RequestsOK'
    BY <1>13, FinishOK DEF WriteUser
  <2> QED
    BY <1>13, <2>2, <2>3, <2>4 DEF WriteUser, TypeOK, TablesOK
<1>14. ASSUME NEW r \in Clients, WriteComplex(r) PROVE TypeOK'
  <2> DEFINE c == request[r].complex
             o == WrittenOrg(c, request[r].at.org)
  <2>1. /\ c \in Complexes /\ request[r].at.org \in Orgs \cup {Nil}
        /\ request[r].at.org # Nil => organization[request[r].at.org] # Nil
    BY <1>14, <1>r DEF WriteComplex, Running, TypeOK, RequestsOK, RequestState, Place
  <2>2. o \in Orgs \cup {Nil} /\ (complex[c].status # Nil => o \in Orgs /\ organization[o] # Nil)
    BY <2>1 DEF WrittenOrg, TypeOK, TablesOK, ComplexRow
  <2>3. /\ complex' = [complex EXCEPT ![c].org = o]
        /\ owners' = [owners EXCEPT ![c] = @ \cup ({o} \ {Nil})]
        /\ raced' \subseteq raced \cup {c}
        /\ UNCHANGED <<user, organization, claims>>
        /\ Finish(r)
    BY <1>14 DEF WriteComplex
  <2> HIDE DEF c, o
  <2>4. TablesOK'
    BY <2>1, <2>2, <2>3 DEF TypeOK, TablesOK, ComplexRow
  <2>5. owners' \in [Complexes -> SUBSET Orgs]
    BY <2>1, <2>2, <2>3 DEF TypeOK
  <2>6. RequestsOK'
    <3>1. \A d \in Complexes : complex'[d].status = complex[d].status
      BY <2>1, <2>3 DEF TypeOK, TablesOK, ComplexRow
    <3> QED
      BY <2>3, <3>1, FinishOK
  <2> QED
    BY <2>1, <2>3, <2>4, <2>5, <2>6 DEF TypeOK
<1>15. ASSUME NEW r \in Clients, ResolveSwitchTarget(r) PROVE TypeOK'
  <2>1. request[r].complex \in Complexes /\ claims[r] # Nil
    BY <1>15 DEF ResolveSwitchTarget, Running, TypeOK, RequestsOK
  <2>2. claims[r] \in Claims
    BY <2>1 DEF TypeOK
  <2>3. At(complex[request[r].complex].org, request[r].complex) \in Place
    BY <2>1, PlaceOK DEF TypeOK, TablesOK, ComplexRow
  <2>4. claims' \in [Clients -> Claims \cup {Nil}]
    BY <1>15, <2>2, <2>3 DEF ResolveSwitchTarget, TypeOK, Claims
  <2>5. RequestsOK'
    <3>1. request' = [request EXCEPT ![r] = Idle] /\ UNCHANGED <<organization, complex>>
      BY <1>15 DEF ResolveSwitchTarget, Finish
    <3>2. \A q \in Clients \ {r} : claims'[q] = claims[q]
      BY <1>15 DEF ResolveSwitchTarget, TypeOK
    <3> QED
      BY <3>1, <3>2, IdleOK DEF TypeOK, RequestsOK
  <2> QED
    BY <1>15, <1>t, <2>4, <2>5 DEF ResolveSwitchTarget, TypeOK
<1>16. ASSUME NEW r \in Clients, Abort(r) PROVE TypeOK'
  <2>1. RequestsOK'
    BY <1>16, FinishOK DEF Abort
  <2> QED
    BY <1>16, <1>t, <2>1 DEF Abort, TypeOK
<1>17. CASE UNCHANGED vars
  BY <1>17, <1>t DEF vars, TypeOK, RequestsOK
<1> QED
  BY <1>1, <1>2, <1>3, <1>4, <1>5, <1>6, <1>7, <1>8, <1>9, <1>10, <1>11, <1>12, <1>13, <1>14,
     <1>15, <1>16, <1>17 DEF Next, Arrive, Continue

(* Rows, tokens and requests of Membership are well formed in every        *)
(* reachable state; in particular a complex always has an organization     *)
(* that exists.                                                            *)
THEOREM Typed == Spec => []TypeOK
BY TypeInit, TypeStep, PTL DEF Spec

-----------------------------------------------------------------------------
ClientOK(r) == ResolvedOK(r) /\ UpdateOK(r) /\ ComplexUpdateOK(r)

\* A complex keeps the organizations it ever had.
OwnersGrow == \A c \in Complexes : owners[c] \subseteq owners'[c]

LEMMA ClientsEvolve ==
    ASSUME IInv, NEW q \in Clients, request'[q] = request[q], claims'[q] = claims[q],
           UNCHANGED <<user, raced>>, OwnersGrow,
           \A c \in Complexes : complex[c].status # Nil => complex'[c].org = complex[c].org
    PROVE  ClientOK(q)'
<1>1. ResolvedOK(q)'
  <2>1. request[q].at.complex \in Complexes \cup {Nil}
    BY DEF IInv, TypeOK, RequestsOK, RequestState, Place
  <2> QED
    BY <2>1 DEF IInv, ResolvedOK, Paired, OwnersGrow, MayAssign
<1>2. UpdateOK(q)'
  BY DEF IInv, UpdateOK, ScopeWhereClause
<1>3. ComplexUpdateOK(q)'
  BY DEF IInv, ComplexUpdateOK, TypeOK, RequestsOK
<1> QED
  BY <1>1, <1>2, <1>3 DEF ClientOK

\* A client that runs no request that is about to write.
LEMMA HarmlessOK ==
    ASSUME NEW r \in Clients, request'[r].pc \in {"idle", "switch"}
    PROVE  ClientOK(r)'
BY DEF ClientOK, ResolvedOK, UpdateOK, ComplexUpdateOK

\* Steps of client r that write neither users nor the organization of a complex.
LEMMA QuietStep ==
    ASSUME IInv, TypeOK', ComplexesOK', NEW r \in Clients,
           UNCHANGED <<user, raced>>, OwnersGrow,
           \A q \in Clients \ {r} : request'[q] = request[q] /\ claims'[q] = claims[q],
           \A c \in Complexes : complex[c].status # Nil => complex'[c].org = complex[c].org,
           claims'[r] = claims[r] \/ Paired(claims[r].at)',
           ClientOK(r)'
    PROVE  IInv'
<1>1. \A q \in Clients \ {r} : ClientOK(q)'
  BY ClientsEvolve
<1>2. \A at \in Place : (at.complex # Nil => at.org \in owners[at.complex])
                            => (at.complex # Nil => at.org \in owners'[at.complex])
  BY DEF Place, OwnersGrow
<1>3. PairsWereTrue'
  <2>1. \A u \in Users : user[u].at \in Place
    BY DEF IInv, TypeOK, TablesOK, UserRow
  <2>2. \A q \in Clients : claims[q] # Nil => claims[q].at \in Place
    BY DEF IInv, TypeOK, Claims
  <2>3. \A u \in Users : Paired(user[u].at)'
    BY <1>2, <2>1 DEF IInv, PairsWereTrue, Paired
  <2>4. ASSUME NEW q \in Clients, claims'[q] # Nil PROVE Paired(claims[q].at)'
    <3>1. CASE claims'[q] = claims[q]
      BY <1>2, <2>2, <2>4, <3>1 DEF IInv, PairsWereTrue, Paired
    <3>2. CASE claims'[q] # claims[q]
      BY <3>2
    <3> QED
      BY <3>1, <3>2
  <2> QED
    BY <2>3, <2>4 DEF PairsWereTrue
<1>4. RolesArePlaced'
  BY DEF IInv, RolesArePlaced, Placed
<1> QED
  BY <1>1, <1>3, <1>4 DEF IInv, ClientOK

LEMMA Inductive == IInv /\ [Next]_vars => IInv'
<1> SUFFICES ASSUME IInv, [Next]_vars PROVE IInv'
  OBVIOUS
<1> USE DEF history
<1>t. TypeOK /\ TypeOK'
  BY TypeStep DEF IInv
<1>r. \A r \in Clients : request[r] \in RequestState
  BY <1>t DEF TypeOK, RequestsOK
<1>s. \A r \in Clients : \A s : Start(r, s) =>
         /\ request'[r] = s
         /\ \A q \in Clients \ {r} : request'[q] = request[q]
  BY <1>t DEF Start, TypeOK, RequestsOK
<1>f. \A r \in Clients : Finish(r) =>
         /\ request'[r].pc = "idle"
         /\ \A q \in Clients \ {r} : request'[q] = request[q]
  BY <1>t, IdleOK DEF Finish, TypeOK, RequestsOK
<1>o. owners' = owners => OwnersGrow
  BY DEF OwnersGrow
<1>c. UNCHANGED <<complex, owners>> => ComplexesOK'
  BY DEF IInv, ComplexesOK
<1>1. ASSUME NEW r \in Clients, NEW v \in Users, Login(r, v) PROVE IInv'
  <2>1. claims'[r].at = user[v].at /\ \A q \in Clients \ {r} : claims'[q] = claims[q]
    BY <1>1, <1>t DEF Login, TypeOK
  <2>2. Paired(claims[r].at)'
    BY <1>1, <2>1 DEF Login, IInv, PairsWereTrue, Paired
  <2>3. ClientOK(r)'
    BY <1>1, HarmlessOK DEF Login, Running
  <2> QED
    BY <1>1, <1>t, <1>o, <1>c, <2>1, <2>2, <2>3, QuietStep DEF Login
<1>2. ASSUME NEW r \in Clients, NEW role \in RoleCode, NEW in \in Place, InviteUser(r, role, in)
      PROVE  IInv'
  <2> DEFINE s == [Idle EXCEPT !.pc = "invite", !.role = role, !.at = Resolve(role, in)]
             at == Resolve(role, in)
  <2>1. /\ at \in Place /\ Paired(at)
        /\ role \in COMPLEX_SCOPED_ROLES => at.complex # Nil
        /\ role = "ORG_ADMIN" => at.org # Nil
        /\ MayAssign(claims[r], role, at)
    BY <1>2, <1>t, ResolvePlace DEF InviteUser, IInv
  <2>2. Start(r, s) /\ s.pc = "invite" /\ s.role = role /\ s.at = at
    BY <1>2 DEF InviteUser, Idle
  <2>3. UNCHANGED <<user, organization, complex, claims, owners, raced>>
    BY <1>2 DEF InviteUser
  <2> HIDE DEF s, at
  <2>4. request'[r] = s /\ \A q \in Clients \ {r} : request'[q] = request[q]
    BY <2>2, <1>s
  <2>5. ClientOK(r)'
    BY <2>1, <2>2, <2>3, <2>4
    DEF ClientOK, ResolvedOK, UpdateOK, ComplexUpdateOK, Paired, MayAssign
  <2> QED
    BY <1>t, <1>o, <1>c, <2>3, <2>4, <2>5, QuietStep
<1>3. ASSUME NEW r \in Clients, NEW u \in Users, NEW role \in RoleCode \cup {Nil},
             UpdateUser(r, u, role)
      PROVE  IInv'
  <2> DEFINE s == [Idle EXCEPT !.pc = "write", !.user = u, !.role = role]
  <2>1. /\ Start(r, s) /\ s.pc = "write" /\ s.user = u /\ s.role = role /\ s.resolved = FALSE
        /\ ScopeWhereClause(claims[r], u) /\ role \in {Nil, user[u].role}
        /\ UNCHANGED <<user, organization, complex, claims, owners, raced>>
    BY <1>3 DEF UpdateUser, Idle
  <2> HIDE DEF s
  <2>2. request'[r] = s /\ \A q \in Clients \ {r} : request'[q] = request[q]
    BY <2>1, <1>s
  <2>3. ClientOK(r)'
    BY <2>1, <2>2 DEF ClientOK, ResolvedOK, UpdateOK, ComplexUpdateOK, ScopeWhereClause
  <2> QED
    BY <1>t, <1>o, <1>c, <2>1, <2>2, <2>3, QuietStep
<1>4. ASSUME NEW r \in Clients, NEW u \in Users, NEW role \in RoleCode, UpdateRole(r, u, role)
      PROVE  IInv'
  <2> DEFINE s == [Idle EXCEPT !.pc = "resolve", !.user = u, !.role = role, !.at = user[u].at]
  <2>1. /\ Start(r, s) /\ s.pc = "resolve" /\ s.user = u
        /\ ScopeWhereClause(claims[r], u)
        /\ UNCHANGED <<user, organization, complex, claims, owners, raced>>
    BY <1>4 DEF UpdateRole, Idle
  <2> HIDE DEF s
  <2>2. request'[r] = s /\ \A q \in Clients \ {r} : request'[q] = request[q]
    BY <2>1, <1>s
  <2>3. ClientOK(r)'
    BY <2>1, <2>2 DEF ClientOK, ResolvedOK, UpdateOK, ComplexUpdateOK, ScopeWhereClause
  <2> QED
    BY <1>t, <1>o, <1>c, <2>1, <2>2, <2>3, QuietStep
<1>5. ASSUME NEW r \in Clients, NEW o \in Orgs, CreateOrganization(r, o) PROVE IInv'
  <2>1. UNCHANGED <<user, complex, claims, request, owners, raced>>
    BY <1>5 DEF CreateOrganization
  <2>2. ClientOK(r)'
    BY <1>o, <2>1, ClientsEvolve
  <2> QED
    BY <1>t, <1>o, <1>c, <2>1, <2>2, QuietStep
<1>6. ASSUME NEW r \in Clients, NEW o \in Orgs, RemoveOrganization(r, o) PROVE IInv'
  <2>1. UNCHANGED <<user, complex, claims, request, owners, raced>>
    BY <1>6 DEF RemoveOrganization
  <2>2. ClientOK(r)'
    BY <1>o, <2>1, ClientsEvolve
  <2> QED
    BY <1>t, <1>o, <1>c, <2>1, <2>2, QuietStep
<1>7. ASSUME NEW r \in Clients, NEW c \in Complexes, NEW o \in Orgs, CreateComplex(r, c, o)
      PROVE  IInv'
  <2>1. /\ UNCHANGED <<user, organization, claims, request, raced>>
        /\ complex' = [complex EXCEPT ![c] = [org |-> o, status |-> 1]]
        /\ owners' = [owners EXCEPT ![c] = @ \cup {o}]
        /\ complex[c].status = Nil
    BY <1>7 DEF CreateComplex, NoComplex
  <2>2. OwnersGrow
    BY <2>1, <1>t DEF OwnersGrow, TypeOK
  <2>3. ComplexesOK'
    BY <2>1, <1>t DEF IInv, ComplexesOK, TypeOK, TablesOK
  <2>4. \A d \in Complexes : complex[d].status # Nil => complex'[d].org = complex[d].org
    BY <2>1, <1>t DEF TypeOK, TablesOK
  <2>5. ClientOK(r)'
    BY <2>1, <2>2, <2>4, ClientsEvolve
  <2> QED
    BY <1>t, <2>1, <2>2, <2>3, <2>4, <2>5, QuietStep
<1>8. ASSUME NEW r \in Clients, NEW c \in Complexes, NEW o \in Orgs \cup {Nil},
             UpdateComplex(r, c, o)
      PROVE  IInv'
  <2> DEFINE s == [Idle EXCEPT !.pc = "complexWrite", !.complex = c, !.at = At(o, Nil)]
  <2>1. /\ Start(r, s) /\ s.pc = "complexWrite" /\ s.complex = c /\ s.at.org = o
        /\ claims[r].role = "DEV" \/ complex[c].org = o
        /\ UNCHANGED <<user, organization, complex, claims, owners, raced>>
    BY <1>8 DEF UpdateComplex, Authorized, Idle, At
  <2> HIDE DEF s
  <2>2. request'[r] = s /\ \A q \in Clients \ {r} : request'[q] = request[q]
    BY <2>1, <1>s
  <2>3. ClientOK(r)'
    BY <2>1, <2>2 DEF ClientOK, ResolvedOK, UpdateOK, ComplexUpdateOK
  <2> QED
    BY <1>t, <1>o, <1>c, <2>1, <2>2, <2>3, QuietStep
<1>9. ASSUME NEW r \in Clients, NEW c \in Complexes, RemoveComplex(r, c) PROVE IInv'
  <2>1. /\ UNCHANGED <<user, organization, claims, request, owners, raced>>
        /\ complex' = [complex EXCEPT ![c].status = 0]
        /\ complex[c].status # Nil
    BY <1>9, NilAssumption DEF RemoveComplex
  <2>2. \A d \in Complexes : /\ complex'[d].org = complex[d].org
                             /\ complex'[d].status # Nil => complex[d].status # Nil
    BY <2>1, <1>t DEF TypeOK, TablesOK, ComplexRow
  <2>3. ComplexesOK'
    BY <2>1, <2>2 DEF IInv, ComplexesOK
  <2>4. ClientOK(r)'
    BY <1>o, <2>1, <2>2, ClientsEvolve
  <2> QED
    BY <1>t, <1>o, <2>1, <2>2, <2>3, <2>4, QuietStep
<1>10. ASSUME NEW r \in Clients, NEW c \in Complexes, SwitchComplex(r, c) PROVE IInv'
  <2> DEFINE s == [Idle EXCEPT !.pc = "switch", !.complex = c, !.at = user[claims[r].sub].at]
  <2>1. /\ Start(r, s) /\ s.pc = "switch"
        /\ UNCHANGED <<user, organization, complex, claims, owners, raced>>
    BY <1>10 DEF SwitchComplex, Idle
  <2> HIDE DEF s
  <2>2. request'[r] = s /\ \A q \in Clients \ {r} : request'[q] = request[q]
    BY <2>1, <1>s
  <2>3. ClientOK(r)'
    BY <2>1, <2>2, HarmlessOK
  <2> QED
    BY <1>t, <1>o, <1>c, <2>1, <2>2, <2>3, QuietStep
<1>11. ASSUME NEW r \in Clients, ResolveHierarchy(r) PROVE IInv'
  <2> DEFINE role == request[r].role
             in == HierarchyInput(role, request[r].at)
             at == Resolve(role, in)
             s == [request[r] EXCEPT !.pc = "write", !.at = at, !.resolved = TRUE]
  <2>1. role \in RoleCode /\ request[r].at \in Place /\ request[r].pc = "resolve"
    BY <1>11, <1>t, <1>r DEF ResolveHierarchy, Running, TypeOK, RequestsOK, RequestState
  <2>2. /\ at \in Place /\ Paired(at)
        /\ role \in COMPLEX_SCOPED_ROLES => at.complex # Nil
        /\ role = "ORG_ADMIN" => at.org # Nil
        /\ MayAssign(claims[r], role, at)
    BY <1>11, <1>t, <2>1, InputPlace, ResolvePlace DEF ResolveHierarchy, IInv
  <2>3. /\ s.pc = "write" /\ s.user = request[r].user /\ s.role = role /\ s.at = at
        /\ s.resolved = TRUE
    BY <1>r DEF RequestState
  <2>4. Start(r, s)
    <3>1. request' = [request EXCEPT ![r].pc = "write", ![r].at = at, ![r].resolved = TRUE]
      BY <1>11 DEF ResolveHierarchy
    <3> QED
      BY <1>r, <1>t, <3>1 DEF Start, TypeOK, RequestsOK, RequestState
  <2>5. UNCHANGED <<user, organization, complex, claims, owners, raced>>
    BY <1>11 DEF ResolveHierarchy
  <2> HIDE DEF s, at, in
  <2>6. request'[r] = s /\ \A q \in Clients \ {r} : request'[q] = request[q]
    BY <2>4, <1>s
  <2>7. ResolvedOK(r)'
    BY <2>1, <2>2, <2>3, <2>5, <2>6 DEF ResolvedOK, Paired, MayAssign
  <2>8. UpdateOK(r)'
    BY <2>1, <2>3, <2>5, <2>6 DEF IInv, UpdateOK, ScopeWhereClause
  <2>9. ClientOK(r)'
    BY <2>3, <2>6, <2>7, <2>8 DEF ClientOK, ComplexUpdateOK
  <2> QED
    BY <1>t, <1>o, <1>c, <2>5, <2>6, <2>9, QuietStep
<1>12. ASSUME NEW r \in Clients, ResolveSwitchTarget(r) PROVE IInv'
  <2> DEFINE c == request[r].complex
  <2>1. /\ UNCHANGED <<user, organization, complex, owners, raced>>
        /\ claims' = [claims EXCEPT ![r].at = At(complex[c].org, c)]
        /\ Finish(r) /\ complex[c].status # Nil /\ c \in Complexes /\ claims[r] # Nil
    BY <1>12, <1>t, NilAssumption DEF ResolveSwitchTarget, Running, TypeOK, RequestsOK
  <2>2. claims'[r].at = At(complex[c].org, c) /\ \A q \in Clients \ {r} : claims'[q] = claims[q]
    BY <2>1, <1>t DEF TypeOK, Claims
  <2>3. Paired(claims[r].at)'
    BY <2>1, <2>2 DEF IInv, ComplexesOK, Paired, At
  <2>4. ClientOK(r)'
    BY <1>f, <2>1, HarmlessOK
  <2> QED
    BY <1>t, <1>o, <1>c, <1>f, <2>1, <2>2, <2>3, <2>4, QuietStep
<1>13. ASSUME NEW r \in Clients, Abort(r) PROVE IInv'
  <2>1. UNCHANGED <<user, organization, complex, claims, owners, raced>> /\ Finish(r)
    BY <1>13 DEF Abort
  <2>2. ClientOK(r)'
    BY <1>f, <2>1, HarmlessOK
  <2> QED
    BY <1>t, <1>o, <1>c, <1>f, <2>1, <2>2, QuietStep
<1>14. ASSUME NEW r \in Clients, NEW u \in Users, InsertUser(r, u) PROVE IInv'
  <2>1. /\ user' = [user EXCEPT ![u] = [role |-> request[r].role, at |-> request[r].at]]
        /\ user[u].role = Nil /\ request[r].pc = "invite" /\ Finish(r)
        /\ UNCHANGED <<organization, complex, claims, owners, raced>>
    BY <1>14 DEF InsertUser, Running, NoUser
  <2>2. /\ user'[u].role = request[r].role /\ user'[u].at = request[r].at
        /\ \A v \in Users \ {u} : user'[v] = user[v]
    BY <2>1, <1>t DEF TypeOK, TablesOK
  <2>3. ResolvedOK(r)
    BY DEF IInv
  <2>4. PairsWereTrue'
    BY <2>1, <2>2, <2>3 DEF IInv, PairsWereTrue, Paired, ResolvedOK
  <2>5. RolesArePlaced'
    BY <2>1, <2>2, <2>3 DEF IInv, RolesArePlaced, Placed, ResolvedOK
  <2>6. ASSUME NEW q \in Clients \ {r} PROVE ClientOK(q)'
    <3>1. request'[q] = request[q] /\ claims'[q] = claims[q]
      BY <2>1, <1>f
    <3>2. ResolvedOK(q)'
      BY <2>1, <3>1 DEF IInv, ResolvedOK, Paired, MayAssign
    <3>3. UpdateOK(q)'
      <4> SUFFICES ASSUME request[q].pc \in {"resolve", "write"}, request[q].user \notin raced
                   PROVE  UpdateOK(q)'
        BY <2>1, <3>1 DEF UpdateOK
      <4>1. UpdateOK(q) /\ request[q].user \in Users
        BY <1>t DEF IInv, TypeOK, RequestsOK
      <4>2. user[request[q].user].role # Nil
        BY <4>1 DEF UpdateOK, ScopeWhereClause
      <4>3. user'[request[q].user] = user[request[q].user]
        BY <2>1, <2>2, <4>1, <4>2
      <4> QED
        BY <2>1, <3>1, <4>1, <4>3 DEF UpdateOK, ScopeWhereClause
    <3>4. ComplexUpdateOK(q)'
      BY <2>1, <3>1 DEF IInv, ComplexUpdateOK
    <3> QED
      BY <3>2, <3>3, <3>4 DEF ClientOK
  <2>7. ClientOK(r)'
    BY <1>f, <2>1, HarmlessOK
  <2> QED
    BY <1>t, <1>c, <2>1, <2>4, <2>5, <2>6, <2>7 DEF IInv, ClientOK
<1>15. ASSUME NEW r \in Clients, WriteUser(r) PROVE IInv'
  <2> DEFINE u == request[r].user
  <2>1. /\ request[r].pc = "write" /\ u \in Users /\ Finish(r)
        /\ UNCHANGED <<organization, complex, claims, owners>>
        /\ raced \subseteq raced'
        /\ user'[u] # user[u] /\ Holding(r, u) => u \in raced'
    BY <1>15, <1>t DEF WriteUser, Running, TypeOK, RequestsOK
  <2>2. /\ \A v \in Users \ {u} : user'[v] = user[v]
        /\ user'[u].role = IF request[r].role # Nil THEN request[r].role ELSE user[u].role
        /\ user'[u].at = IF request[r].resolved THEN request[r].at ELSE user[u].at
    BY <1>15, <2>1, <1>t DEF WriteUser, TypeOK, TablesOK, UserRow
  <2>3. ResolvedOK(r) /\ UpdateOK(r)
    BY DEF IInv
  <2>4. PairsWereTrue'
    <3>1. Paired(user'[u].at)
      BY <2>1, <2>2, <2>3 DEF IInv, PairsWereTrue, ResolvedOK
    <3> QED
      BY <2>1, <2>2, <3>1 DEF IInv, PairsWereTrue, Paired
  <2>5. RolesArePlaced'
    <3>1. ASSUME NEW v \in Users, v = u, v \notin raced' PROVE Placed(v)'
      <4>1. CASE request[r].resolved
        <5>1. user'[v].at = request[r].at /\ request[r].role \in RoleCode
          BY <2>1, <2>2, <2>3, <3>1, <4>1 DEF ResolvedOK
        <5>2. user'[v].role = request[r].role
          BY <2>2, <3>1, <5>1, NilAssumption
        <5> QED
          BY <2>1, <2>3, <4>1, <5>1, <5>2 DEF ResolvedOK, Placed
      <4>2. CASE ~ request[r].resolved
        <5>1. v \notin raced /\ Placed(v)
          BY <2>1, <3>1 DEF IInv, RolesArePlaced
        <5>2. request[r].role \in {Nil, user[v].role}
          BY <2>1, <2>3, <3>1, <4>2, <5>1 DEF UpdateOK
        <5>3. user'[v].role = user[v].role /\ user'[v].at = user[v].at
          BY <2>2, <3>1, <4>2, <5>2
        <5> QED
          BY <5>1, <5>3 DEF Placed
      <4> QED
        BY <4>1, <4>2
    <3>2. ASSUME NEW v \in Users, v # u, v \notin raced' PROVE Placed(v)'
      BY <2>1, <2>2, <3>2 DEF IInv, RolesArePlaced, Placed
    <3> QED
      BY <3>1, <3>2 DEF RolesArePlaced
  <2>6. ASSUME NEW q \in Clients \ {r} PROVE ClientOK(q)'
    <3>1. request'[q] = request[q] /\ claims'[q] = claims[q]
      BY <2>1, <1>f
    <3>2. ResolvedOK(q)'
      BY <2>1, <3>1 DEF IInv, ResolvedOK, Paired, MayAssign
    <3>3. UpdateOK(q)'
      <4> SUFFICES ASSUME request[q].pc \in {"resolve", "write"}, request[q].user \notin raced'
                   PROVE  UpdateOK(q)'
        BY <3>1 DEF UpdateOK
      <4>1. UpdateOK(q) /\ request[q].user \in Users /\ request[q].user \notin raced
        BY <1>t, <2>1 DEF IInv, TypeOK, RequestsOK
      <4>2. user'[request[q].user] = user[request[q].user]
        BY <2>1, <2>2, <4>1 DEF Holding
      <4> QED
        BY <2>1, <3>1, <4>1, <4>2 DEF UpdateOK, ScopeWhereClause
    <3>4. ComplexUpdateOK(q)'
      BY <2>1, <3>1 DEF IInv, ComplexUpdateOK
    <3> QED
      BY <3>2, <3>3, <3>4 DEF ClientOK
  <2>7. ClientOK(r)'
    BY <1>f, <2>1, HarmlessOK
  <2> QED
    BY <1>t, <1>c, <2>1, <2>4, <2>5, <2>6, <2>7 DEF IInv, ClientOK
<1>16. ASSUME NEW r \in Clients, WriteComplex(r) PROVE IInv'
  <2> DEFINE c == request[r].complex
             o == WrittenOrg(c, request[r].at.org)
  <2>1. /\ request[r].pc = "complexWrite" /\ c \in Complexes /\ Finish(r)
        /\ request[r].at.org \in Orgs \cup {Nil}
        /\ UNCHANGED <<user, organization, claims>>
        /\ complex' = [complex EXCEPT ![c].org = o]
        /\ owners' = [owners EXCEPT ![c] = @ \cup ({o} \ {Nil})]
        /\ raced \subseteq raced'
        /\ complex[c].org # o /\ Holding(r, c) => c \in raced'
    BY <1>16, <1>t, <1>r DEF WriteComplex, Running, TypeOK, RequestsOK, RequestState, Place
  <2>2. o # Nil
    BY <2>1, <1>t, NilAssumption DEF WrittenOrg, TypeOK, TablesOK, RequestsOK
  <2> HIDE DEF c, o
  <2>3. /\ \A d \in Complexes \ {c} : complex'[d] = complex[d] /\ owners'[d] = owners[d]
        /\ complex'[c].org = o /\ complex'[c].status = complex[c].status
        /\ owners'[c] = owners[c] \cup {o}
    BY <2>1, <2>2, <1>t DEF TypeOK, TablesOK, ComplexRow
  <2>4. OwnersGrow /\ ComplexesOK'
    BY <2>1, <2>3 DEF IInv, ComplexesOK, OwnersGrow
  <2>5. \A at \in Place : (at.complex # Nil => at.org \in owners[at.complex])
                              => (at.complex # Nil => at.org \in owners'[at.complex])
    BY <2>4 DEF Place, OwnersGrow
  <2>6. PairsWereTrue'
    <3>1. \A v \in Users : user[v].at \in Place
      BY <1>t DEF TypeOK, TablesOK, UserRow
    <3>2. \A q \in Clients : claims[q] # Nil => claims[q].at \in Place
      BY <1>t DEF TypeOK, Claims
    <3> QED
      BY <2>1, <2>5, <3>1, <3>2 DEF IInv, PairsWereTrue, Paired
  <2>7. RolesArePlaced'
    BY <2>1 DEF IInv, RolesArePlaced, Placed
  <2>8. ASSUME NEW q \in Clients \ {r} PROVE ClientOK(q)'
    <3>1. request'[q] = request[q] /\ claims'[q] = claims[q]
      BY <2>1, <1>f
    <3>2. ResolvedOK(q)'
      <4>1. request[q].at \in Place
        BY <1>r DEF RequestState
      <4> QED
        BY <2>5, <3>1, <4>1 DEF IInv, ResolvedOK, Paired, MayAssign
    <3>3. UpdateOK(q)'
      BY <2>1, <3>1 DEF IInv, UpdateOK, ScopeWhereClause
    <3>4. ComplexUpdateOK(q)'
      <4> SUFFICES ASSUME request[q].pc = "complexWrite", request[q].complex \notin raced'
                   PROVE  ComplexUpdateOK(q)'
        BY <3>1 DEF ComplexUpdateOK
      <4>1. ComplexUpdateOK(q) /\ request[q].complex \in Complexes /\ request[q].complex \notin raced
        BY <1>t, <2>1 DEF IInv, TypeOK, RequestsOK
      <4>2. complex'[request[q].complex].org = complex[request[q].complex].org
        BY <2>1, <2>3, <4>1 DEF Holding
      <4> QED
        BY <3>1, <4>1, <4>2 DEF ComplexUpdateOK
    <3> QED
      BY <3>2, <3>3, <3>4 DEF ClientOK
  <2>9. ClientOK(r)'
    BY <1>f, <2>1, HarmlessOK
  <2> QED
    BY <1>t, <2>4, <2>6, <2>7, <2>8, <2>9 DEF IInv, ClientOK
<1>17. CASE UNCHANGED vars
  <2>1. UNCHANGED <<user, organization, complex, claims, request, owners, raced>>
    BY <1>17 DEF vars
  <2>2. \A q \in Clients : ClientOK(q)'
    BY <1>o, <2>1, ClientsEvolve
  <2> QED
    BY <1>t, <1>c, <2>1, <2>2 DEF IInv, ClientOK, PairsWereTrue, RolesArePlaced, Paired, Placed
<1> QED
  BY <1>1, <1>2, <1>3, <1>4, <1>5, <1>6, <1>7, <1>8, <1>9, <1>10, <1>11, <1>12, <1>13, <1>14,
     <1>15, <1>16, <1>17 DEF Next, Arrive, Continue

LEMMA InductiveInit == Init => IInv
<1> SUFFICES ASSUME Init PROVE IInv
  OBVIOUS
<1>1. TypeOK
  BY TypeInit
<1>2. \A r \in Clients : request[r].pc = "idle" /\ claims[r] = Nil
  BY IdleOK DEF Init
<1>3. ComplexesOK
  BY SeedAssumption DEF Init, ComplexesOK, NoComplex
<1>4. \A u \in Users : Paired(user[u].at) /\ Placed(u)
  <2>1. HomeOrg # Nil /\ HomeComplex # Nil
    BY SeedAssumption, NilAssumption
  <2>2. "DEV" \notin COMPLEX_SCOPED_ROLES /\ "ORG_ADMIN" \notin COMPLEX_SCOPED_ROLES
    BY DEF COMPLEX_SCOPED_ROLES
  <2>3. Nil \notin COMPLEX_SCOPED_ROLES /\ Nil # "ORG_ADMIN"
    BY NilAssumption DEF RoleCode
  <2> QED
    BY <2>1, <2>2, <2>3, SeedAssumption DEF Init, Paired, Placed, NoUser, Nowhere, At
<1> QED
  BY <1>1, <1>2, <1>3, <1>4
  DEF IInv, PairsWereTrue, RolesArePlaced, ResolvedOK, UpdateOK, ComplexUpdateOK

LEMMA Always == Spec => []IInv
BY InductiveInit, Inductive, PTL DEF Spec

(* No row and no access token pairs a complex with an organization that    *)
(* never owned it: resolve, update, the moves of complexes and             *)
(* switchComplex keep the pairs of the hierarchy together.                 *)
THEOREM Pairs == Spec => []PairsWereTrue
<1>1. IInv => PairsWereTrue
  BY DEF IInv
<1> QED
  BY <1>1, Always, PTL

(* Roles are placed where resolve says they must be, except in rows that   *)
(* changed between the read and the write of another update.               *)
THEOREM RolesPlaced == Spec => []RolesArePlaced
<1>1. IInv => RolesArePlaced
  BY DEF IInv
<1> QED
  BY <1>1, Always, PTL

-----------------------------------------------------------------------------
\* Only these two actions write users; both end the request of their client.
LEMMA UserWriters ==
    ASSUME Next, user' # user
    PROVE  \E r \in Clients : (\E u \in Users : InsertUser(r, u)) \/ WriteUser(r)
BY DEF Next, Arrive, Continue, Login, InviteUser, UpdateUser, UpdateRole, CreateOrganization,
       RemoveOrganization, CreateComplex, UpdateComplex, RemoveComplex, SwitchComplex,
       ResolveHierarchy, WriteComplex, ResolveSwitchTarget, Abort

LEMMA ComplexWriters ==
    ASSUME Next, complex' # complex
    PROVE  \E r \in Clients :
              \/ WriteComplex(r)
              \/ request' = request
BY DEF Next, Arrive, Continue, Login, InviteUser, UpdateUser, UpdateRole, CreateOrganization,
       RemoveOrganization, CreateComplex, UpdateComplex, RemoveComplex, SwitchComplex,
       InsertUser, WriteUser, ResolveHierarchy, ResolveSwitchTarget, Abort

LEMMA ReachStep == IInv /\ [Next]_vars => [UsersWithinReach /\ ComplexesWithinReach]_vars
<1> SUFFICES ASSUME IInv, Next PROVE UsersWithinReach /\ ComplexesWithinReach
  BY DEF vars, UsersWithinReach, ComplexesWithinReach
<1>t. TypeOK /\ (\A r \in Clients : ResolvedOK(r) /\ UpdateOK(r) /\ ComplexUpdateOK(r))
  BY DEF IInv
<1>f. \A p, r \in Clients : Finish(p) /\ request'[r] # request[r] => r = p
  BY <1>t DEF Finish, TypeOK, RequestsOK
<1>1. UsersWithinReach
  <2> SUFFICES ASSUME NEW r \in Clients, NEW u \in Users, request'[r] # request[r],
                      user'[u] # user[u], u \notin raced
               PROVE  WithinReach(claims[r], u)
    BY DEF UsersWithinReach
  <2>1. ASSUME NEW v \in Users, InsertUser(r, v) PROVE WithinReach(claims[r], u)
    <3>1. /\ user' = [user EXCEPT ![v] = [role |-> request[r].role, at |-> request[r].at]]
          /\ user[v] = NoUser /\ request[r].pc = "invite"
      BY <2>1 DEF InsertUser, Running
    <3>2. u = v
      BY <3>1, <1>t DEF TypeOK, TablesOK
    <3>3. user'[u].role = request[r].role /\ user'[u].at = request[r].at /\ user[u] = NoUser
      BY <3>1, <3>2, <1>t DEF TypeOK, TablesOK
    <3>4. MayAssign(claims[r], request[r].role, request[r].at)
      BY <3>1, <1>t DEF ResolvedOK
    <3> QED
      BY <3>3, <3>4 DEF MayAssign, WithinReach
  <2>2. ASSUME WriteUser(r) PROVE WithinReach(claims[r], u)
    <3>1. /\ request[r].pc = "write" /\ request[r].user \in Users
          /\ \A v \in Users \ {request[r].user} : user'[v] = user[v]
      BY <2>2, <1>t DEF WriteUser, Running, TypeOK, TablesOK, RequestsOK
    <3>2. u = request[r].user
      BY <3>1
    <3>3. /\ user'[u].role = IF request[r].role # Nil THEN request[r].role ELSE user[u].role
          /\ user'[u].at = IF request[r].resolved THEN request[r].at ELSE user[u].at
          /\ user[u] \in UserRow /\ user'[u] \in UserRow
      BY <2>2, <3>2, <1>t, TypeStep DEF WriteUser, TypeOK, TablesOK, UserRow
    <3>4. /\ ScopeWhereClause(claims[r], u)
          /\ ~ request[r].resolved => request[r].role \in {Nil, user[u].role}
      BY <3>1, <3>2, <1>t DEF UpdateOK
    <3>5. request[r].resolved
      BY <3>3, <3>4 DEF UserRow
    <3>6. MayAssign(claims[r], request[r].role, request[r].at) /\ request[r].role \in RoleCode
      BY <3>1, <3>5, <1>t DEF ResolvedOK
    <3>7. user'[u].role = request[r].role /\ user'[u].at = request[r].at
      BY <3>3, <3>5, <3>6, NilAssumption
    <3> QED
      BY <3>4, <3>6, <3>7 DEF MayAssign, ScopeWhereClause, WithinReach
  <2>3. PICK p \in Clients : (\E v \in Users : InsertUser(p, v)) \/ WriteUser(p)
    BY UserWriters
  <2>4. p = r
    BY <2>3, <1>f DEF InsertUser, WriteUser
  <2> QED
    BY <2>1, <2>2, <2>3, <2>4
<1>2. ComplexesWithinReach
  <2> SUFFICES ASSUME NEW r \in Clients, NEW c \in Complexes, request'[r] # request[r],
                      complex'[c].org # complex[c].org, c \notin raced
               PROVE  claims[r].role = "DEV"
    BY DEF ComplexesWithinReach
  <2>1. PICK p \in Clients : WriteComplex(p)
    BY ComplexWriters
  <2>2. p = r
    BY <2>1, <1>f DEF WriteComplex
  <2>3. /\ request[r].pc = "complexWrite" /\ request[r].complex \in Complexes
        /\ complex' = [complex EXCEPT ![request[r].complex].org =
                          WrittenOrg(request[r].complex, request[r].at.org)]
    BY <2>1, <2>2, <1>t DEF WriteComplex, Running, TypeOK, RequestsOK
  <2>4. c = request[r].complex /\ complex'[c].org = WrittenOrg(c, request[r].at.org)
    BY <2>3, <1>t DEF TypeOK, TablesOK, ComplexRow
  <2>5. complex[c].org # request[r].at.org
    BY <2>4 DEF WrittenOrg
  <2> QED
    BY <2>3, <2>4, <2>5, <1>t DEF ComplexUpdateOK
<1> QED
  BY <1>1, <1>2

(* Nobody changes a user, or moves a complex, outside the reach that the   *)
(* claims of their token give them, except by writing over a row that      *)
(* changed after it was checked.                                           *)
THEOREM Reach == Spec => ChangesWithinReach
BY Always, ReachStep, PTL DEF ChangesWithinReach, Spec

-----------------------------------------------------------------------------
(* A lock on the row from the read that checks it to the write that relies *)
(* on the check.  Nothing in the code takes one.                           *)
HoldsRow(q, x) ==
    \/ request[q].pc \in {"resolve", "write"} /\ request[q].user = x
    \/ request[q].pc = "complexWrite" /\ request[q].complex = x

RowsLocked ==
    \A p, q \in Clients : p # q =>
        \A x \in Users \cup Complexes : ~ (HoldsRow(p, x) /\ HoldsRow(q, x))

NothingRaced == raced = {}

EveryRoleIsPlaced == \A u \in Users : Placed(u)

OnlyWithinReach ==
    /\ \A r \in Clients, u \in Users :
          request'[r] # request[r] /\ user'[u] # user[u] => WithinReach(claims[r], u)
    /\ \A r \in Clients, c \in Complexes :
          /\ request'[r] # request[r]
          /\ complex[c] # NoComplex
          /\ complex'[c].org # complex[c].org
          => claims[r].role = "DEV"

LEMMA NothingRaces == IInv /\ NothingRaced /\ RowsLocked /\ [Next]_vars => NothingRaced'
<1> SUFFICES ASSUME IInv, NothingRaced, RowsLocked, [Next]_vars PROVE raced' = {}
  BY DEF NothingRaced
<1>1. ASSUME NEW r \in Clients, NEW x \in Users \cup Complexes, HoldsRow(r, x)
      PROVE  ~ Holding(r, x)
  BY <1>1 DEF RowsLocked, HoldsRow, Holding
<1>2. ASSUME NEW r \in Clients, WriteUser(r) PROVE raced' = {}
  <2>1. request[r].user \in Users /\ HoldsRow(r, request[r].user)
    BY <1>2 DEF WriteUser, Running, HoldsRow, IInv, TypeOK, RequestsOK
  <2> QED
    BY <1>1, <1>2, <2>1 DEF WriteUser, NothingRaced
<1>3. ASSUME NEW r \in Clients, WriteComplex(r) PROVE raced' = {}
  <2>1. request[r].complex \in Complexes /\ HoldsRow(r, request[r].complex)
    BY <1>3 DEF WriteComplex, Running, HoldsRow, IInv, TypeOK, RequestsOK
  <2> QED
    BY <1>1, <1>3, <2>1 DEF WriteComplex, NothingRaced
<1>4. CASE UNCHANGED raced
  BY <1>4 DEF NothingRaced
<1> QED
  BY <1>2, <1>3, <1>4
  DEF Next, Arrive, Continue, vars, history, Login, InviteUser, UpdateUser, UpdateRole,
      CreateOrganization, RemoveOrganization, CreateComplex, UpdateComplex, RemoveComplex,
      SwitchComplex, InsertUser, ResolveHierarchy, ResolveSwitchTarget, Abort

(* If the updates of one user, and those of one complex, excluded each     *)
(* other from their read to their write, every role would be placed        *)
(* (user-hierarchy.service.ts) and no request would ever change a user     *)
(* outside the reach of its token or move a complex without being DEV: the *)
(* exceptions of RolesArePlaced and ChangesWithinReach are all of that     *)
(* race, and none is an error of the checks.                               *)
THEOREM LockedRows ==
    Spec /\ []RowsLocked =>
        /\ []EveryRoleIsPlaced
        /\ [][OnlyWithinReach]_vars
<1>1. Init => NothingRaced
  BY DEF Init, NothingRaced
<1>2. IInv /\ NothingRaced => EveryRoleIsPlaced
  BY DEF IInv, NothingRaced, RolesArePlaced, EveryRoleIsPlaced
<1>3. IInv /\ NothingRaced /\ [Next]_vars =>
        [OnlyWithinReach]_vars
  BY ReachStep DEF OnlyWithinReach, UsersWithinReach, ComplexesWithinReach, NothingRaced
<1> QED
  BY <1>1, <1>2, <1>3, Always, NothingRaces, PTL DEF Spec

=============================================================================
