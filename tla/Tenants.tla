------------------------------- MODULE Tenants -------------------------------
(***************************************************************************)
(* The register of organizations and residential complexes, and the        *)
(* pictures kept in the bucket for them and for users.                     *)
(*                                                                         *)
(* Code: src/organizations, src/residential-complexes (services and dto),  *)
(* src/storage, the pictures and places in src/users.                      *)
(*                                                                         *)
(* No handler uses a transaction.  identification and slug have a unique   *)
(* index, contactEmail has none: only the reads before a write keep it     *)
(* unique.  Storing an object under a fresh key is seen by no other        *)
(* request, so it is one action with the read before it.                   *)
(*                                                                         *)
(* A row shows a picture by its url.  An upload writes the url of what it  *)
(* stored; a dto may bring any url, that of another row's picture as well, *)
(* and only its form is checked (IsUrl).  Nothing deletes an object.       *)
(*                                                                         *)
(* Abstracted: who may change which tenant, and the organization of a      *)
(* complex (see Membership); names, telephones, documents and plans; of    *)
(* users, what places them (Membership) and what deletes them (Accounts).  *)
(***************************************************************************)

CONSTANTS
    Organizations,  \* organization ids the database may ever generate
    Complexes,      \* complex ids the database may ever generate
    Users,          \* user ids the database may ever generate
    Emails,         \* contact e-mails
    Keys,           \* identifications of organizations, slugs of complexes
    Files,          \* objects the bucket may ever hold (uuid keys)
    Requests,       \* slots in which the server runs requests
    Typed,          \* any url that is not the url of an object in the bucket
    Nil,            \* SQL NULL, and "no value"
    Absent          \* undefined: a field that the dto does not have

VARIABLES
    tenant,         \* tables organizations and residential_complexes
    user,           \* table users: whether there is a row, complex and imgProfile
    bucket,         \* the folder of each object
    request,        \* what each slot is running, with its local variables
    since,          \* history: tenants written since each request began
    crossed,        \* history: pairs of tenants written by requests that overlapped
    been,           \* history: the complexes each user has belonged to
    pasted          \* history: the rows whose picture is what a dto brought

vars == <<tenant, user, bucket, request, since, crossed, been, pasted>>

-----------------------------------------------------------------------------
Tenants == Organizations \cup Complexes

ASSUME NilAssumption ==
    /\ Nil \notin Tenants \cup Users \cup Emails \cup Keys \cup Files \cup {Typed, Absent}
    /\ Absent \notin Emails \cup Keys \cup Files \cup {Typed}

ASSUME TablesAssumption ==
    /\ Organizations # {} /\ Complexes # {} /\ Organizations \cap Complexes = {}
    /\ Tenants \cap Users = {}
    /\ Typed \notin Files

Table(t) == IF t \in Organizations THEN Organizations ELSE Complexes

\* The url of an object is its key behind the address of the bucket.
Url == Files \cup {Typed}

\* key is the identification of an organization, the slug of a complex.
TenantRow == [email : Emails \cup {Nil}, key : Keys \cup {Nil},
              logo : Url \cup {Nil}, status : {0, 1}]
NoTenant == [email |-> Nil, key |-> Nil, logo |-> Nil, status |-> 0]

UserRow == [row : {"none", "there", "deleted"},
            complex : Complexes \cup {Nil}, image : Url \cup {Nil}]
NoUser == [row |-> "none", complex |-> Nil, image |-> Nil]

\* orgs/<owner>/logo, complexes/<owner>/logo, users/<owner>,
\* complexes/<complex>/users/<owner>, <complex>/<module>
Folder == [owner : Tenants \cup Users \cup {Nil}, complex : Complexes \cup {Nil}]

ASSUME FolderAssumption == Nil \notin Folder

\* checks: the reads for duplicates that are still to be done.
\* scope: the complexes (or none) whose users the requester reaches.
Idle == [pc |-> "idle", table |-> {}, tenant |-> Nil, email |-> Absent, key |-> Absent,
         logo |-> Absent, checks |-> {}, user |-> Nil, file |-> Nil, scope |-> {}]
RequestState == [pc : {"idle", "insert", "update", "logo", "avatar", "image"},
                 table : {{}, Organizations, Complexes},
                 tenant : Tenants \cup {Nil},
                 email : Emails \cup {Absent},
                 key : Keys \cup {Absent, Nil},
                 logo : Url \cup {Absent, Nil},
                 checks : SUBSET {"email", "key"},
                 user : Users \cup {Nil},
                 file : Files \cup {Nil},
                 scope : SUBSET (Complexes \cup {Nil})]

Exists(t) == tenant[t].email # Nil
There(u) == user[u].row = "there"

TablesOK ==
    /\ tenant \in [Tenants -> TenantRow]
    /\ user \in [Users -> UserRow]
    /\ bucket \in [Files -> Folder \cup {Nil}]
    /\ \A t \in Tenants : ~ Exists(t) => tenant[t] = NoTenant
    /\ \A c \in Complexes : Exists(c) => tenant[c].key # Nil
    /\ \A u \in Users : ~ There(u) => user[u].complex = Nil /\ user[u].image = Nil

RequestsOK ==
    /\ request \in [Requests -> RequestState]
    /\ \A q \in Requests :
          /\ request[q].pc = "insert" =>
                /\ request[q].table # {} /\ request[q].email # Absent
                /\ request[q].key # Absent /\ request[q].logo # Absent
                /\ request[q].table = Complexes => request[q].key # Nil
          /\ request[q].pc \in {"update", "logo"} =>
                request[q].tenant # Nil /\ Exists(request[q].tenant)
          /\ request[q].pc = "update" /\ request[q].tenant \in Complexes => request[q].key # Nil
          /\ "email" \in request[q].checks => request[q].email # Absent
          /\ request[q].pc \in {"logo", "avatar", "image"} => request[q].file # Nil
          /\ request[q].pc \in {"avatar", "image"} => request[q].user # Nil

(* Rows hold what their columns may hold; a tenant has an e-mail, and a    *)
(* complex a slug (NOT NULL); a request in flight has what its next        *)
(* statement needs.                                                        *)
TypeOK ==
    /\ TablesOK
    /\ RequestsOK
    /\ since \in [Requests -> SUBSET Tenants]
    /\ crossed \subseteq SUBSET Tenants
    /\ been \in [Users -> SUBSET Complexes]
    /\ pasted \subseteq Tenants \cup Users

Init ==
    /\ tenant = [t \in Tenants |-> NoTenant]
    /\ user = [u \in Users |-> NoUser]
    /\ bucket = [f \in Files |-> Nil]
    /\ request = [q \in Requests |-> Idle]
    /\ since = [q \in Requests |-> {}]
    /\ crossed = {}
    /\ been = [u \in Users |-> {}]
    /\ pasted = {}

-----------------------------------------------------------------------------
Running(q, pc) == request[q].pc = pc

Start(q, state) ==
    /\ Running(q, "idle")
    /\ request' = [request EXCEPT ![q] = state]

Finish(q) == request' = [request EXCEPT ![q] = Idle]

\* Mutated form: of the other tenants, only the active ones count.
EmailTakenByActive(t, table, email) ==
    \E s \in table \ {t} : tenant[s].status = 1 /\ tenant[s].email = email

\* findFirst({ contactEmail }) returns a row, and not that of t itself: when t
\* has the e-mail as well, it may be t that is returned.
EmailTaken(t, table, email) ==
    /\ \E s \in table \ {t} : tenant[s].email = email
    /\ t # Nil => tenant[t].email # email

\* findUnique({ identification }) or findUnique({ slug }), and the unique index.
KeyTaken(t, table, key) ==
    key # Nil /\ \E s \in table \ {t} : Exists(s) /\ tenant[s].key = key

\* The statement of q writes row t.
Written(q, t) ==
    /\ since' = [p \in Requests |-> IF p = q \/ Running(p, "idle") THEN {} ELSE since[p] \cup {t}]
    /\ crossed' = crossed \cup {{s, t} : s \in since[q] \ {t}}

\* The urls a dto may bring.
Brought == {Typed} \cup {f \in Files : bucket[f] # Nil}

\* The statement writes the picture of row r, from a dto if that brought a url.
Pasted(r, url) ==
    pasted' = CASE url = Absent -> pasted
                [] url = Nil    -> pasted \ {r}
                [] OTHER        -> pasted \cup {r}

-----------------------------------------------------------------------------
(* Registration.                                                           *)

Registration(table, email, key, logo, checks) ==
    [Idle EXCEPT !.pc = "insert", !.table = table, !.email = email, !.key = key,
                 !.logo = logo, !.checks = checks]

\* A missing identification is looked for as NULL, and found.
CreateOrganization(q, email, key, logo) ==
    /\ \A o \in Organizations : Exists(o) => tenant[o].email # email /\ tenant[o].key # key
    /\ Start(q, Registration(Organizations, email, key, logo, {}))
    /\ UNCHANGED <<tenant, user, bucket, since, crossed, been, pasted>>

CreateComplex(q, email, key, logo) ==
    /\ \E o \in Organizations : Exists(o)
    /\ Start(q, Registration(Complexes, email, key, logo, {"key", "email"}))
    /\ UNCHANGED <<tenant, user, bucket, since, crossed, been, pasted>>

InsertTenant(q, t) ==
    LET p == request[q]
    IN  /\ Running(q, "insert") /\ p.checks = {}
        /\ t \in p.table
        /\ ~ Exists(t)
        /\ ~ KeyTaken(t, p.table, p.key)
        /\ tenant' = [tenant EXCEPT ![t] = [email |-> p.email, key |-> p.key,
                                            logo |-> p.logo, status |-> 1]]
        /\ Pasted(t, p.logo)
        /\ Written(q, t)
        /\ Finish(q)
        /\ UNCHANGED <<user, bucket, been>>

-----------------------------------------------------------------------------
(* Changes.  A duplicate is looked for when the dto has a value other than *)
(* that of the row read: organizations look at the e-mail first, complexes *)
(* at the slug.                                                            *)

Changes(t, email, key) ==
    {col \in {"email", "key"} :
        CASE col = "email" -> email \notin {Absent, tenant[t].email}
          [] col = "key"   -> key \notin {Absent, Nil, tenant[t].key}}

Update(q, t, email, key, logo) ==
    /\ tenant[t].status = 1
    /\ Start(q, [Idle EXCEPT !.pc = "update", !.table = Table(t), !.tenant = t, !.email = email,
                             !.key = key, !.logo = logo, !.checks = Changes(t, email, key)])
    /\ UNCHANGED <<tenant, user, bucket, since, crossed, been, pasted>>

\* The identification may be cleared, a slug may not.
UpdateOrganization(q, o, email, key, logo) == Update(q, o, email, key, logo)
UpdateComplex(q, c, email, key, logo) == key # Nil /\ Update(q, c, email, key, logo)

Checked(q, col) == request' = [request EXCEPT ![q].checks = @ \ {col}]

CheckEmail(q) ==
    LET p == request[q]
    IN  /\ "email" \in p.checks
        /\ p.table = Complexes => "key" \notin p.checks
        /\ ~ EmailTaken(p.tenant, p.table, p.email)
        /\ Checked(q, "email")
        /\ UNCHANGED <<tenant, user, bucket, since, crossed, been, pasted>>

CheckKey(q) ==
    LET p == request[q]
    IN  /\ "key" \in p.checks
        /\ p.table = Organizations => "email" \notin p.checks
        /\ ~ KeyTaken(p.tenant, p.table, p.key)
        /\ Checked(q, "key")
        /\ UNCHANGED <<tenant, user, bucket, since, crossed, been, pasted>>

Given(value, existing) == IF value = Absent THEN existing ELSE value

\* Mutated form: a field that the dto does not have clears the column.
WriteTenantWhole(q) ==
    LET p == request[q]
    IN  /\ Running(q, "update") /\ p.checks = {}
        /\ tenant' = [tenant EXCEPT ![p.tenant].email = p.email, ![p.tenant].key = p.key]
        /\ Pasted(p.tenant, Absent)
        /\ Written(q, p.tenant)
        /\ Finish(q)
        /\ UNCHANGED <<user, bucket, been>>

WriteTenant(q) ==
    LET p == request[q]
        t == p.tenant
    IN  /\ Running(q, "update") /\ p.checks = {}
        /\ p.key # Absent => ~ KeyTaken(t, p.table, p.key)
        /\ tenant' = [tenant EXCEPT ![t].email = Given(p.email, @),
                                    ![t].key = Given(p.key, @),
                                    ![t].logo = Given(p.logo, @)]
        /\ Pasted(t, p.logo)
        /\ Written(q, t)
        /\ Finish(q)
        /\ UNCHANGED <<user, bucket, been>>

\* organizations.remove and residentialComplexes.remove
Deactivate(q, t) ==
    /\ Running(q, "idle")
    /\ Exists(t)
    /\ t \in Organizations => tenant[t].status = 1
    /\ tenant' = [tenant EXCEPT ![t].status = 0]
    /\ UNCHANGED <<user, bucket, request, since, crossed, been, pasted>>

-----------------------------------------------------------------------------
(* Uploads: the object is stored first, then its url is written in the     *)
(* row.  What was there before stays in the bucket.                        *)

\* uploadObject, with a new key.
Stored(f, owner, c) ==
    /\ bucket[f] = Nil
    /\ bucket' = [bucket EXCEPT ![f] = [owner |-> owner, complex |-> c]]

\* uploadLogo, of an organization or of a complex.
UploadLogo(q, t, f) ==
    /\ tenant[t].status = 1
    /\ Stored(f, t, Nil)
    /\ Start(q, [Idle EXCEPT !.pc = "logo", !.table = Table(t), !.tenant = t, !.file = f])
    /\ UNCHANGED <<tenant, user, since, crossed, been, pasted>>

SaveLogo(q) ==
    /\ Running(q, "logo")
    /\ tenant' = [tenant EXCEPT ![request[q].tenant].logo = request[q].file]
    /\ pasted' = pasted \ {request[q].tenant}
    /\ since' = [since EXCEPT ![q] = {}]
    /\ Finish(q)
    /\ UNCHANGED <<user, bucket, crossed, been>>

\* No row is read: the token outlives the user.
UploadOwnAvatar(q, u, f) ==
    /\ user[u].row # "none"
    /\ Stored(f, u, Nil)
    /\ Start(q, [Idle EXCEPT !.pc = "image", !.user = u, !.file = f])
    /\ UNCHANGED <<tenant, user, since, crossed, been, pasted>>

\* Mutated form: the folder is that of the requester's complex.
UploadAvatarElsewhere(q, scope, u, f) ==
    /\ user[u].complex \in scope \ {Nil}
    /\ \E c \in scope \ {Nil} : Stored(f, u, c)
    /\ Start(q, [Idle EXCEPT !.pc = "avatar", !.user = u, !.file = f, !.scope = scope])
    /\ UNCHANGED <<tenant, user, since, crossed, been, pasted>>

UploadAvatar(q, scope, u, f) ==
    /\ user[u].complex \in scope \ {Nil}
    /\ Stored(f, u, user[u].complex)
    /\ Start(q, [Idle EXCEPT !.pc = "avatar", !.user = u, !.file = f, !.scope = scope])
    /\ UNCHANGED <<tenant, user, since, crossed, been, pasted>>

\* The user is looked for in the scope once more.
UpdateProfileImage(q) ==
    /\ Running(q, "avatar")
    /\ There(request[q].user)
    /\ user[request[q].user].complex \in request[q].scope
    /\ request' = [request EXCEPT ![q].pc = "image", ![q].scope = {}]
    /\ UNCHANGED <<tenant, user, bucket, since, crossed, been, pasted>>

SaveImage(q) ==
    /\ Running(q, "image")
    /\ There(request[q].user)
    /\ user' = [user EXCEPT ![request[q].user].image = request[q].file]
    /\ pasted' = pasted \ {request[q].user}
    /\ since' = [since EXCEPT ![q] = {}]
    /\ Finish(q)
    /\ UNCHANGED <<tenant, bucket, crossed, been>>

\* POST storage/upload: a file of the complex that no row refers to.
Upload(c, f) ==
    /\ Exists(c)
    /\ Stored(f, Nil, c)
    /\ UNCHANGED <<tenant, user, request, since, crossed, been, pasted>>

-----------------------------------------------------------------------------
(* Users: what their handlers do to places and pictures.                   *)

\* inviteUser, in one transaction.
InviteUser(u, c, image) ==
    /\ user[u] = NoUser
    /\ c # Nil => tenant[c].status = 1
    /\ user' = [user EXCEPT ![u] = [row |-> "there", complex |-> c, image |-> image]]
    /\ been' = [been EXCEPT ![u] = @ \cup ({c} \ {Nil})]
    /\ Pasted(u, image)
    /\ UNCHANGED <<tenant, bucket, request, since, crossed>>

\* update: with a new role the user keeps the complex that was read, which an
\* update in between may have cleared, or has none any more.
UpdateUser(u, c, image) ==
    /\ There(u)
    /\ c \in been[u] \cup {Nil}
    /\ user' = [user EXCEPT ![u].complex = c, ![u].image = Given(image, @)]
    /\ Pasted(u, image)
    /\ UNCHANGED <<tenant, bucket, request, since, crossed, been>>

\* remove of a PENDING user, or the compensation of inviteUser.
RemoveUser(u) ==
    /\ There(u)
    /\ user' = [user EXCEPT ![u] = [NoUser EXCEPT !.row = "deleted"]]
    /\ Pasted(u, Nil)
    /\ UNCHANGED <<tenant, bucket, request, since, crossed, been>>

-----------------------------------------------------------------------------
\* A check refuses the request, the unique index refuses the row (P2002), or a
\* statement or the process fails: no row was written.
Abort(q) ==
    /\ ~ Running(q, "idle")
    /\ since' = [since EXCEPT ![q] = {}]
    /\ Finish(q)
    /\ UNCHANGED <<tenant, user, bucket, crossed, been, pasted>>

Register(q) ==
    \/ \E email \in Emails, key \in Keys \cup {Nil}, logo \in Brought \cup {Nil} :
          CreateOrganization(q, email, key, logo)
    \/ \E email \in Emails, key \in Keys, logo \in Brought \cup {Nil} :
          CreateComplex(q, email, key, logo)
    \/ \E t \in Tenants : InsertTenant(q, t)

Change(q) ==
    \/ \E o \in Organizations, email \in Emails \cup {Absent}, key \in Keys \cup {Absent, Nil},
          logo \in Brought \cup {Absent} : UpdateOrganization(q, o, email, key, logo)
    \/ \E c \in Complexes, email \in Emails \cup {Absent}, key \in Keys \cup {Absent},
          logo \in Brought \cup {Absent} : UpdateComplex(q, c, email, key, logo)
    \/ CheckEmail(q)
    \/ CheckKey(q)
    \/ WriteTenant(q)
    \/ \E t \in Tenants : Deactivate(q, t)

Picture(q) ==
    \/ \E t \in Tenants, f \in Files : UploadLogo(q, t, f)
    \/ SaveLogo(q)
    \/ \E u \in Users, f \in Files : UploadOwnAvatar(q, u, f)
    \/ \E scope \in SUBSET (Complexes \cup {Nil}), u \in Users, f \in Files :
          UploadAvatar(q, scope, u, f)
    \/ UpdateProfileImage(q)
    \/ SaveImage(q)

Place(u) ==
    \/ \E c \in Complexes \cup {Nil}, image \in Brought \cup {Nil} : InviteUser(u, c, image)
    \/ \E c \in Complexes \cup {Nil}, image \in Brought \cup {Absent, Nil} :
          UpdateUser(u, c, image)
    \/ RemoveUser(u)

Next ==
    \/ \E q \in Requests : Register(q) \/ Change(q) \/ Picture(q) \/ Abort(q)
    \/ \E c \in Complexes, f \in Files : Upload(c, f)
    \/ \E u \in Users : Place(u)

Spec == Init /\ [][Next]_vars

-----------------------------------------------------------------------------
(* "Ya existe otra organización con ese correo de contacto": two           *)
(* organizations, or two complexes, share a contact e-mail only if they    *)
(* were written by requests that overlapped; one after the other they are  *)
(* told apart, also when they are deactivated or their e-mail changes.     *)
EmailsAreExplained ==
    \A s, t \in Tenants :
        /\ s # t /\ Table(s) = Table(t)
        /\ Exists(s) /\ tenant[s].email = tenant[t].email
        => {s, t} \in crossed

(* A picture of the bucket that a row shows is there.  It was stored for   *)
(* that very row, and lies under the row's own folder or that of a complex *)
(* the user has belonged to, however uploads, removals and changes of      *)
(* place overlap, unless its url came with a dto: then it may be any       *)
(* object, until the next upload for the row.                              *)
PicturesAreOwned ==
    /\ \A t \in Tenants : tenant[t].logo \in Files =>
          /\ bucket[tenant[t].logo] # Nil
          /\ t \notin pasted => bucket[tenant[t].logo] = [owner |-> t, complex |-> Nil]
    /\ \A u \in Users : user[u].image \in Files =>
          /\ bucket[user[u].image] # Nil
          /\ u \notin pasted =>
                \E c \in been[u] \cup {Nil} : bucket[user[u].image] = [owner |-> u, complex |-> c]

-----------------------------------------------------------------------------
(* The inductive invariant.                                                *)

\* An e-mail that a request no longer looks for is that of no other tenant,
\* unless it was written under the request, or crossed with it before.
ChecksHold ==
    \A q \in Requests :
        /\ request[q].pc \in {"insert", "update"}
        /\ request[q].email # Absent /\ "email" \notin request[q].checks
        => \A s \in request[q].table \ {request[q].tenant} :
              tenant[s].email = request[q].email =>
                 s \in since[q] \/ {s, request[q].tenant} \in crossed

RequestsAreApart ==
    \A q \in Requests :
        /\ Running(q, "idle") => since[q] = {}
        /\ request[q].checks # {} => request[q].pc \in {"insert", "update"}
        /\ request[q].pc = "update" => request[q].table = Table(request[q].tenant)
        /\ request[q].pc = "insert" => request[q].tenant = Nil

UploadsAreOwned ==
    \A q \in Requests :
        /\ Running(q, "logo") =>
              bucket[request[q].file] = [owner |-> request[q].tenant, complex |-> Nil]
        /\ request[q].pc \in {"avatar", "image"} =>
              \E c \in been[request[q].user] \cup {Nil} :
                 bucket[request[q].file] = [owner |-> request[q].user, complex |-> c]

\* A url that a request brings is that of a stored object, or of none.
UrlsAreBrought == \A q \in Requests : request[q].logo \in Files => bucket[request[q].logo] # Nil

UsersHaveBeen == \A u \in Users : user[u].complex \in been[u] \cup {Nil}

IInv ==
    /\ TypeOK
    /\ ChecksHold
    /\ RequestsAreApart
    /\ UploadsAreOwned
    /\ UrlsAreBrought
    /\ UsersHaveBeen
    /\ EmailsAreExplained
    /\ PicturesAreOwned

=============================================================================
