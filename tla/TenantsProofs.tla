--------------------------- MODULE TenantsProofs ---------------------------
(* Proofs about Tenants: its types, that shared contact e-mails come from   *)
(* requests that overlapped, and that pictures are where they belong, for   *)
(* any number of organizations, complexes, users, files and requests.       *)
EXTENDS Tenants, TLAPS

\* What the invariant asks of a request whose local variables are s.
Typical(s) ==
    /\ s \in RequestState
    /\ s.pc = "insert" =>
          /\ s.table # {} /\ s.email # Absent /\ s.key # Absent /\ s.logo # Absent
          /\ s.table = Complexes => s.key # Nil
          /\ s.tenant = Nil
    /\ s.pc \in {"update", "logo"} => s.tenant # Nil /\ Exists(s.tenant)
    /\ s.pc = "update" =>
          /\ s.tenant \in Complexes => s.key # Nil
          /\ s.table = Table(s.tenant)
    /\ "email" \in s.checks => s.email # Absent
    /\ s.checks # {} => s.pc \in {"insert", "update"}
    /\ s.pc \in {"logo", "avatar", "image"} => s.file # Nil
    /\ s.pc \in {"avatar", "image"} => s.user # Nil

Owned(s) ==
    /\ s.pc = "logo" => bucket[s.file] = [owner |-> s.tenant, complex |-> Nil]
    /\ s.pc \in {"avatar", "image"} =>
          \E c \in been[s.user] \cup {Nil} : bucket[s.file] = [owner |-> s.user, complex |-> c]
    /\ s.logo \in Files => bucket[s.logo] # Nil

\* The e-mail of s is free, or was taken after the look of a request that knows
\* of the tenants in `news`.
Free(s, news) ==
    s.pc \in {"insert", "update"} /\ s.email # Absent /\ "email" \notin s.checks =>
        \A t \in s.table \ {s.tenant} :
            tenant[t].email = s.email => t \in news \/ {t, s.tenant} \in crossed

Requesting ==
    /\ request \in [Requests -> RequestState]
    /\ since \in [Requests -> SUBSET Tenants]
    /\ \A q \in Requests : /\ Typical(request[q]) /\ Owned(request[q])
                           /\ Free(request[q], since[q])
                           /\ request[q].pc = "idle" => since[q] = {}

\* What it asks of the tables, the bucket and their history.
Registered ==
    /\ TablesOK
    /\ crossed \subseteq SUBSET Tenants
    /\ been \in [Users -> SUBSET Complexes]
    /\ pasted \subseteq Tenants \cup Users
    /\ UsersHaveBeen
    /\ EmailsAreExplained
    /\ PicturesAreOwned

LEMMA IInvParts == IInv <=> Registered /\ Requesting
BY DEF IInv, Registered, Requesting, TypeOK, RequestsOK, ChecksHold, RequestsAreApart,
       UploadsAreOwned, UrlsAreBrought, Typical, Owned, Free, Running

LEMMA Together == ASSUME Registered', Requesting' PROVE IInv'
<1>1. (Registered /\ Requesting => IInv)'
  BY IInvParts, PTL
<1> QED
  BY <1>1

LEMMA IdleFits ==
    /\ Idle \in RequestState /\ Idle.pc = "idle"
    /\ Typical(Idle) /\ Owned(Idle) /\ \A news : Free(Idle, news)
BY NilAssumption DEF Idle, Typical, Owned, Free, RequestState

LEMMA Tables ==
    /\ \A t \in Organizations : t \in Tenants /\ t \notin Complexes /\ Table(t) = Organizations
    /\ \A t \in Complexes : t \in Tenants /\ t \notin Organizations /\ Table(t) = Complexes
    /\ Nil \notin Tenants
BY TablesAssumption, NilAssumption DEF Tenants, Table

LEMMA Initially == Init => IInv
<1> SUFFICES ASSUME Init PROVE IInv
  OBVIOUS
<1>1. NoTenant \in TenantRow /\ NoUser \in UserRow /\ NoTenant.email = Nil /\ NoTenant.logo = Nil
      /\ NoUser.complex = Nil /\ NoUser.image = Nil /\ NoUser.row = "none"
  BY DEF NoTenant, NoUser, TenantRow, UserRow
<1>2. TablesOK
  BY <1>1, Tables DEF Init, TablesOK, Exists, There
<1>3. EmailsAreExplained
  BY <1>1 DEF Init, EmailsAreExplained, Exists
<1>4. Nil \notin Files
  BY NilAssumption
<1>5. PicturesAreOwned
  BY <1>1, <1>4 DEF Init, PicturesAreOwned
<1>6. Registered
  BY <1>1, <1>2, <1>3, <1>5 DEF Init, Registered, UsersHaveBeen
<1>7. Requesting
  BY IdleFits DEF Init, Requesting
<1> QED
  BY <1>6, <1>7, IInvParts

-----------------------------------------------------------------------------
\* What no step takes back.
Kept ==
    /\ \A t \in Tenants : Exists(t) => Exists(t)'
    /\ \A f \in Files : bucket[f] # Nil => bucket'[f] = bucket[f]
    /\ \A u \in Users : been[u] \subseteq been'[u]
    /\ crossed \subseteq crossed'

\* A stored picture that is owned is an object in the bucket.
LEMMA Pictured ==
    ASSUME NEW t \in Tenants \cup Users, NEW c \in Complexes \cup {Nil}
    PROVE  [owner |-> t, complex |-> c] # Nil
BY FolderAssumption DEF Folder

LEMMA RequestGoesOn ==
    ASSUME Registered, Requesting, Kept, NEW p \in Requests, request'[p] = request[p],
           request[p].pc # "idle" => since[p] \subseteq since'[p],
           request[p].pc # "idle" =>
              \A t \in Tenants : tenant'[t].email = tenant[t].email \/ t \in since'[p]
    PROVE  (Typical(request[p]))' /\ (Owned(request[p]))' /\ (Free(request[p], since[p]))'
<1> DEFINE s == request[p]
<1>1. /\ Typical(s) /\ Owned(s) /\ Free(s, since[p])
      /\ s \in RequestState /\ s.tenant \in Tenants \cup {Nil} /\ s.file \in Files \cup {Nil}
      /\ s.user \in Users \cup {Nil} /\ s.table \subseteq Tenants
  BY DEF Requesting, RequestState, Tenants
<1>2. s.tenant # Nil /\ Exists(s.tenant) => Exists(s.tenant)'
  BY <1>1 DEF Kept, Exists
<1>3. (Typical(request[p]))'
  <2>1. \A t \in Tenants : Exists(t) => Exists(t)'
    BY DEF Kept
  <2> QED
    BY <1>1, <2>1 DEF Typical, Exists, Table
<1>4. (Owned(request[p]))'
  <2>1. s.pc = "logo" => bucket'[s.file] = [owner |-> s.tenant, complex |-> Nil]
    BY <1>1, Pictured DEF Owned, Typical, Kept
  <2>2. s.pc \in {"avatar", "image"} =>
           \E c \in been'[s.user] \cup {Nil} : bucket'[s.file] = [owner |-> s.user, complex |-> c]
    <3> SUFFICES ASSUME s.pc \in {"avatar", "image"}
                 PROVE  \E c \in been'[s.user] \cup {Nil} :
                           bucket'[s.file] = [owner |-> s.user, complex |-> c]
      OBVIOUS
    <3>1. s.user \in Users /\ s.file \in Files
      BY <1>1 DEF Typical
    <3>2. PICK c \in been[s.user] \cup {Nil} : bucket[s.file] = [owner |-> s.user, complex |-> c]
      BY <1>1 DEF Owned
    <3>3. c \in Complexes \cup {Nil}
      BY <3>1 DEF Registered
    <3>4. bucket'[s.file] = bucket[s.file]
      BY <3>1, <3>2, <3>3, Pictured DEF Kept
    <3> QED
      BY <3>1, <3>2, <3>4 DEF Kept
  <2>3. s.logo \in Files => bucket'[s.logo] # Nil
    BY <1>1 DEF Owned, Kept
  <2> QED
    BY <2>1, <2>2, <2>3 DEF Owned
<1>5. (Free(request[p], since[p]))'
  BY <1>1 DEF Free, Kept
<1> QED
  BY <1>3, <1>4, <1>5

LEMMA RequestingStep ==
    ASSUME Registered, Requesting, Kept, NEW q \in Requests, NEW n \in RequestState,
           request' = [request EXCEPT ![q] = n],
           since' \in [Requests -> SUBSET Tenants],
           request'[q] = n => (Typical(request[q]))' /\ (Owned(request[q]))'
                              /\ (Free(request[q], since[q]))',
           n.pc = "idle" => since'[q] = {},
           \A p \in Requests \ {q} :
              /\ request[p].pc = "idle" => since'[p] = {}
              /\ request[p].pc # "idle" => since[p] \subseteq since'[p]
              /\ request[p].pc # "idle" =>
                    \A t \in Tenants : tenant'[t].email = tenant[t].email \/ t \in since'[p]
    PROVE  Requesting'
<1>1. /\ request' \in [Requests -> RequestState]
      /\ \A p \in Requests : request'[p] = IF p = q THEN n ELSE request[p]
  BY DEF Requesting
<1>2. \A p \in Requests \ {q} : (Typical(request[p]))' /\ (Owned(request[p]))'
                               /\ (Free(request[p], since[p]))'
  BY <1>1, RequestGoesOn
<1> QED
  BY <1>1, <1>2 DEF Requesting

-----------------------------------------------------------------------------
(* Steps that write no row.                                                *)
LEMMA RegisteredStays ==
    ASSUME Registered, Kept, UNCHANGED <<tenant, user, crossed, been, pasted>>,
           bucket' \in [Files -> Folder \cup {Nil}]
    PROVE  Registered'
<1>1. TablesOK'
  BY DEF Registered, TablesOK, Exists, There
<1>2. EmailsAreExplained'
  BY DEF Registered, EmailsAreExplained, Exists
<1>3. PicturesAreOwned'
  <2>1. /\ \A t \in Tenants : tenant[t].logo \in Files =>
              bucket[tenant[t].logo] # Nil /\ bucket'[tenant[t].logo] = bucket[tenant[t].logo]
        /\ \A u \in Users : user[u].image \in Files =>
              bucket[user[u].image] # Nil /\ bucket'[user[u].image] = bucket[user[u].image]
    BY DEF Registered, PicturesAreOwned, Kept
  <2> QED
    BY <2>1 DEF Registered, PicturesAreOwned
<1> QED
  BY <1>1, <1>2, <1>3 DEF Registered, UsersHaveBeen

\* A request begins, or goes on, without having written anything.
LEMMA LocalStep ==
    ASSUME IInv, NEW q \in Requests, NEW n \in RequestState, n.pc # "idle",
           request' = [request EXCEPT ![q] = n],
           UNCHANGED <<tenant, user, bucket, since, crossed, been, pasted>>,
           Typical(n), Owned(n), Free(n, since[q])
    PROVE  IInv'
<1>1. Registered /\ Requesting
  BY IInvParts
<1>2. Kept /\ bucket' \in [Files -> Folder \cup {Nil}]
  BY <1>1 DEF Kept, Exists, Registered, TablesOK
<1>3. Registered'
  BY <1>1, <1>2, RegisteredStays
<1>4. request'[q] = n => (Typical(request[q]))' /\ (Owned(request[q]))' /\ (Free(request[q], since[q]))'
  <2>1. (request'[q] = n) => (Typical(request[q]))'
    BY DEF Typical, Exists, Table
  <2>2. (request'[q] = n) => (Owned(request[q]))'
    BY DEF Owned
  <2>3. (request'[q] = n) => (Free(request[q], since[q]))'
    BY DEF Free
  <2> QED
    BY <2>1, <2>2, <2>3
<1>5. since' \in [Requests -> SUBSET Tenants]
  BY <1>1 DEF Requesting
<1>6. Requesting'
  BY <1>1, <1>2, <1>4, <1>5, RequestingStep DEF Requesting
<1> QED
  BY <1>3, <1>6, Together

\* A picture is stored, and the request goes on to show it.
LEMMA UploadStep ==
    ASSUME IInv, NEW q \in Requests, NEW n \in RequestState,
           NEW f \in Files, NEW o \in Tenants \cup Users, NEW c \in Complexes \cup {Nil},
           Stored(f, o, c), request' = [request EXCEPT ![q] = n],
           UNCHANGED <<tenant, user, since, crossed, been, pasted>>,
           Typical(n), n.file = f, n.logo = Absent,
           \/ n.pc = "logo" /\ n.tenant = o /\ c = Nil
           \/ n.pc \in {"avatar", "image"} /\ n.user = o /\ c \in been[o] \cup {Nil}
    PROVE  IInv'
<1>1. Registered /\ Requesting
  BY IInvParts
<1>2. [owner |-> o, complex |-> c] \in Folder
  BY DEF Folder
<1>3. /\ bucket' \in [Files -> Folder \cup {Nil}]
      /\ \A g \in Files : bucket'[g] = IF g = f THEN [owner |-> o, complex |-> c] ELSE bucket[g]
      /\ bucket[f] = Nil
  BY <1>1, <1>2 DEF Stored, Registered, TablesOK
<1>4. Kept
  BY <1>3 DEF Kept, Exists
<1>5. Registered'
  BY <1>1, <1>3, <1>4, RegisteredStays
<1>6. bucket'[f] = [owner |-> o, complex |-> c]
  BY <1>3
<1>7. request'[q] = n => (Typical(request[q]))' /\ (Owned(request[q]))' /\ (Free(request[q], since[q]))'
  <2>1. (request'[q] = n) => (Typical(request[q]))'
    BY DEF Typical, Exists, Table
  <2>2. (request'[q] = n) => (Owned(request[q]))'
    BY <1>6, NilAssumption DEF Owned
  <2>3. (request'[q] = n) => (Free(request[q], since[q]))'
    BY DEF Free
  <2> QED
    BY <2>1, <2>2, <2>3
<1>8. since' \in [Requests -> SUBSET Tenants] /\ n.pc # "idle"
  BY <1>1 DEF Requesting
<1>9. Requesting'
  BY <1>1, <1>4, <1>7, <1>8, RequestingStep DEF Requesting
<1> QED
  BY <1>5, <1>9, Together

-----------------------------------------------------------------------------
(* Steps that end a request.                                               *)

\* No e-mail changes.
LEMMA Ends ==
    ASSUME Registered, Requesting, Kept, NEW q \in Requests, Finish(q),
           since' = [since EXCEPT ![q] = {}],
           \A t \in Tenants : tenant'[t].email = tenant[t].email
    PROVE  Requesting'
<1>1. since' \in [Requests -> SUBSET Tenants] /\ since'[q] = {}
      /\ \A p \in Requests \ {q} : since'[p] = since[p]
  BY DEF Requesting
<1>2. request'[q] = Idle => (Typical(request[q]))' /\ (Owned(request[q]))' /\ (Free(request[q], since[q]))'
  BY IdleFits, NilAssumption DEF Typical, Owned, Free, Idle
<1>3. request' = [request EXCEPT ![q] = Idle]
  BY DEF Finish
<1> QED
  BY <1>1, <1>2, <1>3, IdleFits, RequestingStep DEF Requesting

\* A statement writes the picture of row r from a dto.
LEMMA PastedStep ==
    ASSUME Registered, NEW r \in Tenants \cup Users, NEW url, Pasted(r, url)
    PROVE  /\ pasted' \subseteq Tenants \cup Users
           /\ \A s : s # r => (s \in pasted' <=> s \in pasted)
           /\ url = Absent => pasted' = pasted
           /\ url \notin {Absent, Nil} => r \in pasted'
<1>1. CASE url = Absent
  BY <1>1, NilAssumption DEF Pasted, Registered
<1>2. CASE url = Nil
  BY <1>2, NilAssumption DEF Pasted, Registered
<1>3. CASE url \notin {Absent, Nil}
  BY <1>3 DEF Pasted, Registered
<1> QED
  BY <1>1, <1>2, <1>3

\* The row of a tenant is written, with a new e-mail perhaps, and a url perhaps.
LEMMA WrittenStep ==
    ASSUME IInv, NEW q \in Requests, NEW t \in Tenants, NEW new \in TenantRow, NEW url,
           tenant' = [tenant EXCEPT ![t] = new], Written(q, t), Finish(q),
           Pasted(t, url), new.logo = Given(url, tenant[t].logo),
           url \in Files => bucket[url] # Nil,
           UNCHANGED <<user, bucket, been>>,
           new.email # Nil, t \in Complexes => new.key # Nil,
           \A s \in Tenants \ {t} :
              Table(s) = Table(t) /\ tenant[s].email = new.email =>
                 s \in since[q] \/ {s, t} \in crossed
    PROVE  IInv'
<1>1. Registered /\ Requesting
  BY IInvParts
<1>2. \A s \in Tenants : tenant'[s] = IF s = t THEN new ELSE tenant[s]
  BY <1>1 DEF Registered, TablesOK
<1>3. /\ since[q] \subseteq Tenants
      /\ crossed \subseteq crossed' /\ crossed' \subseteq SUBSET Tenants
      /\ \A s \in since[q] \ {t} : {s, t} \in crossed'
  BY <1>1 DEF Written, Registered, Requesting
<1>4. Kept
  BY <1>2, <1>3 DEF Kept, Exists
<1>5. TablesOK'
  BY <1>1, <1>2 DEF Registered, TablesOK, Exists, There
<1>6. EmailsAreExplained'
  <2> SUFFICES ASSUME NEW s \in Tenants, NEW u \in Tenants, s # u, Table(s) = Table(u),
                      tenant'[s].email # Nil, tenant'[s].email = tenant'[u].email
               PROVE  {s, u} \in crossed'
    BY DEF EmailsAreExplained, Exists, Table
  <2>1. CASE s # t /\ u # t
    BY <1>1, <1>2, <1>3, <2>1 DEF Registered, EmailsAreExplained, Exists
  <2>2. CASE u = t
    BY <1>2, <1>3, <2>2
  <2>3. CASE s = t
    <3>1. {u, s} \in crossed'
      BY <1>2, <1>3, <2>3
    <3> QED
      BY <3>1
  <2> QED
    BY <2>1, <2>2, <2>3
<1>p. /\ pasted' \subseteq Tenants \cup Users
      /\ \A s : s # t => (s \in pasted' <=> s \in pasted)
      /\ url = Absent => pasted' = pasted
      /\ url \notin {Absent, Nil} => t \in pasted'
  BY <1>1, PastedStep
<1>7. PicturesAreOwned'
  <2>1. \A u \in Users : u # t
    BY TablesAssumption
  <2>2. ASSUME NEW s \in Tenants, tenant'[s].logo \in Files
        PROVE  /\ bucket[tenant'[s].logo] # Nil
               /\ s \notin pasted' => bucket[tenant'[s].logo] = [owner |-> s, complex |-> Nil]
    <3>1. CASE s # t \/ url = Absent
      <4>1. tenant'[s].logo = tenant[s].logo /\ (s \in pasted' <=> s \in pasted)
        BY <1>2, <1>p, <3>1 DEF Given
      <4> QED
        BY <1>1, <2>2, <4>1 DEF Registered, PicturesAreOwned
    <3>2. CASE s = t /\ url # Absent
      <4>1. tenant'[s].logo = url /\ url # Nil
        BY <1>2, <2>2, <3>2, NilAssumption DEF Given
      <4> QED
        BY <1>p, <2>2, <3>2, <4>1
    <3> QED
      BY <3>1, <3>2
  <2> QED
    BY <1>1, <1>p, <2>1, <2>2 DEF Registered, PicturesAreOwned
<1>8. Registered'
  BY <1>1, <1>3, <1>5, <1>6, <1>7, <1>p DEF Registered, UsersHaveBeen
<1>9. Requesting'
  <2>1. request'[q] = Idle => (Typical(request[q]))' /\ (Owned(request[q]))' /\ (Free(request[q], since[q]))'
    BY IdleFits, NilAssumption DEF Typical, Owned, Free, Idle
  <2>2. request' = [request EXCEPT ![q] = Idle]
    BY DEF Finish
  <2>3. \A p \in Requests :
           since'[p] = IF p = q \/ request[p].pc = "idle" THEN {} ELSE since[p] \cup {t}
    BY DEF Written, Running
  <2>4. since' \in [Requests -> SUBSET Tenants]
    BY <1>1 DEF Written, Requesting
  <2>5. \A p \in Requests \ {q} :
              /\ request[p].pc = "idle" => since'[p] = {}
              /\ request[p].pc # "idle" => since[p] \subseteq since'[p]
              /\ request[p].pc # "idle" =>
                    \A s \in Tenants : tenant'[s].email = tenant[s].email \/ s \in since'[p]
    BY <1>2, <2>3
  <2>6. since'[q] = {}
    BY <2>3
  <2> QED
    BY <1>1, <1>4, <2>1, <2>2, <2>4, <2>5, <2>6, IdleFits, RequestingStep
<1> QED
  BY <1>8, <1>9, Together

-----------------------------------------------------------------------------
(* Registration and changes.                                               *)
LEMMA CreateStep ==
    ASSUME IInv, NEW q \in Requests, NEW email \in Emails, NEW key \in Keys \cup {Nil},
           NEW logo \in Brought \cup {Nil},
           CreateOrganization(q, email, key, logo) \/ (key # Nil /\ CreateComplex(q, email, key, logo))
    PROVE  IInv'
<1>1. Registered /\ Requesting
  BY IInvParts
<1>2. /\ email # Absent /\ email # Nil /\ key # Absent /\ logo # Absent
      /\ logo \in Url \cup {Nil} /\ (logo \in Files => bucket[logo] # Nil)
  BY NilAssumption, TablesAssumption DEF Brought, Url
<1>3. ASSUME NEW table \in {Organizations, Complexes}, NEW checks \in SUBSET {"email", "key"}
      PROVE  LET n == Registration(table, email, key, logo, checks)
             IN  /\ n \in RequestState /\ n.pc = "insert" /\ n.table = table /\ n.tenant = Nil
                 /\ n.email = email /\ n.key = key /\ n.logo = logo /\ n.checks = checks
  BY <1>2 DEF Registration, Idle, RequestState
<1>4. CASE CreateOrganization(q, email, key, logo)
  <2> DEFINE n == Registration(Organizations, email, key, logo, {})
  <2>1. /\ n \in RequestState /\ n.pc = "insert" /\ n.table = Organizations /\ n.tenant = Nil
        /\ n.email = email /\ n.key = key /\ n.logo = logo /\ n.checks = {}
    BY <1>3
  <2>2. /\ request' = [request EXCEPT ![q] = n]
        /\ UNCHANGED <<tenant, user, bucket, since, crossed, been, pasted>>
        /\ \A o \in Organizations : tenant[o].email # Nil => tenant[o].email # email
    BY <1>4 DEF CreateOrganization, Start, Exists
  <2>3. Organizations # {} /\ Organizations # Complexes
    BY TablesAssumption
  <2> HIDE DEF n
  <2>4. Free(n, since[q])
    BY <1>2, <2>1, <2>2 DEF Free
  <2>5. Owned(n)
    BY <1>2, <2>1 DEF Owned
  <2>6. Typical(n)
    BY <1>2, <2>1, <2>3 DEF Typical
  <2> QED
    BY <2>1, <2>2, <2>4, <2>5, <2>6, LocalStep
<1>5. CASE key # Nil /\ CreateComplex(q, email, key, logo)
  <2> DEFINE n == Registration(Complexes, email, key, logo, {"key", "email"})
  <2>1. /\ n \in RequestState /\ n.pc = "insert" /\ n.table = Complexes /\ n.tenant = Nil
        /\ n.email = email /\ n.key = key /\ n.logo = logo /\ n.checks = {"key", "email"}
    BY <1>3
  <2>2. /\ request' = [request EXCEPT ![q] = n]
        /\ UNCHANGED <<tenant, user, bucket, since, crossed, been, pasted>>
    BY <1>5 DEF CreateComplex, Start
  <2> HIDE DEF n
  <2>3. Complexes # {}
    BY TablesAssumption
  <2>4. Typical(n) /\ Owned(n) /\ Free(n, since[q])
    BY <1>2, <1>5, <2>1, <2>3 DEF Typical, Owned, Free
  <2> QED
    BY <2>1, <2>2, <2>4, LocalStep
<1> QED
  BY <1>4, <1>5

LEMMA InsertTenantStep ==
    ASSUME IInv, NEW q \in Requests, NEW t \in Tenants, InsertTenant(q, t)
    PROVE  IInv'
<1> DEFINE p == request[q]
           new == [email |-> p.email, key |-> p.key, logo |-> p.logo, status |-> 1]
<1>1. Registered /\ Requesting
  BY IInvParts
<1>2. /\ p \in RequestState /\ Typical(p) /\ Free(p, since[q]) /\ p.pc = "insert" /\ p.checks = {}
      /\ p.tenant = Nil /\ t \in p.table /\ p.email \in Emails /\ p.key \in Keys \cup {Nil}
      /\ p.logo \in Url \cup {Nil} /\ p.logo # Absent /\ (p.logo \in Files => bucket[p.logo] # Nil)
      /\ (p.table = Complexes => p.key # Nil)
      /\ p.table \in {Organizations, Complexes}
  BY <1>1 DEF InsertTenant, Running, Requesting, Typical, Owned, RequestState
<1>3. p.table = Table(t)
  BY <1>2, Tables
<1>4. /\ new \in TenantRow /\ new.email = p.email /\ new.key = p.key /\ new.logo = p.logo
      /\ p.email # Nil /\ p.logo = Given(p.logo, tenant[t].logo)
  BY <1>2, NilAssumption DEF TenantRow, Given
<1>5. t \in Complexes => p.key # Nil
  BY <1>2, <1>3, Tables
<1>6. ASSUME NEW s \in Tenants \ {t}, Table(s) = Table(t), tenant[s].email = p.email
      PROVE  s \in since[q]
  <2>1. s \in p.table \ {p.tenant} /\ p.email # Absent
    BY <1>2, <1>3, <1>6, Tables, NilAssumption DEF Tenants
  <2>2. {s, p.tenant} \notin crossed
    BY <1>1, <1>2, Tables DEF Registered
  <2> QED
    BY <1>2, <1>6, <2>1, <2>2 DEF Free
<1>7. /\ tenant' = [tenant EXCEPT ![t] = new] /\ Written(q, t) /\ Finish(q)
      /\ Pasted(t, p.logo) /\ UNCHANGED <<user, bucket, been>>
  BY DEF InsertTenant
<1> HIDE DEF new
<1> QED
  BY <1>2, <1>4, <1>5, <1>6, <1>7, WrittenStep

LEMMA UpdateStep ==
    ASSUME IInv, NEW q \in Requests, NEW t \in Tenants, NEW email \in Emails \cup {Absent},
           NEW key \in Keys \cup {Absent, Nil}, NEW logo \in Brought \cup {Absent},
           t \in Complexes => key # Nil,
           Update(q, t, email, key, logo)
    PROVE  IInv'
<1> DEFINE n == [Idle EXCEPT !.pc = "update", !.table = Table(t), !.tenant = t, !.email = email,
                             !.key = key, !.logo = logo, !.checks = Changes(t, email, key)]
<1>1. Registered /\ Requesting
  BY IInvParts
<1>2. /\ Table(t) \in {Organizations, Complexes} /\ Changes(t, email, key) \subseteq {"email", "key"}
      /\ logo \in Url \cup {Absent} /\ (logo \in Files => bucket[logo] # Nil)
  BY NilAssumption, TablesAssumption DEF Table, Changes, Brought, Url
<1>3. /\ n \in RequestState /\ n.pc = "update" /\ n.table = Table(t) /\ n.tenant = t
      /\ n.email = email /\ n.key = key /\ n.logo = logo /\ n.checks = Changes(t, email, key)
  BY <1>2 DEF Idle, RequestState
<1>4. /\ tenant[t].status = 1 /\ request' = [request EXCEPT ![q] = n]
      /\ UNCHANGED <<tenant, user, bucket, since, crossed, been, pasted>>
  BY DEF Update, Start
<1>5. Exists(t)
  BY <1>1, <1>4 DEF Registered, TablesOK, NoTenant
<1>6. /\ "email" \in Changes(t, email, key) => email # Absent
      /\ email # Absent /\ "email" \notin Changes(t, email, key) => email = tenant[t].email
  BY DEF Changes
<1> HIDE DEF n
<1>7. Typical(n) /\ Owned(n)
  BY <1>2, <1>3, <1>5, <1>6, Tables DEF Typical, Owned
<1>8. Free(n, since[q])
  <2> SUFFICES ASSUME email # Absent, "email" \notin Changes(t, email, key),
                      NEW s \in Table(t) \ {t}, tenant[s].email = email
               PROVE  {s, t} \in crossed
    BY <1>3 DEF Free
  <2>1. s \in Tenants /\ Table(s) = Table(t)
    BY <1>2, Tables
  <2>2. tenant[s].email = tenant[t].email /\ Exists(s)
    BY <1>5, <1>6 DEF Exists
  <2> QED
    BY <1>1, <2>1, <2>2 DEF Registered, EmailsAreExplained
<1> QED
  BY <1>3, <1>4, <1>7, <1>8, LocalStep

LEMMA CheckStep ==
    ASSUME IInv, NEW q \in Requests, CheckEmail(q) \/ CheckKey(q)
    PROVE  IInv'
<1> DEFINE p == request[q]
           Without(col) == [p EXCEPT !.checks = p.checks \ {col}]
<1>1. Registered /\ Requesting
  BY IInvParts
<1>2. p \in RequestState /\ Typical(p) /\ Owned(p) /\ Free(p, since[q])
  BY <1>1 DEF Requesting
<1>3. ASSUME NEW col, NEW n, n = Without(col)
      PROVE  /\ n \in RequestState /\ n.checks = p.checks \ {col}
             /\ n.pc = p.pc /\ n.table = p.table /\ n.tenant = p.tenant /\ n.email = p.email
             /\ n.key = p.key /\ n.logo = p.logo /\ n.user = p.user /\ n.file = p.file
  BY <1>2, <1>3 DEF RequestState
<1>4. ASSUME NEW col, NEW n, n = Without(col), p.pc # "idle", Checked(q, col), Free(n, since[q]),
             UNCHANGED <<tenant, user, bucket, since, crossed, been, pasted>>
      PROVE  IInv'
  <2>1. /\ n \in RequestState /\ n.checks = p.checks \ {col}
        /\ n.pc = p.pc /\ n.table = p.table /\ n.tenant = p.tenant /\ n.email = p.email
        /\ n.key = p.key /\ n.logo = p.logo /\ n.user = p.user /\ n.file = p.file
    BY <1>3, <1>4
  <2>2. Typical(n)
    BY <1>2, <2>1 DEF Typical
  <2>3. Owned(n)
    BY <1>2, <2>1 DEF Owned
  <2>4. request' = [request EXCEPT ![q] = n]
    BY <1>4 DEF Checked
  <2> QED
    BY <1>4, <2>1, <2>2, <2>3, <2>4, LocalStep
<1>5. CASE CheckEmail(q)
  <2>1. PICK n : n = Without("email")
    OBVIOUS
  <2>2. /\ n.pc = p.pc /\ n.table = p.table /\ n.tenant = p.tenant /\ n.email = p.email
    BY <1>3, <2>1
  <2>3. /\ "email" \in p.checks /\ p.pc \in {"insert", "update"} /\ p.email # Absent /\ p.email # Nil
        /\ ~ EmailTaken(p.tenant, p.table, p.email) /\ Checked(q, "email")
        /\ UNCHANGED <<tenant, user, bucket, since, crossed, been, pasted>>
    BY <1>2, <1>5, NilAssumption DEF CheckEmail, Typical, RequestState
  <2>4. ASSUME NEW s \in p.table \ {p.tenant}, tenant[s].email = p.email
        PROVE  {s, p.tenant} \in crossed
    <3>1. p.tenant # Nil /\ tenant[p.tenant].email = p.email
      BY <2>3, <2>4 DEF EmailTaken
    <3>2. p.pc = "update" /\ p.table = Table(p.tenant) /\ p.tenant \in Tenants
      BY <1>2, <2>3, <3>1 DEF Typical, RequestState
    <3>3. s \in Tenants /\ Table(s) = Table(p.tenant)
      BY <2>4, <3>2, Tables DEF Table
    <3> QED
      BY <1>1, <2>3, <2>4, <3>1, <3>2, <3>3 DEF Registered, EmailsAreExplained, Exists
  <2>5. Free(n, since[q])
    BY <2>2, <2>4 DEF Free
  <2>6. p.pc # "idle"
    BY <2>3
  <2> HIDE DEF Without
  <2> QED
    BY <1>4, <2>1, <2>3, <2>5, <2>6
<1>6. CASE CheckKey(q)
  <2>1. PICK n : n = Without("key")
    OBVIOUS
  <2>2. /\ n.pc = p.pc /\ n.table = p.table /\ n.tenant = p.tenant /\ n.email = p.email
        /\ n.checks = p.checks \ {"key"}
    BY <1>3, <2>1
  <2>3. /\ p.pc # "idle" /\ Checked(q, "key")
        /\ UNCHANGED <<tenant, user, bucket, since, crossed, been, pasted>>
    BY <1>2, <1>6 DEF CheckKey, Typical
  <2>4. Free(n, since[q])
    BY <1>2, <2>2 DEF Free
  <2> HIDE DEF Without
  <2> QED
    BY <1>4, <2>1, <2>3, <2>4
<1> QED
  BY <1>5, <1>6

LEMMA WriteTenantStep ==
    ASSUME IInv, NEW q \in Requests, WriteTenant(q)
    PROVE  IInv'
<1> DEFINE p == request[q]
           t == p.tenant
           new == [tenant[t] EXCEPT !.email = Given(p.email, tenant[t].email),
                                    !.key = Given(p.key, tenant[t].key),
                                    !.logo = Given(p.logo, tenant[t].logo)]
<1>1. Registered /\ Requesting
  BY IInvParts
<1>2. /\ p \in RequestState /\ Free(p, since[q]) /\ p.pc = "update" /\ p.checks = {}
      /\ t \in Tenants /\ Exists(t) /\ p.table = Table(t) /\ (t \in Complexes => p.key # Nil)
      /\ (p.logo \in Files => bucket[p.logo] # Nil)
  BY <1>1 DEF WriteTenant, Running, Requesting, Typical, Owned, RequestState
<1>3. tenant[t] \in TenantRow /\ (t \in Complexes => tenant[t].key # Nil)
  BY <1>1, <1>2 DEF Registered, TablesOK
<1>4. /\ new.email = Given(p.email, tenant[t].email) /\ new.key = Given(p.key, tenant[t].key)
      /\ new.logo = Given(p.logo, tenant[t].logo) /\ new \in TenantRow
  BY <1>2, <1>3 DEF TenantRow, RequestState, Given
<1>5. /\ new.email # Nil
      /\ t \in Complexes => new.key # Nil
  BY <1>2, <1>3, <1>4, NilAssumption DEF RequestState, Given, Exists
<1>6. ASSUME NEW s \in Tenants \ {t}, Table(s) = Table(t), tenant[s].email = new.email
      PROVE  s \in since[q] \/ {s, t} \in crossed
  <2>1. CASE p.email = Absent
    BY <1>1, <1>2, <1>4, <1>5, <1>6, <2>1 DEF Registered, EmailsAreExplained, Exists, Given
  <2>2. CASE p.email # Absent
    <3>1. s \in p.table \ {t}
      BY <1>2, <1>6, Tables DEF Tenants
    <3> QED
      BY <1>2, <1>4, <1>6, <2>2, <3>1 DEF Free, Given
  <2> QED
    BY <2>1, <2>2
<1>7. /\ tenant' = [tenant EXCEPT ![t] = new] /\ Written(q, t) /\ Finish(q)
      /\ Pasted(t, p.logo) /\ UNCHANGED <<user, bucket, been>>
  BY <1>1, <1>2, <1>3 DEF WriteTenant, Registered, TablesOK, TenantRow
<1>8. t \in Tenants /\ (p.logo \in Files => bucket[p.logo] # Nil)
  BY <1>2
<1> HIDE DEF new
<1> QED
  BY <1>4, <1>5, <1>6, <1>7, <1>8, WrittenStep

LEMMA DeactivateStep ==
    ASSUME IInv, NEW q \in Requests, NEW t \in Tenants, Deactivate(q, t)
    PROVE  IInv'
<1> DEFINE new == [tenant[t] EXCEPT !.status = 0]
<1>1. Registered /\ Requesting
  BY IInvParts
<1>2. /\ tenant' = [tenant EXCEPT ![t] = new] /\ Exists(t)
      /\ UNCHANGED <<user, bucket, request, since, crossed, been, pasted>>
  BY DEF Deactivate
<1>3. tenant[t] \in TenantRow
  BY <1>1 DEF Registered, TablesOK
<1>4. /\ new \in TenantRow /\ new.email = tenant[t].email /\ new.key = tenant[t].key
      /\ new.logo = tenant[t].logo
  BY <1>3 DEF TenantRow
<1>5. \A s \in Tenants : /\ tenant'[s] = IF s = t THEN new ELSE tenant[s]
                         /\ tenant'[s].email = tenant[s].email
                         /\ tenant'[s].logo = tenant[s].logo
  BY <1>1, <1>2, <1>4 DEF Registered, TablesOK
<1>6. TablesOK'
  BY <1>1, <1>2, <1>4, <1>5 DEF Registered, TablesOK, Exists, There
<1>7. EmailsAreExplained'
  BY <1>1, <1>2, <1>5 DEF Registered, EmailsAreExplained, Exists
<1>8. PicturesAreOwned'
  BY <1>1, <1>2, <1>5 DEF Registered, PicturesAreOwned
<1>9. Registered'
  BY <1>1, <1>2, <1>6, <1>7, <1>8 DEF Registered, UsersHaveBeen
<1>10. Kept
  BY <1>2, <1>5 DEF Kept, Exists
<1>11. Requesting'
  BY <1>1, <1>2, <1>5, <1>10, RequestGoesOn DEF Requesting
<1> QED
  BY <1>9, <1>11, Together

-----------------------------------------------------------------------------
(* Pictures and users.                                                     *)
LEMMA UploadLogoStep ==
    ASSUME IInv, NEW q \in Requests, NEW t \in Tenants, NEW f \in Files, UploadLogo(q, t, f)
    PROVE  IInv'
<1> DEFINE n == [Idle EXCEPT !.pc = "logo", !.table = Table(t), !.tenant = t, !.file = f]
<1>1. Exists(t)
  BY IInvParts DEF UploadLogo, Registered, TablesOK, NoTenant
<1>2. /\ n \in RequestState /\ n.pc = "logo" /\ n.tenant = t /\ n.file = f /\ n.checks = {}
      /\ n.logo = Absent
  BY DEF Idle, RequestState, Table
<1>3. Stored(f, t, Nil) /\ request' = [request EXCEPT ![q] = n]
      /\ UNCHANGED <<tenant, user, since, crossed, been, pasted>>
  BY DEF UploadLogo, Start
<1> HIDE DEF n
<1>4. Typical(n)
  BY <1>1, <1>2, Tables, NilAssumption DEF Typical
<1> QED
  BY <1>2, <1>3, <1>4, UploadStep

LEMMA UploadAvatarStep ==
    ASSUME IInv, NEW q \in Requests, NEW u \in Users, NEW f \in Files,
           NEW scope \in SUBSET (Complexes \cup {Nil}),
           UploadOwnAvatar(q, u, f) \/ UploadAvatar(q, scope, u, f)
    PROVE  IInv'
<1>1. CASE UploadOwnAvatar(q, u, f)
  <2> DEFINE n == [Idle EXCEPT !.pc = "image", !.user = u, !.file = f]
  <2>1. /\ n \in RequestState /\ n.pc = "image" /\ n.user = u /\ n.file = f /\ n.checks = {}
        /\ n.logo = Absent
    BY DEF Idle, RequestState
  <2>2. Stored(f, u, Nil) /\ request' = [request EXCEPT ![q] = n]
        /\ UNCHANGED <<tenant, user, since, crossed, been, pasted>>
    BY <1>1 DEF UploadOwnAvatar, Start
  <2> HIDE DEF n
  <2>3. Typical(n)
    BY <2>1, NilAssumption DEF Typical
  <2> QED
    BY <2>1, <2>2, <2>3, UploadStep
<1>2. CASE UploadAvatar(q, scope, u, f)
  <2> DEFINE n == [Idle EXCEPT !.pc = "avatar", !.user = u, !.file = f, !.scope = scope]
             c == user[u].complex
  <2>1. /\ n \in RequestState /\ n.pc = "avatar" /\ n.user = u /\ n.file = f /\ n.checks = {}
        /\ n.logo = Absent
    BY DEF Idle, RequestState
  <2>2. Stored(f, u, c) /\ request' = [request EXCEPT ![q] = n]
        /\ UNCHANGED <<tenant, user, since, crossed, been, pasted>>
    BY <1>2 DEF UploadAvatar, Start
  <2>3. c \in Complexes \cup {Nil} /\ c \in been[u] \cup {Nil}
    BY <1>2, IInvParts DEF UploadAvatar, Registered, UsersHaveBeen
  <2> HIDE DEF n
  <2>4. Typical(n)
    BY <2>1, NilAssumption DEF Typical
  <2> QED
    BY <2>1, <2>2, <2>3, <2>4, UploadStep
<1> QED
  BY <1>1, <1>2

LEMMA UpdateProfileImageStep ==
    ASSUME IInv, NEW q \in Requests, UpdateProfileImage(q)
    PROVE  IInv'
<1> DEFINE p == request[q]
           n == [p EXCEPT !.pc = "image", !.scope = {}]
<1>1. Registered /\ Requesting
  BY IInvParts
<1>2. p \in RequestState /\ Typical(p) /\ Owned(p) /\ p.pc = "avatar"
  BY <1>1 DEF UpdateProfileImage, Running, Requesting
<1>3. /\ n \in RequestState /\ n.pc = "image" /\ n.user = p.user /\ n.file = p.file
      /\ n.checks = p.checks /\ n.logo = p.logo
  BY <1>2 DEF RequestState
<1>4. request' = [request EXCEPT ![q] = n] /\ UNCHANGED <<tenant, user, bucket, since, crossed, been, pasted>>
  BY <1>1, <1>2 DEF UpdateProfileImage, Requesting, RequestState
<1> HIDE DEF n
<1>5. Typical(n)
  BY <1>2, <1>3 DEF Typical
<1>6. Owned(n) /\ Free(n, since[q])
  BY <1>2, <1>3 DEF Owned, Free
<1> QED
  BY <1>3, <1>4, <1>5, <1>6, LocalStep

LEMMA SaveLogoStep ==
    ASSUME IInv, NEW q \in Requests, SaveLogo(q)
    PROVE  IInv'
<1> DEFINE p == request[q]
           t == p.tenant
           new == [tenant[t] EXCEPT !.logo = p.file]
<1>1. Registered /\ Requesting
  BY IInvParts
<1>2. /\ t \in Tenants /\ Exists(t) /\ p.file \in Files
      /\ bucket[p.file] = [owner |-> t, complex |-> Nil]
  BY <1>1 DEF SaveLogo, Running, Requesting, Typical, RequestState, Owned
<1>3. tenant[t] \in TenantRow
  BY <1>1, <1>2 DEF Registered, TablesOK
<1>4. /\ new \in TenantRow /\ new.email = tenant[t].email /\ new.key = tenant[t].key
      /\ new.logo = p.file
  <2>1. p.file \in Url
    BY <1>2 DEF Url
  <2> QED
    BY <1>3, <2>1 DEF TenantRow
<1>5. /\ tenant' = [tenant EXCEPT ![t] = new] /\ since' = [since EXCEPT ![q] = {}] /\ Finish(q)
      /\ pasted' = pasted \ {t} /\ UNCHANGED <<user, bucket, crossed, been>>
  BY DEF SaveLogo
<1>6. \A s \in Tenants : /\ tenant'[s] = IF s = t THEN new ELSE tenant[s]
                         /\ tenant'[s].email = tenant[s].email
  BY <1>1, <1>4, <1>5 DEF Registered, TablesOK
<1>7. TablesOK'
  BY <1>1, <1>2, <1>4, <1>5, <1>6 DEF Registered, TablesOK, Exists, There
<1>8. EmailsAreExplained'
  BY <1>1, <1>5, <1>6 DEF Registered, EmailsAreExplained, Exists
<1>9. PicturesAreOwned'
  <2>1. \A u \in Users : u # t
    BY <1>2, TablesAssumption
  <2>2. [owner |-> t, complex |-> Nil] # Nil
    BY <1>2, Pictured
  <2>3. ASSUME NEW s \in Tenants, tenant'[s].logo \in Files
        PROVE  /\ bucket[tenant'[s].logo] # Nil
               /\ s \notin pasted' => bucket[tenant'[s].logo] = [owner |-> s, complex |-> Nil]
    <3>1. CASE s = t
      BY <1>2, <1>4, <1>6, <2>2, <3>1
    <3>2. CASE s # t
      BY <1>1, <1>5, <1>6, <2>3, <3>2 DEF Registered, PicturesAreOwned
    <3> QED
      BY <3>1, <3>2
  <2> QED
    BY <1>1, <1>5, <2>1, <2>3 DEF Registered, PicturesAreOwned
<1>10. Registered'
  BY <1>1, <1>5, <1>7, <1>8, <1>9 DEF Registered, UsersHaveBeen
<1>11. Kept
  BY <1>5, <1>6 DEF Kept, Exists
<1>12. Requesting'
  BY <1>1, <1>5, <1>6, <1>11, Ends
<1> QED
  BY <1>10, <1>12, Together

LEMMA SaveImageStep ==
    ASSUME IInv, NEW q \in Requests, SaveImage(q)
    PROVE  IInv'
<1> DEFINE p == request[q]
           u == p.user
           new == [user[u] EXCEPT !.image = p.file]
<1>1. Registered /\ Requesting
  BY IInvParts
<1>2. /\ u \in Users /\ p.file \in Files
      /\ \E c \in been[u] \cup {Nil} : bucket[p.file] = [owner |-> u, complex |-> c]
  BY <1>1 DEF SaveImage, Running, Requesting, Typical, RequestState, Owned
<1>3. user[u] \in UserRow
  BY <1>1, <1>2 DEF Registered, TablesOK
<1>4. new \in UserRow /\ new.complex = user[u].complex /\ new.image = p.file
      /\ new.row = user[u].row
  BY <1>2, <1>3 DEF UserRow, Url
<1>5. /\ user' = [user EXCEPT ![u] = new] /\ since' = [since EXCEPT ![q] = {}] /\ Finish(q)
      /\ pasted' = pasted \ {u} /\ There(u) /\ UNCHANGED <<tenant, bucket, crossed, been>>
  BY DEF SaveImage
<1>6. \A v \in Users : user'[v] = IF v = u THEN new ELSE user[v]
  BY <1>1, <1>5 DEF Registered, TablesOK
<1>7. TablesOK' /\ EmailsAreExplained'
  BY <1>1, <1>4, <1>5, <1>6 DEF Registered, TablesOK, EmailsAreExplained, Exists, There
<1>8. PicturesAreOwned' /\ UsersHaveBeen'
  <2>1. \A v \in Users \ {u} : user'[v] = user[v]
    BY <1>6
  <2>2. user'[u].image = p.file /\ user'[u].complex = user[u].complex
    BY <1>2, <1>4, <1>6
  <2>3. UsersHaveBeen'
    BY <1>1, <1>5, <2>1, <2>2 DEF Registered, UsersHaveBeen
  <2>4. PicturesAreOwned'
    <3>1. \A t \in Tenants : t # u
      BY <1>2, TablesAssumption
    <3>2. bucket[p.file] # Nil
      BY <1>1, <1>2, Pictured DEF Registered
    <3>3. ASSUME NEW v \in Users, user'[v].image \in Files
          PROVE  /\ bucket[user'[v].image] # Nil
                 /\ v \notin pasted' =>
                       \E c \in been[v] \cup {Nil} : bucket[user'[v].image] = [owner |-> v, complex |-> c]
      <4>1. CASE v = u
        BY <1>2, <2>2, <3>2, <4>1
      <4>2. CASE v # u
        BY <1>1, <1>5, <2>1, <3>3, <4>2 DEF Registered, PicturesAreOwned
      <4> QED
        BY <4>1, <4>2
    <3> QED
      BY <1>1, <1>5, <3>1, <3>3 DEF Registered, PicturesAreOwned
  <2> QED
    BY <2>3, <2>4
<1>9. Registered'
  BY <1>1, <1>5, <1>7, <1>8 DEF Registered
<1>10. Kept
  BY <1>5 DEF Kept, Exists
<1>11. Requesting'
  BY <1>1, <1>5, <1>10, Ends
<1> QED
  BY <1>9, <1>11, Together

LEMMA AbortStep ==
    ASSUME IInv, NEW q \in Requests, Abort(q)
    PROVE  IInv'
<1>1. Registered /\ Requesting
  BY IInvParts
<1>2. UNCHANGED <<tenant, user, bucket, crossed, been, pasted>> /\ Finish(q)
      /\ since' = [since EXCEPT ![q] = {}]
  BY DEF Abort
<1>3. Kept /\ bucket' \in [Files -> Folder \cup {Nil}]
  BY <1>1, <1>2 DEF Kept, Exists, Registered, TablesOK
<1>4. Registered'
  BY <1>1, <1>2, <1>3, RegisteredStays
<1>5. Requesting'
  BY <1>1, <1>2, <1>3, Ends
<1> QED
  BY <1>4, <1>5, Together

\* What no request does.
LEMMA NoRequestStep ==
    ASSUME IInv, Kept, Registered', UNCHANGED <<tenant, request, since, crossed>>
    PROVE  IInv'
<1>1. Registered /\ Requesting
  BY IInvParts
<1>2. \A p \in Requests : (Typical(request[p]))' /\ (Owned(request[p]))' /\ (Free(request[p], since[p]))'
  BY <1>1, RequestGoesOn
<1>3. Requesting'
  BY <1>1, <1>2 DEF Requesting
<1> QED
  BY <1>3, Together

LEMMA UploadFileStep ==
    ASSUME IInv, NEW c \in Complexes, NEW f \in Files, Upload(c, f)
    PROVE  IInv'
<1>1. Registered /\ Requesting
  BY IInvParts
<1>2. [owner |-> Nil, complex |-> c] \in Folder
  BY DEF Folder
<1>3. Kept /\ bucket' \in [Files -> Folder \cup {Nil}]
  BY <1>1, <1>2 DEF Upload, Stored, Kept, Exists, Registered, TablesOK
<1>4. Registered'
  BY <1>1, <1>3, RegisteredStays DEF Upload
<1> QED
  BY <1>3, <1>4, NoRequestStep DEF Upload

\* The row of a user is written, with what a dto brings as its picture.
LEMMA UserWritten ==
    ASSUME IInv, NEW u \in Users, NEW new \in UserRow, NEW url,
           user' = [user EXCEPT ![u] = new], Pasted(u, url),
           new.row # "there" => new.complex = Nil /\ new.image = Nil,
           new.image = Given(url, user[u].image), url \in Files => bucket[url] # Nil,
           been' \in [Users -> SUBSET Complexes],
           \A v \in Users : been[v] \subseteq been'[v],
           new.complex \in been'[u] \cup {Nil},
           UNCHANGED <<tenant, bucket, request, since, crossed>>
    PROVE  IInv'
<1>1. Registered
  BY IInvParts
<1>2. \A v \in Users : user'[v] = IF v = u THEN new ELSE user[v]
  BY <1>1 DEF Registered, TablesOK
<1>3. Kept
  BY DEF Kept, Exists
<1>4. TablesOK' /\ EmailsAreExplained'
  BY <1>1, <1>2 DEF Registered, TablesOK, EmailsAreExplained, Exists, There
<1>5. UsersHaveBeen'
  BY <1>1, <1>2 DEF Registered, UsersHaveBeen
<1>6. /\ pasted' \subseteq Tenants \cup Users
      /\ \A s : s # u => (s \in pasted' <=> s \in pasted)
      /\ url = Absent => pasted' = pasted
      /\ url \notin {Absent, Nil} => u \in pasted'
  BY <1>1, PastedStep
<1>7. PicturesAreOwned'
  <2>1. \A t \in Tenants : t # u
    BY TablesAssumption
  <2>2. ASSUME NEW v \in Users, user'[v].image \in Files
        PROVE  /\ bucket[user'[v].image] # Nil
               /\ v \notin pasted' =>
                     \E c \in been'[v] \cup {Nil} : bucket[user'[v].image] = [owner |-> v, complex |-> c]
    <3>1. CASE v # u \/ url = Absent
      <4>1. user'[v].image = user[v].image /\ (v \in pasted' <=> v \in pasted)
        BY <1>2, <1>6, <3>1 DEF Given
      <4> QED
        BY <1>1, <2>2, <4>1 DEF Registered, PicturesAreOwned
    <3>2. CASE v = u /\ url # Absent
      <4>1. user'[v].image = url /\ url # Nil
        BY <1>2, <2>2, <3>2, NilAssumption DEF Given
      <4> QED
        BY <1>6, <2>2, <3>2, <4>1
    <3> QED
      BY <3>1, <3>2
  <2> QED
    BY <1>1, <1>6, <2>1, <2>2 DEF Registered, PicturesAreOwned
<1>8. Registered'
  BY <1>1, <1>4, <1>5, <1>6, <1>7 DEF Registered
<1> QED
  BY <1>3, <1>8, NoRequestStep

LEMMA PlaceStep ==
    ASSUME IInv, NEW u \in Users, Place(u)
    PROVE  IInv'
<1>1. Registered
  BY IInvParts
<1>2. user[u] \in UserRow /\ been[u] \subseteq Complexes
  BY <1>1 DEF Registered, TablesOK
<1>3. \A image \in Brought \cup {Absent, Nil} :
         (image = Absent \/ image \in Url \cup {Nil}) /\ (image \in Files => bucket[image] # Nil)
  BY NilAssumption, TablesAssumption DEF Brought, Url
<1>4. ASSUME NEW c \in Complexes \cup {Nil}, NEW image \in Brought \cup {Nil}, InviteUser(u, c, image)
      PROVE  IInv'
  <2> DEFINE new == [row |-> "there", complex |-> c, image |-> image]
  <2>1. image # Absent /\ image \in Url \cup {Nil}
    BY <1>3, NilAssumption DEF Brought, Url
  <2>2. /\ new \in UserRow /\ new.row = "there" /\ new.complex = c /\ new.image = image
        /\ image = Given(image, user[u].image)
    BY <2>1 DEF UserRow, Given
  <2>3. /\ user' = [user EXCEPT ![u] = new] /\ Pasted(u, image)
        /\ been' = [been EXCEPT ![u] = @ \cup ({c} \ {Nil})]
        /\ UNCHANGED <<tenant, bucket, request, since, crossed>>
    BY <1>4 DEF InviteUser
  <2>4. /\ been' \in [Users -> SUBSET Complexes] /\ c \in been'[u] \cup {Nil}
        /\ \A v \in Users : been[v] \subseteq been'[v]
    BY <1>1, <2>3 DEF Registered
  <2> HIDE DEF new
  <2> QED
    BY <1>3, <2>2, <2>3, <2>4, UserWritten
<1>5. ASSUME NEW c \in Complexes \cup {Nil}, NEW image \in Brought \cup {Absent, Nil},
             UpdateUser(u, c, image)
      PROVE  IInv'
  <2> DEFINE new == [user[u] EXCEPT !.complex = c, !.image = Given(image, user[u].image)]
  <2>1. Given(image, user[u].image) \in Url \cup {Nil}
    BY <1>2, <1>3 DEF Given, UserRow
  <2>2. /\ new \in UserRow /\ new.row = user[u].row /\ new.complex = c
        /\ new.image = Given(image, user[u].image)
    BY <1>2, <2>1 DEF UserRow
  <2>3. /\ user' = [user EXCEPT ![u] = new] /\ Pasted(u, image) /\ user[u].row = "there"
        /\ c \in been[u] \cup {Nil} /\ UNCHANGED <<tenant, bucket, request, since, crossed, been>>
    BY <1>1, <1>2, <1>5 DEF UpdateUser, There, Registered, TablesOK, UserRow
  <2>4. been' \in [Users -> SUBSET Complexes] /\ c \in been'[u] \cup {Nil}
        /\ \A v \in Users : been[v] \subseteq been'[v]
    BY <1>1, <2>3 DEF Registered
  <2> HIDE DEF new
  <2> QED
    BY <1>3, <2>2, <2>3, <2>4, UserWritten
<1>6. ASSUME RemoveUser(u) PROVE IInv'
  <2> DEFINE new == [NoUser EXCEPT !.row = "deleted"]
  <2>1. /\ new \in UserRow /\ new.row # "there" /\ new.complex = Nil /\ new.image = Nil
        /\ Nil = Given(Nil, user[u].image) /\ Nil \notin Files
    BY NilAssumption DEF NoUser, UserRow, Given
  <2>2. /\ user' = [user EXCEPT ![u] = new] /\ Pasted(u, Nil)
        /\ UNCHANGED <<tenant, bucket, request, since, crossed, been>>
    BY <1>6 DEF RemoveUser
  <2>3. been' \in [Users -> SUBSET Complexes] /\ \A v \in Users : been[v] \subseteq been'[v]
    BY <1>1, <2>2 DEF Registered
  <2> HIDE DEF new
  <2> QED
    BY <2>1, <2>2, <2>3, UserWritten
<1> QED
  BY <1>4, <1>5, <1>6 DEF Place

-----------------------------------------------------------------------------
LEMMA Step == IInv /\ [Next]_vars => IInv'
<1> SUFFICES ASSUME IInv, [Next]_vars PROVE IInv'
  OBVIOUS
<1>1. ASSUME NEW q \in Requests, Register(q) PROVE IInv'
  <2>1. \A key \in Keys : key \in Keys \cup {Nil} /\ key # Nil
    BY NilAssumption
  <2> QED
    BY <1>1, <2>1, CreateStep, InsertTenantStep DEF Register
<1>2. ASSUME NEW q \in Requests, Change(q) PROVE IInv'
  <2>1. ASSUME NEW o \in Organizations, NEW email \in Emails \cup {Absent},
               NEW key \in Keys \cup {Absent, Nil}, NEW logo \in Brought \cup {Absent},
               UpdateOrganization(q, o, email, key, logo)
        PROVE  IInv'
    BY <2>1, Tables, UpdateStep DEF UpdateOrganization
  <2>2. ASSUME NEW c \in Complexes, NEW email \in Emails \cup {Absent},
               NEW key \in Keys \cup {Absent}, NEW logo \in Brought \cup {Absent},
               UpdateComplex(q, c, email, key, logo)
        PROVE  IInv'
    BY <2>2, Tables, UpdateStep DEF UpdateComplex
  <2> QED
    BY <1>2, <2>1, <2>2, CheckStep, WriteTenantStep, DeactivateStep DEF Change
<1>3. ASSUME NEW q \in Requests, Picture(q) PROVE IInv'
  BY <1>3, UploadLogoStep, SaveLogoStep, UploadAvatarStep, UpdateProfileImageStep, SaveImageStep
     DEF Picture
<1>4. CASE UNCHANGED vars
  <2>1. Registered /\ Requesting
    BY IInvParts
  <2>2. Kept /\ bucket' \in [Files -> Folder \cup {Nil}]
    BY <1>4, <2>1 DEF vars, Kept, Exists, Registered, TablesOK
  <2>3. Registered'
    BY <1>4, <2>1, <2>2, RegisteredStays DEF vars
  <2> QED
    BY <1>4, <2>2, <2>3, NoRequestStep DEF vars
<1> QED
  BY <1>1, <1>2, <1>3, <1>4, AbortStep, UploadFileStep, PlaceStep DEF Next

-----------------------------------------------------------------------------
\* The inductive invariant holds for any number of tenants, users, stored files
\* and overlapping requests.
THEOREM Inductive == Spec => []IInv
BY Initially, Step, PTL DEF Spec

\* Rows of the register hold what their columns must, and requests in flight what
\* their next statement needs.
THEOREM Types == Spec => []TypeOK
BY Inductive, PTL DEF IInv

\* The looks for a duplicate contact e-mail (organizations.service.ts:171,
\* residential-complexes.service.ts:242): a duplicate comes only from an overlap.
THEOREM Addresses == Spec => []EmailsAreExplained
BY Inductive, PTL DEF IInv

\* uploadLogo and uploadAvatar (storage.service.ts:65, users.controller.ts:90): what
\* an upload puts in a row was stored for that row, and only a dto with the url of
\* another picture (organizations.service.ts:191, users.service.ts:267) can make it
\* show one, until the next upload.
THEOREM Pictures == Spec => []PicturesAreOwned
BY Inductive, PTL DEF IInv

-----------------------------------------------------------------------------
(* What a lock would give.  Nothing in the services holds one; suppose a   *)
(* registration or a change held the table (of organizations, or of        *)
(* complexes) from its reads to its write, so that no two of them overlap. *)
TablesLocked ==
    \A p, q \in Requests :
        /\ p # q
        /\ request[p].pc \in {"insert", "update"}
        /\ request[q].pc \in {"insert", "update"}
        => request[p].table # request[q].table

\* Then nothing is written in the table under a request, and no two tenants of
\* one table are written by requests that overlapped.
NothingWasWritten ==
    \A q \in Requests :
        request[q].pc \in {"insert", "update"} => since[q] \cap request[q].table = {}

NoneCrossed ==
    \A s, t \in Tenants : s # t /\ Table(s) = Table(t) => {s, t} \notin crossed

LInv == NothingWasWritten /\ NoneCrossed

EmailsAreUnique ==
    \A s, t \in Tenants :
        s # t /\ Table(s) = Table(t) /\ Exists(s) => tenant[s].email # tenant[t].email

LEMMA LockedWrite ==
    ASSUME IInv, LInv, TablesLocked, NEW q \in Requests, request[q].pc \in {"insert", "update"},
           NEW t \in request[q].table, Written(q, t), Finish(q)
    PROVE  LInv'
<1>1. /\ request \in [Requests -> RequestState]
      /\ since \in [Requests -> SUBSET Tenants]
  BY DEF IInv, TypeOK, RequestsOK
<1>2. \A p \in Requests : request'[p] = IF p = q THEN Idle ELSE request[p]
  BY <1>1 DEF Finish
<1>3. \A p \in Requests : since'[p] \subseteq since[p] \cup {t}
  BY <1>1 DEF Written
<1>4. NothingWasWritten'
  <2> SUFFICES ASSUME NEW p \in Requests, request'[p].pc \in {"insert", "update"}
               PROVE  since'[p] \cap request'[p].table = {}
    BY DEF NothingWasWritten
  <2>1. p # q /\ request'[p] = request[p]
    BY <1>2 DEF Idle
  <2>2. /\ request[p].table \in {{}, Organizations, Complexes}
        /\ request[q].table \in {{}, Organizations, Complexes}
        /\ request[p].table # request[q].table
    BY <1>1, <2>1 DEF RequestState, TablesLocked
  <2>3. t \notin request[p].table
    BY <2>2, TablesAssumption
  <2> QED
    BY <1>3, <2>1, <2>3 DEF LInv, NothingWasWritten
<1>5. NoneCrossed'
  <2> SUFFICES ASSUME NEW x \in Tenants, NEW y \in Tenants, x # y, Table(x) = Table(y),
                      {x, y} \in crossed'
               PROVE  FALSE
    BY DEF NoneCrossed
  <2>1. PICK s \in since[q] \ {t} : {x, y} = {s, t}
    BY DEF Written, LInv, NoneCrossed
  <2>2. s \notin request[q].table /\ s \in Tenants
    BY <1>1 DEF LInv, NothingWasWritten
  <2>3. Table(s) = Table(t)
    BY <2>1
  <2>4. request[q].table \in {Organizations, Complexes}
    BY <1>1 DEF RequestState
  <2> QED
    BY <2>2, <2>3, <2>4, TablesAssumption DEF Table, Tenants
<1> QED
  BY <1>4, <1>5 DEF LInv

LEMMA LockedStarts ==
    ASSUME IInv, LInv, NEW q \in Requests, NEW n, Start(q, n), UNCHANGED <<since, crossed>>
    PROVE  LInv'
<1>1. request \in [Requests -> RequestState]
  BY DEF IInv, TypeOK, RequestsOK
<1>2. \A p \in Requests : p # q => request'[p] = request[p]
  BY <1>1 DEF Start
<1>3. since[q] = {}
  BY DEF IInv, RequestsAreApart, Start
<1> QED
  BY <1>2, <1>3 DEF LInv, NothingWasWritten, NoneCrossed

LEMMA LockedEnds ==
    ASSUME IInv, LInv, NEW q \in Requests, Finish(q), UNCHANGED crossed,
           since' = [since EXCEPT ![q] = {}]
    PROVE  LInv'
<1>1. request \in [Requests -> RequestState] /\ since \in [Requests -> SUBSET Tenants]
  BY DEF IInv, TypeOK, RequestsOK
<1>2. \A p \in Requests : p # q => request'[p] = request[p] /\ since'[p] = since[p]
  BY <1>1 DEF Finish
<1>3. since'[q] = {}
  BY <1>1
<1> QED
  BY <1>2, <1>3 DEF LInv, NothingWasWritten, NoneCrossed

LEMMA LockedGoesOn ==
    ASSUME IInv, LInv, NEW q \in Requests, UNCHANGED <<since, crossed>>,
           \/ CheckEmail(q) \/ CheckKey(q) \/ UpdateProfileImage(q)
    PROVE  LInv'
<1>1. request \in [Requests -> RequestState]
  BY DEF IInv, TypeOK, RequestsOK
<1>2. \A p \in Requests : \/ request'[p].pc \notin {"insert", "update"}
                          \/ /\ request'[p].table = request[p].table
                             /\ request'[p].pc = request[p].pc
  <2>1. CASE CheckEmail(q) \/ CheckKey(q)
    BY <1>1, <2>1 DEF CheckEmail, CheckKey, Checked, RequestState
  <2>2. CASE UpdateProfileImage(q)
    BY <1>1, <2>2 DEF UpdateProfileImage, RequestState
  <2> QED
    BY <2>1, <2>2
<1> QED
  BY <1>2 DEF LInv, NothingWasWritten, NoneCrossed

LEMMA LockedStep == IInv /\ LInv /\ TablesLocked /\ [Next]_vars => LInv'
<1> SUFFICES ASSUME IInv, LInv, TablesLocked, [Next]_vars PROVE LInv'
  OBVIOUS
<1>1. ASSUME NEW q \in Requests, Register(q) PROVE LInv'
  <2>1. ASSUME NEW t \in Tenants, InsertTenant(q, t) PROVE LInv'
    BY <2>1, LockedWrite DEF InsertTenant, Running
  <2> QED
    BY <1>1, <2>1, LockedStarts DEF Register, CreateOrganization, CreateComplex
<1>2. ASSUME NEW q \in Requests, Change(q) PROVE LInv'
  <2>1. ASSUME WriteTenant(q) PROVE LInv'
    <3>1. request[q].pc = "update" /\ request[q].tenant \in Tenants
      BY <2>1 DEF WriteTenant, Running, IInv, TypeOK, RequestsOK, RequestState
    <3>2. request[q].tenant \in request[q].table
      BY <3>1 DEF IInv, RequestsAreApart, Table, Tenants
    <3> QED
      BY <2>1, <3>1, <3>2, LockedWrite DEF WriteTenant
  <2>2. ASSUME NEW t \in Tenants, Deactivate(q, t) PROVE LInv'
    BY <2>2 DEF Deactivate, LInv, NothingWasWritten, NoneCrossed
  <2>3. ASSUME NEW t, NEW email, NEW key, NEW logo, Update(q, t, email, key, logo) PROVE LInv'
    BY <2>3, LockedStarts DEF Update
  <2>4. ASSUME CheckEmail(q) \/ CheckKey(q) PROVE LInv'
    BY <2>4, LockedGoesOn DEF CheckEmail, CheckKey
  <2> QED
    BY <1>2, <2>1, <2>2, <2>3, <2>4 DEF Change, UpdateOrganization, UpdateComplex
<1>3. ASSUME NEW q \in Requests, Picture(q) PROVE LInv'
  <2>1. CASE SaveLogo(q) \/ SaveImage(q)
    BY <2>1, LockedEnds DEF SaveLogo, SaveImage
  <2>2. CASE UpdateProfileImage(q)
    BY <2>2, LockedGoesOn DEF UpdateProfileImage
  <2>3. CASE \/ \E t \in Tenants, f \in Files : UploadLogo(q, t, f)
             \/ \E u \in Users, f \in Files : UploadOwnAvatar(q, u, f)
             \/ \E scope \in SUBSET (Complexes \cup {Nil}), u \in Users, f \in Files :
                   UploadAvatar(q, scope, u, f)
    BY <2>3, LockedStarts DEF UploadLogo, UploadOwnAvatar, UploadAvatar
  <2> QED
    BY <1>3, <2>1, <2>2, <2>3 DEF Picture
<1>4. ASSUME NEW q \in Requests, Abort(q) PROVE LInv'
  BY <1>4, LockedEnds DEF Abort
<1>5. ASSUME \/ \E c \in Complexes, f \in Files : Upload(c, f)
             \/ \E u \in Users : Place(u)
             \/ UNCHANGED vars
      PROVE  LInv'
  BY <1>5 DEF Upload, Place, InviteUser, UpdateUser, RemoveUser, vars, LInv, NothingWasWritten, NoneCrossed
<1> QED
  BY <1>1, <1>2, <1>3, <1>4, <1>5 DEF Next

\* If the registrations and changes of a table excluded each other, the reads
\* before the write (organizations.service.ts:171, residential-complexes.service.ts:242)
\* would keep the contact e-mail as unique as an index: no two rows of a table
\* would ever share one.
THEOREM LockedAddresses == Spec /\ []TablesLocked => []EmailsAreUnique
<1>1. Init => LInv
  BY DEF Init, Idle, LInv, NothingWasWritten, NoneCrossed
<1>2. IInv /\ LInv => EmailsAreUnique
  BY DEF IInv, LInv, NoneCrossed, EmailsAreExplained, EmailsAreUnique
<1> QED
  BY Initially, Step, LockedStep, <1>1, <1>2, PTL DEF Spec

=============================================================================
