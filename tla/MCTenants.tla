----------------------------- MODULE MCTenants -----------------------------
(* Tenants on a small instance: two organizations and two complexes, two    *)
(* e-mails and two keys, one user, and two overlapping requests.            *)
EXTENDS Tenants, TLC

Symmetry == Permutations(Organizations) \cup Permutations(Complexes) \cup Permutations(Emails)
            \cup Permutations(Keys) \cup Permutations(Files) \cup Permutations(Requests)

None(table) == \A t \in table : ~ Exists(t)
Alone(table) == \A s, t \in table : Exists(s) /\ Exists(t) => s = t

\* Requests that may change an e-mail or a key.
Registering(table) ==
    {q \in Requests : request[q].table = table
                      /\ (request[q].email # Absent \/ request[q].key # Absent)}
Typing ==
    \/ pasted \cap Tenants # {}
    \/ \E q \in Requests : request[q].logo \in Url
Logos == \E f \in Files : bucket[f] # Nil /\ bucket[f].owner \in Tenants
Avatars ==
    \/ \E u \in Users : user[u] # NoUser
    \/ \E f \in Files : bucket[f] # Nil /\ bucket[f].owner \notin Tenants

\* Bounds of the search, all of them real.  Complexes come while there is one
\* organization, which is active, and stay active.  A dto brings the url of a logo
\* while there is one organization and at most one complex, which it does not
\* rename.  Users come once both complexes are there, and then tenants do not
\* change and show no picture.  A scope is one complex, or everything.
Explored ==
    /\ \A c \in Complexes : Exists(c) => tenant[c].status = 1
    /\ ~ None(Complexes) \/ Registering(Complexes) # {} =>
          /\ Alone(Organizations) /\ Registering(Organizations) = {}
          /\ Typing => Alone(Complexes) /\ Registering(Complexes) = {}
          /\ \A o \in Organizations : Exists(o) => tenant[o].status = 1
    /\ Typing => Alone(Organizations)
    /\ Logos =>
          /\ Alone(Organizations) /\ Alone(Complexes) /\ ~ Avatars
          /\ Registering(Organizations) \cup Registering(Complexes) = {}
    /\ Avatars =>
          /\ \A c \in Complexes : Exists(c)
          /\ \A o \in Organizations : tenant[o].key = Nil
          /\ Registering(Complexes) = {} /\ crossed = {} /\ ~ Typing
    /\ \A q \in Requests :
          request[q].scope \in {{}, Complexes \cup {Nil}} \cup {{c} : c \in Complexes}

=============================================================================
