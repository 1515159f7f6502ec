---------------------------- MODULE MCMembership ----------------------------
(* Membership on a small instance: the seeded users and one invited later. *)
EXTENDS Membership, TLC

Symmetry == Permutations(Clients)

\* What any action or property still reads of the claims of a token: the place
\* only as far as the role looks at it, and whether its pair was ever true,
\* which it stays.
Power(by) ==
    IF by = Nil THEN Nil
    ELSE [sub |-> IF by.role = "SECURITY" THEN Nil ELSE by.sub,
          role |-> by.role,
          org |-> IF by.role = "ORG_ADMIN" THEN by.at.org ELSE Nil,
          complex |-> IF by.role = "COMPLEX_ADMIN" THEN by.at.complex ELSE Nil,
          paired |-> Paired(by.at)]

LiveData ==
    <<user, organization, complex, [r \in Clients |-> Power(claims[r])], request, history>>

\* Bounds of the search.  Two kinds of state lead nowhere new: a deactivated
\* organization or complex only disables actions, and no property but TypeOK
\* reads status; an update without a role changes nothing.  Two bounds are
\* real: the seeded rows stay as they are, and the invited user goes through all
\* roles and places; complexes other than the seeded one are created and go no
\* further.
Explored ==
    /\ \A o \in Orgs : organization[o] # 0
    /\ complex[HomeComplex].status # 0
    /\ \A c \in Complexes \ {HomeComplex} : complex[c] = NoComplex
    /\ \A r \in Clients :
          /\ request[r].pc = "write" => request[r].role # Nil
          /\ request[r].user \notin {Dev, Admin}

=============================================================================
