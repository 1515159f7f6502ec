---------------------------- MODULE MCResidency ----------------------------
(* Residency on a small instance: two complexes, two apartments, two rows   *)
(* for one user, and two overlapping requests.                              *)
EXTENDS Residency, Naturals, FiniteSets, TLC

CONSTANTS
    FirstApartment,   \* the apartment that is created first, and that changes
    FirstComplex      \* its complex

Symmetry == Permutations(Residents) \cup Permutations(Requests)

Neighbours == Apartments \ {FirstApartment}

Housed == {r \in Residents : resident[r] # NoResident}
Housing == {q \in Requests : request[q].complex # Nil}

\* Bounds of the search.  The first group loses nothing: ids and complexes are
\* interchangeable, and a request for which no id is left would write nothing.
\* The second is real: the other apartment is never changed, and has a tower and
\* the number typed for it; a unit typed for a resident is a number; updates of
\* apartments overlap while there is one apartment and no resident; and from the
\* first resident on, apartments keep their tower and have a number.
Explored ==
    /\ (\E a \in Apartments : apartment[a] # NoApartment) => apartment[FirstApartment] # NoApartment
    /\ apartment[FirstApartment].complex \in {Nil, FirstComplex}
    /\ Cardinality(Housed) + Cardinality(Housing) <= Cardinality(Residents)

    /\ \A a \in Neighbours : apartment[a] # NoApartment =>
          apartment[a].tower # Nil /\ apartment[a].unit \in Numbers /\ apartment[a].status = 1
    /\ \A q \in Requests :
          /\ Running(q, "update") => request[q].apartment = FirstApartment
          /\ Running(q, "insert") /\ request[q].apartment = Nil => request[q].unit \in Numbers
    /\ \A p, q \in Requests : p # q /\ Running(p, "update") /\ Running(q, "update") =>
          Housed = {} /\ \A a \in Neighbours : apartment[a] = NoApartment
    /\ Housed \cup Housing # {} =>
          /\ \A a \in Apartments : apartment[a] # NoApartment =>
                apartment[a].tower # Nil /\ names[a] \subseteq Label
          /\ \A q \in Requests : Running(q, "update") =>
                /\ "tower" \notin request[q].given /\ request[q].unit \in Label
                /\ request[q].status # 1

=============================================================================
