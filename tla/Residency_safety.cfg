SPECIFICATION Spec
CONSTANTS
    Complexes = {c1, c2}
    Users = {u1}
    Towers = {t1}
    Numbers = {n1}
    Apartments = {a1, a2}
    Residents = {r1, r2}
    Requests = {q1, q2}
    Nil = Nil
    Absent = Absent
    Blank = Blank
    Unassigned = Unassigned
    FirstApartment = a1
    FirstComplex = c1
SYMMETRY Symmetry
CONSTRAINT Explored
INVARIANTS
    TypeOK
    DuplicateResidentsAreExplained
    ResidentsFollowApartments
PROPERTIES
    AssignmentsAreCurrent
    UnsentColumnsStay
