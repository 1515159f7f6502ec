SPECIFICATION Spec
CONSTANTS
    Organizations = {o1, o2}
    Complexes = {c1, c2}
    Users = {u1}
    Emails = {m1, m2}
    Keys = {k1, k2}
    Files = {f1, f2}
    Requests = {q1, q2}
    Typed = Typed
    Nil = Nil
    Absent = Absent
SYMMETRY Symmetry
CONSTRAINT Explored
INVARIANTS
    TypeOK
    EmailsAreExplained
    PicturesAreOwned
