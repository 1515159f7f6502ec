SPECIFICATION LiveSpec
CONSTANTS
    Complexes = {c1, c2}
    Users = {u1}
    Rows = {r1, r2}
    Files = {f1}
    Requests = {q1, q2}
    Sockets = {s1}
    Nil = Nil
    FirstRow = r1
    FirstComplex = c1
CONSTRAINT Explored
INVARIANTS
    TypeOK
    SecondExitsAreExplained
    ScreensAreCurrent
    TenantsAreIsolated
    OrphansAreExplained
PROPERTIES
    EventsAreDelivered
    ImplementsNoticeboard
