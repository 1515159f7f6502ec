SPECIFICATION Spec
CONSTANTS
    Amenities = {a1}
    Bookings = {b1, b2}
    Requests = {r1, r2}
    Nil = Nil
    Horizon = 3
SYMMETRY Symmetry
INVARIANTS
    TypeOK
    DoubleBookingsAreExplained
CHECK_DEADLOCK FALSE
