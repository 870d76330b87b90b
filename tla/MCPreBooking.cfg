CONSTANTS
    User = {u1}
    Slot = {p1}
    NULL = NULL
    Time <- AroundTen
    Request = {r1, r2}
    MaxDay = 1
    MaxBookings = 3
SYMMETRY Symmetry
SPECIFICATION Spec
INVARIANTS
    DoubleOnlyInFlight
PROPERTY RefusedOnlyIfHeld
