SPECIFICATION Spec
CONSTANTS
    Vehicle = {v1, v2}
    NULL = NULL
    Slots = 1
    OpenTime = 1
    Heartbeat = 1
    Timeout = 1
    Picture = {p1, p2}
SYMMETRY Symmetry
INVARIANTS SessionsMatchLot ClosesInTime
