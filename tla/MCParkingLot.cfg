CONSTANTS
    User = {u1, u2}
    Vehicle = {v1, v2}
    SessionId = {s1, s2, s3}
    Slot = {1, 2}
    Overridable = {2}
    NULL = NULL
    Opening = {0}
    TopUp = {90}
    Endpoints <- AllEndpoints
    TickSeconds = 7200
    MaxTick = 1
    MaxCredit = 90
SYMMETRY Symmetry
SPECIFICATION Spec
INVARIANTS
    TypeOK
    LedgerBalanced
    OneActivePerVehicle
    SlotsMatchSessions
    ChargedOnce
PROPERTY EndedIsFinal
