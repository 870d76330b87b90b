CONSTANTS
    User = {u1}
    Vehicle = {v1, v2}
    SessionId = {s1, s2, s3}
    Slot = {1, 2}
    Overridable = {}
    NULL = NULL
    Opening = {60, 120}
    TopUp = {60}
    Endpoints <- OnlyTriggers
    TickSeconds = 7200
    MaxTick = 0
    MaxCredit = 120
    Request = {r1, r2}
    Worker = {w1, w2}
    MaxRetries = 2
SYMMETRY Symmetry
SPECIFICATION Spec
INVARIANT OneDebitPerSession
