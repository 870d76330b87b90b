CONSTANTS
    User = {u1}
    Vehicle = {v1, v2}
    SessionId = {s1, s2, s3}
    Slot = {1}
    Overridable = {}
    NULL = NULL
    Opening = {120}
    TopUp = {60}
    Endpoints <- GatesAndLegacy
    TickSeconds = 7200
    MaxTick = 0
    MaxCredit = 120
    Request = {r1, r2}
    Worker = {w1}
    MaxRetries = 3
SPECIFICATION FairSpec
PROPERTIES
    LotSpec
    EveryGateAnswered
