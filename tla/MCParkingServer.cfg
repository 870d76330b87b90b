CONSTANTS
    User = {u1}
    Vehicle = {v1}
    SessionId = {s1, s2, s3}
    Slot = {1, 2}
    Overridable = {2}
    NULL = NULL
    Opening = {60}
    TopUp = {60}
    Endpoints <- AllEndpoints
    TickSeconds = 7200
    MaxTick = 1
    MaxCredit = 120
    Request = {r1, r2}
    Worker = {w1}
    MaxRetries = 2
SYMMETRY Symmetry
SPECIFICATION Spec
INVARIANTS
    TypeOK
    NoLeakedSlot
    WalletNonNegative
    OneDebitPerSession
PROPERTY SessionsOnlyEnd
