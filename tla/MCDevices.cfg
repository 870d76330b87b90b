SPECIFICATION Spec
CONSTANTS
    Device = {entryGate}
    Address = {ip1, ip2}
    NULL = NULL
    Call = {c1, c2}
    Threshold = 6
    Period = 3
    MaxBlock = 2
SYMMETRY Symmetry
INVARIANTS MarkedInTime AddressIsCurrent OfflineOnlyIfSilent
