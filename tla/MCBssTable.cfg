SPECIFICATION Spec
CONSTANTS
    ap1 = ap1
    ap2 = ap2
    home = home
    hidden = hidden
    m1 = m1
    m2 = m2
    m3 = m3
    Result <- Seen
    Known = {home}
    Addr = {m1, m2, m3}
    None = None
    DriverAge = {0}
    MaxCount = 2
    MaxAge = 1
    ScanCount = 2
    MaxId = 4
SYMMETRY Memory
INVARIANTS
    TypeOK
    OneEntryPerBss
    IdListInOrder
    LimitHolds
    AgeHonoured
PROPERTIES
    UsedLeavesFullTable
CHECK_DEADLOCK FALSE
