SPECIFICATION Spec
CONSTANTS
    d1 = d1
    d2 = d2
    Tables = 2
    Items = 2
    Data = {d1, d2}
    Dedup = TRUE
    BlockSectors = 2
    TableSpan = 2
    MaxSpan = 1
    MaxTear = 1
    MaxUnit = 8
    InOrder = TRUE
    Failures = {"table", "primary"}
CHECK_DEADLOCK FALSE
INVARIANTS
    TypeOK
    TablesReachable
PROPERTIES
    LiveUntouched
    WriteStoresSector
    
