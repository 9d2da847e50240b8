SPECIFICATION MapsSpec
CONSTANTS
    e1 = e1
    e2 = e2
    Hashes = {0, 1, 6, 11, 4, 9, 8, 12}
    Entries = {e1, e2}
    Absent = Absent
    NoValue = NoValue
    MinSize = 5
    LargeMap = 8
    AskedSizes = {0, 8}
    LruKeys = {0, 1, 6, 4, 9, 2}
    LruValues = {e1, e2}
    LruSize = 5
    MaxUses = 2
    AgingInterval = 2
    AllocFails = TRUE
SYMMETRY EntrySymmetry
INVARIANTS
    ProbesEnd
    LookupFindsStored
    LruHitIsLatest
    EvictsCold
