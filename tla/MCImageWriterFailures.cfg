SPECIFICATION Spec
CONSTANTS
    d1 = d1
    d2 = d2
    d3 = d3
    h1 = h1
    h2 = h2
    h3 = h3
    Dumped = Dumped
    NotDumped = NotDumped
    Generable = Generable
    Negative = 0
    Sectors = 1
    Overflow = 1
    Data = {d1, d2}
    SizeOf <- MCSizeOf
    Hashes = {h1, h2}
    Hash <- MCHash
    Statuses = {NotDumped, Dumped}
    Written = {Dumped}
    NintendoDisc = FALSE
    Dedup = TRUE
    UseZstd = FALSE
    BlockSectors = 2
    MaxSpan = 1
    MaxTear = 1
    MaxUnit = 6
    Failures = {"block", "ddtHeader", "index", "root"}
SYMMETRY ContentSymmetry
INVARIANTS
    TypeOK
    EntriesResolve
    HashMapSound
    IndexCoversEntries
    
PROPERTIES
    CommittedUntouched
