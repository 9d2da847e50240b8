SPECIFICATION Spec
CONSTANTS
    d1 = d1
    d2 = d2
    d3 = d3
    h1 = h1
    h2 = h2
    h3 = h3
    Dumped = Dumped
    NotDumped = NotDumped
    Generable = Generable
    Negative = 1
    Sectors = 1
    Overflow = 0
    Data = {d1, d2, d3}
    SizeOf <- MCSizeOf
    Hashes = {h1, h2, h3}
    Hash <- MCHash
    Statuses = {NotDumped, Dumped, Generable}
    Written = {Dumped, Generable}
    NintendoDisc = TRUE
    Dedup = TRUE
    UseZstd = FALSE
    BlockSectors = 2
    MaxSpan = 2
    MaxTear = 0
    MaxUnit = 5
    Failures = {"header", "root"}
SYMMETRY ContentSymmetry
PROPERTIES
    
    WriteStoresSector
