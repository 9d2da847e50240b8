SPECIFICATION Spec
CONSTANTS
    d1 = d1
    d2 = d2
    Unwritten = Unwritten
    Negative = 1
    Sectors = 2
    Overflow = 1
    Data = {d1, d2}
    Failing = TRUE
    MaxWrites = 4
INVARIANTS
    TypeOK
    FedOnce
    DigestIsOfImage
