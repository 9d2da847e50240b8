\* Stripes of two blocks with one block of parity, four sectors in blocks of one
\* or two, groups of two sectors, of which the first may have no key; the caches hold
\* two headers and two sectors.
CONSTANTS
    K = 2
    M = 1
    MaxShards = 4
    None = None
    MaxSize = 2
    Sectors = 4
    GroupSize = 2
    HeaderBudget = 2
    BlockBudget = 2
    Profiles <- MCProfiles
    MetaBlocks <- SameSize
SPECIFICATION Spec
CHECK_DEADLOCK FALSE
INVARIANTS
    TypeOK
    MapsDescribeFile
    AnswersRight
    
    WithinParityAnswered
    CachesSound
