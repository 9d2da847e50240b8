\* One session, one damaged structure, and blocks of metadata of two sizes.
CONSTANTS
    K = 2
    M = 1
    MaxShards = 4
    None = None
    MaxSize = 1
    Sectors = 2
    GroupSize = 2
    HeaderBudget = 2
    BlockBudget = 2
    Profiles <- OneSession
    MetaBlocks <- OtherSize
SPECIFICATION Spec
CHECK_DEADLOCK FALSE
INVARIANT MetadataRecovered
