SPECIFICATION Spec
CONSTANTS
    Tables = 2
    Items = 2
    Undumped = {1}
    MaxTroubles = 1
INVARIANTS
    LookupsTrueOrTold
    OpensWhatItCan
