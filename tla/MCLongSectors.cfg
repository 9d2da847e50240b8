\* Two sectors.
CONSTANTS
    None = None
    Sectors = 2
    Media <- MCMedia
SPECIFICATION Spec
CHECK_DEADLOCK FALSE
INVARIANTS
    TypeOK
    
PROPERTIES
    OthersUntouched
