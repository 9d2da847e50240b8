\* The tables of a tape, written and read again.
CONSTANTS
    Values = {v1, v2}
    None = None
    Partners = {{"tape_partition"}}
    Keys = {k1}
    InjectedTags = {}
    InjectedInto = {}
    InjectedValues = {}
    MaxEdits = 2
    MaxSessions = 1
    MaxFaults = 0
SPECIFICATION ToolSpec
CHECK_DEADLOCK FALSE
INVARIANT
    TapeTablesReadBack
