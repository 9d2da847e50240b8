\* Each group of slots with a title, edited in a new image and in a resumed one,
\* with one write or allocation that fails and a crash at any step.
CONSTANTS
    Values = {v1, v2}
    None = None
    Partners = {{"media_title"}}
    Keys = {k1, k2}
    InjectedTags = {"media_tag_a", "minidisc_tag"}
    InjectedInto = {"media_tag_a", "media_tag_b", "minidisc_tag", "flux", "json"}
    InjectedValues = {v1}
    MaxEdits = 2
    MaxSessions = 2
    MaxFaults = 1
SPECIFICATION ToolSpec
CHECK_DEADLOCK FALSE
INVARIANTS
    TypeOK
    IndexResolves
    OneEntryPerKind
    
    FluxOfItsKey
    FluxDurable
PROPERTIES
    NothingForgotten
    FluxEventuallyStored
    ToolChangesItsTagAlone
