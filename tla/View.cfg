CONSTANTS
    v1 = v1  v2 = v2
    Keys <- MCKeys
    Values <- MCValues
    PrefixArgs <- MCPrefixArgs
    GroupArgs <- MCGroupArgs
    Absent = Absent
    NoClient = NoClient
    NoFile = NoFile
    MaxPrefixes = 2
    MaxRevision = 2
SPECIFICATION Spec
INVARIANTS
    ViewIsSelection
    GroupIsExact
    MirrorFollows
PROPERTIES
    OnChangeIsPrecise
