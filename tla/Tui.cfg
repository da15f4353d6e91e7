CONSTANTS
    a = a  b = b  g = g  t1 = t1  t2 = t2  f1 = f1  f2 = f2
    Order <- MCOrder
    Group <- MCGroup
    NoGroup = NoGroup
    Filters <- MCFilters
    Texts <- MCTexts
    Formats <- MCFormats
    Seeds <- MCSeeds
    NoKey = NoKey  NoValue = NoValue  NoDetail = NoDetail
    NoPend = NoPend  NoOverlay = NoOverlay
    MaxStrokes = 4
    MaxCalls = 2
    MaxTroubles = 1
SPECIFICATION Spec
INVARIANTS
    DetailIsSelected
    CursorsInRange
    EmptyPaneHasReason
    OwnWritesShow
PROPERTIES
    WritesArePreviewed
CHECK_DEADLOCK FALSE
