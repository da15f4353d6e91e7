CONSTANTS
    w1 = w1  w2 = w2  k1 = k1  k2 = k2  good1 = good1  good2 = good2  bad = bad
    Writers <- MCWriters
    Keys <- MCKeys
    Payloads <- MCPayloads
    Valid <- MCValid
    NoPayload = NoPayload
    NoWriter = NoWriter
    NoView = NoView
    Isolation = "repeatable read"
    MaxRevision = 4
SPECIFICATION Spec
SYMMETRY MCSymmetry
INVARIANTS
    RevisionCountsWrites
    VersionsContiguous
    ConfigIsLastVersion
    ResultsAreTrue
PROPERTIES
    HistoryMovesWithRevision
    NotFoundIsCurrent
    ImplementsLog
