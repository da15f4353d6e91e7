CONSTANTS
    http = http  db = db  k1 = k1  good1 = good1  good2 = good2  bad = bad
    Writers <- MCWriters
    Served <- MCServed
    Keys <- MCKeys
    Payloads <- MCPayloads
    Valid <- MCValid
    Flags <- MCFlags
    Typed <- MCTyped
    DefaultLimit = 1
    NoPayload = NoPayload
    NoWriter = NoWriter
    NoView = NoView
    Isolation = "read committed"
    MaxRevision = 2
SPECIFICATION LFairSpec
PROPERTIES
    NotFoundIsGenuine
    ExitZeroIsDone
    LockIsReleased
    CommandsEnd
