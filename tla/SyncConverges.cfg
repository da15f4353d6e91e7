CONSTANTS
    i1 = i1  i2 = i2  h1 = h1  d1 = d1
    NoServer = NoServer
    Instances <- MCInstances
    HttpClients <- MCHttpClients
    DirectClients <- MCDirectClients
    MaxStates = 2
    MaxRestores = 1
    RestoreKind = "quiet"
    WritesAfterRestore = FALSE
    MaxCrashes = 0
SPECIFICATION FairSpec
INVARIANTS
    UnchangedIsCurrent
PROPERTIES
    Converges
