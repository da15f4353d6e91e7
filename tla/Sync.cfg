CONSTANTS
    i1 = i1  i2 = i2  h1 = h1  d1 = d1
    NoServer = NoServer
    Instances <- MCInstances
    HttpClients <- MCHttpClients
    DirectClients <- MCDirectClients
    MaxStates = 3
    MaxRestores = 1
    RestoreKind = "offline"
    WritesAfterRestore = TRUE
    MaxCrashes = 1
SPECIFICATION Spec
SYMMETRY MCSymmetry
INVARIANTS
    LabelsAreLow

    
