CONSTANTS
    k1 = k1  k2 = k2  v1 = v1  all = all  one = one  c1 = c1
    Keys <- MCKeys
    Values <- MCValues
    Absent = Absent
    Watchers <- MCWatchers
    WatchKeys <- MCWatchKeys
    Closers <- MCClosers
    Nobody = Nobody
    NoFile = NoFile
    MinBackoff = 2
    MaxBackoff = 5
    MaxRevision = 2
    MaxFails = 3
    MaxCrashes = 1
    MaxOutages = 1
SPECIFICATION FairSpec
INVARIANTS
    TypeOK
    CallbacksAreSerial
    WatchersAreCurrent
    ClosedIsQuiet
    FileMirrorsMemory
PROPERTIES
    CloseTerminates
    RefreshGoesOn
CHECK_DEADLOCK FALSE
