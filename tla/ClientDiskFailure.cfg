CONSTANTS
    k1 = k1  k2 = k2  v1 = v1  all = all  one = one  c1 = c1
    Keys <- MCKeys
    Values <- MCValues
    Absent = Absent
    Watchers <- MCOneWatcher
    WatchKeys <- MCOneWatchKeys
    Closers <- MCClosers
    Nobody = Nobody
    NoFile = NoFile
    MinBackoff = 2
    MaxBackoff = 5
    MaxRevision = 2
    MaxFails = 3
    MaxCrashes = 0
    MaxOutages = 1
SPECIFICATION Spec
PROPERTIES
    FailedWritesAreRetried
CHECK_DEADLOCK FALSE
