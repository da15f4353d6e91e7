CONSTANTS
    w1 = w1  s1 = s1  s2 = s2
    Waiters <- MCWaiters
    Stoppers <- MCStoppers
    Main = s1
    MaxRev = 2
    MaxMoves = 3
SPECIFICATION SFairSpec
CHECK_DEADLOCK FALSE
INVARIANTS
    ReturnedIsQuiet
PROPERTIES
    StoppedIsFinal
    ImplementsBroadcast
    WaitersAreReleased
    StopTerminates
    CatchesUp
    RunReturns
