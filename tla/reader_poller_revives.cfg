\* The poller goroutine racing the owner's Delete.
CONSTANTS
    l1 = l1
    l2 = l2
    Timestamps <- MCTimestamps
    HasCallback = TRUE
    InitialLatest = 1
    LookupThreads = {}
    PinnedTimestamp = 0
    OwnerCalls = {"delete"}
    MaxDeletes = 1
    LatestMayMoveBack = FALSE
SPECIFICATION Spec
INVARIANT DeleteIsFinal
