\* A lookup goroutine racing the owner's Delete on a pinned reader.
CONSTANTS
    l1 = l1
    l2 = l2
    Timestamps <- MCTimestamps
    HasCallback = TRUE
    InitialLatest = 1
    LookupThreads <- MCLookupThreads
    PinnedTimestamp = 1
    OwnerCalls = {"delete"}
    MaxDeletes = 1
    LatestMayMoveBack = FALSE
SPECIFICATION Spec
INVARIANT DeleteIsSafe
