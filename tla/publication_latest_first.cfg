\* Does timestamp.latest ever name an artifact not yet on disk?
CONSTANTS
    l1 = l1
    Timestamps <- MCTimestamps
    LookupThreads <- MCLookupThreads
    PinnedTimestamp = 0
    OwnerCalls = {}
    MaxDeletes = 0
    HasCallback = TRUE
    InitialLatest = 1
    WriterMayFail = TRUE
SPECIFICATION Spec
INVARIANT LatestIsPresent
