\* A live polling reader: two lookup goroutines run while the poller
\* goroutine follows timestamp.latest, which may be rewritten to an older
\* artifact. Delete is checked in reader_cli_update.
CONSTANTS
    l1 = l1
    l2 = l2
    Timestamps <- MCTimestamps
    LookupThreads <- MCTwoLookupThreads
    PinnedTimestamp = 0
    OwnerCalls = {}
    MaxDeletes = 0
    HasCallback = TRUE
    InitialLatest = 1
    LatestMayMoveBack = TRUE
SPECIFICATION Spec

INVARIANT ReportedTimestampIsServed
PROPERTY EventuallyServesLatest
PROPERTY ServesForwardToPresentArtifacts
