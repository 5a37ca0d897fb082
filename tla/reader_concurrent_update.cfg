\* The owner calls Update while the poller goroutine runs, as the wait_local,
\* get and comparo commands of src/cmd/main.go do.
CONSTANTS
    l1 = l1
    l2 = l2
    Timestamps <- MCTimestamps
    HasCallback = TRUE
    InitialLatest = 1
    LookupThreads = {}
    PinnedTimestamp = 0
    OwnerCalls = {"update"}
    MaxDeletes = 0
    LatestMayMoveBack = FALSE
SPECIFICATION Spec
INVARIANT ReportedTimestampIsServed
