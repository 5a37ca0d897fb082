\* The reader of the get and wait_local commands (src/cmd/main.go): a
\* polling reader whose owner also calls Update, and calls Delete when the
\* command returns; a lookup goroutine runs beside them.
CONSTANTS
    l1 = l1
    l2 = l2
    Timestamps <- MCTimestamps
    LookupThreads <- MCLookupThreads
    PinnedTimestamp = 0
    OwnerCalls = {"update", "delete"}
    MaxDeletes = 1
    HasCallback = TRUE
    InitialLatest = 1
    LatestMayMoveBack = FALSE
SPECIFICATION Spec

PROPERTY PollerStopsAfterDelete
