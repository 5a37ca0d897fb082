\* A writer publishing two more artifacts while a reader polls; any file
\* operation of the writer may fail.
CONSTANTS
    l1 = l1
    Timestamps <- MCTimestamps
    LookupThreads <- MCLookupThreads
    PinnedTimestamp = 0
    OwnerCalls = {}
    MaxDeletes = 0
    HasCallback = TRUE
    InitialLatest = 1
    WriterMayFail = TRUE
SPECIFICATION Spec

PROPERTY EventuallyServesPublished
\* A reader whose NewCacheReader read timestamp.latest empty or ahead of the
\* rename returns an error and starts no goroutine: once the writer is done,
\* that system really stops.
CHECK_DEADLOCK FALSE
