\* Does the process still converge when it is killed twice?
\* A reader with BaseUrls and DownloadAtInit and two mirrors, one of which
\* may lag: its own Runs fetch what it serves; two requests may fail and
\* the process may be killed twice, in the middle of any step.
CONSTANTS
    Timestamps <- MCTimestamps
    Urls <- MCTwoUrls
    InputValues <- MCInputValues
    MaxFailures = 2
    NumRetainedDownloads = 1
    DiskMayFail = TRUE
    LookupThreads = {}
    OwnerCalls = {}
    MaxDeletes = 0
    HasCallback = FALSE
    MaxCrashes = 2
SPECIFICATION Spec
PROPERTY EventuallyServesNewest
