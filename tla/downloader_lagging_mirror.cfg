\* One process, two mirrors of which one may lag; one request may fail.
CONSTANTS
    Timestamps <- MCTimestamps
    InputValues <- MCInputValues
    LocalInputs = "none"
    NumRetainedDownloads = 1
    \* Local writes succeed: the failure is the mirror's timeout.
    DiskMayFail = FALSE
SPECIFICATION Spec
CONSTANTS
    Urls <- MCTwoUrls
    Downloaders <- MCOneDownloader
    MaxFailures = 1
INVARIANT LatestIsPresent
