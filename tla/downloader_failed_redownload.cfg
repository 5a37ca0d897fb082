\* One process, one mirror, two failed requests: a timeout in
\* shouldDownload, then a failure inside download.
CONSTANTS
    Timestamps <- MCTimestamps
    InputValues <- MCInputValues
    LocalInputs = "none"
    NumRetainedDownloads = 1
    DiskMayFail = TRUE
SPECIFICATION Spec
CONSTANTS
    Urls <- MCOneUrl
    Downloaders <- MCOneDownloader
    MaxFailures = 2
INVARIANT LatestIsPresent
