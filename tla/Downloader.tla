----------------------------- MODULE Downloader -----------------------------
(***************************************************************************)
(* Downloader.Run of src/internal/core/download.go, with the decompression *)
(* of compress.go and the cleanup of cleanup.go, for one basename          *)
(* <task>.cache in one destination folder. Several processes (each a      *)
(* CacheReader with BaseUrls) may run it on the same folder.               *)
(*                                                                         *)
(* Remote mirrors publish increasing timestamps; every network request may *)
(* fail (timeout, non-200, corrupted body), at most MaxFailures times in a *)
(* behaviour. A file is named by its timestamp and its kind:               *)
(*   "settings" <task>.cache.<ts>.settings   "size"  <task>.cache.<ts>.size *)
(*   "cksum"    <task>.cache.<ts>.<ext>      "cache" <task>.<ts>.cache      *)
(*   "cache_ts" <task>.<ts>.cache.timestamp                                *)
(*   d          <task>.<ts>.cache.tmp.<rand> written by downloader d       *)
(* Every one of these names contains the timestamp, so the globs of        *)
(* cleanup.go and hasAtLeastOneDownloadedFileAlready see exactly these.    *)
(***************************************************************************)
EXTENDS Naturals, FiniteSets, FiniteSetsExt

CONSTANTS
    Timestamps,           \* timestamps the mirrors may publish (> 0)
    Urls,                 \* the comma separated base urls
    Downloaders,          \* processes running Run on the folder (strings)
    MaxFailures,          \* bound on failed network requests
    LocalInputs,          \* <task>.cache.inputs on disk: "none", "empty" or a value
    InputValues,          \* contents a remote .inputs file may have
    NumRetainedDownloads, \* numRetainedDownloads of Run
    DiskMayFail           \* local writes may fail (full disk, failed rename)

Kinds == {"settings", "size", "cksum", "cache", "cache_ts"}

ASSUME Timestamps \subseteq (Nat \ {0}) /\ Urls # {}
ASSUME Downloaders \cap Kinds = {}
ASSUME LocalInputs \in {"none", "empty"} \cup InputValues
ASSUME DiskMayFail \in BOOLEAN

VARIABLES
    remoteTs,     \* remoteTs[u]: content of <task>.cache.timestamp at u, 0 if none
    disk,         \* disk[ts]: the files of timestamp ts in the folder
    latestFile,   \* <task>.cache.timestamp.latest, 0 when missing
    tsFile,       \* <task>.cache.timestamp, 0 when missing
    dpc,          \* program counter of each downloader
    dts,          \* downloadStats.Timestamp (0 for ""), or the probed timestamp
    gcTodo,       \* timestamps RemoveOldFiles has still to remove
    failures      \* failed network requests and local writes so far

vars == <<remoteTs, disk, latestFile, tsFile, dpc, dts, gcTodo, failures>>

Files == Kinds \cup Downloaders
NoTs == 0

Goto(d, s) == dpc' = [dpc EXCEPT ![d] = s]

\* A network request fails; the budget keeps behaviours finite.
Fail == failures < MaxFailures /\ failures' = failures + 1

\* The largest of a set of timestamps, 0 for none.
MaxTs(S) == IF S = {} THEN NoTs ELSE Max(S)

---------------------------------------------------------------------------
(* The mirrors: a new timestamp appears at one of them.                    *)

MirrorPublish(u, t) ==
    /\ t \in Timestamps /\ t > remoteTs[u]
    /\ remoteTs' = [remoteTs EXCEPT ![u] = t]
    /\ UNCHANGED <<disk, latestFile, tsFile, dpc, dts, gcTodo, failures>>

---------------------------------------------------------------------------
(* GetBaseUrlAndTimestamp: every url is probed; the ones that answer with  *)
(* a parsable timestamp compete, the strictly largest wins. A url without  *)
(* a timestamp file answers 404. Failing urls cost one failure.            *)

ProbeResult(answering) == MaxTs({remoteTs[u] : u \in answering} \ {NoTs})

\* The urls that do not answer each cost one failure.
Answered(answering) ==
    IF answering = Urls THEN UNCHANGED failures ELSE Fail

Probe(d, next) ==
    \E answering \in SUBSET Urls :
        /\ Answered(answering)
        /\ dts' = [dts EXCEPT ![d] = ProbeResult(answering)]
        /\ Goto(d, next)

\* hasAtLeastOneDownloadedFileAlready: more than two files match
\* <task>.*<ts>*.
HasAtLeastOneDownloadedFileAlready(t) == Cardinality(disk[t]) > 2

\* shouldDownload's decision, in the order of its early returns.
DownloadReason(remote, latestContent, remoteInputs, enough) ==
    CASE remote = NoTs -> "NoTimestamp"
      [] latestContent = NoTs -> "MissingLatestTimestamp"
      [] latestContent # remote ->
            CASE remoteInputs = "none" -> "MissingRemoteInputs"
              [] remoteInputs = "empty" -> "EmptyRemoteInputs"
              [] LocalInputs = "none" -> "MissingLocalInputs"
              [] LocalInputs = "empty" -> "EmptyLocalInputs"
              [] LocalInputs = remoteInputs ->
                    IF enough THEN "SimilarRemoteAndLocalInputs"
                    ELSE "NotEnoughFiles"
              [] OTHER -> "DifferentRemoteAndLocalInputs"
      [] enough -> "UpToDate"
      [] OTHER -> "NotEnoughFiles"

UpToDateReasons == {"UpToDate", "SimilarRemoteAndLocalInputs"}

\* fetchRemoteInputsFile: an error (no file), an empty body, or a body.
RemoteInputsResults == {"none", "empty"} \cup InputValues

---------------------------------------------------------------------------
(* Run: shouldDownload, then download, then the garbage collection.        *)

\* shouldDownload starts with GetBaseUrlAndTimestamp.
RunStart(d) ==
    /\ dpc[d] = "idle"
    /\ Probe(d, "sd_decide")
    /\ UNCHANGED <<remoteTs, disk, latestFile, tsFile, gcTodo>>

\* A mutant: Run downloads exactly when shouldDownload says it need not.
ShouldDownloadInverted(d) ==
    /\ dpc[d] = "sd_decide"
    /\ \E ri \in RemoteInputsResults :
          LET r == DownloadReason(dts[d], latestFile, ri,
                                  HasAtLeastOneDownloadedFileAlready(dts[d]))
          IN Goto(d, IF r \in UpToDateReasons THEN "probe" ELSE "idle")
    /\ UNCHANGED <<remoteTs, disk, latestFile, tsFile, dts, gcTodo, failures>>

\* The rest of shouldDownload: timestamp.latest, the remote .inputs (fetched
\* from the winning url when the timestamps differ), the local .inputs.
ShouldDownload(d) ==
    /\ dpc[d] = "sd_decide"
    /\ \E ri \in RemoteInputsResults :
          LET r == DownloadReason(dts[d], latestFile, ri,
                                  HasAtLeastOneDownloadedFileAlready(dts[d]))
          IN Goto(d, IF r \in UpToDateReasons THEN "idle" ELSE "probe")
    /\ UNCHANGED <<remoteTs, disk, latestFile, tsFile, dts, gcTodo, failures>>

\* download() probes the urls again; no timestamp is an error with an
\* empty downloadStats.Timestamp.
DownloadProbe(d) ==
    /\ dpc[d] = "probe"
    /\ \E answering \in SUBSET Urls :
          LET t == ProbeResult(answering) IN
          /\ Answered(answering)
          /\ dts' = [dts EXCEPT ![d] = t]
          /\ Goto(d, IF t = NoTs THEN "err_cleanup" ELSE "settings")
    /\ UNCHANGED <<remoteTs, disk, latestFile, tsFile, gcTodo>>

\* Route a result of download(): errors go to the cleanup after error.
OnError(d) == Goto(d, "err_cleanup")

\* WriteStringToFile fails: os.WriteFile of <path>.tmp.<rand> or the rename
\* returns an error, which download() returns. A temp file it leaves
\* carries the timestamp of the download, and the error cleanup that
\* follows removes every file of that timestamp, so it is not kept.
WriteFails(d) == DiskMayFail /\ Fail /\ OnError(d)

\* fetchRemoteSettings for the timestamp, then without it; the properties
\* are written to <task>.cache.<ts>.settings.
\* fetchRemoteSettings: a transport error, a non-200 status or a body that
\* does not load as properties is an error.
FetchRemoteSettingsFails == Fail

\* fetchChecksum: a transport error, a non-200 status or an unreadable body
\* is an error.
FetchChecksumFails == Fail

FetchSettings(d) ==
    /\ dpc[d] = "settings"
    /\ \/ FetchRemoteSettingsFails /\ OnError(d) /\ UNCHANGED disk
       \/ WriteFails(d) /\ UNCHANGED disk
       \/ /\ disk' = [disk EXCEPT ![dts[d]] = @ \cup {"settings"}]
          /\ Goto(d, "checksum")
          /\ UNCHANGED failures
    /\ UNCHANGED <<remoteTs, latestFile, tsFile, dts, gcTodo>>

\* fetchUncompressedSize (a failure only loses fallocate), then
\* fetchChecksum, whose failure is an error.
FetchChecksum(d) ==
    /\ dpc[d] = "checksum"
    /\ \/ FetchChecksumFails /\ OnError(d)
       \/ Goto(d, "blob") /\ UNCHANGED failures
    /\ UNCHANGED <<remoteTs, disk, latestFile, tsFile, dts, gcTodo>>

\* downloadInternal: GET of the compressed blob, then
\* WriteDecompressedFileToDiskFromReader creates its temp file.
FetchBlob(d) ==
    /\ dpc[d] = "blob"
    /\ \/ Fail /\ OnError(d) /\ UNCHANGED disk
       \/ /\ disk' = [disk EXCEPT ![dts[d]] = @ \cup {d}]
          /\ Goto(d, "decompress")
          /\ UNCHANGED failures
    /\ UNCHANGED <<remoteTs, latestFile, tsFile, dts, gcTodo>>

\* zstd stream tee'd into the file and the hash; a broken transfer or a
\* checksum mismatch is an error that leaves the temp file; otherwise the
\* temp file is renamed, which fails if another process removed it.
Decompress(d) ==
    LET t == dts[d] IN
    /\ dpc[d] = "decompress"
    /\ \/ Fail /\ OnError(d) /\ UNCHANGED disk
       \/ d \notin disk[t] /\ OnError(d) /\ UNCHANGED <<disk, failures>>
       \/ /\ d \in disk[t]
          /\ disk' = [disk EXCEPT ![t] = (@ \ {d}) \cup {"cache"}]
          /\ Goto(d, "size_file")
          /\ UNCHANGED failures
    /\ UNCHANGED <<remoteTs, latestFile, tsFile, dts, gcTodo>>

\* One WriteStringToFile (temp file, then rename) of a file of dts[d].
WriteTsFile(d, from, kind, to) ==
    /\ dpc[d] = from
    /\ \/ /\ disk' = [disk EXCEPT ![dts[d]] = @ \cup {kind}]
          /\ Goto(d, to)
          /\ UNCHANGED failures
       \/ WriteFails(d) /\ UNCHANGED disk
    /\ UNCHANGED <<remoteTs, latestFile, tsFile, dts, gcTodo>>

\* The size file ends downloadInternal; the checksum file follows.
WriteSizeFile(d) == WriteTsFile(d, "size_file", "size", "checksum_file")
WriteChecksumFile(d) == WriteTsFile(d, "checksum_file", "cksum", "timestamp")

\* The timestamp files, in this order, "written last".
WriteTimestamp(d) ==
    /\ dpc[d] = "timestamp"
    /\ \/ tsFile' = dts[d] /\ Goto(d, "latest") /\ UNCHANGED failures
       \/ WriteFails(d) /\ UNCHANGED tsFile
    /\ UNCHANGED <<remoteTs, disk, latestFile, dts, gcTodo>>

WriteLatest(d) ==
    /\ dpc[d] = "latest"
    /\ \/ latestFile' = dts[d] /\ Goto(d, "cache_timestamp")
          /\ UNCHANGED failures
       \/ WriteFails(d) /\ UNCHANGED latestFile
    /\ UNCHANGED <<remoteTs, disk, tsFile, dts, gcTodo>>

WriteCacheTimestamp(d) == WriteTsFile(d, "cache_timestamp", "cache_ts", "gc")

---------------------------------------------------------------------------
(* RemoveOldFiles(numRetainedDownloads) after a successful download, and   *)
(* RemoveLastDownloadedFilesAfterError after a failed one.                 *)

\* ListFetchedFiles: <task>.cache.<ts>* and <task>.<ts>.cache*, that is
\* every file of the timestamp, temp files of other processes included.
FetchedFiles(t) == disk[t]

\* GetSortedTimeStamps: every timestamp some file of the folder carries.
SortedTimestamps == {t \in Timestamps : disk[t] # {}}

\* The timestamps the loop removes: all but the NumRetainedDownloads newest.
OldTimestamps(ts) ==
    {t \in ts : Cardinality({u \in ts : u > t}) >= NumRetainedDownloads}

\* A mutant: the loop bound is off by one and the newest group goes too.
OldTimestampsOffByOne(ts) ==
    {t \in ts : Cardinality({u \in ts : u > t}) >= NumRetainedDownloads - 1}

GcList(d) ==
    /\ dpc[d] = "gc"
    /\ gcTodo' = [gcTodo EXCEPT ![d] = OldTimestamps(SortedTimestamps)]
    /\ Goto(d, "gc_remove")
    /\ UNCHANGED <<remoteTs, disk, latestFile, tsFile, dts, failures>>

\* ListFetchedFiles of the oldest listed timestamp, then the removals.
GcRemove(d) ==
    /\ dpc[d] = "gc_remove"
    /\ \/ /\ gcTodo[d] = {}
          /\ Goto(d, "idle")
          /\ UNCHANGED <<disk, gcTodo>>
       \/ /\ gcTodo[d] # {}
          /\ LET t == Min(gcTodo[d]) IN
             /\ disk' = [disk EXCEPT ![t] = @ \ FetchedFiles(t)]
             /\ gcTodo' = [gcTodo EXCEPT ![d] = @ \ {t}]
          /\ UNCHANGED dpc
    /\ UNCHANGED <<remoteTs, latestFile, tsFile, dts, failures>>

\* A mutant: the cleanup after an error forgets the timestamp.
ErrorCleanupWithoutTimestamp(d) ==
    /\ dpc[d] = "err_cleanup"
    /\ Goto(d, "idle")
    /\ UNCHANGED <<remoteTs, disk, latestFile, tsFile, dts, gcTodo, failures>>

\* The temp patterns match no file of this model; then every file of the
\* timestamp being downloaded goes, if there is one.
ErrorCleanup(d) ==
    /\ dpc[d] = "err_cleanup"
    /\ disk' = IF dts[d] = NoTs THEN disk
               ELSE [disk EXCEPT ![dts[d]] = @ \ FetchedFiles(dts[d])]
    /\ Goto(d, "idle")
    /\ UNCHANGED <<remoteTs, latestFile, tsFile, dts, gcTodo, failures>>

---------------------------------------------------------------------------

\* Every step a downloader takes inside Run.
RunStep(d) ==
    \/ ShouldDownload(d) \/ DownloadProbe(d) \/ FetchSettings(d)
    \/ FetchChecksum(d) \/ FetchBlob(d) \/ Decompress(d)
    \/ WriteSizeFile(d) \/ WriteChecksumFile(d) \/ WriteTimestamp(d)
    \/ WriteLatest(d) \/ WriteCacheTimestamp(d) \/ GcList(d) \/ GcRemove(d)
    \/ ErrorCleanup(d)

\* The folder is empty, or holds a complete download of the first timestamp.
Init ==
    /\ remoteTs = [u \in Urls |-> Min(Timestamps)]
    /\ \/ /\ disk = [t \in Timestamps |-> {}]
          /\ latestFile = NoTs /\ tsFile = NoTs
       \/ /\ disk = [t \in Timestamps |->
                        IF t = Min(Timestamps) THEN Kinds ELSE {}]
          /\ latestFile = Min(Timestamps) /\ tsFile = Min(Timestamps)
    /\ dpc = [d \in Downloaders |-> "idle"]
    /\ dts = [d \in Downloaders |-> NoTs]
    /\ gcTodo = [d \in Downloaders |-> {}]
    /\ failures = 0

Next ==
    \/ \E u \in Urls, t \in Timestamps : MirrorPublish(u, t)
    \/ \E d \in Downloaders : RunStart(d) \/ RunStep(d)

\* maybeDownload is called by the polling goroutine on every tick, and a
\* running Run is scheduled; mirrors are not forced to publish.
Fairness == \A d \in Downloaders : WF_vars(RunStart(d) \/ RunStep(d))

Spec == Init /\ [][Next]_vars /\ Fairness

---------------------------------------------------------------------------
(* Properties                                                              *)

TypeOK ==
    /\ remoteTs \in [Urls -> Timestamps \cup {NoTs}]
    /\ disk \in [Timestamps -> SUBSET Files]
    /\ latestFile \in Timestamps \cup {NoTs}
    /\ tsFile \in Timestamps \cup {NoTs}
    /\ dpc \in [Downloaders -> {"idle", "sd_decide", "probe", "settings",
                "checksum", "blob", "decompress", "size_file", "checksum_file",
                "timestamp", "latest", "cache_timestamp", "gc", "gc_remove",
                "err_cleanup"}]
    /\ dts \in [Downloaders -> Timestamps \cup {NoTs}]
    /\ gcTodo \in [Downloaders -> SUBSET Timestamps]
    /\ failures \in 0..MaxFailures

\* timestamp.latest names an artifact whose data file is on disk: a reader
\* that sees it can load it (spec sections 3 and 4.5 step 7).
LatestIsPresent == latestFile # NoTs => "cache" \in disk[latestFile]

\* When no Run is in progress, no decompression temp file is left in the
\* folder, whichever request failed.
NoTempFileLeft ==
    (\A d \in Downloaders : dpc[d] = "idle")
        => \A t \in Timestamps : disk[t] \cap Downloaders = {}

\* Once the mirrors stop publishing and requests stop failing, the folder
\* ends up holding the newest published artifact, named by timestamp.latest.
EventuallyUpToDate ==
    <>[](/\ latestFile = MaxTs({remoteTs[u] : u \in Urls})
         /\ "cache" \in disk[latestFile])

=============================================================================
