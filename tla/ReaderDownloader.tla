-------------------------- MODULE ReaderDownloader --------------------------
(***************************************************************************)
(* A CacheReader with BaseUrls and DownloadAtInit (src/axoncache.go),      *)
(* composed with the Downloader it runs (src/internal/core/download.go).  *)
(*                                                                         *)
(* maybeDownload runs Downloader.Run synchronously in the goroutine that   *)
(* calls it: first in NewCacheReader, before getLatestTimestamp, then on   *)
(* every tick of the checkForNewFiles goroutine, between the Stop check    *)
(* and getLatestTimestamp. Run's downloader is the process itself, Proc.   *)
(* The folder the reader sees is the downloader's: timestamp.latest is     *)
(* latestFile, and an artifact is on disk when its data file is.           *)
(*                                                                         *)
(* The process may be killed at any step and restarted (by a supervisor,  *)
(* at most MaxCrashes times): memory is lost, the folder is not, and the   *)
(* temp file of a write in progress stays under its random name.          *)
(***************************************************************************)
EXTENDS Naturals, FiniteSets, Sequences, Functions

CONSTANTS
    Timestamps, Urls, MaxFailures, InputValues, NumRetainedDownloads,
    LookupThreads, OwnerCalls, MaxDeletes, HasCallback,
    DiskMayFail,      \* local writes of Run may fail
    MaxCrashes        \* bound on kills of the process

\* The random names of the temp files crashed incarnations leave behind.
TmpNames == <<"tmp.1", "tmp.2", "tmp.3">>

ASSUME MaxCrashes \in 0..Len(TmpNames)

Proc == "reader"

VARIABLES
    remoteTs, disk, latestFile, tsFile, dpc, dts, gcTodo, failures,
    mostRecentFileTimestamp, handle, cobj, gen, stopClosed, pc, arg,
    deletes, fault,
    tick,     \* which maybeDownload the process is in, see Ticks
    runErr,   \* the Run in progress, or the last one, returns an error
    crashes   \* kills of the process so far

downloaderVars == <<remoteTs, disk, latestFile, tsFile, dpc, dts, gcTodo,
                    failures>>
readerVars == <<mostRecentFileTimestamp, handle, cobj, gen, stopClosed, pc,
                arg, deletes, fault>>
vars == <<downloaderVars, readerVars, tick, runErr, crashes>>

\* "init": NewCacheReader before maybeDownload; "init_run": inside it.
\* "poll": the goroutine before maybeDownload; "poll_run": inside it.
Ticks == {"init", "init_run", "poll", "poll_run"}

\* The artifacts whose <task>.<ts>.cache the C reader can load.
Artifacts == {t \in Timestamps : "cache" \in disk[t]}

D == INSTANCE Downloader WITH Downloaders <- {Proc}, LocalInputs <- "none"

R == INSTANCE CacheReader
        WITH latest <- latestFile, onDisk <- Artifacts,
             PinnedTimestamp <- 0, InitialLatest <- 0, LatestMayMoveBack <- FALSE

---------------------------------------------------------------------------

Init ==
    /\ D!Init
    /\ R!ReaderInit
    /\ tick = "init"
    /\ runErr = FALSE
    /\ crashes = 0

\* A mirror publishes; no process step.
Publish ==
    /\ \E u \in Urls, t \in Timestamps : D!MirrorPublish(u, t)
    /\ UNCHANGED <<readerVars, tick, runErr, crashes>>

\* maybeDownload with non-empty BaseUrls: Run starts with its probe.
DownloadStart ==
    /\ \/ tick = "init" /\ pc[R!Owner] = "new" /\ tick' = "init_run"
       \/ tick = "poll" /\ pc[R!Poller] = "p_latest" /\ tick' = "poll_run"
    /\ D!RunStart(Proc)
    /\ runErr' = FALSE
    /\ UNCHANGED <<readerVars, crashes>>

\* A step of Run; it returns an error exactly when it went through the
\* cleanup of RemoveLastDownloadedFilesAfterError.
DownloadStep ==
    /\ tick \in {"init_run", "poll_run"}
    /\ D!RunStep(Proc)
    /\ runErr' = (runErr \/ dpc[Proc] = "err_cleanup")
    /\ UNCHANGED <<readerVars, tick, crashes>>

\* NewCacheReader after Run returned: an error is returned to the caller,
\* otherwise getLatestTimestamp, Update and checkForNewFiles.
Construct ==
    /\ tick = "init_run" /\ dpc[Proc] = "idle"
    /\ UNCHANGED <<downloaderVars, runErr, crashes>>
    /\ \/ runErr /\ R!Goto(R!Owner, "idle")
          /\ UNCHANGED <<mostRecentFileTimestamp, handle, cobj, gen,
                         stopClosed, arg, deletes, fault>>
       \/ ~runErr /\ R!NewCacheReader
    /\ tick' = "poll"

\* wait_remote (src/cmd/main.go) calls log.Fatal when NewCacheReader returns
\* an error: the process exits, its deferred Delete unrun, and is started
\* again by its supervisor, with nothing in memory and the folder as it is.
Restart ==
    /\ pc[R!Poller] = "off" /\ pc[R!Owner] = "idle"
    /\ pc' = [pc EXCEPT ![R!Owner] = "new"]
    /\ tick' = "init" /\ runErr' = FALSE
    /\ UNCHANGED <<downloaderVars, mostRecentFileTimestamp, handle, cobj, gen,
                   stopClosed, arg, deletes, fault, crashes>>

\* After maybeDownload returned (its error is only logged): getLatestTimestamp.
PollLatest ==
    /\ tick = "poll_run" /\ dpc[Proc] = "idle"
    /\ UNCHANGED <<downloaderVars, runErr, crashes>>
    /\ R!PLatest
    /\ tick' = "poll"

\* Every other step of the reader's goroutines.
ReaderStep ==
    /\ UNCHANGED <<downloaderVars, tick, runErr, crashes>>
    /\ \/ \E ts \in Timestamps : R!OwnerUpdate(ts)
       \/ R!DeleteStore \/ R!DeleteStep
       \/ \E t \in R!Updaters : R!UpdateStep(t)
       \/ R!PCheckStop \/ R!PSleep
       \/ \E l \in LookupThreads : R!LookupStep(l)

\* Steps at which a WriteStringToFile (settings, size, checksum, cache
\* timestamp) of the timestamp being downloaded may be in progress.
WritingStates == {"settings", "size_file", "checksum_file", "cache_timestamp"}

\* The process is killed, or wait_remote returns on SIGTERM and the process
\* exits whatever its goroutine is doing, and is started again: the
\* decompression temp file keeps its name, now of no live process, and a
\* WriteStringToFile in progress leaves <path>.tmp.<n>; the goroutines, the
\* Run and the C reader are gone, and the new incarnation starts with
\* NewCacheReader.
Crash ==
    LET name == TmpNames[crashes + 1]
        orphaned == [t \in Timestamps |->
                       IF Proc \in disk[t] THEN (disk[t] \ {Proc}) \cup {name}
                       ELSE disk[t]]
    IN
    /\ crashes < MaxCrashes
    /\ crashes' = crashes + 1
    /\ \/ disk' = orphaned
       \/ /\ dpc[Proc] \in WritingStates
          /\ disk' = [orphaned EXCEPT ![dts[Proc]] = @ \cup {name}]
    /\ dpc' = [dpc EXCEPT ![Proc] = "idle"]
    /\ dts' = [dts EXCEPT ![Proc] = D!NoTs]
    /\ gcTodo' = [gcTodo EXCEPT ![Proc] = {}]
    /\ mostRecentFileTimestamp' = 0 /\ gen' = 0
    /\ handle' = "live" /\ cobj' = "live" /\ stopClosed' = FALSE
    /\ pc' = [t \in R!Threads |-> IF t = R!Owner THEN "new"
                                  ELSE IF t = R!Poller THEN "off" ELSE "idle"]
    /\ arg' = [t \in R!Updaters |-> 0]
    /\ deletes' = 0 /\ fault' = {}
    /\ tick' = "init" /\ runErr' = FALSE
    /\ UNCHANGED <<remoteTs, latestFile, tsFile, failures>>

Next == Publish \/ Crash \/ Restart \/ DownloadStart \/ DownloadStep \/ Construct \/ PollLatest
        \/ ReaderStep

\* The constructor and the goroutine run to completion (Run included); the
\* owner finishes a call it is in. Mirrors, lookups and the owner's
\* decision to call are not forced.
Fairness ==
    /\ WF_vars(DownloadStart \/ DownloadStep \/ Construct \/ PollLatest \/ Restart)
    /\ WF_vars(/\ UNCHANGED <<downloaderVars, tick, runErr, crashes>>
               /\ R!PCheckStop \/ R!PSleep \/ R!UpdateStep(R!Poller))
    /\ WF_vars(/\ UNCHANGED <<downloaderVars, tick, runErr, crashes>>
               /\ R!UpdateStep(R!Owner) \/ R!DeleteStep)

Spec == Init /\ [][Next]_vars /\ Fairness

---------------------------------------------------------------------------
(* Properties                                                              *)

TypeOK ==
    /\ remoteTs \in [Urls -> Timestamps \cup {D!NoTs}]
    /\ disk \in [Timestamps -> SUBSET (D!Files \cup Range(TmpNames))]
    /\ latestFile \in Timestamps \cup {D!NoTs}
    /\ tsFile \in Timestamps \cup {D!NoTs}
    /\ dts \in [{Proc} -> Timestamps \cup {D!NoTs}]
    /\ gcTodo \in [{Proc} -> SUBSET Timestamps]
    /\ failures \in 0..MaxFailures
    /\ R!TypeOK
    /\ crashes \in 0..MaxCrashes
    /\ tick \in Ticks
    /\ runErr \in BOOLEAN

\* The newest timestamp the mirrors publish.
Newest == D!MaxTs({remoteTs[u] : u \in Urls})

\* The process, restarted whenever NewCacheReader fails, ends up serving
\* the newest artifact the mirrors publish, on disk and named by
\* timestamp.latest, though requests of its Runs may fail, a lagging mirror
\* may win a probe, cleanup may unlink files and the process may be killed
\* in the middle of a Run.
EventuallyServesNewest ==
    <>[](/\ gen = Newest /\ latestFile = Newest
         /\ "cache" \in disk[Newest])

=============================================================================
