-------------------------- MODULE LocalPublication --------------------------
(***************************************************************************)
(* A CacheWriter publishing successive artifacts into the destination      *)
(* folder that a polling CacheReader of another process watches.           *)
(*                                                                         *)
(* The writer is FinishCacheCreation of src/axoncache.go with              *)
(* GenerateTimestampFile and RenameCacheFile set (the options under which  *)
(* a polling reader can pick its artifact up): the C++ writer finishes     *)
(* <task>.cache, the timestamp is taken from the clock, timestamp.latest   *)
(* is written with os.WriteFile (truncate, then write), and <task>.cache   *)
(* is renamed to <task>.<ts>.cache. The reader is CacheReader, unchanged.  *)
(* With WriterMayFail, the open or the write of timestamp.latest or the    *)
(* rename may fail (full disk, permissions); FinishCacheCreation then      *)
(* returns the error at once and the writer goes on with its next build.   *)
(***************************************************************************)
EXTENDS Naturals, FiniteSets

CONSTANTS Timestamps, LookupThreads, PinnedTimestamp, OwnerCalls, MaxDeletes,
          HasCallback, InitialLatest,
          WriterMayFail  \* the writer's file operations may fail

VARIABLES latest, onDisk, mostRecentFileTimestamp, handle, cobj, gen,
          stopClosed, pc, arg, deletes, fault,
          wpc,    \* where the writer process is in FinishCacheCreation
          wts     \* timestamp of the artifact being (or last) published

R == INSTANCE CacheReader WITH LatestMayMoveBack <- FALSE

writerVars == <<wpc, wts>>
readerVars == <<mostRecentFileTimestamp, handle, cobj, gen, stopClosed, pc,
                arg, deletes, fault>>
vars == <<latest, onDisk, readerVars, writerVars>>

\* CacheWriter_FinishCacheCreation succeeds, then time.Now().UnixMilli()
\* gives the new timestamp (the clock is taken to move forward).
WFinishCreation ==
    /\ wpc = "building"
    /\ wts + 1 \in Timestamps
    /\ wts' = wts + 1
    /\ wpc' = "w_truncate"
    /\ UNCHANGED <<latest, onDisk, readerVars>>

\* An error of the writer's file operation: FinishCacheCreation returns it.
WriterFails == WriterMayFail /\ wpc' = "building"

\* os.WriteFile opens timestamp.latest with O_TRUNC: a reader may read it
\* empty, and getLatestTimestamp then fails to parse it. If the open
\* fails, the file is left as it was.
WTruncateLatest ==
    /\ wpc = "w_truncate"
    /\ \/ latest' = 0 /\ wpc' = "w_latest"
       \/ WriterFails /\ UNCHANGED latest
    /\ UNCHANGED <<onDisk, wts, readerVars>>

\* The write of the new timestamp; if it fails, the file stays empty.
WWriteLatest ==
    /\ wpc = "w_latest"
    /\ \/ latest' = wts /\ wpc' = "w_rename"
       \/ WriterFails /\ UNCHANGED latest
    /\ UNCHANGED <<onDisk, wts, readerVars>>

\* os.Rename(<task>.cache, <task>.<ts>.cache); if it fails, timestamp.latest
\* names an artifact that never appears.
WRename ==
    /\ wpc = "w_rename"
    /\ \/ onDisk' = onDisk \cup {wts} /\ wpc' = "building"
       \/ WriterFails /\ UNCHANGED onDisk
    /\ UNCHANGED <<latest, wts, readerVars>>

WriterStep == WTruncateLatest \/ WWriteLatest \/ WRename

Init ==
    /\ R!Init
    /\ wpc = "building"
    /\ wts = InitialLatest

Next ==
    \/ R!ReaderNext /\ UNCHANGED writerVars
    \/ WFinishCreation
    \/ WriterStep

\* The reader's goroutines as in CacheReader; a writer that has started
\* FinishCacheCreation runs it to the end. Starting a new build is not
\* forced.
Fairness ==
    /\ WF_vars(R!NewCacheReader /\ UNCHANGED writerVars)
    /\ WF_vars(R!PollerStep /\ UNCHANGED writerVars)
    /\ WF_vars((R!UpdateStep(R!Owner) \/ R!DeleteStep) /\ UNCHANGED writerVars)
    /\ WF_vars(WriterStep)

Spec == Init /\ [][Next]_vars /\ Fairness

---------------------------------------------------------------------------

TypeOK ==
    /\ R!TypeOK
    /\ wpc \in {"building", "w_truncate", "w_latest", "w_rename"}
    /\ wts \in Timestamps

\* timestamp.latest only ever names an artifact that is fully present on
\* disk (spec sections 3 and 5: the timestamp files are written last).
LatestIsPresent == latest # 0 => latest \in onDisk

\* A polling reader that is not deleted ends up serving the artifact
\* timestamp.latest names whenever that artifact is on disk, even though
\* it may read timestamp.latest empty or ahead of the rename, and earlier
\* publications may have failed half-way (latest left empty, or naming an
\* artifact whose rename failed).
EventuallyServesPublished ==
    <>[](/\ pc[R!Poller] # "off" /\ deletes = 0 /\ latest \in onDisk
         => gen = latest)

\* The reported timestamp names the served generation (as in CacheReader).
ReportedTimestampIsServed == R!ReportedTimestampIsServed

=============================================================================
