---------------------------- MODULE CacheReader ----------------------------
(***************************************************************************)
(* The Go CacheReader of src/axoncache.go: the reader handle shared by     *)
(* lookup goroutines, the owner goroutine that constructs, updates and     *)
(* deletes it, and the background goroutine started by checkForNewFiles    *)
(* that polls <task>.cache.timestamp.latest and calls Update.              *)
(*                                                                         *)
(* The C++ reader behind CacheReaderHandle is not under src/: its          *)
(* Initialize and DeleteCppObject are modelled from the spec (sections 4.3 *)
(* and 4.4): Initialize swaps the loaded generation atomically, or fails   *)
(* and leaves the previous generation serving.                             *)
(*                                                                         *)
(* The destination folder is an environment: a download renames an        *)
(* artifact into place, then writes timestamp.latest to name it, and       *)
(* cleanup unlinks artifacts older than the one named. With               *)
(* LatestMayMoveBack, the artifact named may be older than the one named   *)
(* before, as after a download from a lagging mirror or a writer whose     *)
(* clock stepped back; an older artifact may then be written again.        *)
(***************************************************************************)
EXTENDS Naturals, FiniteSets

CONSTANTS
    Timestamps,       \* artifact timestamps that may be published (> 0)
    LookupThreads,    \* goroutines calling GetKey/ContainsKey/...
    PinnedTimestamp,  \* CacheReaderOptions.Timestamp parsed, 0 when empty
    OwnerCalls,       \* calls the owner makes after construction: "update", "delete"
    MaxDeletes,       \* bound on the owner's calls to Delete
    HasCallback,      \* CacheReaderOptions.UpdateCallback /= nil
    InitialLatest,    \* timestamp.latest when the reader is constructed, 0 if missing
    LatestMayMoveBack \* timestamp.latest may be rewritten to an older artifact

ASSUME Timestamps \subseteq (Nat \ {0}) /\ Timestamps # {}
ASSUME PinnedTimestamp \in Timestamps \cup {0}
ASSUME OwnerCalls \subseteq {"update", "delete"}
ASSUME MaxDeletes \in Nat /\ HasCallback \in BOOLEAN
ASSUME InitialLatest \in Timestamps \cup {0}
ASSUME LatestMayMoveBack \in BOOLEAN

Poller == "poller"
Owner == "owner"
Updaters == {Poller, Owner}
Threads == Updaters \cup LookupThreads

VARIABLES
    latest,                   \* content of timestamp.latest, 0 when missing
    onDisk,                   \* artifacts <task>.<ts>.cache present on disk
    mostRecentFileTimestamp,  \* CacheReader.MostRecentFileTimestamp
    handle,                   \* CacheReader.Handle: "live" or "nil"
    cobj,                     \* the C++ object behind Handle: "live" or "freed"
    gen,                      \* generation loaded by the C++ reader, 0 if none
    stopClosed,               \* close(c.Stop) has happened
    pc,                       \* program counter of each goroutine
    arg,                      \* timestamp argument of an Update in progress
    deletes,                  \* calls to Delete made so far
    fault                     \* crashes the code can reach (set of kinds)

envVars == <<latest, onDisk>>
vars == <<latest, onDisk, mostRecentFileTimestamp, handle, cobj, gen,
          stopClosed, pc, arg, deletes, fault>>

UpdateStates == {"u_check", "u_enter", "u_in_c", "u_store", "u_cb"}
InCStates == {"u_in_c", "l_in_c"}
PcStates == {"new", "idle", "off", "p_stop", "p_latest", "sleep", "exited",
             "l_enter", "d_free", "d_nil", "d_close"} \cup UpdateStates \cup InCStates
Faults == {"c_call_on_deleted_handle", "close_of_closed_channel"}

Goto(t, s) == pc' = [pc EXCEPT ![t] = s]

\* Where an Update returns to: the poller sleeps, the owner is free again.
Ret(t) == IF t = Poller THEN "sleep" ELSE "idle"

\* The handle may be passed to the C library: Handle non-nil, object alive.
HandleUsable == handle = "live" /\ cobj = "live"

---------------------------------------------------------------------------
(* Environment: publication and cleanup in the destination folder.         *)

\* The rename of the decompressed temp file to <task>.<ts>.cache.
PublishArtifact(t) ==
    /\ t \notin onDisk /\ (t > latest \/ LatestMayMoveBack)
    /\ onDisk' = onDisk \cup {t}
    /\ UNCHANGED latest

\* The timestamp files, written after the artifact is in place.
PublishLatest(t) ==
    /\ t \in onDisk /\ t # latest /\ (t > latest \/ LatestMayMoveBack)
    /\ latest' = t
    /\ UNCHANGED onDisk

\* RemoveOldFiles after the download of the newest timestamp: the groups of
\* older timestamps go. The removal of the artifact latest names, which the
\* downloader's cleanups can do, is Downloader's and ReaderDownloader's.
UnlinkOld(t) ==
    /\ t \in onDisk /\ t < latest
    /\ onDisk' = onDisk \ {t}
    /\ UNCHANGED latest

readerVars == <<mostRecentFileTimestamp, handle, cobj, gen, stopClosed, pc,
                arg, deletes, fault>>

Environment ==
    /\ \E t \in Timestamps :
           \/ PublishArtifact(t) \/ PublishLatest(t) \/ UnlinkOld(t)
    /\ UNCHANGED readerVars

---------------------------------------------------------------------------
(* NewCacheReader: getLatestTimestamp or the pinned timestamp, Update of   *)
(* it, then checkForNewFiles unless a timestamp was pinned. No other       *)
(* goroutine holds the reader yet, so the constructor is one step: a       *)
(* folder change between getLatestTimestamp and CacheReader_Initialize is  *)
(* taken to come before or after it, and the constructor's callback, which *)
(* nothing can race, is left out.                                          *)

NewCacheReader ==
    LET ts == IF PinnedTimestamp = 0 THEN latest ELSE PinnedTimestamp IN
    /\ pc[Owner] = "new"
    /\ \/ /\ ts \in onDisk
          /\ gen' = ts
          /\ mostRecentFileTimestamp' = ts
          /\ pc' = [pc EXCEPT ![Owner] = "idle",
                    ![Poller] = IF PinnedTimestamp = 0 THEN "p_stop" ELSE "off"]
       \/ /\ ts \notin onDisk
          /\ Goto(Owner, "idle")
          /\ UNCHANGED <<gen, mostRecentFileTimestamp>>
    /\ UNCHANGED <<envVars, handle, cobj, stopClosed, arg, deletes, fault>>

---------------------------------------------------------------------------
(* Update(timestamp), run by the owner or by the poller goroutine.         *)

\* A mutant: the timestamp is published before CacheReader_Initialize.
UCheckStoresFirst(t) ==
    /\ pc[t] = "u_check"
    /\ \/ handle = "nil" /\ Goto(t, Ret(t))
                         /\ UNCHANGED mostRecentFileTimestamp
       \/ handle = "live" /\ Goto(t, "u_enter")
                          /\ mostRecentFileTimestamp' = arg[t]
    /\ UNCHANGED <<envVars, handle, cobj, gen, stopClosed, arg, deletes, fault>>

\* A mutant: Update does not test c.Handle for nil.
UCheckSkipsNilCheck(t) ==
    /\ pc[t] = "u_check"
    /\ Goto(t, "u_enter")
    /\ UNCHANGED <<envVars, mostRecentFileTimestamp, handle, cobj, gen,
                   stopClosed, arg, deletes, fault>>

UCheck(t) ==
    /\ pc[t] = "u_check"
    /\ \/ handle = "nil" /\ Goto(t, Ret(t))
       \/ handle = "live" /\ Goto(t, "u_enter")
    /\ UNCHANGED <<envVars, mostRecentFileTimestamp, handle, cobj, gen,
                   stopClosed, arg, deletes, fault>>

\* The C call re-reads c.Handle; Delete may have run since UCheck.
UEnter(t) ==
    /\ pc[t] = "u_enter"
    /\ \/ HandleUsable /\ Goto(t, "u_in_c") /\ UNCHANGED fault
       \/ ~HandleUsable /\ Goto(t, Ret(t))
                        /\ fault' = fault \cup {"c_call_on_deleted_handle"}
    /\ UNCHANGED <<envVars, mostRecentFileTimestamp, handle, cobj, gen,
                   stopClosed, arg, deletes>>

\* CacheReader_Initialize returns: the new generation is swapped in, or the
\* artifact is missing and the previous generation keeps serving.
UInC(t) ==
    /\ pc[t] = "u_in_c"
    /\ \/ arg[t] \in onDisk /\ gen' = arg[t] /\ Goto(t, "u_store")
       \/ arg[t] \notin onDisk /\ Goto(t, Ret(t)) /\ UNCHANGED gen
    /\ UNCHANGED <<envVars, mostRecentFileTimestamp, handle, cobj,
                   stopClosed, arg, deletes, fault>>

UStore(t) ==
    /\ pc[t] = "u_store"
    /\ mostRecentFileTimestamp' = arg[t]
    /\ Goto(t, IF HasCallback THEN "u_cb" ELSE Ret(t))
    /\ UNCHANGED <<envVars, handle, cobj, gen, stopClosed, arg, deletes, fault>>

\* The callback looks the reader up (GetKey): isInitialized, then a C call.
UCallback(t) ==
    /\ pc[t] = "u_cb"
    /\ fault' = IF mostRecentFileTimestamp > 0 /\ ~HandleUsable
                THEN fault \cup {"c_call_on_deleted_handle"} ELSE fault
    /\ Goto(t, Ret(t))
    /\ UNCHANGED <<envVars, mostRecentFileTimestamp, handle, cobj, gen,
                   stopClosed, arg, deletes>>

UpdateStep(t) == UCheck(t) \/ UEnter(t) \/ UInC(t) \/ UStore(t) \/ UCallback(t)

---------------------------------------------------------------------------
(* The goroutine of checkForNewFiles. maybeDownload returns at once: this  *)
(* module has no BaseUrls (the downloader is composed in ReaderDownloader).*)

PCheckStop ==
    /\ pc[Poller] = "p_stop"
    /\ \/ stopClosed /\ Goto(Poller, "exited")
       \/ ~stopClosed /\ Goto(Poller, "p_latest")
    /\ UNCHANGED <<envVars, mostRecentFileTimestamp, handle, cobj, gen,
                   stopClosed, arg, deletes, fault>>

\* A mutant: any timestamp other than the one served triggers an Update.
PLatestNotEqual ==
    /\ pc[Poller] = "p_latest"
    /\ \/ /\ latest \notin {0, mostRecentFileTimestamp}
          /\ arg' = [arg EXCEPT ![Poller] = latest]
          /\ Goto(Poller, "u_check")
       \/ /\ latest \in {0, mostRecentFileTimestamp}
          /\ Goto(Poller, "sleep")
          /\ UNCHANGED arg
    /\ UNCHANGED <<envVars, mostRecentFileTimestamp, handle, cobj, gen,
                   stopClosed, deletes, fault>>

\* getLatestTimestamp, compared with the atomic load of MostRecentFileTimestamp.
PLatest ==
    /\ pc[Poller] = "p_latest"
    /\ \/ /\ latest > mostRecentFileTimestamp
          /\ arg' = [arg EXCEPT ![Poller] = latest]
          /\ Goto(Poller, "u_check")
       \/ /\ latest <= mostRecentFileTimestamp
          /\ Goto(Poller, "sleep")
          /\ UNCHANGED arg
    /\ UNCHANGED <<envVars, mostRecentFileTimestamp, handle, cobj, gen,
                   stopClosed, deletes, fault>>

\* A mutant: the goroutine returns after one poll instead of looping.
PSleepReturns ==
    /\ pc[Poller] = "sleep"
    /\ Goto(Poller, "exited")
    /\ UNCHANGED <<envVars, mostRecentFileTimestamp, handle, cobj, gen,
                   stopClosed, arg, deletes, fault>>

PSleep ==
    /\ pc[Poller] = "sleep"
    /\ Goto(Poller, "p_stop")
    /\ UNCHANGED <<envVars, mostRecentFileTimestamp, handle, cobj, gen,
                   stopClosed, arg, deletes, fault>>

PollerStep == PCheckStop \/ PLatest \/ PSleep \/ UpdateStep(Poller)

---------------------------------------------------------------------------
(* Calls of the owner goroutine after construction.                        *)

OwnerUpdate(ts) ==
    /\ "update" \in OwnerCalls
    /\ pc[Owner] = "idle"
    /\ arg' = [arg EXCEPT ![Owner] = ts]
    /\ Goto(Owner, "u_check")
    /\ UNCHANGED <<envVars, mostRecentFileTimestamp, handle, cobj, gen,
                   stopClosed, deletes, fault>>

\* A mutant: Delete does not reset MostRecentFileTimestamp.
DeleteStoreKeepsTimestamp ==
    /\ "delete" \in OwnerCalls
    /\ pc[Owner] = "idle" /\ deletes < MaxDeletes
    /\ deletes' = deletes + 1
    /\ Goto(Owner, "d_free")
    /\ UNCHANGED <<envVars, mostRecentFileTimestamp, handle, cobj, gen,
                   stopClosed, arg, fault>>

\* Delete begins by resetting MostRecentFileTimestamp to 0.
DeleteStore ==
    /\ "delete" \in OwnerCalls
    /\ pc[Owner] = "idle" /\ deletes < MaxDeletes
    /\ mostRecentFileTimestamp' = 0
    /\ deletes' = deletes + 1
    /\ Goto(Owner, "d_free")
    /\ UNCHANGED <<envVars, handle, cobj, gen, stopClosed, arg, fault>>

\* CacheReader_DeleteCppObject(c.Handle); a nil handle deletes nothing.
DeleteFree ==
    /\ pc[Owner] = "d_free"
    /\ cobj' = IF handle = "live" THEN "freed" ELSE cobj
    /\ Goto(Owner, "d_nil")
    /\ UNCHANGED <<envVars, mostRecentFileTimestamp, handle, gen, stopClosed,
                   arg, deletes, fault>>

DeleteNil ==
    /\ pc[Owner] = "d_nil"
    /\ handle' = "nil"
    /\ Goto(Owner, "d_close")
    /\ UNCHANGED <<envVars, mostRecentFileTimestamp, cobj, gen, stopClosed,
                   arg, deletes, fault>>

\* A mutant: Delete never closes c.Stop.
DeleteCloseForgotten ==
    /\ pc[Owner] = "d_close"
    /\ Goto(Owner, "idle")
    /\ UNCHANGED <<envVars, mostRecentFileTimestamp, handle, cobj, gen,
                   stopClosed, arg, deletes, fault>>

\* close(c.Stop): closing a closed channel panics.
DeleteClose ==
    /\ pc[Owner] = "d_close"
    /\ \/ ~stopClosed /\ stopClosed' = TRUE /\ UNCHANGED fault
       \/ stopClosed /\ fault' = fault \cup {"close_of_closed_channel"}
                     /\ UNCHANGED stopClosed
    /\ Goto(Owner, "idle")
    /\ UNCHANGED <<envVars, mostRecentFileTimestamp, handle, cobj, gen,
                   arg, deletes>>

DeleteStep == DeleteFree \/ DeleteNil \/ DeleteClose

---------------------------------------------------------------------------
(* Lookups (GetKey, ContainsKey, GetBool, ...): isInitialized, then the C  *)
(* call on c.Handle. A lookup on an uninitialized reader returns           *)
(* ErrUnInitialized without a state change.                                *)

LookupCheck(l) ==
    /\ pc[l] = "idle"
    /\ mostRecentFileTimestamp > 0
    /\ Goto(l, "l_enter")
    /\ UNCHANGED <<envVars, mostRecentFileTimestamp, handle, cobj, gen,
                   stopClosed, arg, deletes, fault>>

LookupEnter(l) ==
    /\ pc[l] = "l_enter"
    /\ \/ HandleUsable /\ Goto(l, "l_in_c") /\ UNCHANGED fault
       \/ ~HandleUsable /\ Goto(l, "idle")
                        /\ fault' = fault \cup {"c_call_on_deleted_handle"}
    /\ UNCHANGED <<envVars, mostRecentFileTimestamp, handle, cobj, gen,
                   stopClosed, arg, deletes>>

LookupReturn(l) ==
    /\ pc[l] = "l_in_c"
    /\ Goto(l, "idle")
    /\ UNCHANGED <<envVars, mostRecentFileTimestamp, handle, cobj, gen,
                   stopClosed, arg, deletes, fault>>

LookupStep(l) == LookupCheck(l) \/ LookupEnter(l) \/ LookupReturn(l)

---------------------------------------------------------------------------

\* The reader before NewCacheReader has run.
ReaderInit ==
    /\ mostRecentFileTimestamp = 0
    /\ handle = "live"
    /\ cobj = "live"
    /\ gen = 0
    /\ stopClosed = FALSE
    /\ pc = [t \in Threads |-> IF t = Owner THEN "new"
                               ELSE IF t = Poller THEN "off" ELSE "idle"]
    /\ arg = [t \in Updaters |-> 0]
    /\ deletes = 0
    /\ fault = {}

Init ==
    /\ latest = InitialLatest
    /\ onDisk = IF latest = 0 THEN {} ELSE {latest}
    /\ ReaderInit

\* Every step of the process that holds the reader.
ReaderNext ==
    \/ NewCacheReader
    \/ \E ts \in Timestamps : OwnerUpdate(ts)
    \/ DeleteStore
    \/ DeleteStep
    \/ \E t \in Updaters : UpdateStep(t)
    \/ PCheckStop \/ PLatest \/ PSleep
    \/ \E l \in LookupThreads : LookupStep(l)

Next == Environment \/ ReaderNext

\* The constructor runs; a running goroutine is scheduled (the poller, and
\* the owner once inside a call). Publishers, lookups and the owner's
\* decision to make a call are not forced to happen.
Fairness ==
    /\ WF_vars(NewCacheReader)
    /\ WF_vars(PollerStep)
    /\ WF_vars(UpdateStep(Owner) \/ DeleteStep)

Spec == Init /\ [][Next]_vars /\ Fairness

---------------------------------------------------------------------------
(* Properties                                                              *)

TypeOK ==
    /\ latest \in Timestamps \cup {0}
    /\ onDisk \subseteq Timestamps
    /\ mostRecentFileTimestamp \in Timestamps \cup {0}
    /\ handle \in {"live", "nil"} /\ cobj \in {"live", "freed"}
    /\ gen \in Timestamps \cup {0}
    /\ stopClosed \in BOOLEAN
    /\ pc \in [Threads -> PcStates]
    /\ arg \in [Updaters -> Timestamps \cup {0}]
    /\ deletes \in 0..MaxDeletes
    /\ fault \subseteq Faults

\* Delete is safe against every other goroutine (spec section 5): no
\* lookup, Update or callback calls the C library on a freed or nil handle,
\* no C call is in progress when Delete frees the object, and a second
\* Delete does not panic on close(c.Stop).
DeleteIsSafe ==
    /\ fault = {}
    /\ ~(cobj = "freed" /\ \E t \in Threads : pc[t] \in InCStates)

\* After Delete has reset MostRecentFileTimestamp, every lookup reports
\* ErrUnInitialized for good (spec 8.9): nothing makes isInitialized true
\* again, in particular not an Update of the poller goroutine.
DeleteIsFinal == deletes > 0 => mostRecentFileTimestamp = 0

\* MostRecentFileTimestamp, which the poller compares with timestamp.latest
\* and callers read, names the generation the C reader serves whenever no
\* Update is between CacheReader_Initialize and its atomic store (spec 8.7).
ReportedTimestampIsServed ==
    (/\ \A t \in Updaters : pc[t] \notin UpdateStates
     /\ mostRecentFileTimestamp > 0)
        => gen = mostRecentFileTimestamp

\* Once timestamp.latest stops changing, a polling reader that exists and is
\* not deleted ends up serving the artifact it names, or a newer one when
\* latest moved back, for good, despite Updates that fail because cleanup
\* unlinked the artifact the goroutine read.
EventuallyServesLatest ==
    (\E t \in Timestamps \cup {0} : <>[](latest = t))
        => <>[](pc[Poller] # "off" /\ deletes = 0 => gen >= latest)

\* The reader seen through the generation it serves, gen, implements
\* AbstractReader: whatever the interleaving of the goroutine's Updates, the
\* owner's Delete and the folder's publications and unlinks, the served
\* generation only moves forward, also when timestamp.latest is rewritten to
\* an older artifact (the goroutine's strict > of checkForNewFiles), and only
\* to an artifact on disk at the moment CacheReader_Initialize switches.
AR == INSTANCE AbstractReader WITH served <- gen

ServesForwardToPresentArtifacts == AR!Spec

\* After Delete, the goroutine started by checkForNewFiles returns.
PollerStopsAfterDelete ==
    (deletes > 0 /\ pc[Poller] # "off") ~> pc[Poller] = "exited"

=============================================================================
