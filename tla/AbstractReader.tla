--------------------------- MODULE AbstractReader ---------------------------
(***************************************************************************)
(* What a reader that updates itself promises, stated without goroutines,  *)
(* handles or program counters (spec sections 4.3, 4.4 and 5).             *)
(*                                                                         *)
(* The folder: an artifact appears, then timestamp.latest is written to    *)
(* name it, and artifacts older than the one named may be unlinked. With   *)
(* LatestMayMoveBack the artifact named may be older than the last one.    *)
(* Whatever the folder does, the reader serves one generation at a time;  *)
(* it only switches to an artifact that is on disk when it switches, and   *)
(* never to an older one than it serves.                                   *)
(***************************************************************************)
EXTENDS Naturals

CONSTANTS Timestamps, LatestMayMoveBack

VARIABLES
    latest,   \* content of timestamp.latest, 0 when missing
    onDisk,   \* artifacts present in the folder
    served    \* the generation lookups see, 0 before the first load

vars == <<latest, onDisk, served>>

Init ==
    /\ latest \in Timestamps \cup {0}
    /\ onDisk = IF latest = 0 THEN {} ELSE {latest}
    /\ served = 0

Publish(t) ==
    /\ t \notin onDisk /\ (t > latest \/ LatestMayMoveBack)
    /\ onDisk' = onDisk \cup {t}
    /\ UNCHANGED <<latest, served>>

Name(t) ==
    /\ t \in onDisk /\ t # latest /\ (t > latest \/ LatestMayMoveBack)
    /\ latest' = t
    /\ UNCHANGED <<onDisk, served>>

Unlink(t) ==
    /\ t \in onDisk /\ t < latest
    /\ onDisk' = onDisk \ {t}
    /\ UNCHANGED <<latest, served>>

\* The reader switches, in one step, to a newer artifact present on disk.
Load(t) ==
    /\ t \in onDisk /\ t > served
    /\ served' = t
    /\ UNCHANGED <<latest, onDisk>>

Next == \E t \in Timestamps : Publish(t) \/ Name(t) \/ Unlink(t) \/ Load(t)

Spec == Init /\ [][Next]_vars

=============================================================================
