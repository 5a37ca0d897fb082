------------------------- MODULE MCLocalPublication -------------------------
(* Instantiation of LocalPublication: the writer publishes artifacts 2, 3 *)
(* and 4 after artifact 1, so that a failed publication can be followed *)
(* by a good one and then a last one; one lookup goroutine.               *)
EXTENDS LocalPublication

CONSTANTS l1

MCTimestamps == 1..4
MCLookupThreads == {l1}
=============================================================================
