--------------------------- MODULE MCCacheReader ---------------------------
(* Instantiation of CacheReader for TLC: three artifact timestamps and     *)
(* the goroutines of one process.                                          *)
EXTENDS CacheReader

CONSTANTS l1, l2

MCTimestamps == 1..3
MCLookupThreads == {l1}
MCTwoLookupThreads == {l1, l2}
=============================================================================
