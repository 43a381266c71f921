--------------------------- MODULE MCBatchProcessor ---------------------------
(* Three callers, one of them of high priority, and up to two loops.       *)
EXTENDS BatchProcessor

CONSTANTS h, s1, s2

MCRequests == {h, s1, s2}
MCHigh == {h}
==============================================================================
