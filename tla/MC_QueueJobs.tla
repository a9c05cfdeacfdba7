--------------------------- MODULE MC_QueueJobs ---------------------------
(* QueueJobs for TLC.                                                      *)
EXTENDS QueueJobs, TLC

CONSTANTS j1, j2, d1, d2, d3

=============================================================================
