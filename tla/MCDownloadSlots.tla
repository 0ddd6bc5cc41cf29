--------------------------- MODULE MCDownloadSlots ---------------------------
(* DownloadSlots on small instances. *)
EXTENDS DownloadSlots

CONSTANTS a, b, c

MCJobs == {a, b, c}
MCTwoJobs == {a, b}
MCLimits == {1, 2}
=============================================================================
