----------------------------- MODULE MCSegments ------------------------------
(* Segments on a small instance. *)
EXTENDS Segments

CONSTANTS w1, w2, job

MCWorkers == {w1, w2}
MCFetchers == {w1, w2, job}
MCCeilings == {1, 3}
=============================================================================
