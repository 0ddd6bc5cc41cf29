---------------------------- MODULE MCJobManager ----------------------------
(* JobManager on small instances: a batch of two episodes, and a film. *)
EXTENDS JobManager

CONSTANTS ep1, ep2, film

MCBatch == <<ep1, ep2>>
MCSpare == {film}
NoSpare == {}
=============================================================================
