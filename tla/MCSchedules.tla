---------------------------- MODULE MCSchedules -----------------------------
(* Schedules on small instances. *)
EXTENDS Schedules

CONSTANTS a, b

MCEntries == {a, b}
MCOneEntry == {a}
=============================================================================
