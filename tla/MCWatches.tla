------------------------------ MODULE MCWatches ------------------------------
(* Watches on small instances. *)
EXTENDS Watches

CONSTANTS w1, ann, bob

MCOneRow == {w1}
MCUsers == {ann, bob}
=============================================================================
