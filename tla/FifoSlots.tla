------------------------------ MODULE FifoSlots ------------------------------
(***************************************************************************)
(* What the download slots promise, without saying how: a line of callers  *)
(* and a set of holders.  A caller joins at the end, is granted a slot     *)
(* only from the head of the line and only while fewer than limit hold     *)
(* one, may give up its place from anywhere in the line, and the limit can *)
(* change at any time without taking a slot from whoever holds one.        *)
(*                                                                         *)
(* The promise is the docstring of DownloadSlots (app/jobs.py): "at most   *)
(* limit downloads at once, granted strictly in arrival order", with the   *)
(* limit changed in place.  DownloadSlots.tla is the monitor that keeps it.*)
(***************************************************************************)
EXTENDS Integers, FiniteSets, Lines

CONSTANTS Callers,   \* whoever may ask for a slot
          Limits     \* the values the limit may be given

VARIABLES limit,     \* how many may hold a slot
          line,      \* the callers waiting, in arrival order
          holders    \* the callers holding a slot

vars == <<limit, line, holders>>

Init ==
  /\ limit \in Limits
  /\ line = <<>>
  /\ holders = {}

Join(c) ==
  /\ c \notin ToSet(line) \cup holders
  /\ line' = Append(line, c)
  /\ UNCHANGED <<limit, holders>>

Grant(c) ==
  /\ line # <<>>
  /\ c = Head(line)
  /\ Cardinality(holders) < limit
  /\ line' = Tail(line)
  /\ holders' = holders \cup {c}
  /\ UNCHANGED limit

GiveUp(c) ==
  /\ c \in ToSet(line)
  /\ line' = Without(line, c)
  /\ UNCHANGED <<limit, holders>>

Finish(c) ==
  /\ c \in holders
  /\ holders' = holders \ {c}
  /\ UNCHANGED <<limit, line>>

Resize(n) ==
  /\ limit' = n
  /\ UNCHANGED <<line, holders>>

Next ==
  \/ \E c \in Callers : Join(c) \/ Grant(c) \/ GiveUp(c) \/ Finish(c)
  \/ \E n \in Limits : Resize(n)

Spec == Init /\ [][Next]_vars
=============================================================================
