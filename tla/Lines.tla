------------------------------- MODULE Lines --------------------------------
(***************************************************************************)
(* A waiting line as a sequence without repetition.                        *)
(***************************************************************************)
EXTENDS SequencesExt

\* deque.remove(x): the line without the first place of x.
Without(s, x) ==
  RemoveAt(s, CHOOSE i \in DOMAIN s : s[i] = x /\ \A k \in 1..(i - 1) : s[k] # x)
=============================================================================
