--------------------------- MODULE AdaptiveLimiter ---------------------------
(***************************************************************************)
(* How many segment requests may be in flight in the whole panel: class    *)
(* AdaptiveLimiter of app/core/m3u8.py.  It starts at the configured       *)
(* ceiling, is halved when the source pushes back, at most once per        *)
(* interval, and earns one more place per full round of segments served.   *)
(*                                                                         *)
(* A request that finds no place waits with a timeout and tests again, so  *)
(* waiting is the guard of Take; which of the waiting requests gets a      *)
(* place is up to the scheduler.                                           *)
(***************************************************************************)
EXTENDS Integers, FiniteSets

CONSTANTS
  Fetchers,      \* the threads that ask for segments
  Ceilings,      \* the values of max_segment_workers
  MinAllowance   \* MIN_SEGMENT_ALLOWANCE

ASSUME FetchersAssumption == IsFiniteSet(Fetchers)
ASSUME CeilingsAssumption == Ceilings \subseteq Nat \ {0} /\ Ceilings # {}
ASSUME MinAllowanceAssumption == MinAllowance \in Nat \ {0}

VARIABLES
  maximum,    \* the ceiling
  allowance,  \* how many requests may be in flight
  inFlight,   \* the threads whose request is in flight
  served,     \* segments that arrived since the allowance last changed
  cooling     \* less than PENALTY_INTERVAL since the last cut

limiterVars == <<maximum, allowance, inFlight, served, cooling>>

Lesser(a, b) == IF a < b THEN a ELSE b
Greater(a, b) == IF a > b THEN a ELSE b

LimiterInit ==
  /\ maximum \in Ceilings
  /\ allowance = maximum
  /\ inFlight = {}
  /\ served = 0
  /\ cooling = FALSE

\* resize(): an allowance at the ceiling was never cut and moves with it; one below it is
\* only clamped.
Resize(ceiling) ==
  /\ ceiling # maximum
  /\ maximum' = ceiling
  /\ allowance' = IF allowance >= maximum THEN ceiling ELSE Lesser(allowance, ceiling)
  /\ UNCHANGED <<inFlight, served, cooling>>

\* __enter__().
Take(f) ==
  /\ Cardinality(inFlight) < allowance
  /\ inFlight' = inFlight \cup {f}
  /\ UNCHANGED <<maximum, allowance, served, cooling>>

\* Mutant of Give: the place is not given back.
GiveNothing(f) == UNCHANGED limiterVars

\* __exit__().
Give(f) ==
  /\ inFlight' = inFlight \ {f}
  /\ UNCHANGED <<maximum, allowance, served, cooling>>

\* penalise(): one cut per interval, however many answers complain.
Penalise ==
  IF cooling THEN UNCHANGED limiterVars
  ELSE /\ cooling' = TRUE
       /\ served' = 0
       /\ allowance' = Greater(Lesser(MinAllowance, maximum), allowance \div 2)
       /\ UNCHANGED <<maximum, inFlight>>

\* PENALTY_INTERVAL goes by.
Cool == cooling /\ cooling' = FALSE /\ UNCHANGED <<maximum, allowance, inFlight, served>>

\* reward(): a place more per full round.
Reward ==
  IF allowance >= maximum THEN UNCHANGED limiterVars
  ELSE /\ IF served + 1 >= allowance
          THEN served' = 0 /\ allowance' = allowance + 1
          ELSE served' = served + 1 /\ UNCHANGED allowance
       /\ UNCHANGED <<maximum, inFlight, cooling>>

\* What the limiter promises, whatever is asked of it and in whatever order: it never
\* asks for more than the setting, it never cuts below the floor of penalise(), and while
\* it is below the ceiling "the allowance has to be earned at its current width" (reward):
\* no round already served is left over for the next step up.
AllowanceInBounds ==
  /\ allowance \in Lesser(MinAllowance, maximum)..maximum
  /\ allowance < maximum => served < allowance
=============================================================================
