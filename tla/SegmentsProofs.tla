--------------------------- MODULE SegmentsProofs ----------------------------
(***************************************************************************)
(* Proofs about Segments, for any playlist, any pool, any ceilings and any *)
(* number of attempts.                                                     *)
(*                                                                         *)
(* That the second pass is alone rests on what the pool keeps: a worker    *)
(* that fetches does so for a running future of its own, nothing is queued *)
(* once the futures were collected, and nothing runs once the pool was     *)
(* left.  That the streak is of its type rests on the number of futures    *)
(* that are over.                                                          *)
(***************************************************************************)
EXTENDS Segments, FiniteSetTheorems, TLAPS

Fetches ==
  [step : {"ask", "wait", "flight", "served", "empty", "pushed", "got", "lost"},
   seg : Segments, attempt : 1..MaxRetry]

LimiterOK ==
  maximum \in Ceilings /\ AllowanceInBounds /\ served \in Nat /\ cooling \in BOOLEAN

InFlightOK == inFlight = {f \in Fetchers : fetch[f].step = "flight"}

FetchOK == fetch \in [Fetchers -> {Rest} \cup Fetches]

TaskOK == task \in [Segments -> {"new", "queued", "running", "over", "collected"}]

FlagsOK ==
  /\ main \in Parallel \cup {"retry", "join"} \cup Ended
  /\ file \in [Segments -> {"none", "whole", "torn"}]
  /\ failed \subseteq Segments
  /\ abort \in BOOLEAN /\ timedOut \in BOOLEAN
  /\ cancel \in BOOLEAN /\ noticed \in BOOLEAN
  /\ resizes \in 0..MaxResizes

\* The futures and the threads that carry them.
PoolOK ==
  /\ \A w \in Workers : fetch[w] # Rest => task[fetch[w].seg] = "running"
  /\ \A v, w \in Workers :
       v # w /\ fetch[v] # Rest /\ fetch[w] # Rest => fetch[v].seg # fetch[w].seg
  /\ main \notin {"submit", "collect"} => \A s \in Segments : task[s] # "queued"
  /\ main \notin Parallel => \A s \in Segments : task[s] # "running"
  /\ main # "retry" => fetch[Main] = Rest

Settled == {s \in Segments : task[s] \in {"over", "collected"}}

\* Every failure that counts is of a future of its own.
StreakOK == streak \in Nat /\ streak <= Cardinality(Settled)

IInv ==
  /\ LimiterOK /\ InFlightOK /\ FetchOK /\ TaskOK /\ FlagsOK /\ PoolOK /\ StreakOK
  /\ JoinedIsComplete

-----------------------------------------------------------------------------

(* The playlist is finite, and so is whatever is settled of it.            *)
LEMMA SettledIsFinite ==
  ASSUME NEW T, T \subseteq Segments
  PROVE  /\ IsFiniteSet(T)
         /\ Cardinality(T) \in Nat
         /\ Cardinality(T) <= NumSegments
<1>1. NumSegments \in Nat \ {0}
  BY SegmentsAssumption
<1>2. IsFiniteSet(Segments) /\ Cardinality(Segments) = NumSegments
  <2>1. IsFiniteSet(1..NumSegments)
    BY <1>1, FS_Interval
  <2>2. Cardinality(1..NumSegments) = IF 1 > NumSegments THEN 0 ELSE NumSegments - 1 + 1
    BY <1>1, FS_Interval
  <2> QED
    BY <1>1, <2>1, <2>2 DEF Segments
<1>3. IsFiniteSet(T) /\ Cardinality(T) <= Cardinality(Segments)
  BY <1>2, FS_Subset
<1> QED
  BY <1>2, <1>3, FS_CardinalityType

(* A thread whose step is not "rest" has a segment and counts its attempts. *)
LEMMA FetchingHasSegment ==
  ASSUME FetchOK, NEW f \in Fetchers, fetch[f].step # "rest"
  PROVE  /\ fetch[f] \in Fetches
         /\ fetch[f] # Rest
         /\ fetch[f].seg \in Segments
  BY DEF FetchOK, Rest, Fetches

(* Nothing but Rest has the step "rest".                                   *)
LEMMA RestIsRest ==
  ASSUME FetchOK, NEW f \in Fetchers
  PROVE  fetch[f] = Rest <=> fetch[f].step = "rest"
  BY DEF FetchOK, Rest, Fetches

(* Main is one of the threads that fetch, and none of the pool.            *)
LEMMA WhoFetches == Main \in Fetchers /\ Main \notin Workers /\ Workers \subseteq Fetchers
  BY WorkersAssumption

-----------------------------------------------------------------------------
(* The limiter.                                                            *)

LEMMA LimiterSteps ==
  ASSUME LimiterOK,
         \/ \E ceiling \in Ceilings : Resize(ceiling)
         \/ Penalise \/ Reward \/ Cool
         \/ \E f \in Fetchers : Take(f) \/ Give(f)
         \/ UNCHANGED limiterVars
  PROVE  LimiterOK'
<1> USE CeilingsAssumption, MinAllowanceAssumption DEF LimiterOK, AllowanceInBounds, limiterVars
<1>1. /\ maximum \in Nat \ {0} /\ MinAllowance \in Nat \ {0}
      /\ allowance \in Nat \ {0} /\ allowance <= maximum
  BY DEF Lesser
<1>2. CASE \E ceiling \in Ceilings : Resize(ceiling)
  <2>1. PICK ceiling \in Ceilings : Resize(ceiling)
    BY <1>2
  <2>2. ceiling \in Nat \ {0}
    OBVIOUS
  <2> QED
    BY <1>1, <2>1, <2>2 DEF Resize, Lesser
<1>3. CASE Penalise
  <2>1. CASE cooling
    BY <1>3, <2>1 DEF Penalise
  <2>2. CASE ~cooling
    <3> DEFINE half == allowance \div 2
               floor == Lesser(MinAllowance, maximum)
    <3>1. half \in Nat /\ half <= maximum
      BY <1>1
    <3>2. floor \in Nat \ {0} /\ floor <= maximum
      BY <1>1 DEF Lesser
    <3>3. /\ cooling' = TRUE /\ served' = 0 /\ maximum' = maximum
          /\ allowance' = Greater(floor, half)
      BY <1>3, <2>2 DEF Penalise
    <3> HIDE DEF half
    <3>4. allowance' \in floor..maximum /\ allowance' # 0
      BY <1>1, <3>1, <3>2, <3>3 DEF Greater
    <3> QED
      BY <1>1, <3>2, <3>3, <3>4
  <2> QED
    BY <2>1, <2>2
<1>4. CASE Reward
  BY <1>1, <1>4 DEF Reward, Lesser
<1>5. CASE Cool
  BY <1>1, <1>5 DEF Cool, Lesser
<1>6. CASE \E f \in Fetchers : Take(f) \/ Give(f)
  BY <1>1, <1>6 DEF Take, Give, Lesser
<1>7. CASE UNCHANGED limiterVars
  BY <1>7
<1> QED
  BY <1>2, <1>3, <1>4, <1>5, <1>6, <1>7

-----------------------------------------------------------------------------
(* Steps of get_req_ts().                                                  *)

(* A thread that goes on with its segment disturbs nobody.                 *)
LEMMA SameSegment ==
  ASSUME FetchOK, PoolOK, NEW f \in Fetchers, fetch[f].step # "rest",
         NEW r \in Fetches, r.seg = fetch[f].seg,
         fetch' = [fetch EXCEPT ![f] = r], UNCHANGED <<task, main>>
  PROVE  FetchOK' /\ PoolOK'
<1>1. fetch[f] \in Fetches /\ fetch[f] # Rest
  BY FetchingHasSegment
<1>2. r # Rest
  BY DEF Fetches, Rest
<1>3. FetchOK'
  BY DEF FetchOK
<1>4. \A g \in Fetchers : /\ fetch'[g] = IF g = f THEN r ELSE fetch[g]
                          /\ fetch'[g] # Rest <=> fetch[g] # Rest
                          /\ fetch'[g].seg = fetch[g].seg
  BY <1>1, <1>2 DEF FetchOK
<1>5. main' # "retry" => fetch'[Main] = Rest
  BY <1>4, WhoFetches DEF PoolOK
<1> HIDE DEF Fetches
<1>6. PoolOK'
  BY <1>4, <1>5, WhoFetches DEF PoolOK
<1> QED
  BY <1>3, <1>6

(* What a change of one thread's step does to the set of requests in flight. *)
LEMMA InFlightFollows ==
  ASSUME FetchOK, InFlightOK, NEW f \in Fetchers, NEW r,
         fetch' = [fetch EXCEPT ![f] = r],
         inFlight' = IF r.step = "flight" THEN inFlight \cup {f} ELSE inFlight \ {f}
  PROVE  InFlightOK'
<1>1. \A g \in Fetchers : fetch'[g] = IF g = f THEN r ELSE fetch[g]
  BY DEF FetchOK
<1> QED
  BY <1>1 DEF InFlightOK

(* Whatever the answer is, the invariant holds after it.                   *)
LEMMA FetchingKeeps ==
  ASSUME IInv, NEW f \in Fetchers, Fetching(f)
  PROVE  IInv'
<1> USE DEF IInv
<1>0. fetch[f].step # "rest"
  BY DEF Fetching, Ask, Request, Answer, Served, PushedBack
<1>1. fetch[f] \in Fetches /\ fetch[f].seg \in Segments
  BY <1>0, FetchingHasSegment
<1>2. UNCHANGED <<main, file, passVars, cancel, resizes>>
  BY DEF Fetching, Ask, Request, Answer, Served, PushedBack
<1>3. PICK r \in Fetches : /\ r.seg = fetch[f].seg
                           /\ fetch' = [fetch EXCEPT ![f] = r]
                           /\ fetch[f].step = "wait" <=> r.step = "flight"
  <2> DEFINE To(step) == [fetch[f] EXCEPT !.step = step]
             Steps == {"ask", "wait", "flight", "served", "empty", "pushed", "got", "lost"}
  <2>1. ASSUME NEW step \in Steps
        PROVE  /\ To(step) \in Fetches
               /\ To(step).seg = fetch[f].seg
               /\ To(step).step = step
               /\ Go(f, step) => fetch' = [fetch EXCEPT ![f] = To(step)]
    <3>1. To(step) \in Fetches /\ To(step).seg = fetch[f].seg /\ To(step).step = step
      BY <1>1 DEF Fetches
    <3>2. Go(f, step) => fetch' = [fetch EXCEPT ![f] = To(step)]
      BY DEF Go
    <3> QED
      BY <3>1, <3>2
  <2> HIDE DEF To
  <2>2. CASE Ask(f)
    BY <2>1, <2>2 DEF Ask
  <2>3. CASE Request(f)
    BY <2>1, <2>3 DEF Request
  <2>4. CASE Answer(f)
    BY <2>1, <2>4 DEF Answer
  <2>5. CASE Served(f)
    BY <2>1, <2>5 DEF Served
  <2>6. CASE PushedBack(f)
    <3>1. CASE fetch[f].attempt < MaxRetry /\ ~abort
      <4> DEFINE r == At("ask", fetch[f].seg, fetch[f].attempt + 1)
      <4>1. fetch' = [fetch EXCEPT ![f] = r]
        BY <1>1, <2>6, <3>1 DEF PushedBack, FetchOK, At
      <4>2. r \in Fetches /\ r.seg = fetch[f].seg /\ r.step = "ask"
        BY <1>1, <3>1, AttemptsAssumption DEF Fetches, At
      <4> QED
        BY <2>6, <4>1, <4>2 DEF PushedBack
    <3>2. CASE ~(fetch[f].attempt < MaxRetry /\ ~abort)
      BY <2>1, <2>6, <3>2 DEF PushedBack
    <3> QED
      BY <3>1, <3>2
  <2> QED
    BY <2>2, <2>3, <2>4, <2>5, <2>6 DEF Fetching
<1>4. FetchOK' /\ PoolOK'
  BY <1>0, <1>2, <1>3, SameSegment DEF passVars
<1>5. LimiterOK'
  <2>1. \/ Penalise \/ Reward \/ Take(f) \/ Give(f) \/ UNCHANGED limiterVars
    BY DEF Fetching, Ask, Request, Answer, Served, PushedBack
  <2> QED
    BY <2>1, LimiterSteps
<1>6. InFlightOK'
  <2>1. f \in inFlight <=> fetch[f].step = "flight"
    BY DEF InFlightOK
  <2>2. CASE fetch[f].step = "wait"
    <3>1. inFlight' = inFlight \cup {f}
      BY <2>2 DEF Fetching, Ask, Request, Answer, Served, PushedBack, Take
    <3> QED
      BY <1>3, <2>2, <3>1, InFlightFollows
  <2>3. CASE fetch[f].step # "wait"
    <3>1. inFlight' = inFlight \ {f}
      BY <2>1, <2>3 DEF Fetching, Ask, Request, Answer, Served, PushedBack, Give,
                        Penalise, Reward, limiterVars
    <3> QED
      BY <1>3, <2>3, <3>1, InFlightFollows
  <2> QED
    BY <2>2, <2>3
<1>7. TaskOK' /\ FlagsOK' /\ StreakOK' /\ JoinedIsComplete'
  BY <1>2 DEF TaskOK, FlagsOK, StreakOK, Settled, JoinedIsComplete, passVars
<1> QED
  BY <1>4, <1>5, <1>6, <1>7

-----------------------------------------------------------------------------
(* Steps of save_ts().                                                     *)

(* One more future is over.                                                *)
LEMMA OneMoreSettled ==
  ASSUME TaskOK, NEW s \in Segments, task[s] = "running",
         task' = [task EXCEPT ![s] = "over"]
  PROVE  /\ Cardinality(Settled') = Cardinality(Settled) + 1
         /\ Cardinality(Settled) \in Nat
<1>1. Settled' = Settled \cup {s} /\ s \notin Settled
  BY DEF TaskOK, Settled
<1>2. IsFiniteSet(Settled) /\ Cardinality(Settled) \in Nat
  BY SettledIsFinite DEF Settled
<1> QED
  BY <1>1, <1>2, FS_AddElement

(* A worker that ends its future frees nobody else's.                      *)
LEMMA WorkerEnds ==
  ASSUME FetchOK, TaskOK, PoolOK, NEW w \in Workers, fetch[w].step # "rest",
         task' = [task EXCEPT ![fetch[w].seg] = "over"],
         fetch' = [fetch EXCEPT ![w] = Rest], UNCHANGED main
  PROVE  FetchOK' /\ TaskOK' /\ PoolOK' /\ task[fetch[w].seg] = "running"
<1>1. w \in Fetchers /\ fetch[w] # Rest /\ fetch[w].seg \in Segments
  BY WhoFetches, FetchingHasSegment
<1>2. FetchOK' /\ TaskOK' /\ task[fetch[w].seg] = "running"
  BY <1>1 DEF FetchOK, TaskOK, PoolOK
<1>3. \A g \in Fetchers : fetch'[g] = IF g = w THEN Rest ELSE fetch[g]
  BY DEF FetchOK
<1>4. \A s \in Segments : task'[s] = IF s = fetch[w].seg THEN "over" ELSE task[s]
  BY DEF TaskOK
<1>5. ASSUME NEW v \in Workers, fetch'[v] # Rest
      PROVE  /\ task'[fetch'[v].seg] = "running"
             /\ v # w /\ fetch'[v] = fetch[v]
  <2>1. v # w /\ fetch'[v] = fetch[v]
    BY <1>3, <1>5, WhoFetches
  <2>2. fetch[v].seg \in Segments
    BY <1>5, <2>1, FetchingHasSegment, RestIsRest, WhoFetches
  <2>3. fetch[v].seg # fetch[w].seg /\ task[fetch[v].seg] = "running"
    BY <1>1, <1>5, <2>1 DEF PoolOK
  <2> QED
    BY <1>4, <2>1, <2>2, <2>3
<1>6. PoolOK'
  <2>1. main' # "retry" => fetch'[Main] = Rest
    BY <1>3, WhoFetches DEF PoolOK
  <2>2. \A s \in Segments : task'[s] \in {"queued", "running"} => task[s] = task'[s]
    BY <1>4
  <2> QED
    BY <1>5, <2>1, <2>2 DEF PoolOK
<1> QED
  BY <1>2, <1>6


(* A thread of the pool that was at rest takes the first queued future, or *)
(* lets it go because the download was cancelled or written off.           *)
LEMMA StartKeeps ==
  ASSUME IInv, NEW w \in Workers, Start(w)
  PROVE  IInv'
<1> USE DEF IInv
<1>1. /\ fetch[w] = Rest /\ w \in Fetchers /\ w # Main
      /\ UNCHANGED <<limiterVars, main, file, failed, streak, abort, timedOut, noticed,
                     cancel, resizes>>
  BY WhoFetches DEF Start
<1>2. PICK s \in Segments :
        /\ task[s] = "queued"
        /\ \/ task' = [task EXCEPT ![s] = "over"] /\ UNCHANGED fetch
           \/ /\ task' = [task EXCEPT ![s] = "running"]
              /\ fetch' = [fetch EXCEPT ![w] = At("ask", s, 1)]
  BY DEF Start, FirstOf
<1>3. main \in Parallel
  BY <1>2 DEF PoolOK, FlagsOK, Parallel
<1>4. LimiterOK' /\ FlagsOK' /\ JoinedIsComplete'
  BY <1>1, LimiterSteps DEF FlagsOK, JoinedIsComplete, limiterVars
<1>5. TaskOK'
  BY <1>2 DEF TaskOK
<1>6. CASE task' = [task EXCEPT ![s] = "over"] /\ UNCHANGED fetch
  <2>1. \A r \in Segments : task'[r] = IF r = s THEN "over" ELSE task[r]
    BY <1>6 DEF TaskOK
  <2>2. FetchOK' /\ InFlightOK'
    BY <1>1, <1>6 DEF FetchOK, InFlightOK, limiterVars
  <2>3. ASSUME NEW v \in Workers, fetch[v] # Rest
        PROVE  fetch[v].seg \in Segments /\ fetch[v].seg # s
    BY <1>2, <2>3, FetchingHasSegment, RestIsRest, WhoFetches DEF PoolOK
  <2>4. PoolOK'
    BY <1>1, <1>6, <2>1, <2>3 DEF PoolOK
  <2>5. StreakOK'
    <3>1. Settled' = Settled \cup {s}
      BY <2>1 DEF Settled
    <3>2. IsFiniteSet(Settled') /\ Cardinality(Settled') \in Nat
      BY SettledIsFinite DEF Settled
    <3>3. Cardinality(Settled) <= Cardinality(Settled') /\ Cardinality(Settled) \in Nat
      BY <3>1, <3>2, FS_Subset, FS_CardinalityType
    <3> QED
      BY <1>1, <3>2, <3>3 DEF StreakOK
  <2> QED
    BY <1>4, <1>5, <2>2, <2>4, <2>5
<1>7. CASE /\ task' = [task EXCEPT ![s] = "running"]
           /\ fetch' = [fetch EXCEPT ![w] = At("ask", s, 1)]
  <2> DEFINE r == At("ask", s, 1)
  <2>1. r \in Fetches /\ r # Rest /\ r.seg = s /\ r.step = "ask"
    BY AttemptsAssumption DEF Fetches, Rest, At
  <2> HIDE DEF r
  <2>2. fetch' = [fetch EXCEPT ![w] = r]
    BY <1>7 DEF r
  <2>3. \A g \in Fetchers : fetch'[g] = IF g = w THEN r ELSE fetch[g]
    BY <2>2 DEF FetchOK
  <2>4. \A q \in Segments : task'[q] = IF q = s THEN "running" ELSE task[q]
    BY <1>7 DEF TaskOK
  <2>5. FetchOK'
    BY <1>1, <2>1, <2>2 DEF FetchOK
  <2>6. InFlightOK'
    <3>1. w \notin inFlight
      BY <1>1 DEF InFlightOK, Rest
    <3>2. inFlight' = inFlight \ {w}
      BY <1>1, <3>1 DEF limiterVars
    <3> QED
      BY <1>1, <2>1, <2>2, <3>2, InFlightFollows
  <2>7. ASSUME NEW v \in Workers, fetch[v] # Rest
        PROVE  fetch[v].seg \in Segments /\ fetch[v].seg # s
    BY <1>2, <2>7, FetchingHasSegment, RestIsRest, WhoFetches DEF PoolOK
  <2>8. PoolOK'
    <3>1. \A v \in Workers : fetch'[v] # Rest => task'[fetch'[v].seg] = "running"
      BY <2>1, <2>3, <2>4, <2>7, WhoFetches DEF PoolOK
    <3>2. \A u, v \in Workers :
            u # v /\ fetch'[u] # Rest /\ fetch'[v] # Rest => fetch'[u].seg # fetch'[v].seg
      BY <2>1, <2>3, <2>7, WhoFetches DEF PoolOK
    <3>3. main' # "retry" => fetch'[Main] = Rest
      BY <1>1, <2>3, WhoFetches DEF PoolOK
    <3>4. main' \notin {"submit", "collect"} => \A q \in Segments : task'[q] # "queued"
      BY <1>1, <2>4 DEF PoolOK
    <3>5. main' \in Parallel
      BY <1>1, <1>3
    <3> QED
      BY <3>1, <3>2, <3>3, <3>4, <3>5 DEF PoolOK
  <2>9. StreakOK'
    <3>1. Settled' = Settled
      BY <1>2, <2>4 DEF Settled
    <3> QED
      BY <1>1, <3>1 DEF StreakOK
  <2> QED
    BY <1>4, <1>5, <2>5, <2>6, <2>8, <2>9
<1> QED
  BY <1>2, <1>6, <1>7

(* A worker saves its segment or gives it up.                              *)
LEMMA EndKeeps ==
  ASSUME IInv, NEW w \in Workers, Save(w) \/ GiveUp(w)
  PROVE  IInv'
<1> USE DEF IInv
<1> DEFINE s == fetch[w].seg
<1>1. /\ fetch[w].step \in {"got", "lost"} /\ w \in Fetchers
      /\ task' = [task EXCEPT ![s] = "over"]
      /\ fetch' = [fetch EXCEPT ![w] = Rest]
      /\ UNCHANGED <<limiterVars, main, timedOut, noticed, cancel, resizes>>
  BY WhoFetches DEF Save, GiveUp
<1>2. s \in Segments
  BY <1>1, FetchingHasSegment
<1>3. FetchOK' /\ TaskOK' /\ PoolOK' /\ task[s] = "running"
  BY <1>1, WorkerEnds
<1>4. main \in Parallel
  BY <1>2, <1>3 DEF PoolOK
<1>5. LimiterOK'
  BY <1>1, LimiterSteps
<1>6. InFlightOK'
  <2>1. w \notin inFlight
    BY <1>1 DEF InFlightOK
  <2>2. inFlight' = inFlight \ {w} /\ Rest.step # "flight"
    BY <1>1, <2>1 DEF limiterVars, Rest
  <2> QED
    BY <1>1, <2>2, InFlightFollows
<1>7. FlagsOK'
  BY <1>1, <1>2 DEF FlagsOK, Save, GiveUp
<1>8. JoinedIsComplete'
  BY <1>1, <1>4 DEF JoinedIsComplete, Parallel
<1>9. StreakOK'
  <2>1. streak' \in {0, streak, streak + 1}
    BY DEF Save, GiveUp
  <2>2. /\ Cardinality(Settled') = Cardinality(Settled) + 1
        /\ Cardinality(Settled) \in Nat
    BY <1>1, <1>2, <1>3, OneMoreSettled
  <2> QED
    BY <2>1, <2>2 DEF StreakOK
<1> QED
  BY <1>3, <1>5, <1>6, <1>7, <1>8, <1>9

-----------------------------------------------------------------------------
(* Steps of the job's thread.                                              *)

(* Submitting: what is queued was new, and the pool is not left by it.     *)
LEMMA SubmitKeeps ==
  ASSUME IInv, Submit
  PROVE  IInv'
<1> USE DEF IInv
<1>1. /\ main = "submit" /\ main' \in {"submit", "collect"}
      /\ UNCHANGED <<limiterVars, fetch, file, failed, streak, abort, timedOut, cancel, resizes>>
  BY DEF Submit
<1>2. PICK s \in Segments : /\ task[s] = "new"
                            /\ \/ UNCHANGED task
                               \/ task' = [task EXCEPT ![s] = "queued"]
  BY DEF Submit, FirstOf
<1>3. LimiterOK' /\ InFlightOK' /\ FetchOK' /\ TaskOK'
  BY <1>1, <1>2, LimiterSteps DEF InFlightOK, FetchOK, TaskOK, limiterVars
<1>4. FlagsOK' /\ JoinedIsComplete'
  BY <1>1 DEF Submit, FlagsOK, JoinedIsComplete, Parallel
<1>5. \A q \in Segments : task[q] # "new" => task'[q] = task[q]
  BY <1>2 DEF TaskOK
<1>6. PoolOK'
  <2>1. ASSUME NEW v \in Workers, fetch[v] # Rest
        PROVE  fetch[v].seg \in Segments /\ task'[fetch[v].seg] = "running"
    BY <1>5, <2>1, FetchingHasSegment, RestIsRest, WhoFetches DEF PoolOK
  <2> QED
    BY <1>1, <2>1 DEF PoolOK, Parallel
<1>7. StreakOK'
  <2>1. Settled' = Settled
    BY <1>2, <1>5 DEF Settled, TaskOK
  <2> QED
    BY <1>1, <2>1 DEF StreakOK
<1> QED
  BY <1>3, <1>4, <1>6, <1>7

(* Collecting a future that is over: what runs goes on, and if the flags   *)
(* were raised nothing is left in the queue.                               *)
LEMMA CollectKeeps ==
  ASSUME IInv, NEW s \in Segments, Collect(s)
  PROVE  IInv'
<1> USE DEF IInv
<1>1. /\ main = "collect" /\ task[s] = "over"
      /\ UNCHANGED <<limiterVars, fetch, file, failed, streak, abort, timedOut, cancel, resizes>>
      /\ noticed' \in BOOLEAN
      /\ \/ task' = Dropped /\ main' = "drain"
         \/ task' = [task EXCEPT ![s] = "collected"] /\ main' = main
  BY DEF Collect, Stopped, FlagsOK
<1>2. LimiterOK' /\ InFlightOK' /\ FetchOK' /\ TaskOK'
  BY <1>1, LimiterSteps DEF InFlightOK, FetchOK, TaskOK, Dropped, limiterVars
<1>3. FlagsOK' /\ JoinedIsComplete'
  BY <1>1 DEF FlagsOK, JoinedIsComplete, Parallel
<1>4. \A q \in Segments :
        /\ task[q] = "running" => task'[q] = "running"
        /\ q \in Settled => task'[q] \in {"over", "collected"}
        /\ main' = "drain" => task'[q] # "queued"
  BY <1>1 DEF TaskOK, Dropped, Settled
<1>5. PoolOK'
  <2>1. ASSUME NEW v \in Workers, fetch[v] # Rest
        PROVE  fetch[v].seg \in Segments /\ task'[fetch[v].seg] = "running"
    BY <1>4, <2>1, FetchingHasSegment, RestIsRest, WhoFetches DEF PoolOK
  <2> QED
    BY <1>1, <1>4, <2>1 DEF PoolOK, Parallel
<1>6. StreakOK'
  <2>1. Settled \subseteq Settled'
    BY <1>4 DEF Settled
  <2>2. /\ IsFiniteSet(Settled') /\ Cardinality(Settled') \in Nat
        /\ Cardinality(Settled) \in Nat
    BY SettledIsFinite DEF Settled
  <2>3. Cardinality(Settled) <= Cardinality(Settled')
    BY <2>1, <2>2, FS_Subset
  <2> QED
    BY <1>1, <2>2, <2>3 DEF StreakOK
<1> QED
  BY <1>2, <1>3, <1>5, <1>6

(* The end of the parallel pass: the futures are all over, then the pool.  *)
LEMMA LeavingKeeps ==
  ASSUME IInv, AllCollected \/ Drain
  PROVE  IInv'
<1> USE DEF IInv
<1>1. /\ UNCHANGED <<limiterVars, fetch, file, passVars, cancel, resizes>>
      /\ main \in Parallel /\ main' \in {"drain", "retry", "error", "cancelled"}
      /\ \A s \in Segments : task[s] # "queued"
      /\ main' # "drain" => \A s \in Segments : task[s] # "running"
  BY DEF AllCollected, Drain, Parallel, PoolOK
<1>2. LimiterOK' /\ InFlightOK' /\ FetchOK' /\ TaskOK' /\ FlagsOK'
  BY <1>1, LimiterSteps
     DEF InFlightOK, FetchOK, TaskOK, FlagsOK, limiterVars, passVars, Parallel, Ended
<1>3. fetch'[Main] = Rest
  BY <1>1 DEF PoolOK, Parallel
<1>4. PoolOK'
  BY <1>1, <1>3 DEF PoolOK, Parallel, passVars
<1>5. StreakOK' /\ JoinedIsComplete'
  BY <1>1 DEF StreakOK, Settled, JoinedIsComplete, passVars
<1> QED
  BY <1>2, <1>4, <1>5

(* The second pass takes one segment after the other.                      *)
LEMMA SecondPassKeeps ==
  ASSUME IInv, Retry \/ RetryEnds
  PROVE  IInv'
<1> USE DEF IInv
<1>1. /\ main = "retry" /\ main' \in {"retry", "cancelled", "error"}
      /\ main' # "retry" => fetch'[Main] = Rest
      /\ UNCHANGED <<limiterVars, task, streak, abort, timedOut, noticed, cancel, resizes>>
  BY WhoFetches DEF Retry, RetryEnds, FetchOK, passVars
<1>2. PICK r \in {Rest} \cup Fetches :
        /\ fetch' = [fetch EXCEPT ![Main] = r]
        /\ r.step # "flight" /\ fetch[Main].step # "flight"
  <2>1. CASE RetryEnds
    <3>1. Rest.step # "flight" /\ Rest \in {Rest} \cup Fetches
      BY DEF Rest
    <3>2. /\ fetch' = [fetch EXCEPT ![Main] = Rest]
          /\ fetch[Main].step \in {"got", "lost"}
      BY <2>1 DEF RetryEnds
    <3>3. fetch[Main].step # "flight"
      BY <3>2
    <3> QED
      BY <3>1, <3>2, <3>3
  <2>2. CASE Retry
    <3>1. fetch[Main].step # "flight" /\ fetch[Main] = Rest
      BY <2>2 DEF Retry, Rest
    <3>2. CASE UNCHANGED fetch
      <4>1. fetch' = [fetch EXCEPT ![Main] = Rest]
        BY <3>1, <3>2 DEF FetchOK
      <4> QED
        BY <3>1, <4>1
    <3>3. CASE ~ UNCHANGED fetch
      <4>1. PICK s \in Segments : fetch' = [fetch EXCEPT ![Main] = At("ask", s, 1)]
        BY <2>2, <3>3 DEF Retry, FlagsOK
      <4>2. At("ask", s, 1) \in Fetches /\ At("ask", s, 1).step # "flight"
        BY AttemptsAssumption DEF At, Fetches
      <4> QED
        BY <3>1, <4>1, <4>2
    <3> QED
      BY <3>2, <3>3
  <2> QED
    BY <2>1, <2>2
<1>3. \A g \in Fetchers : fetch'[g] = IF g = Main THEN r ELSE fetch[g]
  BY <1>2 DEF FetchOK
<1>4. LimiterOK' /\ FetchOK' /\ TaskOK'
  BY <1>1, <1>2, LimiterSteps DEF FetchOK, TaskOK
<1>5. InFlightOK'
  <2>1. Main \notin inFlight
    BY <1>2 DEF InFlightOK
  <2>2. inFlight' = inFlight \ {Main}
    BY <1>1, <2>1 DEF limiterVars
  <2> QED
    BY <1>2, <2>2, InFlightFollows, WhoFetches
<1>6. PoolOK'
  BY <1>1, <1>3, WhoFetches DEF PoolOK, Parallel
<1>7. FlagsOK'
  <2>1. CASE Retry
    BY <1>1, <2>1 DEF Retry, FlagsOK, Ended, passVars
  <2>2. CASE RetryEnds
    <3>1. fetch[Main].seg \in Segments
      BY <2>2, WhoFetches, FetchingHasSegment DEF RetryEnds
    <3> QED
      BY <1>1, <2>2, <3>1 DEF RetryEnds, FlagsOK, Ended
  <2> QED
    BY <2>1, <2>2
<1>8. StreakOK' /\ JoinedIsComplete'
  BY <1>1 DEF StreakOK, Settled, JoinedIsComplete
<1> QED
  BY <1>4, <1>5, <1>6, <1>7, <1>8

(* The files are counted twice before anything is joined.                  *)
LEMMA JoiningKeeps ==
  ASSUME IInv, Require \/ Join
  PROVE  IInv'
<1> USE DEF IInv
<1>1. /\ UNCHANGED <<limiterVars, fetch, file, passVars, cancel, resizes>>
      /\ main \in {"retry", "join"} /\ main' \in {"join", "error", "cancelled", "joined"}
      /\ main' = "joined" => Missing = {}
      /\ fetch[Main] = Rest
  BY DEF Require, Join, PoolOK
<1>2. LimiterOK' /\ InFlightOK' /\ FetchOK' /\ TaskOK' /\ FlagsOK'
  BY <1>1, LimiterSteps
     DEF InFlightOK, FetchOK, TaskOK, FlagsOK, limiterVars, passVars, Ended
<1>3. PoolOK' /\ StreakOK'
  BY <1>1 DEF PoolOK, StreakOK, Settled, Parallel, passVars
<1>4. JoinedIsComplete'
  BY <1>1 DEF JoinedIsComplete, Missing
<1> QED
  BY <1>2, <1>3, <1>4

(* What comes from outside: the watchdog, a cancellation, another ceiling, *)
(* time.                                                                   *)
LEMMA OutsideKeeps ==
  ASSUME IInv, Watchdog \/ Cancel \/ NewCeiling \/ CoolDown \/ UNCHANGED vars
  PROVE  IInv'
<1> USE DEF IInv
<1>1. UNCHANGED <<main, fetch, file, task, failed, streak, abort, noticed>>
  BY DEF Watchdog, Cancel, NewCeiling, CoolDown, vars, passVars
<1>2. inFlight' = inFlight
  BY DEF Watchdog, Cancel, NewCeiling, CoolDown, vars, limiterVars, Resize, Cool
<1>3. LimiterOK'
  <2>1. \/ \E ceiling \in Ceilings : Resize(ceiling)
        \/ Cool \/ UNCHANGED limiterVars
    BY DEF Watchdog, Cancel, NewCeiling, CoolDown, vars
  <2> QED
    BY <2>1, LimiterSteps
<1>4. FlagsOK'
  <2>1. resizes' \in 0..MaxResizes
    BY AttemptsAssumption DEF FlagsOK, Watchdog, Cancel, NewCeiling, CoolDown, vars
  <2>2. timedOut' \in BOOLEAN /\ cancel' \in BOOLEAN
    BY DEF FlagsOK, Watchdog, Cancel, NewCeiling, CoolDown, vars, passVars
  <2>3. UNCHANGED abort
    BY DEF Watchdog, Cancel, NewCeiling, CoolDown, vars, passVars
  <2> QED
    BY <1>1, <2>1, <2>2, <2>3 DEF FlagsOK
<1>5. InFlightOK' /\ FetchOK' /\ TaskOK' /\ PoolOK' /\ StreakOK' /\ JoinedIsComplete'
  BY <1>1, <1>2
     DEF InFlightOK, FetchOK, TaskOK, PoolOK, StreakOK, Settled, JoinedIsComplete
<1> QED
  BY <1>3, <1>4, <1>5

-----------------------------------------------------------------------------
(* The invariant.                                                          *)

LEMMA InitInvariant ==
  ASSUME Init
  PROVE  IInv
<1>1. LimiterOK
  <2>1. /\ maximum \in Ceilings /\ allowance = maximum /\ served = 0 /\ cooling = FALSE
        /\ maximum \in Nat \ {0}
    BY CeilingsAssumption DEF Init, LimiterInit
  <2>2. Lesser(MinAllowance, maximum) \in Nat /\ Lesser(MinAllowance, maximum) <= maximum
    BY <2>1, MinAllowanceAssumption DEF Lesser
  <2>3. AllowanceInBounds
    BY <2>1, <2>2 DEF AllowanceInBounds
  <2> QED
    BY <2>1, <2>3 DEF LimiterOK
<1>2. FetchOK /\ InFlightOK
  BY DEF FetchOK, InFlightOK, Rest, Init, LimiterInit
<1>3. TaskOK /\ FlagsOK
  <2>1. TaskOK /\ file \in [Segments -> {"none", "whole", "torn"}]
    BY DEF TaskOK, Init
  <2>2. resizes \in 0..MaxResizes
    BY AttemptsAssumption DEF Init
  <2> QED
    BY <2>1, <2>2 DEF Init, FlagsOK, Parallel
<1>4. PoolOK
  BY WhoFetches DEF Init, PoolOK, Parallel
<1>5. StreakOK
  <2>1. Cardinality(Settled) \in Nat
    BY SettledIsFinite DEF Settled
  <2> QED
    BY <2>1 DEF Init, StreakOK
<1>6. JoinedIsComplete
  BY DEF Init, JoinedIsComplete
<1> QED
  BY <1>1, <1>2, <1>3, <1>4, <1>5, <1>6 DEF IInv

LEMMA NextInvariant ==
  ASSUME IInv, [Next]_vars
  PROVE  IInv'
<1>1. ASSUME NEW f \in Fetchers, Fetching(f) PROVE IInv'
  BY <1>1, FetchingKeeps
<1>2. ASSUME NEW w \in Workers, Working(w) PROVE IInv'
  BY <1>2, StartKeeps, EndKeeps DEF Working
<1>3. ASSUME MainSteps PROVE IInv'
  BY <1>3, SubmitKeeps, CollectKeeps, LeavingKeeps, SecondPassKeeps, JoiningKeeps
     DEF MainSteps
<1>4. ASSUME Watchdog \/ Cancel \/ NewCeiling \/ CoolDown \/ UNCHANGED vars PROVE IInv'
  BY <1>4, OutsideKeeps
<1> QED
  BY <1>1, <1>2, <1>3, <1>4 DEF Next

(* Every reachable state satisfies the inductive invariant.                *)
THEOREM InvariantHolds == Spec => []IInv
<1>1. Init => IInv
  BY InitInvariant
<1>2. IInv /\ [Next]_vars => IInv'
  BY NextInvariant
<1> QED
  BY <1>1, <1>2, PTL DEF Spec

(* Every state is of its type: in particular the allowance stays between   *)
(* its floor and the ceiling, a round served is spent by the step up it    *)
(* earns, and exactly the requests that are being made hold a place.       *)
THEOREM TypeCorrect == Spec => []TypeOK
<1>1. IInv => TypeOK
  <2> SUFFICES ASSUME IInv PROVE TypeOK
    OBVIOUS
  <2>1. Cardinality(Settled) \in Nat /\ Cardinality(Settled) <= NumSegments
    BY SettledIsFinite DEF Settled
  <2>2. streak \in 0..NumSegments
    BY <2>1, SegmentsAssumption DEF IInv, StreakOK
  <2> QED
    BY <2>2 DEF IInv, TypeOK, LimiterOK, InFlightOK, FetchOK, Fetches, TaskOK, FlagsOK
<1> QED
  BY <1>1, InvariantHolds, PTL

(* What is joined has a file for every segment of the playlist, whatever   *)
(* was given up on, aborted, timed out or cancelled on the way.            *)
THEOREM JoinedHasEverySegment == Spec => []JoinedIsComplete
<1>1. IInv => JoinedIsComplete
  BY DEF IInv
<1> QED
  BY <1>1, InvariantHolds, PTL

(* Once the parallel pass is left no thread of the pool fetches any more,  *)
(* so the second pass asks for one segment at a time and no file changes   *)
(* while the files are counted and joined.                                 *)
THEOREM SecondPassHasNoCompany == Spec => []SecondPassIsAlone
<1>1. IInv => SecondPassIsAlone
  <2> SUFFICES ASSUME IInv, main \notin Parallel
               PROVE  /\ \A w \in Workers : fetch[w] = Rest
                      /\ inFlight \subseteq {Main}
    BY DEF SecondPassIsAlone
  <2>1. ASSUME NEW w \in Workers PROVE fetch[w] = Rest
    <3>1. fetch[w] # Rest => fetch[w].seg \in Segments
      BY FetchingHasSegment, RestIsRest, WhoFetches DEF IInv
    <3> QED
      BY <3>1 DEF IInv, PoolOK
  <2>2. inFlight \subseteq {Main}
    BY <2>1, WorkersAssumption DEF IInv, InFlightOK, Rest
  <2> QED
    BY <2>1, <2>2
<1> QED
  BY <1>1, InvariantHolds, PTL
=============================================================================
