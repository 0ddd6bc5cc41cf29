--------------------------- MODULE SchedulesProofs ---------------------------
(***************************************************************************)
(* Proofs about Schedules, for any entries, restarts and requests.         *)
(*                                                                         *)
(* Both properties rest on the life of one entry (Safe): nobody aims at it *)
(* before it is listed; it is marked in the file before it is dispatched,  *)
(* so a later session finds no pending entry of it and makes no job; and a *)
(* job that is still scheduled has no call in the executor, so one that is *)
(* cancelled then can only be begun by a call that sees the cancellation,  *)
(* and a later session that finds no pending entry of it has nothing to    *)
(* dispatch.                                                               *)
(***************************************************************************)
EXTENDS Schedules, FiniteSetTheorems, TLAPS

Jobs == [status : {"none", "scheduled", "queued", "running"} \cup Over,
         listed : BOOLEAN, cancelled : BOOLEAN]
Firings == {AtRest} \cup [step : {"fire", "submit"}, entry : Entries]

Shape ==
  /\ entry \in [Entries -> {"absent", "pending", "fired"}]
  /\ adding \in [Entries -> {"new", "stored", "listed", "added"}]
  /\ job \in [Entries -> Jobs]
  /\ firing \in [Firers -> Firings]
  /\ calls \in [Entries -> Nat] /\ running \in [Entries -> Nat]
  /\ dispatched \in [Entries -> SUBSET Nat] /\ session \in Nat
  /\ withdrawn \subseteq Entries /\ revived \subseteq Entries

(* Firer w is about to dispatch e.                                         *)
Aims(w, e) == firing[w].step # "none" /\ firing[w].entry = e

(* Nothing was made of e yet.                                              *)
Unborn(e) ==
  /\ job[e] = NoJob /\ calls[e] = 0 /\ running[e] = 0
  /\ dispatched[e] = {} /\ e \notin withdrawn
  /\ \A w \in Firers : ~Aims(w, e)

Once(e) == dispatched[e] = {} \/ \E s \in Nat : dispatched[e] = {s}

(* An entry that was dispatched in an earlier session is not looked at.    *)
LeftAlone(e) ==
  dispatched[e] # {} /\ session \notin dispatched[e] =>
    ~job[e].listed /\ \A w \in Firers : ~Aims(w, e)

Marked(e) ==
  /\ dispatched[e] # {} => entry[e] # "pending"
  /\ \A w \in Firers : Aims(w, e) /\ firing[w].step = "submit" => entry[e] # "pending"

Scheduled(e) ==
  job[e].status = "scheduled" =>
    /\ calls[e] = 0 /\ running[e] = 0
    /\ \A w \in Firers : Aims(w, e) => firing[w].step # "submit"

(* Nothing in this session can dispatch e.                                 *)
OutOfReach(e) == calls[e] = 0 /\ ~job[e].listed /\ \A w \in Firers : ~Aims(w, e)

Withdrawn(e) ==
  e \in withdrawn /\ e \notin revived =>
    running[e] = 0 /\ (job[e].cancelled \/ OutOfReach(e))

Safe(e) ==
  /\ adding[e] = "new" => entry[e] = "absent"
  /\ adding[e] \in {"new", "stored"} => Unborn(e)
  /\ Once(e) /\ LeftAlone(e) /\ Marked(e) /\ Scheduled(e) /\ Withdrawn(e)

IInv == Shape /\ \A e \in Entries : Safe(e)

-----------------------------------------------------------------------------

LEMMA InitInvariant == Init => IInv
<1> SUFFICES ASSUME Init PROVE IInv
  OBVIOUS
<1>1. Shape
  BY DEF Init, Shape, Jobs, Firings, NoJob, AtRest
<1>2. ASSUME NEW e \in Entries PROVE Safe(e)
  BY <1>2 DEF Init, Safe, Unborn, Once, LeftAlone, Marked, Scheduled, Withdrawn, Aims,
              NoJob, AtRest
<1> QED
  BY <1>1, <1>2 DEF IInv

(* An entry of which nothing changes stays safe.                           *)
LEMMA Untouched ==
  ASSUME NEW e \in Entries, Safe(e), session' = session,
         entry'[e] = entry[e], adding'[e] = adding[e], job'[e] = job[e],
         calls'[e] = calls[e], running'[e] = running[e], dispatched'[e] = dispatched[e],
         e \in withdrawn' => e \in withdrawn, e \in revived => e \in revived',
         \A w \in Firers : Aims(w, e)' => Aims(w, e) /\ firing'[w].step = firing[w].step
  PROVE  Safe(e)'
BY DEF Safe, Unborn, Once, LeftAlone, Marked, Scheduled, Withdrawn, OutOfReach

(* Into the store, into the jobs, and the link between them.               *)
LEMMA AddingKeeps ==
  ASSUME IInv, NEW e \in Entries, Store(e) \/ List(e) \/ Link(e)
  PROVE  IInv'
<1>1. UNCHANGED <<firing, calls, running, dispatched, session, withdrawn, revived>>
  BY DEF Store, List, Link, runVars, storeVars, history
<1>2. ASSUME NEW f \in Entries PROVE \A w \in Firers : Aims(w, f)' <=> Aims(w, f)
  BY <1>1 DEF Aims
<1>3. Shape /\ \A f \in Entries : Safe(f)
  BY DEF IInv
<1>4. /\ entry' = entry \/ (adding[e] = "new" /\ entry' = [entry EXCEPT ![e] = "pending"])
      /\ job' = job \/ (adding[e] = "stored" /\ job' = [job EXCEPT ![e] = JobFor(e)])
      /\ \/ adding[e] = "new" /\ adding' = [adding EXCEPT ![e] = "stored"] /\ job' = job
         \/ adding[e] = "stored" /\ adding' = [adding EXCEPT ![e] = "listed"] /\ entry' = entry
         \/ /\ adding[e] = "listed" /\ adding' = [adding EXCEPT ![e] = "added"]
            /\ job' = job /\ entry' = entry
  BY DEF Store, List, Link, storeVars
<1>5. /\ JobFor(e) \in Jobs /\ ~JobFor(e).cancelled
      /\ JobFor(e).status \in {"scheduled", "queued"}
  BY DEF JobFor, Jobs
<1>6. Shape'
  BY <1>1, <1>3, <1>4, <1>5 DEF Shape
<1>7. ASSUME NEW f \in Entries, f # e PROVE Safe(f)'
  <2>1. entry'[f] = entry[f] /\ adding'[f] = adding[f] /\ job'[f] = job[f]
    BY <1>3, <1>4, <1>7 DEF Shape
  <2> QED
    BY <1>1, <1>2, <1>3, <2>1, Untouched
<1>8. Safe(e)'
  <2>1. CASE adding[e] = "new"
    <3>1. adding'[e] = "stored" /\ job' = job /\ Unborn(e)
      BY <1>3, <1>4, <2>1 DEF Shape, Safe
    <3>2. Unborn(e)'
      BY <1>1, <1>2, <3>1 DEF Unborn
    <3> QED
      BY <3>1, <3>2
      DEF Safe, Unborn, Once, LeftAlone, Marked, Scheduled, Withdrawn, OutOfReach, NoJob
  <2>2. CASE adding[e] = "stored"
    <3>1. adding'[e] = "listed" /\ entry' = entry /\ Unborn(e)
      BY <1>3, <1>4, <2>2 DEF Shape, Safe
    <3> QED
      BY <1>1, <1>2, <3>1
      DEF Safe, Unborn, Once, LeftAlone, Marked, Scheduled, Withdrawn, OutOfReach
  <2>3. CASE adding[e] = "listed"
    <3>1. adding'[e] = "added" /\ entry' = entry /\ job' = job
      BY <1>3, <1>4, <2>3 DEF Shape
    <3>2. Safe(e)
      BY <1>3
    <3> QED
      BY <1>1, <1>2, <3>1, <3>2
      DEF Safe, Unborn, Once, LeftAlone, Marked, Scheduled, Withdrawn, OutOfReach
  <2> QED
    BY <1>4, <2>1, <2>2, <2>3
<1> QED
  BY <1>6, <1>7, <1>8 DEF IInv

-----------------------------------------------------------------------------
(* Dispatching.                                                            *)

(* A firer aims at an entry of the file.                                   *)
LEMMA FiringIsTyped ==
  ASSUME Shape, NEW w \in Firers
  PROVE  /\ firing[w].step # "none" => firing[w] \in [step : {"fire", "submit"}, entry : Entries]
         /\ firing[w].step = "none" => firing[w] = AtRest
BY DEF Shape, Firings, AtRest

LEMMA CheckKeeps ==
  ASSUME IInv, NEW v \in Firers, NEW e \in Entries, Check(v, e)
  PROVE  IInv'
<1>1. /\ UNCHANGED <<entry, adding, job, calls, running, dispatched, session, withdrawn, revived>>
      /\ job[e].listed /\ job[e].status = "scheduled"
      /\ firing' = [firing EXCEPT ![v] = [step |-> "fire", entry |-> e]]
  BY DEF Check, storeVars, runVars, history
<1>2. Shape /\ \A f \in Entries : Safe(f)
  BY DEF IInv
<1>3. Shape'
  BY <1>1, <1>2 DEF Shape, Firings
<1>4. \A w \in Firers : firing'[w] = IF w = v THEN [step |-> "fire", entry |-> e] ELSE firing[w]
  BY <1>1, <1>2 DEF Shape
<1>5. ASSUME NEW f \in Entries, f # e PROVE Safe(f)'
  <2>1. \A w \in Firers : Aims(w, f)' => Aims(w, f) /\ firing'[w].step = firing[w].step
    BY <1>4, <1>5 DEF Aims
  <2> QED
    BY <1>1, <1>2, <2>1, Untouched
<1>6. Safe(e)'
  <2>1. Safe(e)
    BY <1>2
  <2>2. adding[e] \notin {"new", "stored"}
    BY <1>1, <2>1 DEF Safe, Unborn, NoJob
  <2>3. \A w \in Firers : firing'[w].step = "submit" => w # v /\ firing'[w] = firing[w]
    BY <1>4
  <2>4. Marked(e)' /\ Scheduled(e)'
    BY <1>1, <2>1, <2>3 DEF Safe, Marked, Scheduled, Aims
  <2>5. LeftAlone(e)'
    BY <1>1, <2>1 DEF Safe, LeftAlone
  <2> QED
    BY <1>1, <2>1, <2>2, <2>4, <2>5 DEF Safe, Once, Withdrawn, OutOfReach
<1> QED
  BY <1>3, <1>5, <1>6 DEF IInv

LEMMA FireKeeps ==
  ASSUME IInv, NEW v \in Firers, Fire(v)
  PROVE  IInv'
<1>0. PICK e : e = firing[v].entry
  OBVIOUS
<1>1. /\ firing[v].step = "fire"
      /\ job' = [job EXCEPT ![e].status = "queued"]
      /\ entry' = [entry EXCEPT ![e] = IF @ = "pending" THEN "fired" ELSE @]
      /\ firing' = [firing EXCEPT ![v].step = "submit"]
      /\ UNCHANGED <<adding, calls, running, dispatched, session, withdrawn, revived>>
  BY <1>0 DEF Fire, runVars, history
<1>2. Shape /\ \A f \in Entries : Safe(f)
  BY DEF IInv
<1>3. firing[v] \in [step : {"fire", "submit"}, entry : Entries] /\ e \in Entries
  BY <1>0, <1>1, <1>2, FiringIsTyped
<1>4. /\ \A f \in Entries : f # e => job'[f] = job[f] /\ entry'[f] = entry[f]
      /\ job'[e] = [job[e] EXCEPT !.status = "queued"]
      /\ entry'[e] = IF entry[e] = "pending" THEN "fired" ELSE entry[e]
      /\ \A w \in Firers : firing'[w] =
           IF w = v THEN [firing[v] EXCEPT !.step = "submit"] ELSE firing[w]
  BY <1>1, <1>2, <1>3 DEF Shape
<1>5. /\ job'[e] \in Jobs /\ job'[e].status = "queued"
      /\ job'[e].listed = job[e].listed /\ job'[e].cancelled = job[e].cancelled
      /\ entry'[e] \in {"absent", "fired"}
      /\ [firing[v] EXCEPT !.step = "submit"] \in Firings
      /\ [firing[v] EXCEPT !.step = "submit"].step = "submit"
      /\ [firing[v] EXCEPT !.step = "submit"].entry = e
  <2>1. job[e] \in Jobs /\ entry[e] \in {"absent", "pending", "fired"}
    BY <1>2, <1>3 DEF Shape
  <2> QED
    BY <1>0, <1>3, <1>4, <2>1 DEF Jobs, Firings
<1>6. Shape'
  BY <1>1, <1>2, <1>3, <1>5 DEF Shape
<1>7. \A f \in Entries, w \in Firers : Aims(w, f)' <=> Aims(w, f)
  BY <1>0, <1>1, <1>4, <1>5 DEF Aims
<1>8. ASSUME NEW f \in Entries, f # e PROVE Safe(f)'
  <2>1. \A w \in Firers : Aims(w, f)' => Aims(w, f) /\ firing'[w].step = firing[w].step
    BY <1>4, <1>5, <1>7, <1>8 DEF Aims
  <2> QED
    BY <1>1, <1>2, <1>4, <1>8, <2>1, Untouched
<1>9. Safe(e)'
  <2>1. Safe(e) /\ Aims(v, e)
    BY <1>0, <1>1, <1>2, <1>3 DEF Aims
  <2>2. adding[e] \notin {"new", "stored"}
    BY <2>1 DEF Safe, Unborn
  <2> QED
    BY <1>1, <1>5, <1>7, <2>1, <2>2
    DEF Safe, Once, LeftAlone, Marked, Scheduled, Withdrawn, OutOfReach
<1> QED
  BY <1>6, <1>8, <1>9 DEF IInv

LEMMA SubmitKeeps ==
  ASSUME IInv, NEW v \in Firers, Submit(v)
  PROVE  IInv'
<1>0. PICK e : e = firing[v].entry
  OBVIOUS
<1>1. /\ firing[v].step = "submit"
      /\ calls' = [calls EXCEPT ![e] = @ + 1]
      /\ dispatched' = [dispatched EXCEPT ![e] = @ \cup {session}]
      /\ firing' = [firing EXCEPT ![v] = AtRest]
      /\ UNCHANGED <<entry, adding, job, running, session, withdrawn, revived>>
  BY <1>0 DEF Submit, storeVars
<1>2. Shape /\ \A f \in Entries : Safe(f)
  BY DEF IInv
<1>3. e \in Entries
  BY <1>0, <1>1, <1>2, FiringIsTyped
<1>4. /\ \A f \in Entries : f # e => calls'[f] = calls[f] /\ dispatched'[f] = dispatched[f]
      /\ calls'[e] = calls[e] + 1 /\ dispatched'[e] = dispatched[e] \cup {session}
      /\ \A w \in Firers : firing'[w] = IF w = v THEN AtRest ELSE firing[w]
  BY <1>1, <1>2, <1>3 DEF Shape
<1>5. Shape'
  BY <1>1, <1>2, <1>3 DEF Shape, Firings
<1>6. \A f \in Entries, w \in Firers :
        Aims(w, f)' => Aims(w, f) /\ firing'[w].step = firing[w].step
  BY <1>4 DEF Aims, AtRest
<1>7. ASSUME NEW f \in Entries, f # e PROVE Safe(f)'
  BY <1>1, <1>2, <1>4, <1>6, <1>7, Untouched
<1>8. Safe(e)'
  <2>1. Safe(e) /\ Aims(v, e)
    BY <1>0, <1>1, <1>2, <1>3 DEF Aims
  <2>2. adding[e] \notin {"new", "stored"}
    BY <2>1 DEF Safe, Unborn
  <2>3. dispatched[e] = {} \/ session \in dispatched[e]
    BY <2>1 DEF Safe, LeftAlone
  <2>4. session \in Nat
    BY <1>2 DEF Shape
  <2>5. Once(e)' /\ LeftAlone(e)'
    BY <1>1, <1>4, <2>1, <2>3, <2>4 DEF Safe, Once, LeftAlone
  <2>6. Marked(e)'
    <3>1. entry[e] # "pending"
      BY <1>1, <2>1 DEF Safe, Marked
    <3> QED
      BY <1>1, <3>1 DEF Marked
  <2>7. Scheduled(e)'
    <3>1. job[e].status # "scheduled"
      BY <1>1, <2>1 DEF Safe, Scheduled
    <3> QED
      BY <1>1, <3>1 DEF Scheduled
  <2>8. Withdrawn(e)'
    BY <1>1, <2>1 DEF Safe, Withdrawn, OutOfReach
  <2> QED
    BY <1>1, <2>2, <2>5, <2>6, <2>7, <2>8 DEF Safe
<1> QED
  BY <1>5, <1>7, <1>8 DEF IInv

-----------------------------------------------------------------------------
(* What becomes of a job.                                                  *)

LEMMA JobKeeps ==
  ASSUME IInv, NEW e \in Entries, Run(e) \/ Finish(e) \/ Cancel(e) \/ Dismiss(e)
  PROVE  IInv'
<1>1. UNCHANGED <<entry, adding, firing, dispatched, session>>
  BY DEF Run, Finish, Cancel, Dismiss, storeVars, history
<1>2. Shape /\ \A f \in Entries : Safe(f)
  BY DEF IInv
<1>3. /\ job[e] \in Jobs /\ calls[e] \in Nat /\ running[e] \in Nat
      /\ job = [f \in Entries |-> job[f]]
  BY <1>2 DEF Shape
<1>4. \A f \in Entries, w \in Firers : Aims(w, f)' <=> Aims(w, f)
  BY <1>1 DEF Aims
<1>5. adding[e] \notin {"new", "stored"}
  BY <1>2, <1>3 DEF Safe, Unborn, Run, Finish, Cancel, Dismiss, NoJob
<1>6. ASSUME NEW j \in Jobs, NEW m \in Nat, NEW n \in Nat,
             job' = [job EXCEPT ![e] = j], calls' = [calls EXCEPT ![e] = m],
             running' = [running EXCEPT ![e] = n],
             withdrawn' = withdrawn \/ withdrawn' = withdrawn \cup {e},
             revived' = revived \/ revived' = revived \ {e},
             j.status # "scheduled" \/ (j.status = job[e].status /\ m = calls[e] /\ n = running[e]),
             j.listed => job[e].listed,
             e \in withdrawn' /\ e \notin revived' =>
               n = 0 /\ \/ j.cancelled
                        \/ m = 0 /\ ~j.listed /\ \A w \in Firers : ~Aims(w, e)
      PROVE  IInv'
  <2>1. /\ job'[e] = j /\ calls'[e] = m /\ running'[e] = n
        /\ \A f \in Entries : f # e => /\ job'[f] = job[f] /\ calls'[f] = calls[f]
                                       /\ running'[f] = running[f]
                                       /\ f \in withdrawn' => f \in withdrawn
                                       /\ f \in revived => f \in revived'
    BY <1>2, <1>6 DEF Shape
  <2>2. Shape'
    BY <1>1, <1>2, <1>6 DEF Shape
  <2>3. ASSUME NEW f \in Entries, f # e PROVE Safe(f)'
    BY <1>1, <1>2, <1>4, <2>1, <2>3, Untouched
  <2>4. Safe(e)
    BY <1>2
  <2>5. Once(e)' /\ LeftAlone(e)' /\ Marked(e)' /\ Scheduled(e)'
    BY <1>1, <1>4, <1>6, <2>1, <2>4 DEF Safe, Once, LeftAlone, Marked, Scheduled
  <2>6. Withdrawn(e)'
    BY <1>4, <1>6, <2>1 DEF Withdrawn, OutOfReach
  <2>7. Safe(e)'
    BY <1>1, <1>5, <2>4, <2>5, <2>6 DEF Safe
  <2> QED
    BY <2>2, <2>3, <2>7 DEF IInv
<1>7. e \in withdrawn /\ e \notin revived =>
        running[e] = 0 /\ (job[e].cancelled \/ OutOfReach(e))
  BY <1>2 DEF Safe, Withdrawn, OutOfReach
<1>8. CASE Run(e)
  <2> DEFINE m == calls[e] - 1
  <2>1. /\ m \in Nat /\ calls' = [calls EXCEPT ![e] = m] /\ ~OutOfReach(e)
        /\ withdrawn' = withdrawn /\ revived' = revived
    BY <1>3, <1>8 DEF Run, history, OutOfReach
  <2> HIDE DEF m
  <2>2. CASE job[e].cancelled
    <3> DEFINE j == [job[e] EXCEPT !.status = "cancelled"]
    <3>1. job' = [job EXCEPT ![e] = j] /\ running' = [running EXCEPT ![e] = running[e]]
      BY <1>2, <1>8, <2>2 DEF Run, Shape
    <3>2. j \in Jobs /\ j.status = "cancelled" /\ j.listed = job[e].listed /\ j.cancelled
      BY <1>3, <2>2 DEF Jobs, Over
    <3> HIDE DEF j
    <3> QED
      BY <1>3, <1>6, <1>7, <2>1, <3>1, <3>2
  <2>3. CASE ~job[e].cancelled
    <3> DEFINE j == [job[e] EXCEPT !.status = "running"]
    <3>1. job' = [job EXCEPT ![e] = j] /\ running' = [running EXCEPT ![e] = running[e] + 1]
      BY <1>8, <2>3 DEF Run
    <3>2. j \in Jobs /\ j.status = "running" /\ j.listed = job[e].listed
      BY <1>3 DEF Jobs
    <3>3. ~(e \in withdrawn' /\ e \notin revived') /\ running[e] + 1 \in Nat
      BY <1>3, <1>7, <2>1, <2>3
    <3> HIDE DEF j
    <3> QED
      BY <1>6, <2>1, <3>1, <3>2, <3>3
  <2> QED
    BY <2>2, <2>3
<1>9. CASE Finish(e)
  <2>1. PICK outcome \in Over : job' = [job EXCEPT ![e].status = outcome]
    BY <1>9 DEF Finish, Over
  <2> DEFINE j == [job[e] EXCEPT !.status = outcome]
  <2> DEFINE n == running[e] - 1
  <2>2. running[e] > 0 /\ n \in Nat /\ running' = [running EXCEPT ![e] = n]
    BY <1>3, <1>9 DEF Finish
  <2>3. /\ job' = [job EXCEPT ![e] = j]
        /\ calls' = [calls EXCEPT ![e] = calls[e]]
        /\ withdrawn' = withdrawn /\ revived' = revived
    BY <1>2, <1>9, <2>1 DEF Finish, Shape, history
  <2>4. /\ j \in Jobs /\ j.status # "scheduled" /\ j.listed = job[e].listed
        /\ j.cancelled = job[e].cancelled
    BY <1>3 DEF Jobs, Over
  <2>5. ~(e \in withdrawn' /\ e \notin revived')
    BY <1>3, <1>7, <2>2, <2>3
  <2> HIDE DEF j, n
  <2> QED
    BY <1>3, <1>6, <2>2, <2>4, <2>5, <2>3
<1>10. CASE Cancel(e)
  <2> DEFINE j == [job[e] EXCEPT !.cancelled = TRUE, !.status = "cancelled"]
  <2>1. /\ job' = [job EXCEPT ![e] = j]
        /\ calls' = [calls EXCEPT ![e] = calls[e]]
        /\ running' = [running EXCEPT ![e] = running[e]]
        /\ IF job[e].status = "scheduled"
           THEN withdrawn' = withdrawn \cup {e} /\ revived' = revived \ {e}
           ELSE withdrawn' = withdrawn /\ revived' = revived
    BY <1>2, <1>10 DEF Cancel, Shape, runVars
  <2>2. j \in Jobs /\ j.status = "cancelled" /\ j.listed = job[e].listed /\ j.cancelled
    BY <1>3 DEF Jobs, Over
  <2>3. job[e].status = "scheduled" => running[e] = 0
    BY <1>2 DEF Safe, Scheduled
  <2> HIDE DEF j
  <2> QED
    BY <1>3, <1>6, <1>7, <2>1, <2>2, <2>3
<1>11. CASE Dismiss(e)
  <2> DEFINE j == [job[e] EXCEPT !.listed = FALSE]
  <2>1. /\ job' = [job EXCEPT ![e] = j]
        /\ calls' = [calls EXCEPT ![e] = calls[e]]
        /\ running' = [running EXCEPT ![e] = running[e]]
        /\ withdrawn' = withdrawn /\ revived' = revived /\ job[e].listed
    BY <1>2, <1>11 DEF Dismiss, Shape, runVars, history
  <2>2. j \in Jobs /\ j.status = job[e].status /\ ~j.listed /\ j.cancelled = job[e].cancelled
    BY <1>3 DEF Jobs
  <2> HIDE DEF j
  <2> QED
    BY <1>3, <1>6, <1>7, <2>1, <2>2 DEF OutOfReach
<1> QED
  BY <1>8, <1>9, <1>10, <1>11

(* The file is written, an entry leaves it, time passes.                   *)
LEMMA OutsideKeeps ==
  ASSUME IInv,
         SaveEnds \/ UNCHANGED vars \/ (\E e \in Entries : Elapse(e) \/ Remove(e))
  PROVE  IInv'
<1>1. UNCHANGED <<adding, job, firing, calls, running, dispatched, session, withdrawn, revived>>
  BY DEF SaveEnds, Elapse, Remove, vars, runVars, history
<1>2. Shape /\ \A f \in Entries : Safe(f)
  BY DEF IInv
<1>3. /\ entry' \in [Entries -> {"absent", "pending", "fired"}]
      /\ \A f \in Entries : entry'[f] = entry[f] \/ entry'[f] = "absent"
  BY <1>2 DEF SaveEnds, Elapse, Remove, vars, storeVars, Shape
<1>4. Shape'
  BY <1>1, <1>2, <1>3 DEF Shape
<1>5. ASSUME NEW f \in Entries PROVE Safe(f)'
  <2>1. \A w \in Firers : Aims(w, f)' <=> Aims(w, f)
    BY <1>1 DEF Aims
  <2>2. Safe(f) /\ (entry'[f] = entry[f] \/ entry'[f] = "absent")
    BY <1>2, <1>3
  <2> QED
    BY <1>1, <2>1, <2>2
    DEF Safe, Unborn, Once, LeftAlone, Marked, Scheduled, Withdrawn, OutOfReach
<1> QED
  BY <1>4, <1>5 DEF IInv

(* A restart makes jobs of pending entries only, and none of those was     *)
(* dispatched.                                                             *)
LEMMA RestartKeeps ==
  ASSUME IInv, Restart
  PROVE  IInv'
<1> DEFINE kept == IF saving THEN [e \in Entries |-> "absent"] ELSE entry
           restored == {e \in Entries : kept[e] = "pending"}
<1>1. Shape /\ \A f \in Entries : Safe(f)
  BY DEF IInv
<1>2. /\ entry' = kept /\ session' = session + 1 /\ dispatched' = dispatched
      /\ adding' = [e \in Entries |-> IF adding[e] = "new" THEN "new" ELSE "added"]
      /\ job' = [e \in Entries |-> IF e \in restored THEN JobFor(e) ELSE NoJob]
      /\ firing' = [w \in Firers |-> AtRest]
      /\ calls' = [e \in Entries |-> 0] /\ running' = [e \in Entries |-> 0]
      /\ withdrawn' = withdrawn /\ revived' = revived \cup (restored \cap withdrawn)
  BY DEF Restart
<1>3. /\ kept \in [Entries -> {"absent", "pending", "fired"}]
      /\ \A e \in Entries : kept[e] = "pending" => entry[e] = "pending"
      /\ \A e \in Entries : entry[e] = "absent" => kept[e] = "absent"
  BY <1>1 DEF Shape
<1> HIDE DEF kept
<1>4. ASSUME NEW e \in Entries PROVE JobFor(e) \in Jobs /\ NoJob \in Jobs
  BY DEF JobFor, Jobs, NoJob
<1>5. Shape'
  <2>1. session' \in Nat
    BY <1>1, <1>2 DEF Shape
  <2>2. job' \in [Entries -> Jobs]
    BY <1>2, <1>4
  <2>3. firing' \in [Firers -> Firings]
    BY <1>2 DEF Firings
  <2>4. entry' \in [Entries -> {"absent", "pending", "fired"}]
    BY <1>2, <1>3
  <2>5. adding' \in [Entries -> {"new", "stored", "listed", "added"}]
    BY <1>2
  <2> QED
    BY <1>1, <1>2, <2>1, <2>2, <2>3, <2>4, <2>5 DEF Shape
<1>6. ASSUME NEW e \in Entries PROVE Safe(e)'
  <2>1. Safe(e)
    BY <1>1
  <2>2. /\ entry'[e] = kept[e] /\ calls'[e] = 0 /\ running'[e] = 0
        /\ dispatched'[e] = dispatched[e]
        /\ adding'[e] = IF adding[e] = "new" THEN "new" ELSE "added"
        /\ job'[e] = IF kept[e] = "pending" THEN JobFor(e) ELSE NoJob
    BY <1>2
  <2>3. \A w \in Firers : ~Aims(w, e)'
    BY <1>2 DEF Aims, AtRest
  <2>4. kept[e] = "pending" => entry[e] = "pending" /\ dispatched[e] = {}
    BY <1>3, <2>1 DEF Safe, Marked
  <2>5. adding[e] = "new" => kept[e] = "absent" /\ dispatched[e] = {} /\ e \notin withdrawn
    BY <1>3, <2>1 DEF Safe, Unborn
  <2>6. adding'[e] = "new" => entry'[e] = "absent"
    BY <2>2, <2>5
  <2>7. adding'[e] \in {"new", "stored"} => Unborn(e)'
    BY <1>2, <2>2, <2>3, <2>5 DEF Unborn
  <2>8. LeftAlone(e)' /\ Marked(e)'
    BY <2>2, <2>3, <2>4 DEF LeftAlone, Marked, NoJob
  <2>9. Once(e)' /\ Scheduled(e)'
    BY <1>2, <2>1, <2>2, <2>3 DEF Safe, Once, Scheduled
  <2>10. Withdrawn(e)'
    <3>1. e \in withdrawn' /\ e \notin revived' => kept[e] # "pending"
      BY <1>2
    <3> QED
      BY <2>2, <2>3, <3>1 DEF Withdrawn, OutOfReach, NoJob
  <2> QED
    BY <2>6, <2>7, <2>8, <2>9, <2>10 DEF Safe
<1> QED
  BY <1>5, <1>6 DEF IInv

LEMMA NextInvariant == IInv /\ [Next]_vars => IInv'
<1> SUFFICES ASSUME IInv, [Next]_vars PROVE IInv'
  OBVIOUS
<1>1. ASSUME NEW e \in Entries, Store(e) \/ List(e) \/ Link(e) PROVE IInv'
  BY <1>1, AddingKeeps
<1>2. ASSUME NEW w \in Firers, Fire(w) \/ Submit(w) \/ (\E e \in Entries : Check(w, e))
      PROVE  IInv'
  BY <1>2, FireKeeps, SubmitKeeps, CheckKeeps
<1>3. ASSUME NEW e \in Entries, Run(e) \/ Finish(e) \/ Cancel(e) \/ Dismiss(e) PROVE IInv'
  BY <1>3, JobKeeps
<1>4. ASSUME SaveEnds \/ UNCHANGED vars \/ (\E e \in Entries : Elapse(e) \/ Remove(e))
      PROVE  IInv'
  BY <1>4, OutsideKeeps
<1>5. ASSUME Restart PROVE IInv'
  BY <1>5, RestartKeeps
<1> QED
  BY <1>1, <1>2, <1>3, <1>4, <1>5 DEF Next

(* Every reachable state satisfies the inductive invariant.                *)
THEOREM InvariantHolds == Spec => []IInv
<1>1. Init => IInv
  BY InitInvariant
<1>2. IInv /\ [Next]_vars => IInv'
  BY NextInvariant
<1> QED
  BY <1>1, <1>2, PTL DEF Spec

(* However many sessions there are and wherever each is cut short, a       *)
(* schedule is handed to the executor in one of them at most.              *)
THEOREM NoSessionRepeatsAnother == Spec => []DispatchedInOneSession
<1>1. IInv => DispatchedInOneSession
  <2> SUFFICES ASSUME IInv, NEW e \in Entries PROVE Cardinality(dispatched[e]) <= 1
    BY DEF DispatchedInOneSession
  <2>1. Once(e)
    BY DEF IInv, Safe
  <2>2. CASE dispatched[e] = {}
    BY <2>2, FS_EmptySet
  <2>3. ASSUME NEW s \in Nat, dispatched[e] = {s} PROVE Cardinality(dispatched[e]) <= 1
    BY <2>3, FS_Singleton
  <2> QED
    BY <2>1, <2>2, <2>3 DEF Once
<1> QED
  BY <1>1, InvariantHolds, PTL

(* A download cancelled while it was scheduled does not begin, in this     *)
(* session or in a later one, even if the loop or a person was about to    *)
(* dispatch it, unless a restart found its entry still pending in the file *)
(* and made a job of it again.                                             *)
THEOREM WithdrawnStaysWithdrawn == Spec => []WithdrawnNeverDownloads
<1>1. IInv => WithdrawnNeverDownloads
  BY DEF IInv, Shape, Safe, Withdrawn, WithdrawnNeverDownloads
<1> QED
  BY <1>1, InvariantHolds, PTL
=============================================================================
