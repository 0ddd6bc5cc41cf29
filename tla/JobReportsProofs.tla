--------------------------- MODULE JobReportsProofs ---------------------------
(***************************************************************************)
(* Proofs about what the listeners of JobManager are told: each end of a   *)
(* job once, the results of a batch as many as it counts, and a summary    *)
(* that says the truth.                                                    *)
(*                                                                         *)
(* Three invariants stand on top of that of JobManagerProofs.  SInv: what  *)
(* was reported as done is in the library, unless its batch was silenced   *)
(* first.  RInv, of a panel in which nobody pauses: who has been reported  *)
(* has no thread and is not queued, so nothing reports it again.  BatchOK: *)
(* the count of an open batch is what is still to be submitted and what    *)
(* was submitted and is not reported.                                      *)
(***************************************************************************)
EXTENDS JobManagerProofs

(***************************************************************************)
(* What happens around a job: who has it (a thread that only tells the     *)
(* listeners included), and what its listeners were told.                  *)
(***************************************************************************)
Has(t, j) == thread[t].step # "idle" /\ thread[t].job = j

Sweeps ==
  /\ sweep = [step |-> sweep.step, todo |-> sweep.todo, finished |-> sweep.finished]
  /\ sweep.finished \subseteq {j \in Episodes : job[j].status = "done"}

Records ==
  /\ heard \in [Jobs -> Seq({"unborn"} \cup Active \cup Over)]
  /\ calls \in [requests : Int, pauses : Int]
  /\ Sweeps

(* A thread goes on to step s with its job and leaves it as x.             *)
GoesOn(t, s, x) ==
  LET j == thread[t].job IN
  /\ thread' = [thread EXCEPT ![t] = [step |-> s, job |-> j]]
  /\ job' = [job EXCEPT ![j] = x]
  /\ UNCHANGED <<backlog, batch, heard, resubmit, owed, sweep, calls>>
  /\ \A k \in Jobs : k # j => (k \in file' <=> k \in file)
  /\ x.status # "unborn"
  /\ (x.paused => job[j].paused) /\ (x.parked => job[j].paused /\ x.status = "paused")
  /\ x.status = "paused" => job[j].status = "paused" \/ job[j].paused
  /\ s = "finish" => x.status \in Over \/ job[j].paused
  /\ s = "landed" => j \in file'
  /\ x.status = "done" =>
       \/ thread[t].step = "landed" /\ s = "release" /\ file' = file
       \/ /\ job[j].status = "done"
          /\ thread[t].step = "release" => s = "finish" /\ file' = file
  /\ job[j].status = "done" /\ thread[t].step = "release" => x.status = "done"

LEMMA WorkerGoesOn ==
  ASSUME IInv, NEW t \in Threads,
         \/ Granted(t) \/ LeaveLine(t) \/ Refused(t) \/ Park(t) \/ Run(t) \/ Land(t)
         \/ Settle(t) \/ Purge(t) \/ Stop(t) \/ FailAndRetry(t) \/ Fail(t) \/ Release(t)
         \/ Backoff(t)
  PROVE  /\ thread[t].job \in Jobs /\ Carried(t, thread[t].job)
         /\ \E s \in Steps \ {"idle"}, x \in JobRecords : GoesOn(t, s, x)
<1>0. PICK j : j = thread[t].job
  OBVIOUS
<1>1. /\ UNCHANGED <<backlog, batch, heard, resubmit, owed, sweep, calls>>
      /\ thread[t].step \notin {"idle", "finish"}
  BY DEF Granted, LeaveLine, Refused, Park, Run, Land, Settle, Purge, Stop, FailAndRetry,
         Fail, Release, Backoff, At, apiVars
<1>2. Shape /\ j \in Jobs /\ Carried(t, j)
  BY <1>0, <1>1 DEF IInv, Shape, ThreadRecords, Carried, Idle
<1>3. PICK y \in JobRecords :
        /\ y = job[j] /\ job = [job EXCEPT ![j] = y] /\ y.status # "unborn" /\ ~y.parked
        /\ thread[t].step = "release" => y.status \in Over
  BY <1>2, WhileCarried
<1> DEFINE Goal == \E s \in Steps \ {"idle"}, x \in JobRecords : GoesOn(t, s, x)
<1> SUFFICES Goal
  BY <1>0, <1>2
<1>4. ASSUME NEW s \in Steps \ {"idle"}, Goto(t, s)
      PROVE  thread' = [thread EXCEPT ![t] = [step |-> s, job |-> j]]
  BY <1>0, <1>1, <1>2, <1>4, ThreadMoves
(* An ordinary step: the files stay, the job may change but is not done.   *)
<1>5. ASSUME NEW s \in Steps \ {"idle", "landed"}, NEW x \in JobRecords,
             thread' = [thread EXCEPT ![t] = [step |-> s, job |-> j]],
             job' = [job EXCEPT ![j] = x], thread[t].step # "release", x.status # "unborn",
             x.status # "done" \/ x.status = y.status,
             \A k \in Jobs : k # j => (k \in file' <=> k \in file),
             x.paused => y.paused, x.parked => y.paused /\ x.status = "paused",
             x.status = "paused" => y.status = "paused" \/ y.paused,
             s = "finish" => x.status \in Over \/ y.paused
      PROVE  Goal
  <2>1. GoesOn(t, s, x)
    BY <1>0, <1>1, <1>3, <1>5 DEF GoesOn
  <2> QED
    BY <2>1
<1>6. CASE Granted(t) \/ LeaveLine(t)
  <2>1. PICK s \in {"won", "refused"} : Goto(t, s)
    BY <1>6 DEF Granted, LeaveLine
  <2>2. job' = [job EXCEPT ![j] = y] /\ file' = file /\ thread[t].step # "release"
    BY <1>3, <1>6 DEF Granted, LeaveLine, jobVars, At
  <2>3. thread' = [thread EXCEPT ![t] = [step |-> s, job |-> j]]
    BY <1>4, <2>1 DEF Steps
  <2> QED
    BY <1>3, <1>5, <2>1, <2>2, <2>3 DEF Steps
<1> DEFINE Becomes(st) == job' = [job EXCEPT ![j].status = st]
<1>7. ASSUME NEW s \in Steps \ {"idle", "landed"}, Goto(t, s), NEW st \in Active \cup Over,
             st # "done", st = "paused" => y.paused, s = "finish" => st \in Over,
             Becomes(st), thread[t].step # "release",
             \A k \in Jobs : k # j => (k \in file' <=> k \in file)
      PROVE  Goal
  <2>1. PICK x \in JobRecords : x = [y EXCEPT !.status = st]
    BY DEF JobRecords
  <2>2. x.status = st /\ x.paused = y.paused /\ x.parked = y.parked
    BY <2>1 DEF JobRecords
  <2>3. job' = [job EXCEPT ![j] = x]
    BY <1>2, <1>3, <1>7, <2>1 DEF Shape
  <2> QED
    BY <1>3, <1>4, <1>5, <1>7, <2>2, <2>3 DEF Active, Over
<1> HIDE DEF Becomes
<1>8. ASSUME Enter(t, j), job' = job, file' = file, thread[t].step # "release"
      PROVE  Goal
  <2>1. PICK s \in {"refused", "lined"} : thread' = [thread EXCEPT ![t] = [step |-> s, job |-> j]]
    BY <1>8 DEF Enter
  <2> QED
    BY <1>3, <1>5, <1>8, <2>1 DEF Steps
<1>9. CASE Refused(t)
  <2>1. CASE job[j].cancelled
    <3>1. Becomes("cancelled") /\ Goto(t, "finish") /\ file' = file
          /\ thread[t].step # "release"
      BY <1>0, <1>9, <2>1 DEF Becomes, Refused, At
    <3> QED
      BY <1>7, <3>1 DEF Steps, Over
  <2>2. CASE ~job[j].cancelled
    <3>1. job' = [job EXCEPT ![j] = y] /\ Goto(t, "park") /\ file' = file
          /\ thread[t].step # "release"
      BY <1>0, <1>3, <1>9, <2>2 DEF Refused, At
    <3>2. thread' = [thread EXCEPT ![t] = [step |-> "park", job |-> j]]
      BY <1>4, <3>1 DEF Steps
    <3> QED
      BY <1>3, <1>5, <3>1, <3>2 DEF Steps
  <2> QED
    BY <2>1, <2>2
<1>10. CASE Park(t)
  <2>1. CASE job[j].paused /\ ~job[j].cancelled
    <3>1. /\ job' = [job EXCEPT ![j].parked = TRUE, ![j].status = "paused"]
          /\ Goto(t, "finish") /\ file' = file /\ thread[t].step # "release"
      BY <1>0, <1>10, <2>1 DEF Park, At
    <3>2. PICK x \in JobRecords : x = [y EXCEPT !.parked = TRUE, !.status = "paused"]
      BY DEF JobRecords, Active
    <3>3. x.status = "paused" /\ x.paused = y.paused
      BY <3>2 DEF JobRecords
    <3>4. job' = [job EXCEPT ![j] = x]
      BY <1>2, <1>3, <3>1, <3>2 DEF Shape
    <3>5. thread' = [thread EXCEPT ![t] = [step |-> "finish", job |-> j]]
      BY <1>4, <3>1 DEF Steps
    <3> QED
      BY <1>3, <1>5, <2>1, <3>1, <3>3, <3>4, <3>5 DEF Steps
  <2>2. CASE ~(job[j].paused /\ ~job[j].cancelled)
    <3>1. Enter(t, j) /\ job' = job /\ file' = file /\ thread[t].step # "release"
      BY <1>0, <1>10, <2>2 DEF Park, At
    <3> QED
      BY <1>8, <3>1
  <2> QED
    BY <2>1, <2>2
<1>11. CASE Run(t)
  <2>1. /\ job' = [job EXCEPT ![j].paused = FALSE, ![j].status = "running"]
        /\ Goto(t, "running") /\ file' = file /\ thread[t].step # "release"
    BY <1>0, <1>11 DEF Run, At
  <2>2. PICK x \in JobRecords : x = [y EXCEPT !.paused = FALSE, !.status = "running"]
    BY DEF JobRecords, Active
  <2>3. x.status = "running" /\ ~x.paused /\ x.parked = y.parked
    BY <2>2 DEF JobRecords
  <2>4. job' = [job EXCEPT ![j] = x]
    BY <1>2, <1>3, <2>1, <2>2 DEF Shape
  <2>5. thread' = [thread EXCEPT ![t] = [step |-> "running", job |-> j]]
    BY <1>4, <2>1 DEF Steps
  <2> QED
    BY <1>3, <1>5, <2>1, <2>3, <2>4, <2>5 DEF Steps
<1>12. CASE Land(t)
  <2>1. /\ file' = file \cup {j} /\ job' = [job EXCEPT ![j] = y] /\ Goto(t, "landed")
        /\ thread[t].step = "running"
    BY <1>0, <1>3, <1>12 DEF Land, At
  <2>2. thread' = [thread EXCEPT ![t] = [step |-> "landed", job |-> j]]
    BY <1>4, <2>1 DEF Steps
  <2>3. \A k \in Jobs : k # j => (k \in file' <=> k \in file)
    BY <2>1
  <2>4. GoesOn(t, "landed", y)
    BY <1>0, <1>1, <1>3, <2>1, <2>2, <2>3 DEF GoesOn, Steps
  <2> QED
    BY <2>4 DEF Steps
<1>13. CASE Settle(t)
  <2>1. CASE y.purge
    <3>1. job' = [job EXCEPT ![j] = y] /\ Goto(t, "purging") /\ file' = file
          /\ thread[t].step # "release"
      BY <1>0, <1>3, <1>13, <2>1 DEF Settle, At
    <3>2. thread' = [thread EXCEPT ![t] = [step |-> "purging", job |-> j]]
      BY <1>4, <3>1 DEF Steps
    <3> QED
      BY <1>3, <1>5, <3>1, <3>2 DEF Steps
  <2>2. CASE ~y.purge
    <3>1. job' = [job EXCEPT ![j].status = "done"] /\ Goto(t, "release") /\ file' = file
          /\ thread[t].step = "landed"
      BY <1>0, <1>3, <1>13, <2>2 DEF Settle, At
    <3>2. PICK x \in JobRecords : x = [y EXCEPT !.status = "done"]
      BY DEF JobRecords, Over
    <3>3. x.status = "done" /\ x.paused = y.paused /\ x.parked = y.parked
      BY <3>2 DEF JobRecords
    <3>4. job' = [job EXCEPT ![j] = x]
      BY <1>2, <1>3, <3>1, <3>2 DEF Shape
    <3>5. thread' = [thread EXCEPT ![t] = [step |-> "release", job |-> j]]
      BY <1>4, <3>1 DEF Steps
    <3>6. GoesOn(t, "release", x)
      BY <1>0, <1>1, <1>3, <3>1, <3>3, <3>4, <3>5 DEF GoesOn
    <3> QED
      BY <3>6 DEF Steps
  <2> QED
    BY <2>1, <2>2
<1>14. CASE Purge(t)
  <2>1. /\ Becomes("cancelled") /\ Goto(t, "release")
        /\ thread[t].step # "release" /\ file' = file \ {j}
    BY <1>0, <1>14 DEF Becomes, Purge, At
  <2> QED
    BY <1>7, <2>1 DEF Steps, Over
<1>15. CASE Stop(t)
  <2>1. /\ Becomes("cancelled") /\ Goto(t, "release")
        /\ thread[t].step # "release" /\ file' = file
    BY <1>0, <1>15 DEF Becomes, Stop, At
  <2> QED
    BY <1>7, <2>1 DEF Steps, Over
<1>16. CASE FailAndRetry(t)
  <2>1. /\ job' = [job EXCEPT ![j].retries = @ + 1, ![j].status = "queued"]
        /\ Goto(t, "releaseRetry") /\ thread[t].step # "release" /\ file' = file
    BY <1>0, <1>16 DEF FailAndRetry, At
  <2>2. PICK n \in Nat : n = y.retries + 1
    BY DEF JobRecords
  <2>3. PICK x \in JobRecords : x = [y EXCEPT !.retries = n, !.status = "queued"]
    BY DEF JobRecords, Active
  <2>4. x.status = "queued" /\ x.paused = y.paused /\ x.parked = y.parked
    BY <2>3 DEF JobRecords
  <2>5. job' = [job EXCEPT ![j] = x]
    BY <1>2, <1>3, <2>1, <2>2, <2>3 DEF Shape
  <2>6. thread' = [thread EXCEPT ![t] = [step |-> "releaseRetry", job |-> j]]
    BY <1>4, <2>1 DEF Steps
  <2> QED
    BY <1>3, <1>5, <2>1, <2>4, <2>5, <2>6 DEF Steps
<1>17. CASE Fail(t)
  <2>1. /\ Becomes("error") /\ Goto(t, "release")
        /\ thread[t].step # "release" /\ file' = file
    BY <1>0, <1>17 DEF Becomes, Fail, At
  <2> QED
    BY <1>7, <2>1 DEF Steps, Over
<1>18. CASE Release(t)
  <2>1. job' = [job EXCEPT ![j] = y] /\ file' = file
    BY <1>3, <1>18 DEF Release, jobVars
  <2>2. CASE At(t, "release")
    <3>1. thread' = [thread EXCEPT ![t] = [step |-> "finish", job |-> j]]
      BY <1>4, <1>18, <2>2 DEF Release, Steps
    <3>2. GoesOn(t, "finish", y)
      BY <1>0, <1>1, <1>3, <2>1, <2>2, <3>1 DEF GoesOn, At
    <3> QED
      BY <3>2 DEF Steps
  <2>3. CASE ~At(t, "release")
    <3>1. thread' = [thread EXCEPT ![t] = [step |-> "backoff", job |-> j]]
      BY <1>4, <1>18, <2>3 DEF Release, Steps
    <3> QED
      BY <1>3, <1>5, <2>1, <2>3, <3>1 DEF Steps, At
  <2> QED
    BY <2>2, <2>3
<1>19. CASE Backoff(t)
  <2>1. file' = file /\ thread[t].step # "release"
    BY <1>19 DEF Backoff, At
  <2>2. CASE Becomes("cancelled") /\ Goto(t, "finish")
    BY <1>7, <2>1, <2>2 DEF Steps, Over
  <2>3. CASE job' = job /\ Enter(t, j)
    BY <1>8, <2>1, <2>3
  <2> QED
    BY <1>0, <1>19, <2>2, <2>3 DEF Backoff, Becomes
<1> QED
  BY <1>6, <1>9, <1>10, <1>11, <1>12, <1>13, <1>14, <1>15, <1>16, <1>17, <1>18, <1>19

-----------------------------------------------------------------------------
(* The steps once more, as what they do to a job and to the reports.       *)

LEMMA ToSetOfAppend ==
  ASSUME NEW S, NEW s \in Seq(S), NEW e \in S
  PROVE  /\ Append(s, e) \in Seq(S) /\ Append(s, e) # <<>>
         /\ ToSet(Append(s, e)) = ToSet(s) \cup {e}
         /\ s = <<>> => Len(Append(s, e)) = 1 /\ Append(s, e)[1] = e
<1>1. /\ Append(s, e) \in Seq(S) /\ Len(s) \in Nat /\ Len(Append(s, e)) = Len(s) + 1
      /\ \A i \in 1..Len(s) : Append(s, e)[i] = s[i]
      /\ Append(s, e)[Len(s) + 1] = e
      /\ DOMAIN s = 1..Len(s) /\ DOMAIN Append(s, e) = 1..(Len(s) + 1)
  OBVIOUS
<1>2. ToSet(Append(s, e)) = ToSet(s) \cup {e}
  BY <1>1 DEF ToSet
<1>3. Append(s, e) # <<>>
  <2>1. Len(Append(s, e)) > 0
    BY <1>1
  <2> QED
    BY <2>1
<1>4. s = <<>> => Len(Append(s, e)) = 1 /\ Append(s, e)[1] = e
  <2> HAVE s = <<>>
  <2>1. Len(s) = 0
    OBVIOUS
  <2> QED
    BY <1>1, <2>1
<1> QED
  BY <1>1, <1>2, <1>3, <1>4

(* The listeners of j are told of the status it has.                       *)
LEMMA NotifyReports ==
  ASSUME Shape, Records, NEW j \in Jobs, Notify(j)
  PROVE  /\ heard' \in [Jobs -> Seq({"unborn"} \cup Active \cup Over)]
         /\ \A k \in Jobs : k # j => heard'[k] = heard[k]
         /\ heard'[j] # <<>> /\ ToSet(heard'[j]) = ToSet(heard[j]) \cup {job[j].status}
         /\ heard[j] = <<>> => Len(heard'[j]) = 1 /\ heard'[j][1] = job[j].status
<1> DEFINE Known == {"unborn"} \cup Active \cup Over
<1>1. heard \in [Jobs -> Seq(Known)] /\ heard' = [heard EXCEPT ![j] = Append(@, job[j].status)]
  BY DEF Records, Notify
<1>2. PICK st \in Known : st = job[j].status
  BY DEF Shape, JobRecords
<1>3. PICK h \in Seq(Known) : h = heard[j]
  BY <1>1
<1> HIDE DEF Known
<1>4. PICK g \in Seq(Known) :
        /\ g = Append(h, st) /\ g # <<>> /\ ToSet(g) = ToSet(h) \cup {st}
        /\ h = <<>> => Len(g) = 1 /\ g[1] = st
  BY ToSetOfAppend
<1>5. heard' = [heard EXCEPT ![j] = g]
  BY <1>1, <1>2, <1>3, <1>4
<1>6. heard' \in [Jobs -> Seq(Known)] /\ heard'[j] = g
      /\ \A k \in Jobs : k # j => heard'[k] = heard[k]
  BY <1>1, <1>5
<1> QED
  BY <1>2, <1>3, <1>4, <1>6 DEF Known

(* How the batch changes when one result, or the rest, is written off.     *)
LEMMA LessToComeCounts ==
  ASSUME batch \in Batches, NEW n \in Int
  PROVE  /\ LessToCome(n) \in Batches
         /\ LessToCome(n).remaining = batch.remaining - n
         /\ LessToCome(n).next = batch.next /\ LessToCome(n).silent = batch.silent
         /\ LessToCome(n).state = IF batch.remaining - n > 0 THEN batch.state ELSE "closed"
         /\ LessToCome(n).announced =
               IF batch.remaining - n > 0 THEN batch.announced ELSE ~batch.silent
<1>1. PICK m \in Int : m = batch.remaining - n
  BY DEF Batches
<1>2. PICK b \in BOOLEAN : b = ~batch.silent
  OBVIOUS
<1>3. CASE batch.remaining - n > 0
  <2>1. PICK c \in Batches : c = [batch EXCEPT !.remaining = m]
    BY DEF Batches
  <2>2. LessToCome(n) = c
    BY <1>1, <1>3, <2>1 DEF LessToCome
  <2> QED
    BY <1>1, <1>3, <2>1, <2>2 DEF Batches
<1>4. CASE ~(batch.remaining - n > 0)
  <2>1. PICK c \in Batches :
          c = [batch EXCEPT !.remaining = m, !.state = "closed", !.announced = b]
    BY DEF Batches
  <2>2. LessToCome(n) = c
    BY <1>1, <1>2, <1>4, <2>1 DEF LessToCome
  <2> QED
    BY <1>1, <1>2, <1>4, <2>1, <2>2 DEF Batches
<1> QED
  BY <1>3, <1>4

LEMMA CountCounts ==
  ASSUME batch \in Batches, NEW j, Count(j)
  PROVE  /\ batch'.next = batch.next /\ batch'.silent = batch.silent
         /\ ~(j \in Episodes /\ batch.state = "open") => batch' = batch
         /\ j \in Episodes /\ batch.state = "open" =>
              /\ batch'.remaining = batch.remaining - 1
              /\ batch'.state = IF batch.remaining - 1 > 0 THEN "open" ELSE "closed"
              /\ batch'.announced = IF batch.remaining - 1 > 0
                                    THEN batch.announced ELSE ~batch.silent
<1>1. CASE j \in Episodes /\ batch.state = "open"
  <2>1. PICK b \in Batches :
          /\ b = LessToCome(1) /\ b.remaining = batch.remaining - 1 /\ b.next = batch.next
          /\ b.silent = batch.silent
          /\ b.state = IF batch.remaining - 1 > 0 THEN batch.state ELSE "closed"
          /\ b.announced = IF batch.remaining - 1 > 0 THEN batch.announced ELSE ~batch.silent
    BY LessToComeCounts
  <2>2. PICK c : batch' = [b EXCEPT !.counted = c]
    BY <1>1, <2>1 DEF Count
  <2>3. /\ batch'.remaining = b.remaining /\ batch'.next = b.next /\ batch'.silent = b.silent
        /\ batch'.state = b.state /\ batch'.announced = b.announced
    BY <2>2 DEF Batches
  <2> QED
    BY <1>1, <2>1, <2>3
<1>2. CASE ~(j \in Episodes /\ batch.state = "open")
  BY <1>2 DEF Count
<1> QED
  BY <1>1, <1>2

(* A thread takes the oldest call.                                         *)
LEMMA StartTakes ==
  ASSUME IInv, NEW t \in Threads, Start(t)
  PROVE  \E j \in Jobs :
           /\ Queued(j) /\ \A k \in Jobs : Queued(k)' <=> Queued(k) /\ k # j
           /\ thread[t].step = "idle" /\ j = Head(backlog)
           /\ UNCHANGED <<job, file, batch, heard, resubmit, owed, sweep, calls>>
           /\ \A u \in Threads : u # t => thread'[u] = thread[u]
           /\ thread'[t].step \in {"lined", "refused"} /\ thread'[t].job = j
<1>1. Shape /\ \A k \in Jobs : OneCall(k)
  BY DEF IInv, Safe
<1>2. /\ backlog \in Seq(Jobs) /\ backlog # <<>> /\ backlog' = Tail(backlog)
      /\ Enter(t, Head(backlog)) /\ thread[t].step = "idle"
      /\ UNCHANGED <<job, file, batch, heard, resubmit, owed, sweep, calls>>
  BY <1>1 DEF Start, Shape, jobVars, apiVars, At
<1>3. /\ Head(backlog) \in Jobs /\ Queued(Head(backlog))
      /\ \A k \in Jobs : Queued(k)' <=> Queued(k) /\ k # Head(backlog)
  BY <1>1, <1>2, Popped
<1>4. PICK r : /\ r.step \in {"lined", "refused"} /\ r.job = Head(backlog)
               /\ thread' = [thread EXCEPT ![t] = r]
  <2>1. PICK s \in {"refused", "lined"} :
          thread' = [thread EXCEPT ![t] = [step |-> s, job |-> Head(backlog)]]
    BY <1>2 DEF Enter
  <2> QED
    BY <2>1
<1>5. thread'[t] = r /\ \A u \in Threads : u # t => thread'[u] = thread[u]
  BY <1>1, <1>4 DEF Shape
<1> QED
  BY <1>2, <1>3, <1>4, <1>5

(* A thread has told the listeners, unless the job is parked.              *)
LEMMA FinishTells ==
  ASSUME IInv, NEW t \in Threads, Finish(t)
  PROVE  \E j \in Jobs :
           /\ Has(t, j) /\ thread[t].step = "finish" /\ thread'[t] = Idle
           /\ \A u \in Threads : u # t => thread'[u] = thread[u]
           /\ UNCHANGED <<job, file, backlog, resubmit, owed, sweep, calls>>
           /\ Notify(j) \/ (job[j].parked /\ UNCHANGED <<batch, heard>>)
<1>1. Shape
  BY DEF IInv
<1> DEFINE j == thread[t].job
<1>3. thread[t].step = "finish" /\ thread' = [thread EXCEPT ![t] = Idle]
      /\ UNCHANGED <<job, file, backlog, resubmit, owed, sweep, calls>>
      /\ (Notify(j) \/ (job[j].parked /\ UNCHANGED <<batch, heard>>))
  <2>1. thread[t].step = "finish"
    BY DEF Finish, At
  <2>2. thread' = [thread EXCEPT ![t] = Idle]
    BY DEF Finish
  <2>3. UNCHANGED <<job, file, backlog, resubmit, owed, sweep, calls>>
    BY DEF Finish, jobVars, apiVars
  <2>4. Notify(j) \/ (job[j].parked /\ UNCHANGED <<batch, heard>>)
    BY DEF Finish
  <2> QED
    BY <2>1, <2>2, <2>3, <2>4
<1>4. j \in Jobs
  BY <1>1, <1>3 DEF Shape, ThreadRecords, Idle
<1> HIDE DEF j
<1>5. thread'[t] = Idle /\ \A u \in Threads : u # t => thread'[u] = thread[u]
  BY <1>1, <1>3 DEF Shape
<1> QED
  BY <1>3, <1>4, <1>5 DEF Has, j

(* A new job goes to the executor's queue: of the batch, or not.           *)
NewCome(n) ==
  /\ n \in Jobs /\ job[n].status = "unborn" /\ job'[n].status = "queued"
  /\ (job'[n].paused => job[n].paused) /\ (job'[n].parked => job[n].parked)
  /\ \A k \in Jobs : k # n =>
       /\ job'[k].status = job[k].status
       /\ job'[k].paused = job[k].paused /\ job'[k].parked = job[k].parked
  /\ \A k \in Jobs : Queued(k)' <=> Queued(k) \/ k = n
  /\ UNCHANGED <<file, line, busy, thread, heard, resubmit, owed, sweep>>
  /\ calls'.pauses = calls.pauses
  /\ calls \in [requests : Int, pauses : Int] => calls' \in [requests : Int, pauses : Int]
  /\ \/ n \notin Episodes /\ batch' = batch
     \/ Submitting /\ n = BatchJobs[batch.next] /\ batch' = [batch EXCEPT !.next = @ + 1]

LEMMA SubmissionsBring ==
  ASSUME IInv,
         \/ SubmitEpisode
         \/ \E j \in Jobs : SubmitSingle(j)
         \/ \E j, new \in Jobs : Retry(j, new)
  PROVE  \E n \in Jobs : NewCome(n)
<1>1. Shape
  BY DEF IInv
<1>2. ASSUME NEW n \in Jobs, backlog' = Append(backlog, n)
      PROVE  \A k \in Jobs : Queued(k)' <=> Queued(k) \/ k = n
  BY <1>1, <1>2, Appended DEF Shape
<1>3. ASSUME NEW n \in Jobs, Submit(n),
             UNCHANGED <<file, thread, heard, line, busy, resubmit, owed, sweep, calls>>,
             \/ n \notin Episodes /\ batch' = batch
             \/ Submitting /\ n = BatchJobs[batch.next] /\ batch' = [batch EXCEPT !.next = @ + 1]
      PROVE  NewCome(n)
  <2>1. PICK y \in JobRecords : y = job[n]
    BY <1>1 DEF Shape
  <2>2. PICK x \in JobRecords : x = [y EXCEPT !.status = "queued", !.listed = TRUE]
    BY DEF JobRecords, Active
  <2>3. x.status = "queued" /\ x.paused = y.paused /\ x.parked = y.parked
    BY <2>2 DEF JobRecords
  <2>4. job' = [job EXCEPT ![n] = x]
    BY <1>1, <1>3, <2>1, <2>2 DEF Submit, Shape
  <2>5. job'[n] = x /\ \A k \in Jobs : k # n => job'[k] = job[k]
    BY <1>1, <2>4 DEF Shape
  <2>6. job[n].status = "unborn" /\ \A k \in Jobs : Queued(k)' <=> Queued(k) \/ k = n
    BY <1>2, <1>3 DEF Submit
  <2> QED
    BY <1>3, <2>1, <2>3, <2>5, <2>6 DEF NewCome
<1>4. CASE SubmitEpisode
  <2>1. batch.next \in 1..Len(BatchJobs)
    BY <1>1, <1>4, BatchAssumption DEF SubmitEpisode, Submitting, Shape, Batches
  <2>2. BatchJobs[batch.next] \in Jobs
    BY <2>1, BatchAssumption DEF Jobs
  <2>3. /\ Submitting /\ Submit(BatchJobs[batch.next]) /\ batch' = [batch EXCEPT !.next = @ + 1]
        /\ UNCHANGED <<file, thread, heard, line, busy, resubmit, owed, sweep, calls>>
    BY <1>4 DEF SubmitEpisode, slotVars, apiVars
  <2> QED
    BY <1>3, <2>2, <2>3
<1>5. ASSUME NEW j \in Jobs, SubmitSingle(j) PROVE NewCome(j)
  <2>1. /\ j \in SpareJobs /\ Submit(j)
        /\ UNCHANGED <<file, thread, heard, line, busy, resubmit, owed, sweep, calls, batch>>
    BY <1>5 DEF SubmitSingle, slotVars, apiVars
  <2> QED
    BY <1>3, <2>1, BatchAssumption
<1>6. ASSUME NEW j \in Jobs, NEW new \in Jobs, Retry(j, new) PROVE NewCome(new)
  <2>1. PICK x \in JobRecords : x = [NewJob EXCEPT !.status = "queued", !.listed = TRUE]
    BY DEF NewJob, JobRecords, Active
  <2>2. x.status = "queued" /\ ~x.parked /\ ~x.paused
    BY <2>1 DEF NewJob
  <2>3. PICK y \in JobRecords : y = [job[j] EXCEPT !.listed = FALSE]
    BY <1>1 DEF Shape, JobRecords
  <2>4. y.status = job[j].status /\ y.parked = job[j].parked /\ y.paused = job[j].paused
    BY <1>1, <2>3 DEF Shape, JobRecords
  <2>5. j # new /\ job' = [job EXCEPT ![j] = y, ![new] = x] /\ new \in SpareJobs
    BY <1>6, <2>1, <2>3 DEF Retry
  <2>6. /\ job'[new] = x /\ job'[j] = y
        /\ \A k \in Jobs : k \notin {j, new} => job'[k] = job[k]
    BY <1>1, <2>5 DEF Shape
  <2>7. /\ job[new].status = "unborn" /\ backlog' = Append(backlog, new)
        /\ UNCHANGED <<file, thread, heard, line, busy, resubmit, owed, sweep, batch>>
        /\ calls' = [calls EXCEPT !.requests = @ + 1]
    BY <1>6 DEF Retry, Request, slotVars
  <2>8. calls'.pauses = calls.pauses
        /\ (calls \in [requests : Int, pauses : Int] => calls' \in [requests : Int, pauses : Int])
    BY <2>7
  <2>9. /\ \A k \in Jobs : Queued(k)' <=> Queued(k) \/ k = new
        /\ new \notin Episodes
    BY <1>2, <2>5, <2>7, BatchAssumption
  <2> QED
    BY <2>2, <2>4, <2>6, <2>7, <2>8, <2>9 DEF NewCome
<1> QED
  BY <1>4, <1>5, <1>6

(* Nobody has paused anything.                                             *)
NoPause(j) == ~job[j].paused /\ ~job[j].parked /\ job[j].status # "paused" /\ j \notin owed
NobodyPauses == calls.pauses = 0 /\ resubmit = {} /\ \A j \in Jobs : NoPause(j)

(* What a request may do to the flags of a job, and to its status.         *)
MarkedAs(k) ==
  /\ \/ job'[k].status = job[k].status
     \/ job[k].status \in Active /\ job'[k].status \in Active
     \/ job[k].status \in Active /\ job'[k].status = "cancelled"
     \/ job[k].status = "done" /\ job'[k].status = "cancelled" /\ sweep.finished # {}
  /\ job'[k].parked => job[k].parked
  /\ k \in resubmit' => k \in resubmit \/ job[k].parked
  /\ (k \in file' <=> k \in file) \/ (job[k].status = "done" /\ job'[k].status = "cancelled")

(* ... and to the sweep, and that it pauses nobody unless it may.          *)
Marks ==
  /\ UNCHANGED <<backlog, thread, batch, heard, line, busy>>
  /\ \A k \in Jobs : MarkedAs(k)
  /\ calls' \in [requests : Int, pauses : Int]
  /\ Sweeps'
  /\ sweep'.step = "silenced" => sweep.step = "silenced"
  /\ sweep'.finished # {} => sweep.finished # {} \/ sweep.step = "silenced"
  /\ MaxPauses = 0 /\ NobodyPauses => NobodyPauses'

(* cancel(), its locked part, once more.                                   *)
LEMMA CancelJobSays ==
  ASSUME Shape, NEW j, CancelJob(j), UNCHANGED <<file, resubmit>>
  PROVE  /\ \A k \in Jobs : /\ MarkedAs(k)
                            /\ job[k].status = "done" <=> job'[k].status = "done"
         /\ NobodyPauses /\ calls'.pauses = calls.pauses => NobodyPauses'
<1>1. CASE j \in Jobs
  <2>1. PICK y \in JobRecords : y = job[j]
    BY <1>1 DEF Shape
  <2>2. PICK x \in JobRecords :
          /\ x = [y EXCEPT !.parked = FALSE, !.paused = FALSE, !.cancelled = TRUE,
                           !.status = "cancelled"]
          /\ x.status = "cancelled" /\ ~x.parked /\ ~x.paused
    <3> DEFINE x == [y EXCEPT !.parked = FALSE, !.paused = FALSE, !.cancelled = TRUE,
                              !.status = "cancelled"]
    <3>1. x \in JobRecords /\ x.status = "cancelled" /\ ~x.parked /\ ~x.paused
      BY DEF JobRecords, Over
    <3> QED
      BY <3>1
  <2>3. job' = [job EXCEPT ![j] = x]
    <3>1. job' = [job EXCEPT ![j].parked = FALSE, ![j].paused = FALSE,
                             ![j].cancelled = TRUE, ![j].status = "cancelled"]
      BY DEF CancelJob
    <3> QED
      BY <1>1, <2>1, <2>2, <3>1 DEF Shape
  <2>4. job[j].status \in Active
    BY DEF CancelJob, Live, Active
  <2>5. job'[j] = x /\ \A k \in Jobs : k # j => job'[k] = job[k]
    BY <1>1, <2>3 DEF Shape
  <2>6. job[j].parked \/ owed' = owed
    BY DEF CancelJob
  <2>7. \A k \in Jobs : MarkedAs(k) /\ (job[k].status = "done" <=> job'[k].status = "done")
    BY <2>2, <2>4, <2>5 DEF MarkedAs, Active
  <2>8. NobodyPauses /\ calls'.pauses = calls.pauses => NobodyPauses'
    BY <1>1, <2>2, <2>5, <2>6 DEF NobodyPauses, NoPause
  <2> QED
    BY <2>7, <2>8
<1>2. CASE j \notin Jobs
  <2>1. job' = job
    BY <1>2 DEF CancelJob, Shape
  <2>2. \A k \in Jobs : k \in owed' => k \in owed
    BY <1>2 DEF CancelJob
  <2>3. \A k \in Jobs : MarkedAs(k)
    BY <2>1 DEF MarkedAs
  <2> QED
    BY <2>1, <2>2, <2>3 DEF NobodyPauses, NoPause
<1> QED
  BY <1>1, <1>2

LEMMA RequestsMark ==
  ASSUME IInv, Records,
         \/ PauseBatch \/ ResumeBatch \/ SweepCancel \/ SweepRemove
         \/ \E delete \in BOOLEAN : CancelBatch(delete)
         \/ \E j \in Jobs : Cancel(j) \/ Dismiss(j)
  PROVE  Marks
<1>1. Shape /\ Sweeps /\ calls \in [requests : Int, pauses : Int]
  BY DEF IInv, Records
<1>2. UNCHANGED <<backlog, thread, batch, heard, line, busy>>
  BY DEF PauseBatch, ResumeBatch, SweepCancel, SweepRemove, CancelBatch, Cancel, Dismiss,
         slotVars
(* Where only the flags of jobs, and no sweep, are concerned.              *)
<1>3. ASSUME sweep' = sweep, \A k \in Jobs : MarkedAs(k),
             \A k \in Jobs : job[k].status = "done" => job'[k].status = "done",
             calls' \in [requests : Int, pauses : Int],
             MaxPauses = 0 /\ NobodyPauses => NobodyPauses'
      PROVE  Marks
  <2>1. Sweeps'
    BY <1>1, <1>3 DEF Sweeps, Jobs
  <2> QED
    BY <1>2, <1>3, <2>1 DEF Marks
<1>4. CASE PauseBatch
  <2>1. /\ UNCHANGED <<file, resubmit, sweep>>
        /\ job' = [k \in Jobs |-> IF Pausable(k)
                                  THEN [job[k] EXCEPT !.paused = TRUE, !.status = "paused"]
                                  ELSE job[k]]
    BY <1>4 DEF PauseBatch
  <2>0. /\ calls' = [requests |-> calls.requests + 1, pauses |-> calls.pauses + 1]
        /\ calls.pauses < MaxPauses
    BY <1>4 DEF PauseBatch
  <2>2. ASSUME NEW k \in Jobs
        PROVE  MarkedAs(k) /\ (job[k].status = "done" => job'[k].status = "done")
    <3>1. CASE Pausable(k)
      <4>1. PICK y \in JobRecords : y = job[k]
        BY <1>1 DEF Shape
      <4>2. job'[k] = [y EXCEPT !.paused = TRUE, !.status = "paused"]
        BY <2>1, <3>1, <4>1
      <4>3. job'[k].status = "paused" /\ job'[k].parked = y.parked
        BY <4>2 DEF JobRecords
      <4>4. job[k].status = "queued"
        BY <3>1 DEF Pausable
      <4> QED
        BY <2>1, <4>1, <4>3, <4>4 DEF MarkedAs, Active
    <3>2. CASE ~Pausable(k)
      BY <2>1, <3>2 DEF MarkedAs
    <3> QED
      BY <3>1, <3>2
  <2>3. ~(MaxPauses = 0 /\ NobodyPauses)
    <3>1. MaxPauses = 0 /\ calls.pauses = 0 => FALSE
      BY <2>0
    <3> QED
      BY <3>1 DEF NobodyPauses
  <2>4. calls' \in [requests : Int, pauses : Int]
    BY <1>1, <2>0
  <2> QED
    BY <1>3, <2>1, <2>2, <2>3, <2>4
<1>5. CASE ResumeBatch
  <2> DEFINE held == {k \in Episodes : job[k].listed /\ job[k].status = "paused"}
  <2>1. /\ UNCHANGED <<file, sweep, calls>>
        /\ resubmit' = resubmit \cup {k \in held : job[k].parked} /\ held # {}
        /\ job' = [k \in Jobs |->
             IF k \in held
             THEN [job[k] EXCEPT !.paused = FALSE, !.status = "queued", !.parked = FALSE]
             ELSE job[k]]
    BY <1>5 DEF ResumeBatch
  <2>2. ASSUME NEW k \in Jobs
        PROVE  MarkedAs(k) /\ (job[k].status = "done" => job'[k].status = "done")
    <3>1. CASE k \in held
      <4>1. PICK y \in JobRecords : y = job[k]
        BY <1>1 DEF Shape
      <4>2. job'[k] = [y EXCEPT !.paused = FALSE, !.status = "queued", !.parked = FALSE]
        BY <2>1, <3>1, <4>1
      <4>3. job'[k].status = "queued" /\ ~job'[k].parked
        BY <4>2 DEF JobRecords
      <4>4. job[k].status = "paused" /\ (k \in resubmit' => k \in resubmit \/ job[k].parked)
        BY <2>1, <3>1
      <4> QED
        BY <2>1, <4>3, <4>4 DEF MarkedAs, Active
    <3>2. CASE k \notin held
      BY <2>1, <3>2 DEF MarkedAs
    <3> QED
      BY <3>1, <3>2
  <2>3. ~NobodyPauses
    BY <2>1 DEF NobodyPauses, NoPause, Jobs
  <2> QED
    BY <1>1, <1>3, <2>1, <2>2, <2>3
<1>6. ASSUME NEW delete \in BOOLEAN, CancelBatch(delete) PROVE Marks
  <2> DEFINE done == {j \in Episodes : delete /\ job[j].listed /\ job[j].status = "done"}
  <2>1. /\ UNCHANGED <<file, resubmit, owed>>
        /\ job' = [k \in Jobs |-> IF k \in Episodes /\ Live(k)
                                  THEN [job[k] EXCEPT !.purge = delete] ELSE job[k]]
        /\ calls' = calls \/ calls' = [calls EXCEPT !.requests = @ + 1]
        /\ delete => sweep.step = "silenced"
    BY <1>6 DEF CancelBatch, Request
  <2>2. PICK q : sweep' = [step |-> "cancelling", todo |-> q, finished |-> done]
    BY <1>6 DEF CancelBatch
  <2>3. ASSUME NEW k \in Jobs
        PROVE  /\ job'[k].status = job[k].status /\ job'[k].parked = job[k].parked
               /\ job'[k].paused = job[k].paused
    BY <1>1, <2>1 DEF Shape, JobRecords
  <2>4. \A k \in Jobs : MarkedAs(k)
    BY <2>1, <2>3 DEF MarkedAs
  <2>5. done \subseteq {j \in Episodes : job'[j].status = "done"} /\ (done # {} => delete)
    BY <2>3 DEF Jobs
  <2> HIDE DEF done
  <2>6. sweep'.step = "cancelling" /\ sweep'.todo = q /\ sweep'.finished = done
    BY <2>2
  <2>7. Sweeps'
    BY <2>2, <2>5, <2>6 DEF Sweeps
  <2>8. calls' \in [requests : Int, pauses : Int] /\ calls'.pauses = calls.pauses
    BY <1>1, <2>1
  <2>9. NobodyPauses => NobodyPauses'
    BY <2>1, <2>3, <2>8 DEF NobodyPauses, NoPause
  <2> QED
    BY <1>2, <2>1, <2>4, <2>5, <2>6, <2>7, <2>8, <2>9 DEF Marks
<1>7. CASE SweepCancel
  <2>1. /\ UNCHANGED <<file, resubmit, calls>>
        /\ sweep' = [sweep EXCEPT !.todo = Tail(@)]
    BY <1>7 DEF SweepCancel
  <2>2. /\ \A k \in Jobs : /\ MarkedAs(k)
                           /\ job[k].status = "done" <=> job'[k].status = "done"
        /\ NobodyPauses => NobodyPauses'
    <3>1. CASE CancelJob(Head(sweep.todo))
      BY <1>1, <2>1, <3>1, CancelJobSays
    <3>2. CASE UNCHANGED <<job, owed>>
      BY <2>1, <3>2 DEF MarkedAs, NobodyPauses, NoPause
    <3> QED
      BY <1>7, <3>1, <3>2 DEF SweepCancel
  <2>3. PICK st, q, f : sweep = [step |-> st, todo |-> q, finished |-> f]
    BY <1>1 DEF Sweeps
  <2>4. /\ sweep' = [step |-> st, todo |-> Tail(q), finished |-> f]
        /\ sweep.step = st /\ sweep'.step = st /\ sweep.finished = f /\ sweep'.finished = f
    BY <2>1, <2>3
  <2>5. sweep' = [step |-> sweep'.step, todo |-> sweep'.todo, finished |-> sweep'.finished]
    BY <2>4
  <2>6. Sweeps'
    BY <1>1, <2>2, <2>4, <2>5 DEF Sweeps, Jobs
  <2> QED
    BY <1>1, <1>2, <2>1, <2>2, <2>4, <2>6 DEF Marks, NobodyPauses
<1>8. CASE SweepRemove
  <2>1. PICK j \in sweep.finished :
          /\ UNCHANGED <<resubmit, owed, calls>> /\ file' = file \ {j}
          /\ job' = [job EXCEPT ![j].status = "cancelled"]
          /\ sweep' = [sweep EXCEPT !.finished = @ \ {j}]
    BY <1>8 DEF SweepRemove
  <2>2. PICK st, q, f : sweep = [step |-> st, todo |-> q, finished |-> f]
    BY <1>1 DEF Sweeps
  <2>3. /\ sweep' = [step |-> st, todo |-> q, finished |-> f \ {j}]
        /\ sweep.step = st /\ sweep'.step = st
        /\ sweep.finished = f /\ sweep'.finished = f \ {j}
    BY <2>1, <2>2
  <2>4. sweep' = [step |-> sweep'.step, todo |-> sweep'.todo, finished |-> sweep'.finished]
    BY <2>3
  <2>5. j \in f /\ f \subseteq {k \in Episodes : job[k].status = "done"} /\ j \in Jobs
    BY <1>1, <2>1, <2>3 DEF Sweeps, Jobs
  <2>6. /\ \A k \in Jobs : k # j => job'[k] = job[k]
        /\ job'[j].status = "cancelled" /\ job'[j].parked = job[j].parked
        /\ job'[j].paused = job[j].paused
    BY <1>1, <2>1, <2>5 DEF Shape, JobRecords
  <2>7. Sweeps'
    <3>1. f \ {j} \subseteq {k \in Episodes : job'[k].status = "done"}
      BY <2>5, <2>6 DEF Jobs
    <3> QED
      BY <2>3, <2>4, <3>1 DEF Sweeps
  <2>8. ASSUME NEW k \in Jobs PROVE MarkedAs(k)
    BY <2>1, <2>3, <2>5, <2>6 DEF MarkedAs
  <2>9. NobodyPauses => NobodyPauses'
    BY <2>1, <2>5, <2>6 DEF NobodyPauses, NoPause
  <2> QED
    BY <1>1, <1>2, <2>1, <2>3, <2>5, <2>7, <2>8, <2>9 DEF Marks
<1>9. ASSUME NEW j \in Jobs, Cancel(j) PROVE Marks
  <2>1. /\ UNCHANGED <<file, resubmit, sweep>> /\ CancelJob(j)
        /\ calls' = [calls EXCEPT !.requests = @ + 1]
    BY <1>9 DEF Cancel, Request
  <2>2. calls'.pauses = calls.pauses /\ calls' \in [requests : Int, pauses : Int]
    BY <1>1, <2>1
  <2> QED
    BY <1>1, <1>3, <2>1, <2>2, CancelJobSays
<1>10. ASSUME NEW j \in Jobs, Dismiss(j) PROVE Marks
  <2>1. /\ UNCHANGED <<file, resubmit, sweep, owed>> /\ job' = [job EXCEPT ![j].listed = FALSE]
        /\ calls' = [calls EXCEPT !.requests = @ + 1]
    BY <1>10 DEF Dismiss, Request
  <2>2. calls'.pauses = calls.pauses /\ calls' \in [requests : Int, pauses : Int]
    BY <1>1, <2>1
  <2>3. ASSUME NEW k \in Jobs
        PROVE  /\ job'[k].status = job[k].status /\ job'[k].parked = job[k].parked
               /\ job'[k].paused = job[k].paused
    BY <1>1, <2>1 DEF Shape, JobRecords
  <2>4. \A k \in Jobs : MarkedAs(k)
    BY <2>1, <2>3 DEF MarkedAs
  <2>5. NobodyPauses => NobodyPauses'
    BY <2>1, <2>2, <2>3 DEF NobodyPauses, NoPause
  <2> QED
    BY <1>3, <2>1, <2>2, <2>3, <2>4, <2>5
<1> QED
  BY <1>4, <1>5, <1>6, <1>7, <1>8, <1>9, <1>10

(* The steps that leave the jobs alone.                                    *)
LEMMA RegisterSays ==
  ASSUME batch \in Batches, RegisterBatch
  PROVE  /\ UNCHANGED <<job, file, backlog, thread, resubmit, line, busy, heard, owed, sweep, calls>>
         /\ batch.state = "none" /\ batch'.state = "open" /\ batch'.remaining = Len(BatchJobs)
         /\ batch'.next = batch.next /\ batch'.silent = batch.silent
         /\ batch'.announced = batch.announced
<1>1. PICK n : n = Len(BatchJobs)
  OBVIOUS
<1>2. batch.state = "none" /\ batch' = [batch EXCEPT !.state = "open", !.remaining = n]
  BY <1>1 DEF RegisterBatch
<1> QED
  BY <1>1, <1>2 DEF RegisterBatch, Batches, jobVars, slotVars, apiVars

LEMMA AbandonSays ==
  ASSUME batch \in Batches, AbandonRest
  PROVE  /\ UNCHANGED <<job, file, backlog, thread, resubmit, line, busy, heard, owed, sweep, calls>>
         /\ Submitting /\ batch'.next = Len(BatchJobs) + 1 /\ batch'.silent = batch.silent
         /\ batch.state = "closed" => batch'.state = "closed" /\ batch'.announced = batch.announced
         /\ batch.state = "open" =>
              LET left == batch.remaining - (Len(BatchJobs) - batch.next + 1) IN
              /\ batch'.remaining = left
              /\ batch'.state = IF left > 0 THEN "open" ELSE "closed"
              /\ batch'.announced = IF left > 0 THEN batch.announced ELSE ~batch.silent
<1>1. /\ UNCHANGED <<job, file, backlog, thread, resubmit, line, busy, heard, owed, sweep, calls>>
      /\ Submitting
  BY DEF AbandonRest, jobVars, slotVars, apiVars
<1>2. PICK n : n = Len(BatchJobs) + 1
  OBVIOUS
<1>3. CASE batch.state = "open"
  <2>1. batch.next \in Int /\ Len(BatchJobs) \in Int
    <3>1. \A q \in Seq(Episodes) : Len(q) \in Int
      OBVIOUS
    <3> QED
      BY <3>1, BatchAssumption DEF Batches
  <2>2. PICK m \in Int : m = Len(BatchJobs) - batch.next + 1
    BY <2>1
  <2>3. PICK b \in Batches :
          /\ b = LessToCome(m) /\ b.remaining = batch.remaining - m
          /\ b.silent = batch.silent
          /\ b.state = IF batch.remaining - m > 0 THEN batch.state ELSE "closed"
          /\ b.announced = IF batch.remaining - m > 0 THEN batch.announced ELSE ~batch.silent
    BY LessToComeCounts
  <2>4. batch' = [b EXCEPT !.next = n]
    BY <1>2, <1>3, <2>2, <2>3 DEF AbandonRest
  <2>5. /\ batch'.next = n /\ batch'.silent = b.silent /\ batch'.remaining = b.remaining
        /\ batch'.state = b.state /\ batch'.announced = b.announced
    BY <2>4 DEF Batches
  <2> QED
    BY <1>1, <1>2, <1>3, <2>2, <2>3, <2>5
<1>4. CASE batch.state # "open"
  <2>1. batch' = [batch EXCEPT !.next = n]
    BY <1>2, <1>4 DEF AbandonRest
  <2>2. /\ batch'.next = n /\ batch'.silent = batch.silent /\ batch'.state = batch.state
        /\ batch'.announced = batch.announced
    BY <2>1 DEF Batches
  <2> QED
    BY <1>1, <1>2, <1>4, <2>2
<1> QED
  BY <1>3, <1>4

LEMMA SilenceSays ==
  ASSUME batch \in Batches, calls \in [requests : Int, pauses : Int], Silence
  PROVE  /\ UNCHANGED <<job, file, backlog, thread, resubmit, line, busy, heard, owed>>
         /\ batch'.state = batch.state /\ batch'.remaining = batch.remaining
         /\ batch'.next = batch.next /\ batch'.announced = batch.announced
         /\ batch.silent \/ batch.state = "open" => batch'.silent
         /\ batch.state # "none"
         /\ sweep' = [step |-> "silenced", todo |-> <<>>, finished |-> {}]
         /\ calls' \in [requests : Int, pauses : Int] /\ calls'.pauses = calls.pauses
<1>1. /\ UNCHANGED <<job, file, backlog, thread, resubmit, line, busy, heard, owed>>
      /\ batch.state # "none"
      /\ batch' = IF batch.state = "open" THEN [batch EXCEPT !.silent = TRUE] ELSE batch
  BY DEF Silence, jobVars, slotVars
<1>2. sweep' = [step |-> "silenced", todo |-> <<>>, finished |-> {}]
  BY DEF Silence, NoSweep
<1>3. calls' = [calls EXCEPT !.requests = @ + 1]
  BY DEF Silence, Request
<1>4. calls' \in [requests : Int, pauses : Int] /\ calls'.pauses = calls.pauses
  BY <1>3
<1>5. /\ batch'.state = batch.state /\ batch'.remaining = batch.remaining
      /\ batch'.next = batch.next /\ batch'.announced = batch.announced
      /\ (batch.silent \/ batch.state = "open" => batch'.silent)
  BY <1>1 DEF Batches
<1> QED
  BY <1>1, <1>2, <1>4, <1>5

(* An episode in the order of submission, and the others.                  *)
LEMMA EpisodesInOrder ==
  /\ Len(BatchJobs) \in Nat /\ Episodes \subseteq Jobs
  /\ \A i \in 1..Len(BatchJobs) : BatchJobs[i] \in Episodes
  /\ \A j \in Episodes : \E i \in 1..Len(BatchJobs) : BatchJobs[i] = j
  /\ \A i, k \in 1..Len(BatchJobs) : BatchJobs[i] = BatchJobs[k] => i = k
  /\ BatchJobs # <<>> => Len(BatchJobs) > 0
  /\ IsFiniteSet(Episodes)
<1>1. \A q \in Seq(Episodes) : /\ Len(q) \in Nat /\ DOMAIN q = 1..Len(q)
                               /\ (q # <<>> => Len(q) > 0)
                               /\ \A i \in 1..Len(q) : q[i] \in Episodes
  OBVIOUS
<1>2. /\ Len(BatchJobs) \in Nat /\ DOMAIN BatchJobs = 1..Len(BatchJobs)
      /\ (BatchJobs # <<>> => Len(BatchJobs) > 0)
      /\ \A i \in 1..Len(BatchJobs) : BatchJobs[i] \in Episodes
      /\ IsInjective(BatchJobs)
  BY <1>1, BatchAssumption
<1>3. Episodes \subseteq Jobs
  BY DEF Jobs
<1>4. \A j \in Episodes : \E i \in 1..Len(BatchJobs) : BatchJobs[i] = j
  BY <1>2 DEF Episodes, ToSet
<1>5. \A i, k \in 1..Len(BatchJobs) : BatchJobs[i] = BatchJobs[k] => i = k
  BY <1>2 DEF IsInjective
<1>6. IsFiniteSet(Episodes)
  <2>1. IsFiniteSet(1..Len(BatchJobs))
    BY <1>2, FS_Interval
  <2>2. Episodes = {BatchJobs[i] : i \in 1..Len(BatchJobs)}
    BY <1>2, <1>4
  <2>3. IsFiniteSet({BatchJobs[i] : i \in 1..Len(BatchJobs)})
    <3>1. [i \in 1..Len(BatchJobs) |-> BatchJobs[i]]
            \in Surjection(1..Len(BatchJobs), {BatchJobs[i] : i \in 1..Len(BatchJobs)})
      BY DEF Surjection, Range
    <3> QED
      BY <2>1, <3>1, FS_Surjection
  <2> QED
    BY <2>2, <2>3
<1> QED
  BY <1>2, <1>3, <1>4, <1>5, <1>6

-----------------------------------------------------------------------------
(* What was reported as done is in the library, or the batch was silenced. *)
Silenced == batch.state = "closed" \/ batch.silent
SweepSilent == sweep.step = "silenced" \/ sweep.finished # {} => Silenced
Stored(j) ==
  /\ job[j].status = "done" =>
       /\ j \in file /\ ~Queued(j) /\ j \notin resubmit /\ ~job[j].parked
       /\ \A t \in Threads : Has(t, j) => thread[t].step \in {"release", "finish"}
  /\ \A t \in Threads : Has(t, j) /\ thread[t].step = "landed" => j \in file
  /\ "done" \in ToSet(heard[j]) => job[j].status = "done" \/ Silenced
SInv == Records /\ SweepSilent /\ \A j \in Jobs : Stored(j)

LEMMA InitStored == Init => SInv
<1> SUFFICES ASSUME Init PROVE SInv
  OBVIOUS
<1>1. Records
  <2>1. <<>> \in Seq({"unborn"} \cup Active \cup Over)
    OBVIOUS
  <2> QED
    BY <2>1 DEF Init, Records, Sweeps, NoSweep
<1>2. SweepSilent
  BY DEF Init, SweepSilent, NoSweep
<1>3. ASSUME NEW j \in Jobs PROVE Stored(j)
  <2>1. job[j].status = "unborn" /\ heard[j] = <<>> /\ \A t \in Threads : ~Has(t, j)
    BY DEF Init, NewJob, Idle, Has
  <2>2. "done" \notin ToSet(heard[j])
    BY <2>1 DEF ToSet
  <2> QED
    BY <2>1, <2>2 DEF Stored
<1> QED
  BY <1>1, <1>2, <1>3 DEF SInv

(* A job of which nothing that matters here has changed.                   *)
LEMMA StoredStays ==
  ASSUME NEW k \in Jobs, Stored(k), job'[k].status = job[k].status,
         job'[k].parked => job[k].parked, k \in file => k \in file',
         Queued(k)' => Queued(k), k \in resubmit' => k \in resubmit,
         heard'[k] = heard[k], Silenced => Silenced',
         \A t \in Threads : Has(t, k)' => Has(t, k) /\ thread'[t].step = thread[t].step
  PROVE  Stored(k)'
BY DEF Stored

LEMMA SameSilence ==
  /\ UNCHANGED batch => (Silenced => Silenced')
  /\ UNCHANGED <<batch, sweep>> => (SweepSilent => SweepSilent')
BY DEF Silenced, SweepSilent

LEMMA SameRecords ==
  UNCHANGED <<heard, calls, sweep>> /\ Records
    /\ (\A k \in Episodes : job[k].status = "done" => job'[k].status = "done") => Records'
BY DEF Records, Sweeps

LEMMA WorkerStores ==
  ASSUME IInv, SInv, NEW t \in Threads,
         \/ Granted(t) \/ LeaveLine(t) \/ Refused(t) \/ Park(t) \/ Run(t) \/ Land(t)
         \/ Settle(t) \/ Purge(t) \/ Stop(t) \/ FailAndRetry(t) \/ Fail(t) \/ Release(t)
         \/ Backoff(t)
  PROVE  SInv'
<1>1. Shape /\ \A k \in Jobs : Safe(k) /\ Stored(k)
  BY DEF IInv, SInv
<1>2. PICK j \in Jobs : j = thread[t].job /\ Carried(t, j)
  BY WorkerGoesOn
<1>3. PICK s \in Steps \ {"idle"}, x \in JobRecords : GoesOn(t, s, x)
  BY WorkerGoesOn
<1>4. PICK r : r.step = s /\ r.job = j /\ thread' = [thread EXCEPT ![t] = r]
  <2>1. thread' = [thread EXCEPT ![t] = [step |-> s, job |-> j]]
    BY <1>2, <1>3 DEF GoesOn
  <2> QED
    BY <2>1
<1>5. thread'[t] = r /\ \A u \in Threads : u # t => thread'[u] = thread[u]
  BY <1>1, <1>4 DEF Shape
<1>6. /\ job'[j] = x /\ \A k \in Jobs : k # j => job'[k] = job[k]
      /\ UNCHANGED <<backlog, batch, heard, resubmit, owed, sweep, calls>>
      /\ \A k \in Jobs : k # j => (k \in file' <=> k \in file)
  BY <1>1, <1>2, <1>3 DEF GoesOn, Shape
<1>7. /\ s = "landed" => j \in file'
      /\ x.status = "done" =>
           \/ thread[t].step = "landed" /\ s = "release" /\ file' = file
           \/ /\ job[j].status = "done"
              /\ thread[t].step = "release" => s = "finish" /\ file' = file
      /\ job[j].status = "done" /\ thread[t].step = "release" => x.status = "done"
  BY <1>2, <1>3 DEF GoesOn
<1>8. Has(t, j) /\ (job[j].status = "done" => thread[t].step = "release")
  BY <1>1, <1>2 DEF Carried, Stored, Has
<1>9. (Silenced => Silenced') /\ SweepSilent'
  BY <1>6, SameSilence DEF SInv
<1>10. \A k \in Jobs : Queued(k)' <=> Queued(k)
  BY <1>6, SameQueue
<1>11. ASSUME NEW u \in Threads, u # t, Has(u, j)'
       PROVE  Has(u, j) /\ thread'[u].step = thread[u].step /\ thread[u].step = "finish"
  <2>1. Has(u, j) /\ thread'[u].step = thread[u].step
    BY <1>5, <1>11 DEF Has
  <2>2. ~Carried(u, j)
    BY <1>1, <1>2, <1>11 DEF Safe, OneThread
  <2> QED
    BY <2>1, <2>2 DEF Has, Carried
<1>12. Stored(j)'
  <2>1. x.status = "done" =>
          /\ j \in file' /\ ~Queued(j)' /\ j \notin resubmit' /\ ~job'[j].parked
          /\ s \in {"release", "finish"}
    <3> SUFFICES ASSUME x.status = "done"
                 PROVE  /\ j \in file' /\ ~Queued(j)' /\ j \notin resubmit' /\ ~job'[j].parked
                        /\ s \in {"release", "finish"}
      OBVIOUS
    <3>1. j \in file' /\ s \in {"release", "finish"}
      BY <1>1, <1>7, <1>8 DEF Stored
    <3>2. ~Queued(j) /\ j \notin resubmit
      BY <1>1, <1>2 DEF Safe, OnePlace
    <3>3. ~job'[j].parked
      <4>1. x.parked => x.status = "paused"
        BY <1>2, <1>3 DEF GoesOn
      <4> QED
        BY <1>6, <4>1
    <3> QED
      BY <1>6, <1>10, <3>1, <3>2, <3>3
  <2>2. \A u \in Threads : Has(u, j)' /\ thread'[u].step = "landed" => j \in file'
    BY <1>4, <1>5, <1>7, <1>11
  <2>3. x.status = "done" =>
          \A u \in Threads : Has(u, j)' => thread'[u].step \in {"release", "finish"}
    BY <1>4, <1>5, <1>11, <2>1
  <2>4. "done" \in ToSet(heard'[j]) => x.status = "done" \/ Silenced'
    BY <1>1, <1>6, <1>7, <1>8, <1>9 DEF Stored
  <2> QED
    BY <1>6, <2>1, <2>2, <2>3, <2>4 DEF Stored
<1>13. ASSUME NEW k \in Jobs, k # j PROVE Stored(k)'
  <2>1. \A u \in Threads : Has(u, k)' => Has(u, k) /\ thread'[u].step = thread[u].step
    BY <1>4, <1>5, <1>13 DEF Has
  <2> QED
    BY <1>1, <1>6, <1>9, <1>10, <1>13, <2>1, StoredStays
<1>14. Records'
  <2>1. job[j].status = "done" => x.status = "done"
    BY <1>7, <1>8
  <2> QED
    BY <1>6, <2>1, SameRecords DEF SInv, Jobs
<1> QED
  BY <1>9, <1>12, <1>13, <1>14 DEF SInv

LEMMA StartStores ==
  ASSUME IInv, SInv, NEW t \in Threads, Start(t)
  PROVE  SInv'
<1>1. Shape /\ \A k \in Jobs : Safe(k) /\ Stored(k)
  BY DEF IInv, SInv
<1>2. PICK j \in Jobs :
        /\ Queued(j) /\ \A k \in Jobs : Queued(k)' <=> Queued(k) /\ k # j
        /\ thread[t].step = "idle"
        /\ UNCHANGED <<job, file, batch, heard, resubmit, owed, sweep, calls>>
        /\ \A u \in Threads : u # t => thread'[u] = thread[u]
        /\ thread'[t].step \in {"lined", "refused"} /\ thread'[t].job = j
  BY StartTakes
<1>3. (Silenced => Silenced') /\ SweepSilent' /\ Records'
  BY <1>2, SameSilence, SameRecords DEF SInv
<1>4. ASSUME NEW k \in Jobs, NEW u \in Threads, Has(u, k)'
      PROVE  \/ Has(u, k) /\ thread'[u].step = thread[u].step
             \/ u = t /\ k = j
  BY <1>2, <1>4 DEF Has
<1>5. ASSUME NEW k \in Jobs, k # j PROVE Stored(k)'
  <2>1. \A u \in Threads : Has(u, k)' => Has(u, k) /\ thread'[u].step = thread[u].step
    BY <1>4, <1>5
  <2> QED
    BY <1>1, <1>2, <1>3, <2>1, StoredStays
<1>6. Stored(j)'
  <2>1. job'[j].status # "done"
    BY <1>1, <1>2 DEF Stored
  <2>2. \A u \in Threads : Has(u, j)' /\ thread'[u].step = "landed" => j \in file'
    BY <1>1, <1>2, <1>4 DEF Stored
  <2>3. "done" \in ToSet(heard'[j]) => Silenced'
    BY <1>1, <1>2, <1>3, <2>1 DEF Stored
  <2> QED
    BY <2>1, <2>2, <2>3 DEF Stored
<1> QED
  BY <1>3, <1>5, <1>6 DEF SInv

(* The listeners of j hear its status; nothing else happens to the jobs.   *)
LEMMA NotifyStores ==
  ASSUME Shape, SInv, NEW j \in Jobs, Notify(j) \/ UNCHANGED <<batch, heard>>,
         UNCHANGED <<job, file, backlog, resubmit, sweep, calls>>,
         \A k \in Jobs, u \in Threads :
           Has(u, k)' => Has(u, k) /\ thread'[u].step = thread[u].step
  PROVE  SInv'
<1>1. Records /\ SweepSilent /\ \A k \in Jobs : Stored(k)
  BY DEF SInv
<1>2. /\ heard' \in [Jobs -> Seq({"unborn"} \cup Active \cup Over)]
      /\ \A k \in Jobs :
           \/ heard'[k] = heard[k]
           \/ k = j /\ ToSet(heard'[k]) = ToSet(heard[k]) \cup {job[k].status}
  <2>1. CASE Notify(j)
    <3>1. /\ heard' \in [Jobs -> Seq({"unborn"} \cup Active \cup Over)]
          /\ \A k \in Jobs : k # j => heard'[k] = heard[k]
          /\ ToSet(heard'[j]) = ToSet(heard[j]) \cup {job[j].status}
      BY <1>1, <2>1, NotifyReports
    <3> QED
      BY <3>1
  <2>2. CASE heard' = heard
    BY <1>1, <2>2 DEF Records
  <2> QED
    BY <2>1, <2>2
<1>3. Silenced => Silenced'
  <2>1. CASE Notify(j)
    <3>1. batch \in Batches /\ Count(j)
      BY <2>1 DEF Notify, Shape
    <3>2. batch'.silent = batch.silent /\ (batch.state = "closed" => batch' = batch)
      BY <3>1, CountCounts
    <3> QED
      BY <3>2 DEF Silenced
  <2> QED
    BY <2>1, SameSilence
<1>4. Records' /\ SweepSilent'
  BY <1>1, <1>2, <1>3 DEF Records, Sweeps, SweepSilent
<1>5. \A k \in Jobs : Queued(k)' <=> Queued(k)
  BY SameQueue
<1>6. ASSUME NEW k \in Jobs PROVE Stored(k)'
  <2>1. /\ job[k].status = "done" =>
             /\ k \in file' /\ ~Queued(k)' /\ k \notin resubmit' /\ ~job'[k].parked
             /\ \A u \in Threads : Has(u, k)' => thread'[u].step \in {"release", "finish"}
        /\ \A u \in Threads : Has(u, k)' /\ thread'[u].step = "landed" => k \in file'
    BY <1>1, <1>5 DEF Stored
  <2>2. "done" \in ToSet(heard'[k]) => job'[k].status = "done" \/ Silenced'
    BY <1>1, <1>2, <1>3 DEF Stored
  <2> QED
    BY <2>1, <2>2 DEF Stored
<1> QED
  BY <1>4, <1>6 DEF SInv

LEMMA FinishStores ==
  ASSUME IInv, SInv, NEW t \in Threads, Finish(t)
  PROVE  SInv'
<1>1. PICK j \in Jobs :
        /\ thread'[t] = Idle /\ \A u \in Threads : u # t => thread'[u] = thread[u]
        /\ UNCHANGED <<job, file, backlog, resubmit, owed, sweep, calls>>
        /\ Notify(j) \/ UNCHANGED <<batch, heard>>
  BY FinishTells
<1>2. \A k \in Jobs, u \in Threads : Has(u, k)' => Has(u, k) /\ thread'[u].step = thread[u].step
  BY <1>1 DEF Has, Idle
<1> QED
  BY <1>1, <1>2, NotifyStores DEF IInv

LEMMA SubmissionsStore ==
  ASSUME IInv, SInv,
         \/ SubmitEpisode
         \/ \E j \in Jobs : SubmitSingle(j) \/ Resubmit(j)
         \/ \E j, new \in Jobs : Retry(j, new)
  PROVE  SInv'
<1>1. Shape /\ (\A k \in Jobs : Safe(k) /\ Stored(k)) /\ Records /\ SweepSilent
  BY DEF IInv, SInv
<1>2. ASSUME NEW n \in Jobs, NewCome(n) PROVE SInv'
  <2>1. /\ job[n].status = "unborn" /\ job'[n].status = "queued"
        /\ \A k \in Jobs : k # n =>
             job'[k].status = job[k].status /\ job'[k].parked = job[k].parked
        /\ \A k \in Jobs : Queued(k)' <=> Queued(k) \/ k = n
        /\ UNCHANGED <<file, thread, heard, resubmit, sweep>>
        /\ calls' \in [requests : Int, pauses : Int]
        /\ batch' = batch \/ batch' = [batch EXCEPT !.next = @ + 1]
    BY <1>1, <1>2 DEF NewCome, Records
  <2>2. batch'.state = batch.state /\ batch'.silent = batch.silent
    BY <1>1, <2>1 DEF Shape, Batches
  <2>3. (Silenced => Silenced') /\ SweepSilent'
    BY <1>1, <2>1, <2>2 DEF Silenced, SweepSilent
  <2>4. Records'
    BY <1>1, <2>1 DEF Records, Sweeps, Jobs
  <2>5. ASSUME NEW k \in Jobs, k # n PROVE Stored(k)'
    <3>1. \A u \in Threads : Has(u, k)' => Has(u, k) /\ thread'[u].step = thread[u].step
      BY <2>1 DEF Has
    <3> QED
      BY <1>1, <2>1, <2>3, <2>5, <3>1, StoredStays
  <2>6. Stored(n)'
    <3>1. \A u \in Threads : Has(u, n)' => Has(u, n) /\ thread'[u].step = thread[u].step
      BY <2>1 DEF Has
    <3> QED
      BY <1>1, <2>1, <2>3, <3>1 DEF Stored
  <2> QED
    BY <2>3, <2>4, <2>5, <2>6 DEF SInv
<1>3. ASSUME NEW j \in Jobs, Resubmit(j) PROVE SInv'
  <2>1. /\ UNCHANGED <<job, file, thread, batch, heard, owed, sweep, calls>>
        /\ j \in resubmit /\ resubmit' = resubmit \ {j} /\ backlog' = Append(backlog, j)
    BY <1>3 DEF Resubmit, jobVars
  <2>2. \A k \in Jobs : Queued(k)' <=> Queued(k) \/ k = j
    BY <1>1, <2>1, Appended DEF Shape
  <2>3. (Silenced => Silenced') /\ SweepSilent' /\ Records'
    BY <1>1, <2>1, SameSilence, SameRecords
  <2>4. \A k \in Jobs, u \in Threads : Has(u, k)' <=> Has(u, k)
    BY <2>1 DEF Has
  <2>5. ASSUME NEW k \in Jobs PROVE Stored(k)'
    BY <1>1, <2>1, <2>2, <2>3, <2>4 DEF Stored
  <2> QED
    BY <2>3, <2>5 DEF SInv
<1> QED
  BY <1>2, <1>3, SubmissionsBring

LEMMA MarksStore ==
  ASSUME SInv, Marks
  PROVE  SInv'
<1>1. Records /\ SweepSilent /\ \A k \in Jobs : Stored(k)
  BY DEF SInv
<1>2. /\ UNCHANGED <<backlog, thread, batch, heard>> /\ \A k \in Jobs : MarkedAs(k)
      /\ calls' \in [requests : Int, pauses : Int] /\ Sweeps'
      /\ sweep'.step = "silenced" => sweep.step = "silenced"
      /\ sweep'.finished # {} => sweep.finished # {} \/ sweep.step = "silenced"
  BY DEF Marks
<1>3. (Silenced => Silenced') /\ SweepSilent'
  BY <1>1, <1>2 DEF Silenced, SweepSilent
<1>4. Records'
  BY <1>1, <1>2 DEF Records
<1>5. ASSUME NEW k \in Jobs PROVE Stored(k)'
  <2>1. \A u \in Threads : Has(u, k)' <=> Has(u, k)
    BY <1>2 DEF Has
  <2>2. Queued(k)' <=> Queued(k)
    BY <1>2, SameQueue
  <2>3. job'[k].status = "done" => job[k].status = "done"
    BY <1>2 DEF MarkedAs, Active
  <2>4. job[k].status = "done" => job'[k].status = "done" \/ Silenced
    BY <1>1, <1>2 DEF MarkedAs, Active, SweepSilent
  <2>5. ASSUME job'[k].status = "done"
        PROVE  /\ k \in file' /\ ~Queued(k)' /\ k \notin resubmit' /\ ~job'[k].parked
               /\ \A u \in Threads : Has(u, k)' => thread'[u].step \in {"release", "finish"}
    BY <1>1, <1>2, <2>1, <2>2, <2>3, <2>5 DEF Stored, MarkedAs
  <2>6. ASSUME NEW u \in Threads, Has(u, k)', thread'[u].step = "landed" PROVE k \in file'
    BY <1>1, <1>2, <2>1, <2>6 DEF Stored, MarkedAs
  <2>7. "done" \in ToSet(heard'[k]) => job'[k].status = "done" \/ Silenced'
    BY <1>1, <1>2, <1>3, <2>4 DEF Stored
  <2> QED
    BY <2>5, <2>6, <2>7 DEF Stored
<1> QED
  BY <1>3, <1>4, <1>5 DEF SInv

LEMMA QuietStepsStore ==
  ASSUME IInv, SInv, RegisterBatch \/ AbandonRest \/ Silence \/ SweepEnd \/ UNCHANGED vars
  PROVE  SInv'
<1>1. batch \in Batches /\ Records /\ SweepSilent /\ \A k \in Jobs : Stored(k)
  BY DEF IInv, Shape, SInv
<1>2. UNCHANGED <<job, file, backlog, thread, resubmit, heard>>
  BY DEF RegisterBatch, AbandonRest, Silence, SweepEnd, vars, jobVars, apiVars
<1>3. (Silenced => Silenced') /\ SweepSilent' /\ Sweeps'
      /\ calls' \in [requests : Int, pauses : Int]
  <2> SUFFICES (Silenced => Silenced') /\ SweepSilent' /\ Sweeps'
               /\ calls' \in [requests : Int, pauses : Int]
    OBVIOUS
  <2>1. ASSUME UNCHANGED <<sweep, calls>>
        PROVE  Sweeps' /\ calls' \in [requests : Int, pauses : Int]
               /\ ((Silenced => Silenced') => SweepSilent')
    BY <1>1, <1>2, <2>1 DEF Records, Sweeps, SweepSilent
  <2>2. CASE RegisterBatch
    BY <1>1, <2>1, <2>2, RegisterSays DEF Silenced
  <2>3. CASE AbandonRest
    <3>1. UNCHANGED <<sweep, calls>> /\ batch'.silent = batch.silent
          /\ (batch.state = "closed" => batch'.state = "closed")
      BY <1>1, <2>3, AbandonSays
    <3> QED
      BY <2>1, <3>1 DEF Silenced
  <2>4. CASE Silence
    <3>1. /\ batch'.state = batch.state /\ batch.state # "none"
          /\ (batch.silent \/ batch.state = "open" => batch'.silent)
          /\ sweep' = [step |-> "silenced", todo |-> <<>>, finished |-> {}]
          /\ calls' \in [requests : Int, pauses : Int]
      BY <1>1, <2>4, SilenceSays DEF Records
    <3>2. Silenced'
      BY <1>1, <3>1 DEF Silenced, Batches
    <3> QED
      BY <3>1, <3>2 DEF SweepSilent, Sweeps
  <2>5. CASE SweepEnd
    <3>1. sweep' = NoSweep /\ UNCHANGED <<batch, calls>>
      BY <2>5 DEF SweepEnd
    <3>2. Silenced => Silenced'
      BY <3>1, SameSilence
    <3> QED
      BY <1>1, <3>1, <3>2 DEF Sweeps, SweepSilent, NoSweep, Records
  <2>6. CASE UNCHANGED vars
    BY <2>1, <2>6, SameSilence DEF vars
  <2> QED
    BY <2>2, <2>3, <2>4, <2>5, <2>6
<1>4. Records'
  BY <1>1, <1>2, <1>3 DEF Records
<1>5. ASSUME NEW k \in Jobs PROVE Stored(k)'
  <2>1. /\ \A u \in Threads : Has(u, k)' <=> Has(u, k)
        /\ Queued(k)' <=> Queued(k)
    BY <1>2, SameQueue DEF Has
  <2> QED
    BY <1>1, <1>2, <1>3, <2>1, StoredStays
<1> QED
  BY <1>3, <1>4, <1>5 DEF SInv

LEMMA NextStored == IInv /\ SInv /\ [Next]_vars => SInv'
<1> SUFFICES ASSUME IInv, SInv, [Next]_vars PROVE SInv'
  OBVIOUS
<1>1. ASSUME NEW t \in Threads, Worker(t) PROVE SInv'
  BY <1>1, WorkerStores, StartStores, FinishStores DEF Worker
<1>2. CASE Ongoing
  <2>1. ASSUME NEW j \in Jobs, TellOrphan(j) PROVE SInv'
    <3>1. Notify(j) /\ UNCHANGED <<job, file, backlog, thread, resubmit, sweep, calls>>
      BY <2>1 DEF TellOrphan, jobVars
    <3>2. \A k \in Jobs, u \in Threads :
            Has(u, k)' => Has(u, k) /\ thread'[u].step = thread[u].step
      BY <3>1 DEF Has
    <3> QED
      BY <3>1, <3>2, NotifyStores DEF IInv
  <2>2. CASE CancelBatch(TRUE) \/ SweepCancel \/ SweepRemove
    BY <2>2, RequestsMark, MarksStore DEF SInv
  <2> QED
    BY <1>2, <2>1, <2>2, SubmissionsStore, QuietStepsStore DEF Ongoing
<1>3. CASE Asked
  <2>1. CASE PauseBatch \/ ResumeBatch \/ CancelBatch(FALSE)
             \/ \E j \in Jobs : Cancel(j) \/ Dismiss(j)
    BY <2>1, RequestsMark, MarksStore DEF SInv
  <2> QED
    BY <1>3, <2>1, SubmissionsStore, QuietStepsStore DEF Asked
<1>4. CASE UNCHANGED vars
  BY <1>4, QuietStepsStore
<1> QED
  BY <1>1, <1>2, <1>3, <1>4 DEF Next

-----------------------------------------------------------------------------
(* Without pauses a job is reported at most once, and when it is over: a   *)
(* thread that ends with it is the only one that has it, and nothing       *)
(* brings it back.                                                         *)
OneRun(j) ==
  /\ \A t, u \in Threads : Has(t, j) /\ Has(u, j) => t = u
  /\ Queued(j) => \A t \in Threads : ~Has(t, j)
OverAtFinish(j) ==
  \A t \in Threads : Has(t, j) /\ thread[t].step = "finish" => job[j].status \in Over
HeardOnce(j) ==
  heard[j] # <<>> =>
    /\ Len(heard[j]) = 1 /\ heard[j][1] \in Over /\ job[j].status \in Over
    /\ ~Queued(j) /\ \A t \in Threads : ~Has(t, j)
Told(j) == OneRun(j) /\ OverAtFinish(j) /\ HeardOnce(j)
RInv == NobodyPauses /\ \A j \in Jobs : Told(j)

LEMMA InitReports == Init => RInv
<1> SUFFICES ASSUME Init PROVE RInv
  OBVIOUS
<1>1. NobodyPauses
  BY DEF Init, NobodyPauses, NoPause, NewJob
<1>2. ASSUME NEW j \in Jobs PROVE Told(j)
  <2>1. heard[j] = <<>> /\ \A t \in Threads : ~Has(t, j)
    BY DEF Init, Idle, Has
  <2> QED
    BY <2>1 DEF Told, OneRun, OverAtFinish, HeardOnce
<1> QED
  BY <1>1, <1>2 DEF RInv

LEMMA ToldStays ==
  ASSUME NEW k \in Jobs, Told(k), job[k].status \in Over => job'[k].status \in Over,
         heard'[k] = heard[k], Queued(k)' => Queued(k),
         \A t \in Threads : Has(t, k)' => Has(t, k) /\ thread'[t].step = thread[t].step
  PROVE  Told(k)'
<1>1. OneRun(k)'
  BY DEF Told, OneRun
<1>2. OverAtFinish(k)'
  BY DEF Told, OverAtFinish
<1>3. HeardOnce(k)'
  BY DEF Told, HeardOnce
<1> QED
  BY <1>1, <1>2, <1>3 DEF Told

LEMMA SameNoPauses ==
  ASSUME NobodyPauses, UNCHANGED <<resubmit, owed>>, calls'.pauses = calls.pauses,
         \A k \in Jobs : /\ job'[k].paused => job[k].paused
                         /\ job'[k].parked => job[k].parked \/ job[k].paused
                         /\ job'[k].status = "paused" => job[k].status = "paused" \/ job[k].paused
  PROVE  NobodyPauses'
BY DEF NobodyPauses, NoPause

LEMMA WorkerReports ==
  ASSUME IInv, RInv, NEW t \in Threads,
         \/ Granted(t) \/ LeaveLine(t) \/ Refused(t) \/ Park(t) \/ Run(t) \/ Land(t)
         \/ Settle(t) \/ Purge(t) \/ Stop(t) \/ FailAndRetry(t) \/ Fail(t) \/ Release(t)
         \/ Backoff(t)
  PROVE  RInv'
<1>1. Shape /\ NobodyPauses /\ \A k \in Jobs : Told(k)
  BY DEF IInv, RInv
<1>2. PICK j \in Jobs : j = thread[t].job /\ Has(t, j)
  <2>1. thread[t].job \in Jobs /\ Carried(t, thread[t].job)
    BY WorkerGoesOn
  <2> QED
    BY <2>1 DEF Carried, Has
<1>3. PICK s \in Steps \ {"idle"}, x \in JobRecords : GoesOn(t, s, x)
  BY WorkerGoesOn
<1>4. PICK r : r.step = s /\ r.job = j /\ thread' = [thread EXCEPT ![t] = r]
  <2>1. thread' = [thread EXCEPT ![t] = [step |-> s, job |-> j]]
    BY <1>2, <1>3 DEF GoesOn
  <2> QED
    BY <2>1
<1>5. thread'[t] = r /\ \A u \in Threads : u # t => thread'[u] = thread[u]
  BY <1>1, <1>4 DEF Shape
<1>6. /\ job'[j] = x /\ \A k \in Jobs : k # j => job'[k] = job[k]
      /\ UNCHANGED <<backlog, batch, heard, resubmit, owed, sweep, calls>>
  BY <1>1, <1>2, <1>3 DEF GoesOn, Shape
<1>7. /\ x.paused => job[j].paused
      /\ x.parked => job[j].paused
      /\ x.status = "paused" => job[j].status = "paused" \/ job[j].paused
      /\ s = "finish" => x.status \in Over \/ job[j].paused
  BY <1>2, <1>3 DEF GoesOn
<1>8. NobodyPauses'
  BY <1>1, <1>6, <1>7, SameNoPauses
<1>9. \A k \in Jobs : Queued(k)' <=> Queued(k)
  BY <1>6, SameQueue
<1>10. ASSUME NEW k \in Jobs, k # j PROVE Told(k)'
  <2>1. \A u \in Threads : Has(u, k)' => Has(u, k) /\ thread'[u].step = thread[u].step
    BY <1>4, <1>5, <1>10 DEF Has
  <2> QED
    BY <1>1, <1>6, <1>9, <1>10, <2>1, ToldStays
<1>11. Told(j)'
  <2>1. \A u \in Threads : Has(u, j)' => Has(u, j)
    BY <1>2, <1>5 DEF Has
  <2>2. \A u \in Threads : Has(u, j)' => u = t
    BY <1>1, <1>2, <2>1 DEF Told, OneRun
  <2>3. OneRun(j)'
    BY <1>1, <1>9, <2>1 DEF Told, OneRun
  <2>4. s = "finish" => x.status \in Over
    BY <1>1, <1>7 DEF NobodyPauses, NoPause
  <2>5. OverAtFinish(j)'
    BY <1>4, <1>5, <1>6, <2>2, <2>4 DEF OverAtFinish
  <2>6. heard'[j] = <<>>
    BY <1>1, <1>2, <1>6 DEF Told, HeardOnce
  <2> QED
    BY <2>3, <2>5, <2>6 DEF Told, HeardOnce
<1> QED
  BY <1>8, <1>10, <1>11 DEF RInv

LEMMA StartReports ==
  ASSUME IInv, RInv, NEW t \in Threads, Start(t)
  PROVE  RInv'
<1>1. NobodyPauses /\ \A k \in Jobs : Told(k)
  BY DEF RInv
<1>2. PICK j \in Jobs :
        /\ Queued(j) /\ \A k \in Jobs : Queued(k)' <=> Queued(k) /\ k # j
        /\ thread[t].step = "idle"
        /\ UNCHANGED <<job, file, batch, heard, resubmit, owed, sweep, calls>>
        /\ \A u \in Threads : u # t => thread'[u] = thread[u]
        /\ thread'[t].step \in {"lined", "refused"} /\ thread'[t].job = j
  BY StartTakes
<1>3. NobodyPauses'
  BY <1>1, <1>2, SameNoPauses
<1>4. ASSUME NEW k \in Jobs, k # j PROVE Told(k)'
  <2>1. \A u \in Threads : Has(u, k)' => Has(u, k) /\ thread'[u].step = thread[u].step
    BY <1>2, <1>4 DEF Has
  <2> QED
    BY <1>1, <1>2, <2>1, ToldStays
<1>5. Told(j)'
  <2>1. \A u \in Threads : Has(u, j)' => u = t
    BY <1>1, <1>2 DEF Has, Told, OneRun
  <2>2. heard'[j] = <<>> /\ ~Queued(j)'
    BY <1>1, <1>2 DEF Told, HeardOnce
  <2> QED
    BY <1>2, <2>1, <2>2 DEF Told, OneRun, OverAtFinish, HeardOnce
<1> QED
  BY <1>3, <1>4, <1>5 DEF RInv

(* What the listeners of the job hear when its thread ends, and that they  *)
(* had not heard before.                                                   *)
LEMMA FirstReport ==
  ASSUME IInv, Records, RInv, NEW t \in Threads, Finish(t)
  PROVE  \E j \in Jobs :
           /\ Notify(j) /\ Has(t, j) /\ thread'[t] = Idle
           /\ \A u \in Threads : u # t => thread'[u] = thread[u]
           /\ UNCHANGED <<job, file, backlog, resubmit, owed, sweep, calls>>
           /\ job[j].status \in Over /\ heard[j] = <<>>
           /\ \A k \in Jobs : k # j => heard'[k] = heard[k]
           /\ heard'[j] # <<>> /\ Len(heard'[j]) = 1 /\ heard'[j][1] \in Over
<1>1. PICK j \in Jobs :
        /\ Has(t, j) /\ thread[t].step = "finish" /\ thread'[t] = Idle
        /\ \A u \in Threads : u # t => thread'[u] = thread[u]
        /\ UNCHANGED <<job, file, backlog, resubmit, owed, sweep, calls>>
        /\ Notify(j) \/ (job[j].parked /\ UNCHANGED <<batch, heard>>)
  BY FinishTells
<1>2. ~job[j].parked /\ job[j].status \in Over /\ heard[j] = <<>>
  BY <1>1 DEF RInv, NobodyPauses, NoPause, Told, OverAtFinish, HeardOnce
<1>3. Notify(j)
  BY <1>1, <1>2
<1>4. /\ \A k \in Jobs : k # j => heard'[k] = heard[k]
      /\ heard'[j] # <<>> /\ Len(heard'[j]) = 1 /\ heard'[j][1] = job[j].status
  BY <1>2, <1>3, NotifyReports DEF IInv
<1> QED
  BY <1>1, <1>2, <1>3, <1>4

LEMMA FinishReports ==
  ASSUME IInv, Records, RInv, NEW t \in Threads, Finish(t)
  PROVE  RInv'
<1>1. NobodyPauses /\ \A k \in Jobs : Told(k)
  BY DEF RInv
<1>2. PICK j \in Jobs :
        /\ Has(t, j) /\ thread'[t] = Idle
        /\ \A u \in Threads : u # t => thread'[u] = thread[u]
        /\ UNCHANGED <<job, backlog, resubmit, owed, calls>>
        /\ job[j].status \in Over
        /\ \A k \in Jobs : k # j => heard'[k] = heard[k]
        /\ heard'[j] # <<>> /\ Len(heard'[j]) = 1 /\ heard'[j][1] \in Over
  BY FirstReport
<1>3. NobodyPauses'
  BY <1>1, <1>2, SameNoPauses
<1>4. \A k \in Jobs : Queued(k)' <=> Queued(k)
  BY <1>2, SameQueue
<1>5. \A k \in Jobs, u \in Threads : Has(u, k)' => Has(u, k) /\ u # t /\ thread'[u] = thread[u]
  BY <1>2 DEF Has, Idle
<1>6. ASSUME NEW k \in Jobs, k # j PROVE Told(k)'
  BY <1>1, <1>2, <1>4, <1>5, <1>6, ToldStays
<1>7. Told(j)'
  <2>1. ~Queued(j)' /\ \A u \in Threads : ~Has(u, j)'
    BY <1>1, <1>2, <1>4, <1>5 DEF Told, OneRun
  <2> QED
    BY <1>2, <2>1 DEF Told, OneRun, OverAtFinish, HeardOnce
<1> QED
  BY <1>3, <1>6, <1>7 DEF RInv

LEMMA SubmissionsReport ==
  ASSUME IInv, RInv, NEW n \in Jobs, NewCome(n)
  PROVE  RInv' /\ heard[n] = <<>>
<1>1. NobodyPauses /\ (\A k \in Jobs : Told(k)) /\ Safe(n)
  BY DEF IInv, RInv
<1>2. /\ job[n].status = "unborn" /\ job'[n].status = "queued"
      /\ (job'[n].paused => job[n].paused) /\ (job'[n].parked => job[n].parked)
      /\ \A k \in Jobs : k # n =>
           /\ job'[k].status = job[k].status
           /\ job'[k].paused = job[k].paused /\ job'[k].parked = job[k].parked
      /\ \A k \in Jobs : Queued(k)' <=> Queued(k) \/ k = n
      /\ UNCHANGED <<thread, heard, resubmit, owed>> /\ calls'.pauses = calls.pauses
  BY DEF NewCome
<1>3. NobodyPauses'
  BY <1>1, <1>2, SameNoPauses
<1>4. \A k \in Jobs, u \in Threads : Has(u, k)' <=> Has(u, k)
  BY <1>2 DEF Has
<1>5. ASSUME NEW k \in Jobs, k # n PROVE Told(k)'
  BY <1>1, <1>2, <1>4, <1>5, ToldStays
<1>6. heard[n] = <<>>
  BY <1>1, <1>2 DEF Told, HeardOnce, Over
<1>7. \A u \in Threads : ~Has(u, n)
  <2> SUFFICES ASSUME NEW u \in Threads, Has(u, n) PROVE FALSE
    OBVIOUS
  <2>1. ~Carried(u, n)
    BY <1>1, <1>2 DEF Safe, HeldWhileActive, Held
  <2>2. thread[u].step = "finish"
    BY <2>1 DEF Has, Carried
  <2> QED
    BY <1>1, <1>2, <2>2 DEF Told, OverAtFinish, Over
<1>8. Told(n)'
  BY <1>2, <1>4, <1>6, <1>7 DEF Told, OneRun, OverAtFinish, HeardOnce
<1> QED
  BY <1>3, <1>5, <1>6, <1>8 DEF RInv

LEMMA NextReports ==
  ASSUME IInv, SInv, RInv, [Next]_vars, MaxPauses = 0
  PROVE  RInv'
<1>1. NobodyPauses /\ (\A k \in Jobs : Told(k)) /\ Records /\ batch \in Batches
  BY DEF IInv, Shape, SInv, RInv
<1>2. ASSUME NEW t \in Threads, Worker(t) PROVE RInv'
  BY <1>1, <1>2, WorkerReports, StartReports, FinishReports DEF Worker
<1>3. ASSUME Marks PROVE RInv'
  <2>1. /\ UNCHANGED <<backlog, thread, heard>> /\ \A k \in Jobs : MarkedAs(k)
        /\ NobodyPauses'
    BY <1>1, <1>3 DEF Marks
  <2>2. ASSUME NEW k \in Jobs PROVE Told(k)'
    <3>1. /\ \A u \in Threads : Has(u, k)' <=> Has(u, k)
          /\ Queued(k)' <=> Queued(k)
      BY <2>1, SameQueue DEF Has
    <3>2. job[k].status \in Over => job'[k].status \in Over
      BY <2>1 DEF MarkedAs, Over, Active
    <3> QED
      BY <1>1, <2>1, <3>1, <3>2, ToldStays
  <2> QED
    BY <2>1, <2>2 DEF RInv
<1>4. CASE RegisterBatch \/ AbandonRest \/ Silence \/ SweepEnd \/ UNCHANGED vars
  <2>1. UNCHANGED <<job, file, backlog, thread, resubmit, heard, owed>>
    BY <1>4 DEF RegisterBatch, AbandonRest, Silence, SweepEnd, vars, jobVars, apiVars
  <2>2. calls'.pauses = calls.pauses
    <3>1. CASE Silence
      BY <1>1, <3>1, SilenceSays DEF Records
    <3>2. CASE RegisterBatch \/ AbandonRest \/ SweepEnd \/ UNCHANGED vars
      BY <3>2 DEF RegisterBatch, AbandonRest, SweepEnd, vars, apiVars
    <3> QED
      BY <1>4, <3>1, <3>2
  <2>3. NobodyPauses'
    BY <1>1, <2>1, <2>2, SameNoPauses
  <2>4. ASSUME NEW k \in Jobs PROVE Told(k)'
    <3>1. /\ \A u \in Threads : Has(u, k)' <=> Has(u, k)
          /\ Queued(k)' <=> Queued(k)
      BY <2>1, SameQueue DEF Has
    <3> QED
      BY <1>1, <2>1, <3>1, ToldStays
  <2> QED
    BY <2>3, <2>4 DEF RInv
<1>5. ASSUME NEW j \in Jobs PROVE ~TellOrphan(j) /\ ~Resubmit(j)
  BY <1>1 DEF TellOrphan, Resubmit, NobodyPauses, NoPause
<1>6. CASE Ongoing
  <2>1. CASE SubmitEpisode
    BY <2>1, SubmissionsBring, SubmissionsReport
  <2>2. CASE CancelBatch(TRUE) \/ SweepCancel \/ SweepRemove
    BY <1>1, <1>3, <2>2, RequestsMark
  <2> QED
    BY <1>4, <1>5, <1>6, <2>1, <2>2 DEF Ongoing
<1>7. CASE Asked
  <2>1. ASSUME NEW j \in Jobs, SubmitSingle(j) PROVE RInv'
    BY <2>1, SubmissionsBring, SubmissionsReport
  <2>2. ASSUME NEW j \in Jobs, NEW new \in Jobs, Retry(j, new) PROVE RInv'
    BY <2>2, SubmissionsBring, SubmissionsReport
  <2>3. CASE PauseBatch \/ ResumeBatch \/ CancelBatch(FALSE)
             \/ \E j \in Jobs : Cancel(j) \/ Dismiss(j)
    BY <1>1, <1>3, <2>3, RequestsMark
  <2> QED
    BY <1>4, <1>7, <2>1, <2>2, <2>3 DEF Asked
<1> QED
  BY <1>2, <1>4, <1>6, <1>7 DEF Next

(* Without pauses nothing is reported twice, nor before it is over (the    *)
(* finally of _run_download() and cancel()): ReportedOnceWhenOver, for any *)
(* batch, any other jobs, threads, slots, retries and requests.            *)
THEOREM ReportsAreSingle ==
  ASSUME MaxPauses = 0
  PROVE  Spec => []ReportedOnceWhenOver
<1>1. Init => IInv /\ SInv /\ RInv
  BY InitInvariant, InitStored, InitReports
<1>2. IInv /\ SInv /\ RInv /\ [Next]_vars => (IInv /\ SInv /\ RInv)'
  BY NextInvariant, NextStored, NextReports
<1>3. IInv /\ SInv /\ RInv => ReportedOnceWhenOver
  <2> SUFFICES ASSUME SInv, RInv, NEW j \in Jobs
               PROVE  Len(heard[j]) <= 1 /\ ToSet(heard[j]) \subseteq Over
    BY DEF ReportedOnceWhenOver
  <2>1. heard[j] \in Seq({"unborn"} \cup Active \cup Over)
    BY DEF SInv, Records
  <2>2. CASE heard[j] = <<>>
    <3>1. Len(heard[j]) = 0 /\ DOMAIN heard[j] = {}
      BY <2>2
    <3> QED
      BY <3>1 DEF ToSet
  <2>3. CASE heard[j] # <<>>
    <3>1. Len(heard[j]) = 1 /\ heard[j][1] \in Over
      BY <2>3 DEF RInv, Told, HeardOnce
    <3>2. DOMAIN heard[j] = {1}
      BY <2>1, <3>1
    <3> QED
      BY <3>1, <3>2 DEF ToSet
  <2> QED
    BY <2>2, <2>3
<1> QED
  BY <1>1, <1>2, <1>3, PTL DEF Spec

-----------------------------------------------------------------------------
(* The count of a batch: what has not been submitted and what has not been *)
(* reported is what is still to come.                                      *)
Owing == {j \in Episodes : job[j].status # "unborn" /\ heard[j] = <<>>}
ToSubmit == Len(BatchJobs) + 1 - batch.next
BatchOK ==
  /\ batch.next \in 1..(Len(BatchJobs) + 1)
  /\ \A i \in 1..Len(BatchJobs) : i >= batch.next => job[BatchJobs[i]].status = "unborn"
  /\ batch.state = "none" => batch.next = 1
  /\ batch.state = "open" =>
       batch.remaining = ToSubmit + Cardinality(Owing) /\ batch.remaining > 0
  /\ batch.state = "closed" => batch.next = Len(BatchJobs) + 1 /\ Owing = {}

LEMMA OwingIsFinite ==
  /\ IsFiniteSet(Owing) /\ Cardinality(Owing) \in Nat
  /\ Cardinality(Owing) = 0 <=> Owing = {}
<1>1. Owing \subseteq Episodes
  BY DEF Owing
<1>2. IsFiniteSet(Owing)
  BY <1>1, EpisodesInOrder, FS_Subset
<1> QED
  BY <1>2, FS_CardinalityType, FS_EmptySet

(* Nothing of the batch exists before it is registered.                    *)
LEMMA NothingBefore ==
  ASSUME BatchOK, batch.next = 1
  PROVE  (\A j \in Episodes : job[j].status = "unborn") /\ Owing = {}
<1>1. \A j \in Episodes : job[j].status = "unborn"
  <2> SUFFICES ASSUME NEW j \in Episodes PROVE job[j].status = "unborn"
    OBVIOUS
  <2>1. PICK i \in 1..Len(BatchJobs) : BatchJobs[i] = j
    BY EpisodesInOrder
  <2>2. i >= batch.next
    BY EpisodesInOrder
  <2> QED
    BY <2>1, <2>2 DEF BatchOK
<1> QED
  BY <1>1 DEF Owing

LEMMA InitBatch == Init => BatchOK
<1> SUFFICES ASSUME Init PROVE BatchOK
  OBVIOUS
<1>1. batch.next = 1 /\ batch.state = "none"
  BY DEF Init, NoBatch
<1>2. \A j \in Jobs : job[j].status = "unborn"
  BY DEF Init, NewJob
<1> QED
  BY <1>1, <1>2, EpisodesInOrder DEF BatchOK

LEMMA BatchStays ==
  ASSUME BatchOK, UNCHANGED <<heard>>,
         batch'.next = batch.next, batch'.state = batch.state,
         batch'.remaining = batch.remaining,
         \A k \in Jobs : job'[k].status = "unborn" <=> job[k].status = "unborn"
  PROVE  BatchOK'
<1>1. Owing' = Owing
  BY EpisodesInOrder DEF Owing
<1>2. \A i \in 1..Len(BatchJobs) :
        job'[BatchJobs[i]].status = "unborn" <=> job[BatchJobs[i]].status = "unborn"
  BY EpisodesInOrder
<1> QED
  BY <1>1, <1>2 DEF BatchOK, ToSubmit

LEMMA FinishCounts ==
  ASSUME IInv, Records, RInv, BatchOK, NEW t \in Threads, Finish(t)
  PROVE  BatchOK'
<1>1. PICK j \in Jobs :
        /\ Notify(j) /\ UNCHANGED job /\ job[j].status \in Over /\ heard[j] = <<>>
        /\ \A k \in Jobs : k # j => heard'[k] = heard[k]
        /\ heard'[j] # <<>>
  BY FirstReport
<1>2. Count(j) /\ batch \in Batches
  BY <1>1 DEF Notify, IInv, Shape
<1>3. CASE j \notin Episodes
  <2>1. batch' = batch
    BY <1>2, <1>3, CountCounts
  <2>2. Owing' = Owing
    BY <1>1, <1>3, EpisodesInOrder DEF Owing
  <2> QED
    BY <1>1, <2>1, <2>2 DEF BatchOK, ToSubmit
<1>4. CASE j \in Episodes
  <2>1. j \in Owing /\ Owing' = Owing \ {j}
    BY <1>1, <1>4, EpisodesInOrder DEF Owing, Over
  <2>2. batch.state = "open"
    <3>1. batch.state # "closed"
      BY <2>1 DEF BatchOK
    <3>2. batch.state # "none"
      BY <2>1, NothingBefore DEF BatchOK
    <3> QED
      BY <1>2, <3>1, <3>2 DEF Batches
  <2>3. /\ batch'.next = batch.next /\ batch'.remaining = batch.remaining - 1
        /\ batch'.state = IF batch.remaining - 1 > 0 THEN "open" ELSE "closed"
    BY <1>2, <1>4, <2>2, CountCounts
  <2>4. IsFiniteSet(Owing) /\ Cardinality(Owing) \in Nat
        /\ Cardinality(Owing') = Cardinality(Owing) - 1
    BY <2>1, OwingIsFinite, FS_RemoveElement
  <2>5. Cardinality(Owing') \in Nat /\ (Cardinality(Owing') = 0 => Owing' = {})
    BY <2>1, <2>4, FS_Subset, FS_CardinalityType, FS_EmptySet
  <2>6. /\ Len(BatchJobs) \in Nat /\ batch.next \in 1..(Len(BatchJobs) + 1)
        /\ batch.remaining = Len(BatchJobs) + 1 - batch.next + Cardinality(Owing)
    BY <2>2, EpisodesInOrder DEF BatchOK, ToSubmit
  <2>7. CASE batch.remaining - 1 > 0
    <3>1. batch'.state = "open"
          /\ batch'.remaining = Len(BatchJobs) + 1 - batch'.next + Cardinality(Owing')
          /\ batch'.remaining > 0
      BY <2>3, <2>4, <2>6, <2>7
    <3> QED
      BY <1>1, <2>3, <3>1 DEF BatchOK, ToSubmit
  <2>8. CASE ~(batch.remaining - 1 > 0)
    <3>1. batch'.state = "closed" /\ batch'.next = Len(BatchJobs) + 1
          /\ Cardinality(Owing') = 0
      BY <2>3, <2>4, <2>5, <2>6, <2>8
    <3> QED
      BY <1>1, <2>3, <2>5, <2>6, <3>1 DEF BatchOK
  <2> QED
    BY <2>7, <2>8
<1> QED
  BY <1>3, <1>4

LEMMA SubmissionCounts ==
  ASSUME IInv, RInv, BatchOK, NEW n \in Jobs, NewCome(n)
  PROVE  BatchOK'
<1>1. /\ job[n].status = "unborn" /\ job'[n].status = "queued" /\ heard' = heard
      /\ \A k \in Jobs : k # n => job'[k].status = job[k].status
      /\ heard[n] = <<>>
  BY SubmissionsReport DEF NewCome
<1>2. CASE n \notin Episodes /\ batch' = batch
  <2>1. Owing' = Owing
    BY <1>1, <1>2, EpisodesInOrder DEF Owing
  <2>2. \A i \in 1..Len(BatchJobs) : job'[BatchJobs[i]].status = job[BatchJobs[i]].status
    BY <1>1, <1>2, EpisodesInOrder
  <2> QED
    BY <1>2, <2>1, <2>2 DEF BatchOK, ToSubmit
<1>3. CASE Submitting /\ n = BatchJobs[batch.next] /\ batch' = [batch EXCEPT !.next = @ + 1]
  <2>1. batch'.next = batch.next + 1 /\ batch'.state = batch.state
        /\ batch'.remaining = batch.remaining
    BY <1>3 DEF IInv, Shape, Batches
  <2>2. batch.next \in 1..Len(BatchJobs) /\ Len(BatchJobs) \in Nat
        /\ batch'.next \in 1..(Len(BatchJobs) + 1)
    BY <1>3, <2>1, EpisodesInOrder DEF BatchOK, Submitting
  <2>3. n \in Episodes /\ n \notin Owing /\ Owing' = Owing \cup {n}
    BY <1>1, <1>3, <2>2, EpisodesInOrder DEF Owing
  <2>4. batch.state = "open"
    BY <1>3, <2>2 DEF IInv, Shape, Batches, BatchOK, Submitting
  <2>5. Cardinality(Owing) \in Nat /\ Cardinality(Owing') = Cardinality(Owing) + 1
    BY <2>3, OwingIsFinite, FS_AddElement
  <2>6. batch'.remaining = Len(BatchJobs) + 1 - batch'.next + Cardinality(Owing')
        /\ batch'.remaining > 0
    <3>1. batch.remaining = Len(BatchJobs) + 1 - batch.next + Cardinality(Owing)
          /\ batch.remaining > 0
      BY <2>4 DEF BatchOK, ToSubmit
    <3>2. \A l, n1, c, r \in Int :
            r = l + 1 - n1 + c => r = l + 1 - (n1 + 1) + (c + 1)
      OBVIOUS
    <3>3. Len(BatchJobs) \in Int /\ batch.next \in Int /\ Cardinality(Owing) \in Int
      BY <2>2, <2>5
    <3>4. batch.remaining \in Int
      BY <3>1, <3>3
    <3>5. batch.remaining = Len(BatchJobs) + 1 - (batch.next + 1) + (Cardinality(Owing) + 1)
      BY <3>1, <3>2, <3>3, <3>4
    <3> QED
      BY <2>1, <2>5, <3>1, <3>5
  <2>7. ASSUME NEW i \in 1..Len(BatchJobs), i >= batch'.next
        PROVE  job'[BatchJobs[i]].status = "unborn"
    <3>1. i >= batch.next /\ i # batch.next
      BY <2>1, <2>2, <2>7
    <3>2. BatchJobs[i] # n /\ BatchJobs[i] \in Jobs
      BY <1>3, <2>2, <3>1, EpisodesInOrder
    <3> QED
      BY <1>1, <3>1, <3>2 DEF BatchOK
  <2> QED
    BY <2>1, <2>2, <2>4, <2>6, <2>7 DEF BatchOK, ToSubmit
<1> QED
  BY <1>2, <1>3 DEF NewCome

LEMMA AbandonCounts ==
  ASSUME batch \in Batches, BatchOK, AbandonRest
  PROVE  BatchOK'
<1>1. /\ job' = job /\ heard' = heard /\ Submitting /\ batch'.next = Len(BatchJobs) + 1
      /\ batch.state = "open" =>
           LET left == batch.remaining - (Len(BatchJobs) - batch.next + 1) IN
           /\ batch'.remaining = left
           /\ batch'.state = IF left > 0 THEN "open" ELSE "closed"
  BY AbandonSays
<1>2. Len(BatchJobs) \in Nat /\ batch.next \in 1..Len(BatchJobs)
  BY <1>1, EpisodesInOrder DEF BatchOK, Submitting
<1>3. batch.state = "open"
  BY <1>1, <1>2 DEF Batches, BatchOK, Submitting
<1>4. Owing' = Owing
  BY <1>1 DEF Owing
<1>5. Cardinality(Owing) \in Nat /\ (Cardinality(Owing) = 0 => Owing = {})
  BY OwingIsFinite
<1>6. batch.remaining = Len(BatchJobs) + 1 - batch.next + Cardinality(Owing)
  BY <1>3 DEF BatchOK, ToSubmit
<1>7. batch.remaining - (Len(BatchJobs) - batch.next + 1) = Cardinality(Owing)
  BY <1>2, <1>5, <1>6
<1>8. /\ batch'.remaining = Cardinality(Owing)
      /\ batch'.state = IF Cardinality(Owing) > 0 THEN "open" ELSE "closed"
  BY <1>1, <1>3, <1>7
<1>9. batch'.next \in 1..(Len(BatchJobs) + 1)
      /\ \A i \in 1..Len(BatchJobs) : ~(i >= batch'.next)
  BY <1>1, <1>2
<1>10. Len(BatchJobs) + 1 - batch'.next = 0
  BY <1>1, <1>2
<1> QED
  BY <1>4, <1>5, <1>8, <1>9, <1>10, <1>1 DEF BatchOK, ToSubmit

LEMMA RegisterCounts ==
  ASSUME batch \in Batches, BatchOK, RegisterBatch, BatchJobs # <<>>
  PROVE  BatchOK'
<1>1. /\ job' = job /\ heard' = heard
      /\ batch.state = "none" /\ batch'.state = "open" /\ batch'.remaining = Len(BatchJobs)
      /\ batch'.next = batch.next
  BY RegisterSays
<1>2. batch.next = 1 /\ Owing = {} /\ Owing' = Owing
  BY <1>1, NothingBefore DEF BatchOK, Owing
<1>3. Len(BatchJobs) \in Nat /\ Len(BatchJobs) > 0 /\ Cardinality(Owing') = 0
  BY <1>2, EpisodesInOrder, FS_EmptySet
<1>4. batch'.remaining = Len(BatchJobs) + 1 - batch'.next + Cardinality(Owing')
      /\ batch'.remaining > 0
  BY <1>1, <1>2, <1>3
<1> QED
  BY <1>1, <1>4 DEF BatchOK, ToSubmit

LEMMA NextCounts ==
  ASSUME IInv, SInv, RInv, BatchOK, [Next]_vars, MaxPauses = 0, BatchJobs # <<>>
  PROVE  BatchOK'
<1>1. Shape /\ batch \in Batches /\ Records /\ NobodyPauses
  BY DEF IInv, Shape, SInv, RInv
<1>2. ASSUME NEW t \in Threads,
             \/ Granted(t) \/ LeaveLine(t) \/ Refused(t) \/ Park(t) \/ Run(t) \/ Land(t)
             \/ Settle(t) \/ Purge(t) \/ Stop(t) \/ FailAndRetry(t) \/ Fail(t) \/ Release(t)
             \/ Backoff(t)
      PROVE BatchOK'
  <2>1. PICK j \in Jobs : j = thread[t].job /\ Carried(t, j)
    BY <1>2, WorkerGoesOn
  <2>2. PICK s \in Steps \ {"idle"}, x \in JobRecords : GoesOn(t, s, x)
    BY <1>2, WorkerGoesOn
  <2>3. job[j].status # "unborn"
    BY <2>1, WhileCarried
  <2>4. /\ job' = [job EXCEPT ![j] = x] /\ x.status # "unborn" /\ UNCHANGED <<batch, heard>>
    BY <2>1, <2>2 DEF GoesOn
  <2>5. \A k \in Jobs : job'[k].status = "unborn" <=> job[k].status = "unborn"
    BY <1>1, <2>3, <2>4 DEF Shape
  <2> QED
    BY <2>4, <2>5, BatchStays
<1>3. ASSUME NEW t \in Threads, Worker(t) PROVE BatchOK'
  <2>1. CASE Start(t)
    BY <2>1, BatchStays, StartTakes
  <2>2. CASE Finish(t)
    BY <1>1, <2>2, FinishCounts
  <2> QED
    BY <1>2, <1>3, <2>1, <2>2 DEF Worker
<1>4. ASSUME Marks PROVE BatchOK'
  <2>1. UNCHANGED <<batch, heard>> /\ \A k \in Jobs : MarkedAs(k)
    BY <1>4 DEF Marks
  <2>2. \A k \in Jobs : job'[k].status = "unborn" <=> job[k].status = "unborn"
    BY <2>1 DEF MarkedAs, Active
  <2> QED
    BY <2>1, <2>2, BatchStays
<1>5. CASE Silence
  <2>1. /\ UNCHANGED <<job, heard>> /\ batch'.state = batch.state
        /\ batch'.remaining = batch.remaining /\ batch'.next = batch.next
    BY <1>1, <1>5, SilenceSays DEF Records
  <2> QED
    BY <2>1, BatchStays
<1>6. CASE SweepEnd \/ UNCHANGED vars
  <2>1. UNCHANGED <<job, heard, batch>>
    BY <1>6 DEF SweepEnd, vars, jobVars
  <2> QED
    BY <2>1, BatchStays
<1>7. ASSUME NEW j \in Jobs PROVE ~TellOrphan(j) /\ ~Resubmit(j)
  BY <1>1 DEF TellOrphan, Resubmit, NobodyPauses, NoPause
<1>8. CASE Ongoing
  <2>1. CASE SubmitEpisode
    BY <2>1, SubmissionsBring, SubmissionCounts
  <2>2. CASE CancelBatch(TRUE) \/ SweepCancel \/ SweepRemove
    BY <1>1, <1>4, <2>2, RequestsMark
  <2>3. CASE AbandonRest
    BY <1>1, <2>3, AbandonCounts
  <2> QED
    BY <1>6, <1>7, <1>8, <2>1, <2>2, <2>3 DEF Ongoing
<1>9. CASE Asked
  <2>1. ASSUME NEW j \in Jobs, SubmitSingle(j) PROVE BatchOK'
    BY <2>1, SubmissionsBring, SubmissionCounts
  <2>2. ASSUME NEW j \in Jobs, NEW new \in Jobs, Retry(j, new) PROVE BatchOK'
    BY <2>2, SubmissionsBring, SubmissionCounts
  <2>3. CASE PauseBatch \/ ResumeBatch \/ CancelBatch(FALSE)
             \/ \E j \in Jobs : Cancel(j) \/ Dismiss(j)
    BY <1>1, <1>4, <2>3, RequestsMark
  <2>4. CASE RegisterBatch
    BY <1>1, <2>4, RegisterCounts
  <2> QED
    BY <1>5, <1>9, <2>1, <2>2, <2>3, <2>4 DEF Asked
<1> QED
  BY <1>3, <1>6, <1>8, <1>9 DEF Next

(* Without pauses a batch of at least one episode closes exactly when the  *)
(* last of its results is counted (register(), on_job_finished() and       *)
(* abandon() of downloads_notify.py): BatchClosesOnTime.                   *)
THEOREM BatchesCloseOnTime ==
  ASSUME MaxPauses = 0, BatchJobs # <<>>
  PROVE  Spec => []BatchClosesOnTime
<1>1. Init => IInv /\ SInv /\ RInv /\ BatchOK
  BY InitInvariant, InitStored, InitReports, InitBatch
<1>2. IInv /\ SInv /\ RInv /\ BatchOK /\ [Next]_vars => (IInv /\ SInv /\ RInv /\ BatchOK)'
  BY NextInvariant, NextStored, NextReports, NextCounts
<1>3. IInv /\ SInv /\ RInv /\ BatchOK => BatchClosesOnTime
  <2> SUFFICES ASSUME IInv, RInv, BatchOK PROVE BatchClosesOnTime
    OBVIOUS
  <2>1. Len(BatchJobs) \in Nat /\ batch.next \in 1..(Len(BatchJobs) + 1)
    BY EpisodesInOrder DEF BatchOK
  <2>2. Owing = {} <=> \A j \in Episodes : job[j].status # "unborn" => Len(heard[j]) = 1
    <3>1. ASSUME NEW j \in Episodes
          PROVE  heard[j] = <<>> <=> Len(heard[j]) # 1
      <4>1. heard[j] # <<>> => Len(heard[j]) = 1
        BY EpisodesInOrder DEF RInv, Told, HeardOnce
      <4>2. heard[j] = <<>> => Len(heard[j]) = 0
        OBVIOUS
      <4> QED
        BY <4>1, <4>2
    <3> QED
      BY <3>1 DEF Owing
  <2>3. batch.state = "closed" => batch.next > Len(BatchJobs) /\ Owing = {}
    BY <2>1 DEF BatchOK
  <2>4. ASSUME batch.next > Len(BatchJobs), Owing = {}, batch.state # "none"
        PROVE  batch.state = "closed"
    <3>1. Cardinality(Owing) = 0 /\ Len(BatchJobs) + 1 - batch.next = 0
      BY <2>1, <2>4, OwingIsFinite
    <3>2. batch.state # "open"
      <4>1. ToSubmit = 0 /\ ToSubmit + Cardinality(Owing) = 0
        BY <3>1 DEF ToSubmit
      <4> QED
        BY <4>1 DEF BatchOK
    <3> QED
      BY <2>4, <3>2 DEF IInv, Shape, Batches
  <2> QED
    BY <2>2, <2>3, <2>4 DEF BatchClosesOnTime
<1> QED
  BY <1>1, <1>2, <1>3, PTL DEF Spec

-----------------------------------------------------------------------------
(* The summary.                                                            *)

LEMMA CountAnnounces ==
  ASSUME batch \in Batches, NEW j, Count(j), batch'.announced, ~batch.announced
  PROVE  batch.state = "open" /\ ~batch.silent
BY CountCounts DEF Batches

LEMMA OnlyTheLastAnnounces ==
  ASSUME IInv, Records, [Next]_vars, batch'.announced, ~batch.announced
  PROVE  /\ ~Silenced /\ file' = file
         /\ heard' = heard \/ \E j \in Jobs : Notify(j)
<1>1. batch \in Batches /\ calls \in [requests : Int, pauses : Int]
  BY DEF IInv, Shape, Records
<1>2. batch' # batch
  OBVIOUS
<1>3. ASSUME NEW t \in Threads,
             \/ Granted(t) \/ LeaveLine(t) \/ Refused(t) \/ Park(t) \/ Run(t) \/ Land(t)
             \/ Settle(t) \/ Purge(t) \/ Stop(t) \/ FailAndRetry(t) \/ Fail(t) \/ Release(t)
             \/ Backoff(t)
      PROVE  FALSE
  <2>1. \E s \in Steps \ {"idle"}, x \in JobRecords : GoesOn(t, s, x)
    BY <1>3, WorkerGoesOn
  <2> QED
    BY <1>2, <2>1 DEF GoesOn
<1>4. ASSUME NEW t \in Threads, Start(t) PROVE FALSE
  BY <1>2, <1>4, StartTakes
<1>5. ASSUME NEW j \in Jobs, Notify(j), file' = file
      PROVE  /\ ~Silenced /\ file' = file
             /\ heard' = heard \/ \E k \in Jobs : Notify(k)
  BY <1>1, <1>5, CountAnnounces DEF Notify, Silenced
<1>6. CASE \E t \in Threads : Worker(t)
  <2>1. PICK t \in Threads : Finish(t)
    BY <1>3, <1>4, <1>6 DEF Worker
  <2>2. PICK j \in Jobs : /\ file' = file
                          /\ Notify(j) \/ UNCHANGED <<batch, heard>>
    BY <2>1, FinishTells
  <2> QED
    BY <1>2, <1>5, <2>2
<1>7. ~Marks
  BY <1>2 DEF Marks
<1>8. ASSUME NEW n \in Jobs PROVE ~NewCome(n)
  BY <1>1 DEF NewCome, Batches
<1>9. ~SubmitEpisode /\ (\A j \in Jobs : ~SubmitSingle(j))
      /\ \A j, new \in Jobs : ~Retry(j, new)
  BY <1>8, SubmissionsBring
<1>10. /\ ~PauseBatch /\ ~ResumeBatch /\ ~SweepCancel /\ ~SweepRemove
       /\ \A delete \in BOOLEAN : ~CancelBatch(delete)
       /\ \A j \in Jobs : ~Cancel(j) /\ ~Dismiss(j)
  BY <1>7, RequestsMark
<1>11. ~RegisterBatch /\ ~Silence /\ ~SweepEnd /\ ~UNCHANGED vars
  BY <1>1, <1>2, RegisterSays, SilenceSays DEF SweepEnd, vars
<1>12. CASE AbandonRest
  BY <1>1, <1>12, AbandonSays DEF Silenced, Submitting, Batches
<1>13. ASSUME NEW j \in Jobs, TellOrphan(j) PROVE Notify(j) /\ file' = file
  BY <1>13 DEF TellOrphan, jobVars
<1>14. ASSUME NEW j \in Jobs PROVE ~Resubmit(j)
  BY <1>2 DEF Resubmit
<1>15. CASE Ongoing
  BY <1>5, <1>9, <1>10, <1>11, <1>12, <1>13, <1>14, <1>15 DEF Ongoing
<1>16. ~Asked
  BY <1>9, <1>10, <1>11 DEF Asked
<1> QED
  BY <1>6, <1>11, <1>15, <1>16 DEF Next

(* A summary that is sent counts as done only what is in the library, with *)
(* or without pauses (silence() of downloads_notify.py, and cancel_batch() *)
(* which removes finished episodes only after it): SummaryIsTrue.          *)
THEOREM SummariesAreTrue == Spec => SummaryIsTrue
<1>1. Init => IInv /\ SInv
  BY InitInvariant, InitStored
<1>2. IInv /\ SInv /\ [Next]_vars => (IInv /\ SInv)'
  BY NextInvariant, NextStored
<1> DEFINE Good == batch'.announced /\ ~batch.announced
                     => \A j \in Episodes : "done" \in ToSet(heard'[j]) => j \in file'
<1>3. IInv /\ SInv /\ [Next]_vars => [Good]_vars
  <2> SUFFICES ASSUME IInv, SInv, [Next]_vars, batch'.announced, ~batch.announced,
                      NEW j \in Episodes, "done" \in ToSet(heard'[j])
               PROVE  j \in file'
    OBVIOUS
  <2>1. /\ ~Silenced /\ file' = file /\ Records /\ Shape
        /\ heard' = heard \/ \E k \in Jobs : Notify(k)
    BY OnlyTheLastAnnounces DEF SInv, IInv
  <2>2. j \in Jobs /\ Stored(j)
    BY EpisodesInOrder DEF SInv
  <2>3. "done" \in ToSet(heard[j]) \/ job[j].status = "done"
    <3>1. ASSUME NEW k \in Jobs, Notify(k)
          PROVE  "done" \in ToSet(heard[j]) \/ job[j].status = "done"
      <4>1. heard'[j] = heard[j] \/ ToSet(heard'[j]) = ToSet(heard[j]) \cup {job[j].status}
        BY <2>1, <2>2, <3>1, NotifyReports
      <4> QED
        BY <4>1
    <3> QED
      BY <2>1, <3>1
  <2> QED
    BY <2>1, <2>2, <2>3 DEF Stored
<1>4. IInv /\ SInv /\ Spec => [][Good]_vars
  BY <1>2, <1>3, PTL DEF Spec
<1> QED
  BY <1>1, <1>4, PTL DEF Spec, SummaryIsTrue
=============================================================================
