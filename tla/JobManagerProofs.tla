--------------------------- MODULE JobManagerProofs ---------------------------
(***************************************************************************)
(* Proofs about JobManager, for any batch, any other jobs, any number of   *)
(* threads, retries, requests and pauses, and any limit of slots.          *)
(*                                                                         *)
(* A job may wait in four places: a call in the executor's queue, a        *)
(* thread, a resume that has not submitted it yet, or parked.  Safe(j)     *)
(* says that it is in one of them at most, in one as long as it is not     *)
(* over, and in none before it is submitted; and that a thread which is    *)
(* about to give its slot back has settled the job, so that its file is    *)
(* there only if it is to stay.                                            *)
(*                                                                         *)
(* That no job has two threads is also what makes the slots right: the     *)
(* line holds the jobs of the threads that stand in it and busy counts     *)
(* those of the threads that hold a slot (LineOK), so that every step is a *)
(* step of FifoSlots or none.                                              *)
(***************************************************************************)
EXTENDS JobManager, FiniteSetTheorems, SequenceTheorems, TLAPS

Active == {"queued", "paused", "running"}
JobRecords ==
  [status : {"unborn"} \cup Active \cup Over, listed : BOOLEAN, paused : BOOLEAN,
   cancelled : BOOLEAN, parked : BOOLEAN, purge : BOOLEAN, retries : Nat]
ThreadRecords == {Idle} \cup [step : Steps \ {"idle"}, job : Jobs]
Batches ==
  [state : {"none", "open", "closed"}, next : Nat \ {0}, remaining : Int,
   silent : BOOLEAN, announced : BOOLEAN, counted : Seq(Jobs)]

Shape ==
  /\ job \in [Jobs -> JobRecords]
  /\ thread \in [Threads -> ThreadRecords]
  /\ backlog \in Seq(Jobs)
  /\ batch \in Batches

Carried(t, j) == thread[t].step \notin {"idle", "finish"} /\ thread[t].job = j
Queued(j) == \E i \in 1..Len(backlog) : backlog[i] = j
Held(j) ==
  Queued(j) \/ j \in resubmit \/ job[j].parked \/ \E t \in Threads : Carried(t, j)

OneCall(j) ==
  \A i, k \in 1..Len(backlog) : backlog[i] = j /\ backlog[k] = j => i = k
OneThread(j) == \A t, u \in Threads : Carried(t, j) /\ Carried(u, j) => t = u
OnePlace(j) ==
  /\ Queued(j) => j \notin resubmit /\ ~job[j].parked /\ \A t \in Threads : ~Carried(t, j)
  /\ j \in resubmit => ~job[j].parked /\ \A t \in Threads : ~Carried(t, j)
  /\ job[j].parked => \A t \in Threads : ~Carried(t, j)

HeldWhileActive(j) ==
  /\ job[j].status \in Active => Held(j)
  /\ job[j].status = "unborn" => ~Held(j)

SettledAtRelease(j) ==
  \A t \in Threads : Carried(t, j) /\ thread[t].step = "release" => job[j].status \in Over

(* A file is about to be looked at by the thread that wrote it, or stays.  *)
FileSettled(j) ==
  j \in file =>
    \/ \E t \in Threads : Carried(t, j) /\ thread[t].step \in {"landed", "purging"}
    \/ /\ ~job[j].purge /\ job[j].status \in Over
       /\ ~Queued(j) /\ j \notin resubmit /\ ~job[j].parked
       /\ \A t \in Threads : Carried(t, j) => thread[t].step = "release"

Safe(j) ==
  /\ OneCall(j) /\ OneThread(j) /\ OnePlace(j)
  /\ HeldWhileActive(j) /\ SettledAtRelease(j) /\ FileSettled(j)

IInv == Shape /\ \A j \in Jobs : Safe(j)

-----------------------------------------------------------------------------

LEMMA InitInvariant == Init => IInv
<1> SUFFICES ASSUME Init PROVE IInv
  OBVIOUS
<1>1. NewJob \in JobRecords /\ NoBatch \in Batches
  BY DEF NewJob, JobRecords, NoBatch, Batches
<1>2. Shape
  BY <1>1 DEF Init, Shape, ThreadRecords
<1>3. ASSUME NEW j \in Jobs PROVE Safe(j)
  <2>1. ~Queued(j) /\ j \notin resubmit /\ ~job[j].parked /\ job[j].status = "unborn"
        /\ j \notin file /\ \A t \in Threads : ~Carried(t, j)
    BY DEF Init, Queued, Carried, NewJob, Idle
  <2>2. OneCall(j)
    BY DEF Init, OneCall
  <2> QED
    BY <2>1, <2>2 DEF Safe, OneThread, OnePlace, HeldWhileActive, Held, SettledAtRelease,
                      FileSettled, Active
<1> QED
  BY <1>2, <1>3 DEF IInv

(* A job none of whose places, flags or files changes stays safe.          *)
LEMMA Untouched ==
  ASSUME NEW k \in Jobs, Safe(k), job'[k].status = job[k].status,
         job'[k].parked = job[k].parked, job'[k].purge = job[k].purge,
         k \in file' => k \in file, k \in resubmit' <=> k \in resubmit,
         Queued(k)' <=> Queued(k), OneCall(k)',
         \A t \in Threads : /\ Carried(t, k)' <=> Carried(t, k)
                            /\ Carried(t, k) => thread'[t].step = thread[t].step
  PROVE  Safe(k)'
BY DEF Safe, OneThread, OnePlace, HeldWhileActive, Held, SettledAtRelease, FileSettled

(* The queue of the executor.                                              *)
LEMMA SameQueue ==
  ASSUME UNCHANGED backlog, NEW k
  PROVE  (Queued(k)' <=> Queued(k)) /\ (OneCall(k) => OneCall(k)')
BY DEF Queued, OneCall

LEMMA Appended ==
  ASSUME backlog \in Seq(Jobs), NEW j \in Jobs, backlog' = Append(backlog, j), NEW k
  PROVE  /\ backlog' \in Seq(Jobs)
         /\ Queued(k)' <=> Queued(k) \/ k = j
         /\ OneCall(k) /\ (k = j => ~Queued(k)) => OneCall(k)'
<1>1. /\ Len(backlog') = Len(backlog) + 1 /\ Len(backlog) \in Nat
      /\ \A i \in 1..Len(backlog) : backlog'[i] = backlog[i]
      /\ backlog'[Len(backlog) + 1] = j
  OBVIOUS
<1> QED
  BY <1>1 DEF Queued, OneCall

LEMMA Popped ==
  ASSUME backlog \in Seq(Jobs), backlog # <<>>, backlog' = Tail(backlog), NEW k, OneCall(k)
  PROVE  /\ backlog' \in Seq(Jobs) /\ Head(backlog) \in Jobs
         /\ Queued(Head(backlog))
         /\ Queued(k)' <=> Queued(k) /\ k # Head(backlog)
         /\ OneCall(k)'
<1>1. /\ Len(backlog') = Len(backlog) - 1 /\ Len(backlog) \in Nat \ {0}
      /\ \A i \in 1..Len(backlog') : backlog'[i] = backlog[i + 1]
      /\ backlog[1] = Head(backlog) /\ Head(backlog) \in Jobs /\ backlog' \in Seq(Jobs)
  OBVIOUS
<1>2. Queued(k)' => Queued(k) /\ k # Head(backlog)
  BY <1>1 DEF Queued, OneCall
<1>3. Queued(k) /\ k # Head(backlog) => Queued(k)'
  <2> SUFFICES ASSUME NEW i \in 1..Len(backlog), backlog[i] = k, k # Head(backlog)
               PROVE  Queued(k)'
    BY DEF Queued
  <2>1. i # 1 /\ i - 1 \in 1..Len(backlog') /\ backlog'[i - 1] = backlog[(i - 1) + 1]
        /\ (i - 1) + 1 = i
    BY <1>1
  <2> QED
    BY <2>1 DEF Queued
<1>4. OneCall(k)'
  <2> SUFFICES ASSUME NEW i \in (1..Len(backlog))', NEW m \in (1..Len(backlog))',
                      backlog'[i] = k, backlog'[m] = k
               PROVE  i = m
    BY DEF OneCall
  <2>1. backlog[i + 1] = k /\ backlog[m + 1] = k
        /\ i + 1 \in 1..Len(backlog) /\ m + 1 \in 1..Len(backlog)
    BY <1>1
  <2>2. i + 1 = m + 1
    BY <2>1 DEF OneCall
  <2> QED
    BY <1>1, <2>2
<1> QED
  BY <1>1, <1>2, <1>3, <1>4 DEF Queued

-----------------------------------------------------------------------------
(* The executor's threads.                                                 *)

(* A thread goes on with its job.                                          *)
LEMMA ThreadMoves ==
  ASSUME Shape, NEW t \in Threads, thread[t].step # "idle",
         NEW s \in Steps \ {"idle"}, Goto(t, s)
  PROVE  /\ thread[t].job \in Jobs
         /\ thread' = [thread EXCEPT ![t] = [step |-> s, job |-> thread[t].job]]
<1>1. thread[t] \in [step : Steps \ {"idle"}, job : Jobs]
  BY DEF Shape, ThreadRecords, Idle
<1>2. [thread[t] EXCEPT !.step = s] = [step |-> s, job |-> thread[t].job]
  BY <1>1
<1> QED
  BY <1>1, <1>2 DEF Goto

(* Whatever it goes on to, the other jobs do not notice.                   *)
LEMMA OthersUnmoved ==
  ASSUME NEW t \in Threads, NEW j \in Jobs, NEW r \in ThreadRecords,
         thread[t].step \in {"idle", "finish"} \/ thread[t].job = j,
         r = Idle \/ r.job = j,
         \A u \in Threads : thread'[u] = IF u = t THEN r ELSE thread[u]
  PROVE  \A k \in Jobs, u \in Threads : k # j =>
           /\ Carried(u, k)' <=> Carried(u, k)
           /\ Carried(u, k) => thread'[u].step = thread[u].step
BY DEF Carried, Idle

(* What a thread may do with the job it carries.                           *)
LEMMA CarriedStep ==
  ASSUME IInv, NEW t \in Threads, NEW j \in Jobs, Carried(t, j),
         NEW s \in Steps \ {"idle"}, NEW x \in JobRecords,
         thread' = [thread EXCEPT ![t] = [step |-> s, job |-> j]],
         job' = [job EXCEPT ![j] = x],
         UNCHANGED <<backlog, resubmit, batch>>,
         \A k \in Jobs : k # j => (k \in file' => k \in file),
         x.status # "unborn",
         s # "finish" => /\ ~x.parked /\ (s = "release" => x.status \in Over)
                         /\ j \in file' => \/ s \in {"landed", "purging"}
                                           \/ s = "release" /\ ~x.purge,
         s = "finish" => \/ x.status \in Over /\ ~x.parked /\ (j \in file' => ~x.purge)
                         \/ x.status = "paused" /\ x.parked /\ j \notin file'
  PROVE  IInv'
<1>1. Shape /\ \A k \in Jobs : Safe(k)
  BY DEF IInv
<1>2. PICK r \in ThreadRecords :
        r = [step |-> s, job |-> j] /\ r.job = j /\ thread' = [thread EXCEPT ![t] = r]
  BY DEF ThreadRecords
<1>3. /\ thread' \in [Threads -> ThreadRecords]
      /\ \A u \in Threads : thread'[u] = IF u = t THEN r ELSE thread[u]
      /\ \A k \in Jobs, u \in Threads : k # j =>
           /\ Carried(u, k)' <=> Carried(u, k)
           /\ Carried(u, k) => thread'[u].step = thread[u].step
  <2>1. thread[t].step \in {"idle", "finish"} \/ thread[t].job = j
    BY DEF Carried
  <2>2. r = Idle \/ r.job = j
    BY <1>2
  <2>3. /\ thread' \in [Threads -> ThreadRecords]
        /\ \A u \in Threads : thread'[u] = IF u = t THEN r ELSE thread[u]
    BY <1>1, <1>2 DEF Shape
  <2> QED
    BY <2>1, <2>2, <2>3, OthersUnmoved
<1>4. Shape' /\ job'[j] = x /\ \A k \in Jobs : k # j => job'[k] = job[k]
  BY <1>1, <1>3 DEF Shape
<1>5. ASSUME NEW k \in Jobs, k # j PROVE Safe(k)'
  <2>1. Safe(k) /\ (Queued(k)' <=> Queued(k)) /\ OneCall(k)'
    BY <1>1, SameQueue DEF Safe
  <2> QED
    BY <1>3, <1>4, <1>5, <2>1, Untouched
<1>6. Safe(j)'
  <2>1. Safe(j) /\ (Queued(j)' <=> Queued(j)) /\ OneCall(j)'
    BY <1>1, SameQueue DEF Safe
  <2>2. ~Queued(j)' /\ j \notin resubmit' /\ \A u \in Threads : u # t => ~Carried(u, j)'
    BY <1>2, <1>3, <2>1 DEF Safe, OnePlace, OneThread, Carried
  <2>3. Carried(t, j)' <=> s # "finish"
    BY <1>2, <1>3 DEF Carried
  <2>4. thread'[t].step = s
    BY <1>2, <1>3
  <2>5. CASE s = "finish"
    BY <1>4, <2>1, <2>2, <2>3, <2>5
    DEF Safe, OneThread, OnePlace, HeldWhileActive, Held, SettledAtRelease, FileSettled,
        Active, Over
  <2>6. CASE s # "finish"
    BY <1>4, <2>1, <2>2, <2>3, <2>4, <2>6
    DEF Safe, OneThread, OnePlace, HeldWhileActive, Held, SettledAtRelease, FileSettled,
        Active, Over
  <2> QED
    BY <2>5, <2>6
<1> QED
  BY <1>4, <1>5, <1>6 DEF IInv

(* What its job is like while a thread carries it.                         *)
LEMMA WhileCarried ==
  ASSUME IInv, NEW t \in Threads, NEW j \in Jobs, Carried(t, j)
  PROVE  /\ job[j] \in JobRecords /\ job = [job EXCEPT ![j] = job[j]]
         /\ ~job[j].parked /\ job[j].status # "unborn"
         /\ thread[t].step \notin {"landed", "purging", "release"} => j \notin file
         /\ thread[t].step = "release" => job[j].status \in Over /\ (j \in file => ~job[j].purge)
<1>1. Shape /\ Safe(j)
  BY DEF IInv
<1>2. \A u \in Threads : Carried(u, j) => u = t
  BY <1>1 DEF Safe, OneThread
<1> QED
  BY <1>1, <1>2
  DEF Shape, Safe, OnePlace, HeldWhileActive, Held, SettledAtRelease, FileSettled

(* The threads' steps, except the first and the last.                      *)
LEMMA WorkerKeeps ==
  ASSUME IInv, NEW t \in Threads,
         \/ Granted(t) \/ LeaveLine(t) \/ Refused(t) \/ Park(t) \/ Run(t) \/ Land(t)
         \/ Settle(t) \/ Purge(t) \/ Stop(t) \/ FailAndRetry(t) \/ Fail(t) \/ Release(t)
         \/ Backoff(t)
  PROVE  IInv'
<1>0. PICK j : j = thread[t].job
  OBVIOUS
<1>1. /\ UNCHANGED <<backlog, resubmit, batch>>
      /\ thread[t].step \notin {"idle", "finish"}
  BY DEF Granted, LeaveLine, Refused, Park, Run, Land, Settle, Purge, Stop, FailAndRetry,
         Fail, Release, Backoff, At, apiVars
<1>2. Shape /\ j \in Jobs /\ Carried(t, j)
  BY <1>0, <1>1 DEF IInv, Shape, ThreadRecords, Carried, Idle
<1>3. /\ job[j] \in JobRecords /\ job = [job EXCEPT ![j] = job[j]]
      /\ ~job[j].parked /\ job[j].status # "unborn"
      /\ thread[t].step \notin {"landed", "purging", "release"} => j \notin file
      /\ thread[t].step = "release" => job[j].status \in Over /\ (j \in file => ~job[j].purge)
  BY <1>2, WhileCarried
(* It goes on to step s and leaves the job as x.                           *)
<1> DEFINE On(s, x) ==
      /\ thread' = [thread EXCEPT ![t] = [step |-> s, job |-> j]]
      /\ job' = [job EXCEPT ![j] = x]
<1>4. ASSUME NEW s \in Steps \ {"idle"}, Goto(t, s)
      PROVE  thread' = [thread EXCEPT ![t] = [step |-> s, job |-> j]]
  BY <1>0, <1>1, <1>2, <1>4, ThreadMoves
<1>5. ASSUME NEW s \in Steps \ {"idle", "landed", "purging", "release", "finish"},
             NEW x \in JobRecords, On(s, x), ~x.parked, x.status # "unborn",
             j \notin file, file' = file
      PROVE  IInv'
  BY <1>1, <1>2, <1>5, CarriedStep
<1>6. CASE Granted(t) \/ LeaveLine(t)
  <2>1. PICK s \in {"won", "refused"} : Goto(t, s)
    BY <1>6 DEF Granted, LeaveLine
  <2>2. job' = [job EXCEPT ![j] = job[j]] /\ file' = file /\ j \notin file
    BY <1>3, <1>6 DEF Granted, LeaveLine, jobVars, At
  <2> QED
    BY <1>3, <1>4, <1>5, <2>1, <2>2 DEF Steps
<1>7. CASE Refused(t)
  <2>1. file' = file /\ j \notin file
    BY <1>3, <1>7 DEF Refused, At
  <2>2. CASE job[j].cancelled
    <3> DEFINE x == [job[j] EXCEPT !.status = "cancelled"]
    <3>1. job' = [job EXCEPT ![j] = x] /\ Goto(t, "finish")
      BY <1>0, <1>7, <2>2 DEF Refused
    <3>2. x \in JobRecords /\ x.status = "cancelled" /\ ~x.parked
      BY <1>3 DEF JobRecords, Over
    <3>3. thread' = [thread EXCEPT ![t] = [step |-> "finish", job |-> j]]
      BY <1>4, <3>1 DEF Steps
    <3> HIDE DEF x
    <3> QED
      BY <1>1, <1>2, <2>1, <3>1, <3>2, <3>3, CarriedStep DEF Steps, Over
  <2>3. CASE ~job[j].cancelled
    <3>1. job' = [job EXCEPT ![j] = job[j]] /\ Goto(t, "park")
      BY <1>0, <1>3, <1>7, <2>3 DEF Refused
    <3> QED
      BY <1>3, <1>4, <1>5, <2>1, <3>1 DEF Steps
  <2> QED
    BY <2>2, <2>3
<1>8. ASSUME Enter(t, j), job' = job, file' = file, j \notin file PROVE IInv'
  <2>1. PICK s \in {"refused", "lined"} : thread' = [thread EXCEPT ![t] = [step |-> s, job |-> j]]
    BY <1>8 DEF Enter
  <2> QED
    BY <1>3, <1>5, <1>8, <2>1 DEF Steps
<1>9. CASE Park(t)
  <2>1. file' = file /\ j \notin file
    BY <1>3, <1>9 DEF Park, At
  <2>2. CASE job[j].paused /\ ~job[j].cancelled
    <3> DEFINE x == [job[j] EXCEPT !.parked = TRUE, !.status = "paused"]
    <3>1. job' = [job EXCEPT ![j] = x] /\ Goto(t, "finish")
      BY <1>0, <1>2, <1>9, <2>2 DEF Park, Shape
    <3>2. x \in JobRecords /\ x.status = "paused" /\ x.parked
      BY <1>3 DEF JobRecords, Active
    <3>3. thread' = [thread EXCEPT ![t] = [step |-> "finish", job |-> j]]
      BY <1>4, <3>1 DEF Steps
    <3> HIDE DEF x
    <3> QED
      BY <1>1, <1>2, <2>1, <3>1, <3>2, <3>3, CarriedStep DEF Steps, Over
  <2>3. CASE ~(job[j].paused /\ ~job[j].cancelled)
    BY <1>0, <1>8, <1>9, <2>1, <2>3 DEF Park
  <2> QED
    BY <2>2, <2>3
<1>10. CASE Run(t)
  <2> DEFINE x == [job[j] EXCEPT !.paused = FALSE, !.status = "running"]
  <2>1. /\ job' = [job EXCEPT ![j] = x] /\ Goto(t, "running") /\ file' = file
        /\ j \notin file
    BY <1>0, <1>2, <1>3, <1>10 DEF Run, Shape, At
  <2>2. x \in JobRecords /\ x.status = "running" /\ ~x.parked
    BY <1>3 DEF JobRecords, Active
  <2> HIDE DEF x
  <2> QED
    BY <1>4, <1>5, <2>1, <2>2 DEF Steps
<1>11. CASE Land(t)
  <2>1. job' = [job EXCEPT ![j] = job[j]] /\ Goto(t, "landed") /\ file' = file \cup {j}
    BY <1>0, <1>3, <1>11 DEF Land
  <2>2. thread' = [thread EXCEPT ![t] = [step |-> "landed", job |-> j]]
    BY <1>4, <2>1 DEF Steps
  <2> QED
    BY <1>1, <1>2, <1>3, <2>1, <2>2, CarriedStep DEF Steps
<1>12. CASE Settle(t)
  <2>1. file' = file
    BY <1>12 DEF Settle
  <2>2. CASE job[j].purge
    <3>1. job' = [job EXCEPT ![j] = job[j]] /\ Goto(t, "purging")
      BY <1>0, <1>3, <1>12, <2>2 DEF Settle
    <3>2. thread' = [thread EXCEPT ![t] = [step |-> "purging", job |-> j]]
      BY <1>4, <3>1 DEF Steps
    <3> QED
      BY <1>1, <1>2, <1>3, <2>1, <3>1, <3>2, CarriedStep DEF Steps
  <2>3. CASE ~job[j].purge
    <3> DEFINE x == [job[j] EXCEPT !.status = "done"]
    <3>1. job' = [job EXCEPT ![j] = x] /\ Goto(t, "release")
      BY <1>0, <1>12, <2>3 DEF Settle
    <3>2. x \in JobRecords /\ x.status = "done" /\ ~x.parked /\ ~x.purge
      BY <1>3, <2>3 DEF JobRecords, Over
    <3>3. thread' = [thread EXCEPT ![t] = [step |-> "release", job |-> j]]
      BY <1>4, <3>1 DEF Steps
    <3> HIDE DEF x
    <3> QED
      BY <1>1, <1>2, <2>1, <3>1, <3>2, <3>3, CarriedStep DEF Steps, Over
  <2> QED
    BY <2>2, <2>3
(* It has settled the job, as x, and there is no file.                     *)
<1>13. ASSUME NEW o \in Over, job' = [job EXCEPT ![j].status = o], Goto(t, "release"),
              j \notin file', \A k \in Jobs : k # j => (k \in file' => k \in file)
       PROVE  IInv'
  <2> DEFINE x == [job[j] EXCEPT !.status = o]
  <2>1. job' = [job EXCEPT ![j] = x]
    BY <1>13
  <2>2. x \in JobRecords /\ x.status = o /\ ~x.parked /\ o # "unborn"
    BY <1>3 DEF JobRecords, Over
  <2>3. thread' = [thread EXCEPT ![t] = [step |-> "release", job |-> j]]
    BY <1>4, <1>13 DEF Steps
  <2> HIDE DEF x
  <2> QED
    BY <1>1, <1>2, <1>13, <2>1, <2>2, <2>3, CarriedStep DEF Steps
<1>14. CASE Purge(t) \/ Stop(t) \/ Fail(t)
  <2>1. /\ Goto(t, "release") /\ j \notin file'
        /\ \A k \in Jobs : k # j => (k \in file' => k \in file)
    BY <1>0, <1>3, <1>14 DEF Purge, Stop, Fail, At
  <2>2. PICK o \in Over : job' = [job EXCEPT ![j].status = o]
    BY <1>0, <1>14 DEF Purge, Stop, Fail, Over
  <2> QED
    BY <1>13, <2>1, <2>2
<1>15. CASE FailAndRetry(t)
  <2>0. PICK n \in Nat : n = job[j].retries + 1
    BY <1>3 DEF JobRecords
  <2> DEFINE x == [job[j] EXCEPT !.retries = n, !.status = "queued"]
  <2>1. job' = [job EXCEPT ![j] = x]
    <3>1. job' = [job EXCEPT ![j].retries = n, ![j].status = "queued"]
      BY <1>0, <1>15, <2>0 DEF FailAndRetry
    <3> QED
      BY <1>2, <3>1 DEF Shape
  <2>2. x \in JobRecords /\ x.status = "queued" /\ ~x.parked
    BY <1>3 DEF JobRecords, Active
  <2>3. Goto(t, "releaseRetry") /\ file' = file /\ j \notin file
    BY <1>3, <1>15 DEF FailAndRetry, At
  <2> HIDE DEF x
  <2> QED
    BY <1>4, <1>5, <2>1, <2>2, <2>3 DEF Steps
<1>16. CASE Release(t)
  <2>1. job' = [job EXCEPT ![j] = job[j]] /\ file' = file
    BY <1>3, <1>16 DEF Release, jobVars
  <2>2. CASE At(t, "release")
    <3>1. thread' = [thread EXCEPT ![t] = [step |-> "finish", job |-> j]]
      BY <1>4, <1>16, <2>2 DEF Release, Steps
    <3> QED
      BY <1>1, <1>2, <1>3, <2>1, <2>2, <3>1, CarriedStep DEF Steps, At
  <2>3. CASE At(t, "releaseRetry")
    <3>1. thread' = [thread EXCEPT ![t] = [step |-> "backoff", job |-> j]] /\ j \notin file
      BY <1>3, <1>4, <1>16, <2>3 DEF Release, Steps, At
    <3> QED
      BY <1>3, <1>5, <2>1, <3>1 DEF Steps
  <2> QED
    BY <1>16, <2>2, <2>3 DEF Release
<1>17. CASE Backoff(t)
  <2>1. file' = file /\ j \notin file
    BY <1>3, <1>17 DEF Backoff, At
  <2>2. CASE job[j].cancelled
    <3> DEFINE x == [job[j] EXCEPT !.status = "cancelled"]
    <3>1. job' = [job EXCEPT ![j] = x] /\ Goto(t, "finish")
      BY <1>0, <1>17, <2>2 DEF Backoff
    <3>2. x \in JobRecords /\ x.status = "cancelled" /\ ~x.parked
      BY <1>3 DEF JobRecords, Over
    <3>3. thread' = [thread EXCEPT ![t] = [step |-> "finish", job |-> j]]
      BY <1>4, <3>1 DEF Steps
    <3> HIDE DEF x
    <3> QED
      BY <1>1, <1>2, <2>1, <3>1, <3>2, <3>3, CarriedStep DEF Steps, Over
  <2>3. CASE ~job[j].cancelled
    BY <1>0, <1>8, <1>17, <2>1, <2>3 DEF Backoff
  <2> QED
    BY <2>2, <2>3
<1> QED
  BY <1>6, <1>7, <1>9, <1>10, <1>11, <1>12, <1>14, <1>15, <1>16, <1>17

(* A thread takes the oldest call.                                         *)
LEMMA StartKeeps ==
  ASSUME IInv, NEW t \in Threads, Start(t)
  PROVE  IInv'
<1>1. Shape /\ \A k \in Jobs : Safe(k)
  BY DEF IInv
<1>2. /\ UNCHANGED <<job, file, batch, resubmit>>
      /\ backlog # <<>> /\ backlog' = Tail(backlog) /\ thread[t].step = "idle"
  BY DEF Start, jobVars, apiVars, At
<1>3. backlog \in Seq(Jobs)
  BY <1>1 DEF Shape
<1>4. PICK j \in Jobs : j = Head(backlog)
  BY <1>2, <1>3
<1>5. backlog' \in Seq(Jobs) /\ Queued(j)
  BY <1>1, <1>2, <1>3, <1>4, Popped DEF Safe
<1>6. \A k \in Jobs : (Queued(k)' <=> Queued(k) /\ k # j) /\ OneCall(k)'
  BY <1>1, <1>2, <1>3, <1>4, Popped DEF Safe
<1>7. PICK r \in ThreadRecords :
        /\ r.step \in {"refused", "lined"} /\ r.job = j
        /\ thread' = [thread EXCEPT ![t] = r]
  <2>1. PICK s \in {"refused", "lined"} : thread' = [thread EXCEPT ![t] = [step |-> s, job |-> j]]
    BY <1>4 DEF Start, Enter
  <2> QED
    BY <2>1 DEF ThreadRecords, Steps
<1>8. /\ thread' \in [Threads -> ThreadRecords]
      /\ \A u \in Threads : thread'[u] = IF u = t THEN r ELSE thread[u]
  BY <1>1, <1>7 DEF Shape
<1>9. \A k \in Jobs, u \in Threads : k # j =>
        /\ Carried(u, k)' <=> Carried(u, k)
        /\ Carried(u, k) => thread'[u].step = thread[u].step
  BY <1>2, <1>7, <1>8, OthersUnmoved
<1>10. Shape'
  BY <1>1, <1>2, <1>5, <1>8 DEF Shape
<1>11. ASSUME NEW k \in Jobs, k # j PROVE Safe(k)'
  BY <1>1, <1>2, <1>6, <1>9, <1>11, Untouched
<1>12. Safe(j)'
  <2>1. /\ Safe(j) /\ Queued(j) /\ ~Queued(j)' /\ OneCall(j)'
    BY <1>1, <1>5, <1>6
  <2>2. Carried(t, j)' /\ \A u \in Threads : Carried(u, j)' => u = t
    BY <1>7, <1>8, <2>1 DEF Safe, OnePlace, Carried
  <2>3. thread'[t].step # "release" /\ j \notin file' /\ job[j].status # "unborn"
    BY <1>2, <1>7, <1>8, <2>1 DEF Safe, OnePlace, FileSettled, HeldWhileActive, Held
  <2> QED
    BY <1>2, <2>1, <2>2, <2>3
    DEF Safe, OneThread, OnePlace, HeldWhileActive, Held, SettledAtRelease, FileSettled
<1> QED
  BY <1>10, <1>11, <1>12 DEF IInv

-----------------------------------------------------------------------------
(* Counting.                                                               *)

LEMMA LessToComeIsTyped ==
  ASSUME batch \in Batches, NEW n \in Int
  PROVE  LessToCome(n) \in Batches /\ LessToCome(n).next = batch.next
<1>1. PICK m \in Int : m = batch.remaining - n
  BY DEF Batches
<1>2. PICK b \in BOOLEAN : b = ~batch.silent
  OBVIOUS
<1>3. /\ [batch EXCEPT !.remaining = m] \in Batches
      /\ [batch EXCEPT !.remaining = m].next = batch.next
  BY DEF Batches
<1>4. /\ [batch EXCEPT !.remaining = m, !.state = "closed", !.announced = b] \in Batches
      /\ [batch EXCEPT !.remaining = m, !.state = "closed", !.announced = b].next = batch.next
  BY DEF Batches
<1> QED
  BY <1>1, <1>2, <1>3, <1>4 DEF LessToCome

LEMMA CountIsTyped ==
  ASSUME batch \in Batches, NEW j, Count(j)
  PROVE  batch' \in Batches
<1>1. CASE j \in Episodes /\ batch.state = "open"
  <2>1. PICK b \in Batches : b = LessToCome(1)
    BY LessToComeIsTyped
  <2>2. b.counted \in Seq(Jobs) /\ j \in Jobs
    BY <1>1 DEF Batches, Jobs
  <2>3. PICK c \in Seq(Jobs) : c = Append(b.counted, j)
    <3>1. \A q \in Seq(Jobs) : Append(q, j) \in Seq(Jobs)
      BY <2>2
    <3> QED
      BY <2>2, <3>1
  <2>4. batch' = [b EXCEPT !.counted = c]
    BY <1>1, <2>1, <2>3 DEF Count
  <2> QED
    BY <2>4 DEF Batches
<1>2. CASE ~(j \in Episodes /\ batch.state = "open")
  BY <1>2 DEF Count
<1> QED
  BY <1>1, <1>2

(* A thread whose listeners were told is idle again.                       *)
LEMMA FinishKeeps ==
  ASSUME IInv, NEW t \in Threads, Finish(t)
  PROVE  IInv'
<1>1. Shape /\ \A k \in Jobs : Safe(k)
  BY DEF IInv
<1>2. /\ UNCHANGED <<job, file, backlog, resubmit>> /\ thread[t].step = "finish"
      /\ thread' = [thread EXCEPT ![t] = Idle]
  BY DEF Finish, jobVars, apiVars, At
<1>3. batch' \in Batches
  BY <1>1, CountIsTyped DEF Finish, Notify, Shape
<1>5. /\ thread' \in [Threads -> ThreadRecords]
      /\ \A u \in Threads : thread'[u] = IF u = t THEN Idle ELSE thread[u]
  BY <1>1, <1>2 DEF Shape, ThreadRecords
<1>6. \A k \in Jobs, u \in Threads :
        /\ Carried(u, k)' <=> Carried(u, k)
        /\ Carried(u, k) => thread'[u].step = thread[u].step
  BY <1>2, <1>5 DEF Carried, Idle
<1>7. ASSUME NEW k \in Jobs PROVE Safe(k)'
  <2>1. Safe(k) /\ (Queued(k)' <=> Queued(k)) /\ OneCall(k)'
    BY <1>1, <1>2, SameQueue DEF Safe
  <2> QED
    BY <1>2, <1>6, <2>1, Untouched
<1> QED
  BY <1>1, <1>2, <1>3, <1>5, <1>7 DEF IInv, Shape

-----------------------------------------------------------------------------
(* Calls come into the executor's queue.                                   *)

(* A job nobody held yet, or one a resume held, is submitted.              *)
LEMMA EnqueueKeeps ==
  ASSUME IInv, NEW j \in Jobs, backlog' = Append(backlog, j), UNCHANGED <<file, thread>>,
         job' \in [Jobs -> JobRecords], batch' \in Batches,
         \A k \in Jobs : k # j => /\ job'[k].status = job[k].status
                                  /\ job'[k].parked = job[k].parked
                                  /\ job'[k].purge = job[k].purge
                                  /\ k \in resubmit' <=> k \in resubmit,
         \/ /\ job[j].status = "unborn" /\ j \notin resubmit'
            /\ job'[j].status = "queued" /\ ~job'[j].parked
         \/ j \in resubmit /\ j \notin resubmit' /\ job'[j] = job[j]
  PROVE  IInv'
<1>1. Shape /\ \A k \in Jobs : Safe(k)
  BY DEF IInv
<1>2. backlog \in Seq(Jobs)
  BY <1>1 DEF Shape
<1>3. j \in resubmit \/ ~Held(j)
  BY <1>1 DEF Safe, HeldWhileActive
<1>4. ~Queued(j) /\ ~job[j].parked /\ \A t \in Threads : ~Carried(t, j)
  BY <1>1, <1>3 DEF Safe, OnePlace, Held
<1>5. /\ backlog' \in Seq(Jobs)
      /\ \A k \in Jobs : (Queued(k)' <=> Queued(k) \/ k = j) /\ OneCall(k)'
  BY <1>1, <1>2, <1>4, Appended DEF Safe
<1>6. \A k \in Jobs, t \in Threads : Carried(t, k)' <=> Carried(t, k)
  BY DEF Carried
<1>7. ASSUME NEW k \in Jobs, k # j PROVE Safe(k)'
  BY <1>1, <1>5, <1>6, <1>7, Untouched
<1>8. Safe(j)'
  <2>1. /\ Safe(j) /\ Queued(j)' /\ OneCall(j)' /\ j \notin resubmit'
        /\ ~job'[j].parked /\ job'[j].status # "unborn"
        /\ \A t \in Threads : ~Carried(t, j)'
    BY <1>1, <1>4, <1>5, <1>6 DEF Safe, HeldWhileActive, Held
  <2>2. j \notin file
    BY <1>3, <1>4, <2>1 DEF Safe, FileSettled, HeldWhileActive, Held, Over
  <2> QED
    BY <2>1, <2>2
    DEF Safe, OneThread, OnePlace, HeldWhileActive, Held, SettledAtRelease, FileSettled
<1> QED
  BY <1>1, <1>5, <1>7, <1>8 DEF IInv, Shape

(* The API threads mark jobs; the queue and the threads stay as they are.  *)
LEMMA MarksKeep ==
  ASSUME IInv, UNCHANGED <<backlog, thread>>,
         job' \in [Jobs -> JobRecords], batch' \in Batches,
         \A k \in Jobs : k \in file' => k \in file,
         \A k \in Jobs :
           \/ /\ job'[k].status = job[k].status /\ job'[k].parked = job[k].parked
              /\ job'[k].purge = job[k].purge \/ job[k].status \in Active
              /\ k \in resubmit' <=> k \in resubmit
           \/ /\ job[k].status \in Active /\ job'[k].status \in Active
              /\ job'[k].parked = job[k].parked /\ (k \in resubmit' <=> k \in resubmit)
           \/ /\ job[k].status \in Active /\ job'[k].status \in Active
              /\ ~job'[k].parked /\ (k \in resubmit' <=> k \in resubmit \/ job[k].parked)
           \/ /\ job[k].status \in Active /\ job'[k].status \in Over
              /\ ~job'[k].parked /\ (k \in resubmit' <=> k \in resubmit)
           \/ /\ job'[k].status \in Over /\ job'[k].parked = job[k].parked
              /\ k \notin file' /\ (k \in resubmit' <=> k \in resubmit)
  PROVE  IInv'
<1>1. Shape /\ \A k \in Jobs : Safe(k)
  BY DEF IInv
<1>2. ASSUME NEW k \in Jobs PROVE Safe(k)'
  <2>1. Safe(k) /\ (Queued(k)' <=> Queued(k)) /\ OneCall(k)'
    BY <1>1, SameQueue DEF Safe
  <2>2. \A t \in Threads : (Carried(t, k)' <=> Carried(t, k)) /\ thread'[t] = thread[t]
    BY DEF Carried
  <2>3. OneThread(k)' /\ OnePlace(k)'
    BY <2>1, <2>2 DEF Safe, OneThread, OnePlace
  <2>4. HeldWhileActive(k)'
    BY <2>1, <2>2 DEF Safe, HeldWhileActive, Held, Active, Over
  <2>5. SettledAtRelease(k)'
    BY <2>1, <2>2 DEF Safe, SettledAtRelease, Active, Over
  <2>6. FileSettled(k)'
    BY <2>1, <2>2 DEF Safe, FileSettled, Active, Over
  <2> QED
    BY <2>1, <2>3, <2>4, <2>5, <2>6 DEF Safe
<1> QED
  BY <1>1, <1>2 DEF IInv, Shape

-----------------------------------------------------------------------------
(* The API, request by request.                                            *)

LEMMA BatchStepIsTyped ==
  ASSUME batch \in Batches
  PROVE  /\ SubmitEpisode => batch' \in Batches
         /\ RegisterBatch => batch' \in Batches
         /\ AbandonRest => batch' \in Batches
         /\ Silence => batch' \in Batches
<1>1. batch.next \in Nat \ {0} /\ Len(BatchJobs) \in Nat
  <2>1. \A q \in Seq(Episodes) : Len(q) \in Nat
    OBVIOUS
  <2> QED
    BY <2>1, BatchAssumption DEF Batches
<1>2. \A n \in Nat \ {0} : [batch EXCEPT !.next = n] \in Batches
  BY DEF Batches
<1>3. SubmitEpisode => batch' \in Batches
  <2>1. PICK n \in Nat \ {0} : n = batch.next + 1
    BY <1>1
  <2> QED
    BY <1>2, <2>1 DEF SubmitEpisode
<1>4. RegisterBatch => batch' \in Batches
  <2>1. PICK n \in Int : n = Len(BatchJobs)
    BY <1>1
  <2>2. [batch EXCEPT !.state = "open", !.remaining = n] \in Batches
    BY DEF Batches
  <2> QED
    BY <2>1, <2>2 DEF RegisterBatch
<1>5. AbandonRest => batch' \in Batches
  <2>1. PICK b \in Batches :
          b = IF batch.state = "open" THEN LessToCome(Len(BatchJobs) - batch.next + 1) ELSE batch
    BY <1>1, LessToComeIsTyped
  <2>2. PICK n \in Nat \ {0} : n = Len(BatchJobs) + 1
    BY <1>1
  <2>3. AbandonRest => batch' = [b EXCEPT !.next = n]
    BY <2>1, <2>2 DEF AbandonRest
  <2> QED
    BY <2>3 DEF Batches
<1>6. Silence => batch' \in Batches
  BY DEF Silence, Batches
<1> QED
  BY <1>3, <1>4, <1>5, <1>6

LEMMA SubmissionsKeep ==
  ASSUME IInv,
         \/ SubmitEpisode
         \/ \E j \in Jobs : SubmitSingle(j) \/ Resubmit(j)
         \/ \E j, new \in Jobs : Retry(j, new)
  PROVE  IInv'
<1>1. Shape /\ \A k \in Jobs : Safe(k)
  BY DEF IInv
<1>2. ASSUME NEW j \in Jobs, Submit(j), UNCHANGED <<file, thread, resubmit>>,
             batch' \in Batches
      PROVE  IInv'
  <2>1. PICK x \in JobRecords :
          /\ x.status = "queued" /\ x.parked = job[j].parked
          /\ job' = [job EXCEPT ![j] = x]
    <3> DEFINE x == [job[j] EXCEPT !.status = "queued", !.listed = TRUE]
    <3>1. job' = [job EXCEPT ![j] = x]
      BY <1>1, <1>2 DEF Submit, Shape
    <3>2. x \in JobRecords /\ x.status = "queued" /\ x.parked = job[j].parked
      BY <1>1 DEF Shape, JobRecords, Active
    <3> QED
      BY <3>1, <3>2
  <2>2. /\ job' \in [Jobs -> JobRecords] /\ job'[j] = x
        /\ \A k \in Jobs : k # j => job'[k] = job[k]
    BY <1>1, <2>1 DEF Shape
  <2>3. job[j].status = "unborn" /\ backlog' = Append(backlog, j)
    BY <1>2 DEF Submit
  <2>4. j \notin resubmit' /\ ~job[j].parked
    BY <1>1, <1>2, <2>3 DEF Safe, HeldWhileActive, Held
  <2> QED
    BY <1>2, <2>1, <2>2, <2>3, <2>4, EnqueueKeeps
<1>3. CASE SubmitEpisode
  <2>1. batch.next \in 1..Len(BatchJobs)
    BY <1>1, <1>3, BatchAssumption DEF SubmitEpisode, Submitting, Shape, Batches
  <2>2. BatchJobs[batch.next] \in Jobs
    BY <2>1, BatchAssumption DEF Jobs
  <2> QED
    BY <1>1, <1>2, <1>3, <2>2, BatchStepIsTyped DEF SubmitEpisode, apiVars, Shape
<1>4. ASSUME NEW j \in Jobs, SubmitSingle(j) PROVE IInv'
  BY <1>1, <1>2, <1>4 DEF SubmitSingle, apiVars, Shape
<1>5. ASSUME NEW j \in Jobs, Resubmit(j) PROVE IInv'
  <2>1. /\ job' = job /\ file' = file /\ thread' = thread /\ batch' = batch
        /\ j \in resubmit /\ resubmit' = resubmit \ {j} /\ backlog' = Append(backlog, j)
    BY <1>5 DEF Resubmit, jobVars
  <2> QED
    BY <1>1, <2>1, EnqueueKeeps DEF Shape
<1>6. ASSUME NEW j \in Jobs, NEW new \in Jobs, Retry(j, new) PROVE IInv'
  <2>1. PICK x \in JobRecords : x = [NewJob EXCEPT !.status = "queued", !.listed = TRUE]
    BY DEF NewJob, JobRecords, Active
  <2>2. x.status = "queued" /\ ~x.parked
    BY <2>1 DEF NewJob
  <2>3. PICK y \in JobRecords : y = [job[j] EXCEPT !.listed = FALSE]
    BY <1>1 DEF Shape, JobRecords
  <2>4. y.status = job[j].status /\ y.parked = job[j].parked /\ y.purge = job[j].purge
    BY <1>1, <2>3 DEF Shape, JobRecords
  <2>5. j # new /\ job' = [job EXCEPT ![j] = y, ![new] = x]
    BY <1>6, <2>1, <2>3 DEF Retry
  <2>6. /\ job' \in [Jobs -> JobRecords] /\ job'[new] = x /\ job'[j] = y
        /\ \A k \in Jobs : k \notin {j, new} => job'[k] = job[k]
    BY <1>1, <2>5 DEF Shape
  <2>7. /\ job[new].status = "unborn" /\ backlog' = Append(backlog, new)
        /\ file' = file /\ thread' = thread /\ resubmit' = resubmit /\ batch' = batch
    BY <1>6 DEF Retry
  <2>8. new \notin resubmit'
    BY <1>1, <2>7 DEF Safe, HeldWhileActive, Held
  <2> QED
    BY <1>1, <2>2, <2>4, <2>6, <2>7, <2>8, EnqueueKeeps DEF Shape
<1> QED
  BY <1>3, <1>4, <1>5, <1>6

(* cancel(), its locked part, for a job of any kind.                       *)
LEMMA CancelJobMarks ==
  ASSUME Shape, NEW j, CancelJob(j)
  PROVE  /\ job' \in [Jobs -> JobRecords]
         /\ \A k \in Jobs :
              \/ job'[k] = job[k]
              \/ job[k].status \in Active /\ job'[k].status \in Over /\ ~job'[k].parked
<1>1. CASE j \in Jobs
  <2>1. PICK x \in JobRecords :
          /\ x = [job[j] EXCEPT !.parked = FALSE, !.paused = FALSE, !.cancelled = TRUE,
                                !.status = "cancelled"]
          /\ x.status = "cancelled" /\ ~x.parked
    <3>1. PICK y \in JobRecords : y = job[j]
      BY <1>1 DEF Shape
    <3> DEFINE x == [y EXCEPT !.parked = FALSE, !.paused = FALSE, !.cancelled = TRUE,
                              !.status = "cancelled"]
    <3>2. x \in JobRecords /\ x.status = "cancelled" /\ ~x.parked
      BY DEF JobRecords, Over
    <3> QED
      BY <3>1, <3>2
  <2>2. job' = [job EXCEPT ![j] = x]
    <3>1. job' = [job EXCEPT ![j].parked = FALSE, ![j].paused = FALSE,
                             ![j].cancelled = TRUE, ![j].status = "cancelled"]
      BY DEF CancelJob
    <3> QED
      BY <1>1, <2>1, <3>1 DEF Shape
  <2>3. job[j].status \in Active
    BY DEF CancelJob, Live, Active
  <2> QED
    BY <1>1, <2>1, <2>2, <2>3 DEF Shape, Over
<1>2. CASE j \notin Jobs
  BY <1>2 DEF CancelJob, Shape
<1> QED
  BY <1>1, <1>2

LEMMA RequestsKeep ==
  ASSUME IInv,
         \/ PauseBatch \/ ResumeBatch \/ SweepCancel \/ SweepRemove
         \/ \E delete \in BOOLEAN : CancelBatch(delete)
         \/ \E j \in Jobs : Cancel(j) \/ Dismiss(j)
  PROVE  IInv'
<1>1. Shape
  BY DEF IInv
<1>2. UNCHANGED <<backlog, thread, batch>>
  BY DEF PauseBatch, ResumeBatch, SweepCancel, SweepRemove, CancelBatch, Cancel, Dismiss
<1>3. batch' \in Batches
  BY <1>1, <1>2 DEF Shape
<1>4. CASE PauseBatch
  <2>1. /\ UNCHANGED <<file, resubmit>>
        /\ job' = [k \in Jobs |-> IF Pausable(k)
                                  THEN [job[k] EXCEPT !.paused = TRUE, !.status = "paused"]
                                  ELSE job[k]]
    BY <1>4 DEF PauseBatch
  <2>2. ASSUME NEW k \in Jobs
        PROVE  /\ job'[k] \in JobRecords
               /\ \/ job'[k] = job[k]
                  \/ /\ job[k].status \in Active /\ job'[k].status \in Active
                     /\ job'[k].parked = job[k].parked
    BY <1>1, <2>1 DEF Pausable, Shape, JobRecords, Active
  <2>3. job' \in [Jobs -> JobRecords]
    BY <2>1, <2>2
  <2> QED
    BY <1>2, <1>3, <2>1, <2>2, <2>3, MarksKeep
<1>5. CASE ResumeBatch
  <2> DEFINE held == {k \in Episodes : job[k].listed /\ job[k].status = "paused"}
  <2>1. /\ UNCHANGED file /\ resubmit' = resubmit \cup {k \in held : job[k].parked}
        /\ job' = [k \in Jobs |->
             IF k \in held
             THEN [job[k] EXCEPT !.paused = FALSE, !.status = "queued", !.parked = FALSE]
             ELSE job[k]]
    BY <1>5 DEF ResumeBatch
  <2>2. ASSUME NEW k \in Jobs
        PROVE  /\ job'[k] \in JobRecords
               /\ \/ job'[k] = job[k] /\ (k \in resubmit' <=> k \in resubmit)
                  \/ /\ job[k].status \in Active /\ job'[k].status \in Active
                     /\ ~job'[k].parked /\ (k \in resubmit' <=> k \in resubmit \/ job[k].parked)
    <3>1. CASE k \in held
      <4>1. job'[k] = [job[k] EXCEPT !.paused = FALSE, !.status = "queued", !.parked = FALSE]
        BY <2>1, <3>1
      <4>2. job'[k] \in JobRecords /\ job'[k].status = "queued" /\ ~job'[k].parked
        <5>1. PICK y \in JobRecords : y = job[k]
          BY <1>1 DEF Shape
        <5>2. job'[k] = [y EXCEPT !.paused = FALSE, !.status = "queued", !.parked = FALSE]
          BY <4>1, <5>1
        <5> QED
          BY <5>2 DEF JobRecords, Active
      <4> QED
        BY <2>1, <3>1, <4>2 DEF Active
    <3>2. CASE k \notin held
      BY <1>1, <2>1, <3>2 DEF Shape
    <3> QED
      BY <3>1, <3>2
  <2>3. job' \in [Jobs -> JobRecords]
    BY <2>1, <2>2
  <2> HIDE DEF held
  <2> QED
    BY <1>2, <1>3, <2>1, <2>2, <2>3, MarksKeep
<1>6. ASSUME NEW delete \in BOOLEAN, CancelBatch(delete) PROVE IInv'
  <2>1. /\ UNCHANGED <<file, resubmit>>
        /\ job' = [k \in Jobs |-> IF k \in Episodes /\ Live(k)
                                  THEN [job[k] EXCEPT !.purge = delete] ELSE job[k]]
    BY <1>6 DEF CancelBatch
  <2>2. ASSUME NEW k \in Jobs
        PROVE  /\ job'[k] \in JobRecords
               /\ job'[k].status = job[k].status /\ job'[k].parked = job[k].parked
               /\ job'[k].purge = job[k].purge \/ job[k].status \in Active
    BY <1>1, <2>1 DEF Live, Shape, JobRecords, Active
  <2>3. job' \in [Jobs -> JobRecords]
    BY <2>1, <2>2
  <2> QED
    BY <1>2, <1>3, <2>1, <2>2, <2>3, MarksKeep
<1>7. ASSUME NEW j, CancelJob(j), UNCHANGED <<file, resubmit>> PROVE IInv'
  BY <1>1, <1>2, <1>3, <1>7, CancelJobMarks, MarksKeep
<1>8. CASE SweepCancel
  <2>1. UNCHANGED <<file, resubmit>>
    BY <1>8 DEF SweepCancel
  <2>2. CASE CancelJob(Head(sweep.todo))
    BY <1>7, <2>1, <2>2
  <2>3. CASE job' = job
    BY <1>1, <1>2, <1>3, <2>1, <2>3, MarksKeep DEF Shape
  <2> QED
    BY <1>8, <2>2, <2>3 DEF SweepCancel
<1>9. CASE SweepRemove
  <2>1. PICK j : /\ resubmit' = resubmit /\ file' = file \ {j}
                 /\ job' = [job EXCEPT ![j].status = "cancelled"]
    BY <1>9 DEF SweepRemove
  <2>2. ASSUME NEW k \in Jobs
        PROVE  /\ job'[k] \in JobRecords
               /\ \/ job'[k] = job[k]
                  \/ job'[k].status \in Over /\ job'[k].parked = job[k].parked /\ k \notin file'
    BY <1>1, <2>1 DEF Shape, JobRecords, Over
  <2>3. job' \in [Jobs -> JobRecords]
    BY <1>1, <2>1, <2>2 DEF Shape
  <2> QED
    BY <1>2, <1>3, <2>1, <2>2, <2>3, MarksKeep
<1>10. ASSUME NEW j \in Jobs, Cancel(j) PROVE IInv'
  BY <1>7, <1>10 DEF Cancel
<1>11. ASSUME NEW j \in Jobs, Dismiss(j) PROVE IInv'
  <2>1. UNCHANGED <<file, resubmit>> /\ job' = [job EXCEPT ![j].listed = FALSE]
    BY <1>11 DEF Dismiss
  <2>2. ASSUME NEW k \in Jobs
        PROVE  /\ job'[k] \in JobRecords
               /\ job'[k].status = job[k].status /\ job'[k].parked = job[k].parked
               /\ job'[k].purge = job[k].purge
    BY <1>1, <2>1 DEF Shape, JobRecords
  <2>3. job' \in [Jobs -> JobRecords]
    BY <1>1, <2>1, <2>2 DEF Shape
  <2> QED
    BY <1>2, <1>3, <2>1, <2>2, <2>3, MarksKeep
<1> QED
  BY <1>4, <1>5, <1>6, <1>8, <1>9, <1>10, <1>11

(* Steps that leave the jobs alone.                                        *)
LEMMA QuietStepsKeep ==
  ASSUME IInv,
         \/ RegisterBatch \/ AbandonRest \/ Silence \/ SweepEnd \/ UNCHANGED vars
         \/ \E j \in Jobs : TellOrphan(j)
  PROVE  IInv'
<1>1. Shape
  BY DEF IInv
<1>2. UNCHANGED <<job, file, backlog, thread, resubmit>>
  BY DEF RegisterBatch, AbandonRest, Silence, SweepEnd, TellOrphan, vars, jobVars, apiVars
<1>3. batch' \in Batches
  <2>1. batch \in Batches
    BY <1>1 DEF Shape
  <2>2. CASE RegisterBatch \/ AbandonRest \/ Silence
    BY <2>1, <2>2, BatchStepIsTyped
  <2>3. CASE SweepEnd \/ UNCHANGED vars
    BY <2>1, <2>3 DEF SweepEnd, vars
  <2>4. ASSUME NEW j \in Jobs, TellOrphan(j) PROVE batch' \in Batches
    BY <2>1, <2>4, CountIsTyped DEF TellOrphan, Notify
  <2> QED
    BY <2>2, <2>3, <2>4
<1> QED
  BY <1>1, <1>2, <1>3, MarksKeep DEF Shape

LEMMA NextInvariant == IInv /\ [Next]_vars => IInv'
<1> SUFFICES ASSUME IInv, [Next]_vars PROVE IInv'
  OBVIOUS
<1>1. ASSUME NEW t \in Threads, Worker(t) PROVE IInv'
  BY <1>1, WorkerKeeps, StartKeeps, FinishKeeps DEF Worker
<1>2. CASE Ongoing
  BY <1>2, SubmissionsKeep, RequestsKeep, QuietStepsKeep DEF Ongoing
<1>3. CASE Asked
  BY <1>3, SubmissionsKeep, RequestsKeep, QuietStepsKeep DEF Asked
<1>4. CASE UNCHANGED vars
  BY <1>4, QuietStepsKeep
<1> QED
  BY <1>1, <1>2, <1>3, <1>4 DEF Next

-----------------------------------------------------------------------------

(* Every reachable state satisfies the inductive invariant.                *)
THEOREM InvariantHolds == Spec => []IInv
<1>1. Init => IInv
  BY InitInvariant
<1>2. IInv /\ [Next]_vars => IInv'
  BY NextInvariant
<1> QED
  BY <1>1, <1>2, PTL DEF Spec

(* A set with no two elements has at most one.                             *)
LEMMA AtMostOne ==
  ASSUME NEW S, \A x, y \in S : x = y
  PROVE  Cardinality(S) <= 1
<1>1. CASE S = {}
  BY <1>1, FS_EmptySet
<1>2. ASSUME NEW x \in S PROVE Cardinality(S) <= 1
  <2>1. S = {x}
    BY <1>2
  <2> QED
    BY <2>1, FS_Singleton
<1> QED
  BY <1>1, <1>2

(* The places of a job as the invariant speaks of them.                    *)
LEMMA CarriersAreHolders ==
  ASSUME NEW j \in Jobs
  PROVE  /\ Carriers(j) # {} <=> Held(j)
         /\ OneCall(j) /\ OneThread(j) /\ OnePlace(j) =>
              \A x, y \in Carriers(j) : x = y
<1>1. CarriedBy(j) = {t \in Threads : Carried(t, j)}
  BY DEF CarriedBy, Carried, At
<1>2. \A x : x \in Carriers(j) <=>
        \/ \E i \in 1..Len(backlog) : backlog[i] = j /\ x = <<"executor", i>>
        \/ \E t \in Threads : Carried(t, j) /\ x = <<"thread", t>>
        \/ j \in resubmit /\ x = <<"resume", 0>>
        \/ job[j].parked /\ x = <<"parked", 0>>
  BY <1>1 DEF Carriers
<1>3. Carriers(j) # {} <=> Held(j)
  BY <1>2 DEF Held, Queued
<1>4. ASSUME OneCall(j), OneThread(j), OnePlace(j),
             NEW x \in Carriers(j), NEW y \in Carriers(j)
      PROVE  x = y
  BY <1>2, <1>4 DEF OneCall, OneThread, OnePlace, Queued
<1> QED
  BY <1>3, <1>4

(* Whatever pauses, resumes, retries and cancels come in between, no job is *)
(* lost and none is carried twice at once.                                 *)
THEOREM JobsAreCarriedOnce == Spec => []CarriedOnce
<1>1. IInv => CarriedOnce
  <2> SUFFICES ASSUME IInv, NEW j \in Jobs
               PROVE  /\ Cardinality(Carriers(j)) <= 1
                      /\ job[j].status \in Active => Carriers(j) # {}
    BY DEF CarriedOnce, Active
  <2>1. Safe(j)
    BY DEF IInv
  <2> QED
    BY <2>1, CarriersAreHolders, AtMostOne DEF Safe, HeldWhileActive
<1> QED
  BY <1>1, InvariantHolds, PTL

(* A job that is to leave no file has none once nothing carries it.        *)
THEOREM NoFileOutlivesItsPurge == Spec => []PurgedLeavesNoFile
<1>1. IInv => PurgedLeavesNoFile
  <2> SUFFICES ASSUME IInv, NEW j \in Jobs, job[j].purge, Carriers(j) = {}
               PROVE  j \notin file
    BY DEF PurgedLeavesNoFile
  <2> QED
    BY CarriersAreHolders DEF IInv, Safe, FileSettled, Held
<1> QED
  BY <1>1, InvariantHolds, PTL

-----------------------------------------------------------------------------
(* The line and the slots.                                                 *)

(* deque.remove on a line without repetition: one place shorter, still     *)
(* without repetition, and exactly x is gone.                              *)
LEMMA WithoutProperties ==
  ASSUME NEW S, NEW s \in Seq(S), IsInjective(s), NEW x \in ToSet(s)
  PROVE  /\ Without(s, x) \in Seq(S)
         /\ IsInjective(Without(s, x))
         /\ ToSet(Without(s, x)) = ToSet(s) \ {x}
         /\ x = Head(s) => Without(s, x) = Tail(s)
<1> DEFINE First(i) == s[i] = x /\ \A k \in 1..(i - 1) : s[k] # x
           p == CHOOSE i \in DOMAIN s : First(i)
           r == Without(s, x)
<1>1. /\ Len(s) \in Nat
      /\ DOMAIN s = 1..Len(s)
      /\ \A i \in 1..Len(s) : s[i] \in S
  BY LenProperties
<1>2. PICK q \in 1..Len(s) : s[q] = x
  BY <1>1 DEF ToSet
<1>3. First(q)
  BY <1>1, <1>2 DEF IsInjective
<1>4. p \in 1..Len(s) /\ s[p] = x
  BY <1>1, <1>3
<1>5. r = RemoveAt(s, p)
  BY DEF Without
<1>6. r = SubSeq(s, 1, p - 1) \o SubSeq(s, p + 1, Len(s))
  BY <1>5 DEF RemoveAt
<1> HIDE DEF p, r
<1> DEFINE u == SubSeq(s, 1, p - 1)
           v == SubSeq(s, p + 1, Len(s))
<1>7. /\ u \in Seq(S)
      /\ Len(u) = p - 1
      /\ \A i \in 1..(p - 1) : u[i] = s[i]
  <2>1. \A i \in 1..(p - 1) : s[i] \in S
    BY <1>1, <1>4
  <2>2. 1 \in Int /\ p - 1 \in Int
    BY <1>4
  <2>3. /\ u \in Seq(S)
        /\ Len(u) = IF 1 <= p - 1 THEN (p - 1) - 1 + 1 ELSE 0
        /\ \A i \in 1..((p - 1) - 1 + 1) : u[i] = s[1 + i - 1]
    BY <2>1, <2>2, SubSeqProperties
  <2> HIDE DEF u
  <2>4. ASSUME NEW i \in 1..(p - 1) PROVE u[i] = s[i]
    <3>1. i \in 1..((p - 1) - 1 + 1) /\ 1 + i - 1 = i
      BY <1>4
    <3> QED
      BY <2>3, <3>1
  <2> QED
    BY <1>4, <2>3, <2>4
<1>8. /\ v \in Seq(S)
      /\ Len(v) = Len(s) - p
      /\ \A i \in 1..(Len(s) - p) : v[i] = s[p + i]
  <2>1. \A i \in (p + 1)..Len(s) : s[i] \in S
    BY <1>1, <1>4
  <2>2. p + 1 \in Int /\ Len(s) \in Int
    BY <1>1, <1>4
  <2>3. /\ v \in Seq(S)
        /\ Len(v) = IF p + 1 <= Len(s) THEN Len(s) - (p + 1) + 1 ELSE 0
        /\ \A i \in 1..(Len(s) - (p + 1) + 1) : v[i] = s[p + 1 + i - 1]
    BY <2>1, <2>2, SubSeqProperties
  <2> HIDE DEF v
  <2>4. ASSUME NEW i \in 1..(Len(s) - p) PROVE v[i] = s[p + i]
    <3>1. i \in 1..(Len(s) - (p + 1) + 1) /\ p + 1 + i - 1 = p + i
      BY <1>1, <1>4
    <3> QED
      BY <2>3, <3>1
  <2>5. Len(v) = Len(s) - p
    <3>1. Len(v) = IF p + 1 <= Len(s) THEN Len(s) - (p + 1) + 1 ELSE 0
      BY <2>3
    <3>2. CASE p + 1 <= Len(s)
      BY <1>1, <1>4, <3>1, <3>2
    <3>3. CASE p = Len(s)
      BY <1>1, <1>4, <3>1, <3>3
    <3>4. p + 1 <= Len(s) \/ p = Len(s)
      <4> DEFINE n == Len(s)
      <4>1. n \in Nat /\ p \in 1..n
        BY <1>1, <1>4
      <4> HIDE DEF n
      <4>2. p + 1 <= n \/ p = n
        BY <4>1
      <4> QED
        BY <4>2 DEF n
    <3> QED
      BY <3>2, <3>3, <3>4
  <2> QED
    BY <2>3, <2>4, <2>5
<1>9. /\ r \in Seq(S)
      /\ Len(r) = Len(s) - 1
      /\ \A i \in 1..(Len(s) - 1) : r[i] = IF i < p THEN s[i] ELSE s[i + 1]
  <2>1. r = u \o v
    BY <1>6
  <2> HIDE DEF u, v
  <2>2. /\ u \o v \in Seq(S)
        /\ Len(u \o v) = Len(u) + Len(v)
        /\ \A i \in 1..(Len(u) + Len(v)) :
             (u \o v)[i] = IF i <= Len(u) THEN u[i] ELSE v[i - Len(u)]
    BY <1>7, <1>8, ConcatProperties
  <2>3. Len(r) = Len(s) - 1
    BY <1>1, <1>4, <1>7, <1>8, <2>1, <2>2
  <2>4. ASSUME NEW i \in 1..(Len(s) - 1)
        PROVE  r[i] = IF i < p THEN s[i] ELSE s[i + 1]
    <3>1. r[i] = IF i <= p - 1 THEN u[i] ELSE v[i - (p - 1)]
      BY <1>1, <1>4, <1>7, <1>8, <2>1, <2>2
    <3>2. CASE i < p
      BY <1>4, <1>7, <3>1, <3>2
    <3>3. CASE i >= p
      <4>1. i - (p - 1) \in 1..(Len(s) - p) /\ p + (i - (p - 1)) = i + 1
        BY <1>1, <1>4, <3>3
      <4>2. v[i - (p - 1)] = s[p + (i - (p - 1))]
        BY <1>8, <4>1
      <4> QED
        BY <1>4, <3>1, <3>3, <4>1, <4>2
    <3> QED
      BY <1>4, <3>2, <3>3
  <2> QED
    BY <2>1, <2>2, <2>3, <2>4
<1>10. DOMAIN r = 1..(Len(s) - 1)
  BY <1>9
<1>11. IsInjective(r)
  <2>1. ASSUME NEW i \in 1..(Len(s) - 1), NEW k \in 1..(Len(s) - 1), r[i] = r[k]
        PROVE  i = k
    <3> DEFINE m(n) == IF n < p THEN n ELSE n + 1
    <3>1. r[i] = s[m(i)] /\ r[k] = s[m(k)]
      BY <1>9
    <3>2. m(i) \in DOMAIN s /\ m(k) \in DOMAIN s
      BY <1>1, <1>4
    <3>3. m(i) = m(k)
      BY <2>1, <3>1, <3>2 DEF IsInjective
    <3> QED
      BY <1>1, <1>4, <3>3
  <2> QED
    BY <1>10, <2>1 DEF IsInjective
<1>12. ToSet(r) = ToSet(s) \ {x}
  <2>1. ASSUME NEW y \in ToSet(r) PROVE y \in ToSet(s) \ {x}
    <3>1. PICK i \in 1..(Len(s) - 1) : y = r[i]
      BY <1>10 DEF ToSet
    <3>2. PICK k \in 1..Len(s) : k # p /\ y = s[k]
      BY <1>1, <1>4, <1>9, <3>1
    <3>3. y # x
      BY <1>1, <1>4, <3>2 DEF IsInjective
    <3> QED
      BY <1>1, <3>2, <3>3 DEF ToSet
  <2>2. ASSUME NEW y \in ToSet(s) \ {x} PROVE y \in ToSet(r)
    <3>1. PICK k \in 1..Len(s) : k # p /\ y = s[k]
      BY <1>1, <1>4 DEF ToSet
    <3>2. CASE k < p
      BY <1>1, <1>4, <1>9, <1>10, <3>1, <3>2, SMTT(20) DEF ToSet
    <3>3. CASE k > p
      <4>1. k - 1 \in 1..(Len(s) - 1) /\ r[k - 1] = s[k]
        BY <1>1, <1>4, <1>9, <3>3
      <4> QED
        BY <1>10, <3>1, <4>1 DEF ToSet
    <3> QED
      BY <1>1, <1>4, <3>1, <3>2, <3>3
  <2> QED
    BY <2>1, <2>2
<1>13. ASSUME x = Head(s) PROVE r = Tail(s)
  <2>1. s # <<>>
    BY <1>1, <1>2
  <2>2. p = 1
    BY <1>1, <1>4, <1>13, <2>1 DEF IsInjective
  <2>3. /\ Tail(s) \in Seq(S)
        /\ Len(Tail(s)) = Len(s) - 1
        /\ \A i \in 1..(Len(s) - 1) : Tail(s)[i] = s[i + 1]
    BY <1>1, <2>1
  <2>4. \A i \in 1..Len(r) : r[i] = Tail(s)[i]
    BY <1>1, <1>9, <2>2, <2>3
  <2> QED
    BY <1>9, <2>3, <2>4, SeqEqual
<1> QED
  BY <1>9, <1>11, <1>12, <1>13 DEF r


LEMMA AppendPlaces ==
  ASSUME NEW S, NEW s \in Seq(S), NEW x \in S
  PROVE  /\ Append(s, x) \in Seq(S) /\ Len(s) \in Nat /\ Len(Append(s, x)) = Len(s) + 1
         /\ DOMAIN s = 1..Len(s) /\ DOMAIN Append(s, x) = 1..(Len(s) + 1)
         /\ \A i \in 1..Len(s) : Append(s, x)[i] = s[i]
         /\ Append(s, x)[Len(s) + 1] = x
OBVIOUS

LEMMA AppendToLine ==
  ASSUME NEW S, NEW s \in Seq(S), IsInjective(s), NEW x \in S, x \notin ToSet(s)
  PROVE  /\ Append(s, x) \in Seq(S) /\ IsInjective(Append(s, x))
         /\ ToSet(Append(s, x)) = ToSet(s) \cup {x}
<1>1. /\ Append(s, x) \in Seq(S) /\ Len(s) \in Nat
      /\ DOMAIN s = 1..Len(s) /\ DOMAIN Append(s, x) = 1..(Len(s) + 1)
      /\ \A i \in 1..Len(s) : Append(s, x)[i] = s[i]
      /\ Append(s, x)[Len(s) + 1] = x
  BY AppendPlaces
<1>2. ToSet(Append(s, x)) = ToSet(s) \cup {x}
  BY <1>1 DEF ToSet
<1>3. \A i \in 1..Len(s) : s[i] # x
  BY <1>1 DEF ToSet
<1>4. IsInjective(Append(s, x))
  <2> SUFFICES ASSUME NEW i \in 1..(Len(s) + 1), NEW k \in 1..(Len(s) + 1),
                      Append(s, x)[i] = Append(s, x)[k]
               PROVE  i = k
    BY <1>1 DEF IsInjective
  <2>1. CASE i \in 1..Len(s) /\ k \in 1..Len(s)
    BY <1>1, <2>1 DEF IsInjective
  <2>2. CASE i = Len(s) + 1 \/ k = Len(s) + 1
    BY <1>1, <1>3, <2>2
  <2> QED
    BY <1>1, <2>1, <2>2
<1>5. Append(s, x) \in Seq(S)
  BY <1>1
<1> QED
  BY <1>2, <1>4, <1>5

-----------------------------------------------------------------------------
(* The jobs whose threads are at one of some steps.                        *)
Of(S) == {thread[t].job : t \in {u \in Threads : thread[u].step \in S}}
LineOK ==
  /\ line \in Seq(Jobs) /\ IsInjective(line) /\ ToSet(line) = Of({"lined"})
  /\ busy = Cardinality(Of(HoldingSteps))

Working == Steps \ {"idle", "finish"}

LEMMA OfWho ==
  ASSUME NEW S \in SUBSET Working, NEW j
  PROVE  j \in Of(S) <=> \E t \in Threads : Carried(t, j) /\ thread[t].step \in S
BY DEF Of, Carried, Working

LEMMA OfIsFinite ==
  ASSUME Shape, NEW S \in SUBSET Working
  PROVE  Of(S) \subseteq Jobs /\ IsFiniteSet(Of(S)) /\ Cardinality(Of(S)) \in Nat
<1>1. Of(S) \subseteq Jobs
  BY DEF Of, Shape, ThreadRecords, Idle, Working
<1> DEFINE T == {u \in Threads : thread[u].step \in S}
<1>2. IsFiniteSet(T)
  <2>1. IsFiniteSet(Threads) /\ T \subseteq Threads
    BY LimitAssumption, FS_Interval DEF Threads
  <2> QED
    BY <2>1, FS_Subset
<1>3. [t \in T |-> thread[t].job] \in Surjection(T, Of(S))
  BY DEF Surjection, Range, Of
<1>4. IsFiniteSet(Of(S))
  BY <1>2, <1>3, FS_Surjection
<1> QED
  BY <1>1, <1>4, FS_CardinalityType

(* A thread that has a job alone goes on with it.                          *)
LEMMA OfMoves ==
  ASSUME Shape, NEW t \in Threads, NEW j \in Jobs, NEW s \in Steps \ {"idle"},
         thread' = [thread EXCEPT ![t] = [step |-> s, job |-> j]],
         thread[t].step \in {"idle", "finish"} \/ thread[t].job = j,
         \A u \in Threads : Carried(u, j) => u = t,
         NEW S \in SUBSET Working
  PROVE  /\ Of(S)' = IF s \in S THEN Of(S) \cup {j} ELSE Of(S) \ {j}
         /\ j \in Of(S) <=> Carried(t, j) /\ thread[t].step \in S
<1>1. PICK r : r.step = s /\ r.job = j /\ thread' = [thread EXCEPT ![t] = r]
  <2>1. thread' = [thread EXCEPT ![t] = [step |-> s, job |-> j]]
    OBVIOUS
  <2> QED
    BY <2>1
<1>2. thread'[t] = r /\ \A u \in Threads : u # t => thread'[u] = thread[u]
  BY <1>1 DEF Shape
<1>3. j \in Of(S) <=> Carried(t, j) /\ thread[t].step \in S
  BY OfWho
<1>4. \A k : k \in Of(S)' <=> \E u \in Threads : thread'[u].step \in S /\ thread'[u].job = k
  BY DEF Of
<1>5. \A k : k \in Of(S) <=> \E u \in Threads : thread[u].step \in S /\ thread[u].job = k
  BY DEF Of
<1>6. j \in Of(S)' <=> s \in S
  <2>1. ASSUME NEW u \in Threads, u # t, thread'[u].step \in S, thread'[u].job = j PROVE FALSE
    BY <1>2, <2>1 DEF Carried, Working
  <2> QED
    BY <1>1, <1>2, <1>4, <2>1
<1>7. ASSUME NEW k, k # j PROVE k \in Of(S)' <=> k \in Of(S)
  <2>1. thread[t].step \in S => thread[t].job = j
    BY DEF Working
  <2>2. thread'[t].job = j
    BY <1>1, <1>2
  <2> QED
    BY <1>2, <1>4, <1>5, <1>7, <2>1, <2>2
<1> QED
  BY <1>3, <1>6, <1>7

(* The thread ends, or the threads do nothing.                             *)
LEMMA OfStays ==
  ASSUME Shape, NEW S \in SUBSET Working,
         \/ thread' = thread
         \/ \E t \in Threads : thread[t].step = "finish" /\ thread' = [thread EXCEPT ![t] = Idle]
  PROVE  Of(S)' = Of(S)
<1>1. CASE thread' = thread
  BY <1>1 DEF Of
<1>2. CASE \E t \in Threads : thread[t].step = "finish" /\ thread' = [thread EXCEPT ![t] = Idle]
  <2>1. PICK t \in Threads : thread[t].step = "finish" /\ thread' = [thread EXCEPT ![t] = Idle]
    BY <1>2
  <2>2. \A u \in Threads : IF u = t THEN thread'[u].step = "idle" ELSE thread'[u] = thread[u]
    BY <2>1 DEF Shape, Idle
  <2>3. \A k : k \in Of(S)' <=> \E u \in Threads : thread'[u].step \in S /\ thread'[u].job = k
    BY DEF Of
  <2>4. \A k : k \in Of(S) <=> \E u \in Threads : thread[u].step \in S /\ thread[u].job = k
    BY DEF Of
  <2>5. \A u \in Threads : thread'[u].step \in S <=> thread[u].step \in S
    BY <2>1, <2>2 DEF Working
  <2>6. \A u \in Threads : thread[u].step \in S => thread'[u] = thread[u]
    BY <2>1, <2>2 DEF Working
  <2> QED
    BY <2>3, <2>4, <2>5, <2>6
<1> QED
  BY <1>1, <1>2

(* What a worker's step is to the line and to the slots.                   *)
Stays(f, s) ==
  line' = line /\ busy' = busy /\ f # "lined" /\ s # "lined"
    /\ (f \in HoldingSteps <=> s \in HoldingSteps)
Joins(f, s, j) ==
  f \notin HoldingSteps \cup {"lined"} /\ s = "lined" /\ line' = Append(line, j) /\ busy' = busy
Wins(f, s, j) ==
  f = "lined" /\ s = "won" /\ Head(line) = j /\ busy < Limit
    /\ line' = Without(line, j) /\ busy' = busy + 1
Leaves(f, s, j) ==
  f = "lined" /\ s = "refused" /\ line' = Without(line, j) /\ busy' = busy
GivesBack(f, s) ==
  f \in HoldingSteps /\ s \in {"finish", "backoff"} /\ line' = line /\ busy' = busy - 1
SlotStep(f, s, j) ==
  Stays(f, s) \/ Joins(f, s, j) \/ Wins(f, s, j) \/ Leaves(f, s, j) \/ GivesBack(f, s)

LEMMA WorkerSlots ==
  ASSUME IInv, NEW t \in Threads,
         \/ Start(t)
         \/ Granted(t) \/ LeaveLine(t) \/ Refused(t) \/ Park(t) \/ Run(t) \/ Land(t)
         \/ Settle(t) \/ Purge(t) \/ Stop(t) \/ FailAndRetry(t) \/ Fail(t) \/ Release(t)
         \/ Backoff(t)
  PROVE  \E j \in Jobs, s \in Steps \ {"idle"} :
           /\ thread[t].step = "idle" \/ thread[t].job = j
           /\ \A u \in Threads : Carried(u, j) => u = t
           /\ thread' = [thread EXCEPT ![t] = [step |-> s, job |-> j]]
           /\ SlotStep(thread[t].step, s, j)
<1>1. Shape /\ \A k \in Jobs : Safe(k)
  BY DEF IInv
<1>2. ASSUME NEW j \in Jobs, Enter(t, j), thread[t].step \in {"idle", "park", "backoff"},
             thread[t].step = "idle" \/ thread[t].job = j,
             \A u \in Threads : Carried(u, j) => u = t
      PROVE  \E s \in Steps \ {"idle"} :
               /\ thread' = [thread EXCEPT ![t] = [step |-> s, job |-> j]]
               /\ SlotStep(thread[t].step, s, j)
  <2>1. CASE job[j].paused
    <3>1. /\ thread' = [thread EXCEPT ![t] = [step |-> "refused", job |-> j]]
          /\ line' = line /\ busy' = busy
      BY <1>2, <2>1 DEF Enter
    <3>2. Stays(thread[t].step, "refused")
      BY <1>2, <3>1 DEF Stays, HoldingSteps
    <3> QED
      BY <3>1, <3>2 DEF SlotStep, Steps
  <2>2. CASE ~job[j].paused
    <3>1. /\ thread' = [thread EXCEPT ![t] = [step |-> "lined", job |-> j]]
          /\ line' = Append(line, j) /\ busy' = busy
      BY <1>2, <2>2 DEF Enter
    <3>2. Joins(thread[t].step, "lined", j)
      BY <1>2, <3>1 DEF Joins, HoldingSteps
    <3> QED
      BY <3>1, <3>2 DEF SlotStep, Steps
  <2> QED
    BY <2>1, <2>2
<1>3. CASE Start(t)
  <2>1. /\ backlog \in Seq(Jobs) /\ backlog # <<>> /\ Enter(t, Head(backlog))
        /\ thread[t].step = "idle"
    BY <1>1, <1>3 DEF Start, Shape, At
  <2>2. Head(backlog) \in Jobs /\ Queued(Head(backlog))
    <3>1. Head(backlog) = backlog[1] /\ 1 \in 1..Len(backlog) /\ Head(backlog) \in Jobs
      BY <2>1
    <3> QED
      BY <3>1 DEF Queued
  <2>3. \A u \in Threads : ~Carried(u, Head(backlog))
    BY <1>1, <2>2 DEF Safe, OnePlace
  <2> QED
    BY <1>2, <2>1, <2>2, <2>3
<1> DEFINE j == thread[t].job
<1>4. CASE \/ Granted(t) \/ LeaveLine(t) \/ Refused(t) \/ Park(t) \/ Run(t) \/ Land(t)
           \/ Settle(t) \/ Purge(t) \/ Stop(t) \/ FailAndRetry(t) \/ Fail(t) \/ Release(t)
           \/ Backoff(t)
  <2>1. thread[t].step \notin {"idle", "finish"}
    BY <1>4 DEF Granted, LeaveLine, Refused, Park, Run, Land, Settle, Purge, Stop,
                FailAndRetry, Fail, Release, Backoff, At
  <2>2. j \in Jobs /\ Carried(t, j)
    BY <1>1, <2>1 DEF Shape, ThreadRecords, Carried, Idle
  <2>3. \A u \in Threads : Carried(u, j) => u = t
    BY <1>1, <2>2 DEF Safe, OneThread
  <2>4. ASSUME NEW s \in Steps \ {"idle"}, Goto(t, s)
        PROVE  thread' = [thread EXCEPT ![t] = [step |-> s, job |-> j]]
    BY <1>1, <2>1, <2>4, ThreadMoves
  <2>5. ASSUME NEW s \in Steps \ {"idle"}, Goto(t, s), SlotStep(thread[t].step, s, j)
        PROVE  \E z \in Steps \ {"idle"} :
                 /\ thread' = [thread EXCEPT ![t] = [step |-> z, job |-> j]]
                 /\ SlotStep(thread[t].step, z, j)
    BY <2>4, <2>5
  <2> DEFINE Goal == \E z \in Steps \ {"idle"} :
                 /\ thread' = [thread EXCEPT ![t] = [step |-> z, job |-> j]]
                 /\ SlotStep(thread[t].step, z, j)
  <2> SUFFICES Goal
    BY <2>2, <2>3
  <2>6. CASE Granted(t)
    <3>1. Goto(t, "won") /\ Wins(thread[t].step, "won", j)
      BY <2>6 DEF Granted, At, Wins
    <3> QED
      BY <2>5, <3>1 DEF SlotStep, Steps
  <2>7. CASE LeaveLine(t)
    <3>1. Goto(t, "refused") /\ Leaves(thread[t].step, "refused", j)
      BY <2>7 DEF LeaveLine, At, Leaves
    <3> QED
      BY <2>5, <3>1 DEF SlotStep, Steps
  <2>8. CASE Release(t)
    <3>1. PICK s \in {"finish", "backoff"} : Goto(t, s)
      BY <2>8 DEF Release
    <3>2. GivesBack(thread[t].step, s)
      BY <2>8 DEF Release, At, GivesBack, HoldingSteps
    <3> QED
      BY <2>5, <3>1, <3>2 DEF SlotStep, Steps
  <2>9. CASE Refused(t) \/ Run(t) \/ Land(t) \/ Settle(t) \/ Purge(t) \/ Stop(t)
             \/ FailAndRetry(t) \/ Fail(t)
    <3>1. line' = line /\ busy' = busy
      BY <2>9 DEF Refused, Run, Land, Settle, Purge, Stop, FailAndRetry, Fail, slotVars
    <3>2. \/ thread[t].step = "refused" /\ \E s \in {"finish", "park"} : Goto(t, s)
          \/ thread[t].step = "won" /\ Goto(t, "running")
          \/ thread[t].step = "running" /\ \E s \in {"landed", "release", "releaseRetry"} : Goto(t, s)
          \/ thread[t].step = "landed" /\ \E s \in {"purging", "release"} : Goto(t, s)
          \/ thread[t].step = "purging" /\ Goto(t, "release")
      BY <2>9 DEF Refused, Run, Land, Settle, Purge, Stop, FailAndRetry, Fail, At
    <3>3. PICK s \in Steps \ {"idle"} :
            /\ Goto(t, s) /\ s # "lined" /\ thread[t].step # "lined"
            /\ thread[t].step \in HoldingSteps <=> s \in HoldingSteps
      BY <3>2 DEF Steps, HoldingSteps
    <3> QED
      BY <2>5, <3>1, <3>3 DEF SlotStep, Stays
  <2>10. CASE Park(t)
    <3>1. thread[t].step = "park"
      BY <2>10 DEF Park, At
    <3>2. CASE Enter(t, j)
      BY <1>2, <2>2, <2>3, <3>1, <3>2
    <3>3. CASE Goto(t, "finish") /\ UNCHANGED slotVars
      BY <2>5, <3>1, <3>3 DEF SlotStep, Stays, slotVars, Steps, HoldingSteps
    <3> QED
      BY <2>10, <3>2, <3>3 DEF Park
  <2>11. CASE Backoff(t)
    <3>1. thread[t].step = "backoff"
      BY <2>11 DEF Backoff, At
    <3>2. CASE Enter(t, j)
      BY <1>2, <2>2, <2>3, <3>1, <3>2
    <3>3. CASE Goto(t, "finish") /\ UNCHANGED slotVars
      BY <2>5, <3>1, <3>3 DEF SlotStep, Stays, slotVars, Steps, HoldingSteps
    <3> QED
      BY <2>11, <3>2, <3>3 DEF Backoff
  <2> QED
    BY <1>4, <2>6, <2>7, <2>8, <2>9, <2>10, <2>11
<1> QED
  BY <1>3, <1>4

LEMMA OtherSlots ==
  ASSUME [Next]_vars,
         ~\E t \in Threads :
            \/ Start(t)
            \/ Granted(t) \/ LeaveLine(t) \/ Refused(t) \/ Park(t) \/ Run(t) \/ Land(t)
            \/ Settle(t) \/ Purge(t) \/ Stop(t) \/ FailAndRetry(t) \/ Fail(t) \/ Release(t)
            \/ Backoff(t)
  PROVE  /\ line' = line /\ busy' = busy
         /\ \/ thread' = thread
            \/ \E t \in Threads : thread[t].step = "finish" /\ thread' = [thread EXCEPT ![t] = Idle]
<1>1. CASE \E t \in Threads : Worker(t)
  <2>1. PICK t \in Threads : Finish(t)
    BY <1>1 DEF Worker
  <2> QED
    BY <2>1 DEF Finish, At, slotVars
<1>2. CASE Ongoing
  <2>1. ASSUME NEW j \in Jobs, TellOrphan(j) \/ Resubmit(j)
        PROVE  UNCHANGED <<line, busy, thread>>
    BY <2>1 DEF TellOrphan, Resubmit, slotVars
  <2>2. CASE SubmitEpisode \/ AbandonRest \/ SweepEnd
    BY <2>2 DEF SubmitEpisode, AbandonRest, SweepEnd, slotVars
  <2>3. CASE CancelBatch(TRUE) \/ SweepCancel \/ SweepRemove
    BY <2>3 DEF CancelBatch, SweepCancel, SweepRemove, slotVars
  <2> QED
    BY <1>2, <2>1, <2>2, <2>3 DEF Ongoing
<1>3. CASE Asked
  <2>1. ASSUME NEW j \in Jobs, SubmitSingle(j) \/ Cancel(j) \/ Dismiss(j)
        PROVE  UNCHANGED <<line, busy, thread>>
    BY <2>1 DEF SubmitSingle, Cancel, Dismiss, slotVars
  <2>2. ASSUME NEW j \in Jobs, NEW new \in Jobs, Retry(j, new)
        PROVE  UNCHANGED <<line, busy, thread>>
    BY <2>2 DEF Retry, slotVars
  <2>3. CASE RegisterBatch \/ PauseBatch \/ ResumeBatch \/ Silence \/ CancelBatch(FALSE)
    BY <2>3 DEF RegisterBatch, PauseBatch, ResumeBatch, Silence, CancelBatch, slotVars
  <2> QED
    BY <1>3, <2>1, <2>2, <2>3 DEF Asked
<1>4. CASE UNCHANGED vars
  BY <1>4 DEF vars
<1> QED
  BY <1>1, <1>2, <1>3, <1>4 DEF Next

LEMMA SlotsRefined ==
  ASSUME IInv, LineOK, [Next]_vars
  PROVE  LineOK' /\ [Slots!Next]_(Slots!vars)
<1>1. Shape
  BY DEF IInv
<1>2. {"lined"} \in SUBSET Working /\ HoldingSteps \in SUBSET Working
  BY DEF Working, Steps, HoldingSteps
<1> DEFINE holders == Of(HoldingSteps)
<1>3. /\ [Slots!Next]_(Slots!vars) <=>
           \/ \E c \in Jobs : Slots!Join(c) \/ Slots!Grant(c) \/ Slots!GiveUp(c) \/ Slots!Finish(c)
           \/ \E n \in {Limit} : Slots!Resize(n)
           \/ line' = line /\ holders' = holders
  BY DEF Slots!Next, Slots!vars, Of
<1>c. (\A z : Slots!ToSet(z) = ToSet(z)) /\ \A z : Slots!Cardinality(z) = Cardinality(z)
  BY DEF Slots!ToSet, ToSet, Slots!Cardinality, Cardinality
<1>d. \A z, y : Slots!Without(z, y) = Without(z, y)
  BY DEF Slots!Without, Without, Slots!RemoveAt, RemoveAt
<1>4. \A c : /\ Slots!Join(c) <=> /\ c \notin ToSet(line) \cup holders
                                  /\ line' = Append(line, c) /\ holders' = holders
             /\ Slots!Grant(c) <=> /\ line # <<>> /\ c = Head(line)
                                   /\ Cardinality(holders) < Limit
                                   /\ line' = Tail(line) /\ holders' = holders \cup {c}
             /\ Slots!GiveUp(c) <=> /\ c \in ToSet(line) /\ line' = Without(line, c)
                                    /\ holders' = holders
             /\ Slots!Finish(c) <=> /\ c \in holders /\ holders' = holders \ {c} /\ line' = line
  <2> TAKE c
  <2>1. Slots!Join(c) <=> /\ c \notin ToSet(line) \cup holders
                          /\ line' = Append(line, c) /\ holders' = holders
    BY <1>c, <1>d DEF Slots!Join, Of
  <2>2. Slots!Grant(c) <=> /\ line # <<>> /\ c = Head(line)
                           /\ Cardinality(holders) < Limit
                           /\ line' = Tail(line) /\ holders' = holders \cup {c}
    BY <1>c, <1>d DEF Slots!Grant, Of
  <2>3. Slots!GiveUp(c) <=> /\ c \in ToSet(line) /\ line' = Without(line, c)
                            /\ holders' = holders
    BY <1>c, <1>d DEF Slots!GiveUp, Of
  <2>4. Slots!Finish(c) <=> /\ c \in holders /\ holders' = holders \ {c} /\ line' = line
    BY DEF Slots!Finish, Of
  <2> QED
    BY <2>1, <2>2, <2>3, <2>4
<1>5. /\ line \in Seq(Jobs) /\ IsInjective(line) /\ ToSet(line) = Of({"lined"})
      /\ busy = Cardinality(holders)
  BY DEF LineOK
<1>6. IsFiniteSet(holders) /\ Cardinality(holders) \in Nat
  BY <1>1, <1>2, OfIsFinite
<1> DEFINE Works(t) ==
      \/ Start(t)
      \/ Granted(t) \/ LeaveLine(t) \/ Refused(t) \/ Park(t) \/ Run(t) \/ Land(t)
      \/ Settle(t) \/ Purge(t) \/ Stop(t) \/ FailAndRetry(t) \/ Fail(t) \/ Release(t)
      \/ Backoff(t)
<1>7. CASE ~\E t \in Threads : Works(t)
  <2>1. /\ line' = line /\ busy' = busy
        /\ \/ thread' = thread
           \/ \E t \in Threads : thread[t].step = "finish" /\ thread' = [thread EXCEPT ![t] = Idle]
    BY <1>7, OtherSlots
  <2>2. holders' = holders /\ Of({"lined"})' = Of({"lined"})
    BY <1>1, <1>2, <2>1, OfStays
  <2> HIDE DEF holders
  <2>3. [Slots!Next]_(Slots!vars)
    BY <1>3, <2>1, <2>2
  <2>4. LineOK'
    BY <1>5, <2>1, <2>2 DEF LineOK, holders
  <2> QED
    BY <2>3, <2>4
<1>8. ASSUME NEW t \in Threads, Works(t) PROVE LineOK' /\ [Slots!Next]_(Slots!vars)
  <2>1. PICK j \in Jobs, s \in Steps \ {"idle"} :
           /\ thread[t].step = "idle" \/ thread[t].job = j
           /\ \A u \in Threads : Carried(u, j) => u = t
           /\ thread' = [thread EXCEPT ![t] = [step |-> s, job |-> j]]
           /\ SlotStep(thread[t].step, s, j)
    BY <1>8, WorkerSlots
  <2>2. ASSUME NEW S \in SUBSET Working
        PROVE  /\ Of(S)' = IF s \in S THEN Of(S) \cup {j} ELSE Of(S) \ {j}
               /\ j \in Of(S) <=> Carried(t, j) /\ thread[t].step \in S
    BY <1>1, <2>1, <2>2, OfMoves
  <2>3. \A S \in SUBSET Working : j \in Of(S) <=> thread[t].step \in S
    BY <2>1, <2>2 DEF Carried, Working
  <2>4. /\ holders' = IF s \in HoldingSteps THEN holders \cup {j} ELSE holders \ {j}
        /\ j \in holders <=> thread[t].step \in HoldingSteps
        /\ Of({"lined"})' = IF s = "lined" THEN ToSet(line) \cup {j} ELSE ToSet(line) \ {j}
        /\ j \in ToSet(line) <=> thread[t].step = "lined"
    BY <1>2, <1>5, <2>2, <2>3
  <2> HIDE DEF holders
  <2> DEFINE f == thread[t].step
  <2>5. LineOK' <=> /\ line' \in Seq(Jobs) /\ IsInjective(line') /\ ToSet(line') = Of({"lined"})'
                    /\ busy' = Cardinality(holders')
    BY DEF LineOK, holders
  <2> HIDE DEF f
  <2>6. CASE Stays(f, s)
    <3>1. holders' = holders /\ Of({"lined"})' = ToSet(line) /\ line' = line /\ busy' = busy
      BY <2>4, <2>6 DEF Stays, f
    <3> QED
      BY <1>3, <1>5, <2>5, <3>1
  <2>7. CASE Joins(f, s, j)
    <3>1. /\ holders' = holders /\ Of({"lined"})' = ToSet(line) \cup {j}
          /\ line' = Append(line, j) /\ busy' = busy /\ j \notin ToSet(line) \cup holders
      BY <2>4, <2>7 DEF Joins, f, HoldingSteps
    <3>2. /\ line' \in Seq(Jobs) /\ IsInjective(line') /\ ToSet(line') = ToSet(line) \cup {j}
      <4>1. j \notin ToSet(line)
        BY <3>1
      <4> QED
        BY <1>5, <3>1, <4>1, AppendToLine
    <3>3. Slots!Join(j)
      BY <1>4, <3>1
    <3> QED
      BY <1>3, <1>5, <2>5, <3>1, <3>2, <3>3
  <2>8. ASSUME f = "lined", s # "lined", line' = Without(line, j)
        PROVE  /\ line' \in Seq(Jobs) /\ IsInjective(line') /\ ToSet(line') = Of({"lined"})'
               /\ j = Head(line) => line' = Tail(line)
               /\ j \in ToSet(line)
    <3>1. j \in ToSet(line) /\ Of({"lined"})' = ToSet(line) \ {j}
      BY <2>4, <2>8 DEF f
    <3> QED
      BY <1>5, <2>8, <3>1, WithoutProperties
  <2>9. CASE Leaves(f, s, j)
    <3>1. f = "lined" /\ s = "refused" /\ line' = Without(line, j) /\ busy' = busy
      BY <2>9 DEF Leaves
    <3>2. holders' = holders
      BY <2>4, <3>1 DEF f, HoldingSteps
    <3>3. Slots!GiveUp(j)
      BY <1>4, <2>8, <3>1, <3>2
    <3> QED
      BY <1>3, <1>5, <2>5, <2>8, <3>1, <3>2, <3>3
  <2>10. CASE Wins(f, s, j)
    <3>1. /\ f = "lined" /\ s = "won" /\ line' = Without(line, j) /\ busy' = busy + 1
          /\ Head(line) = j /\ busy < Limit
      BY <2>10 DEF Wins
    <3>2. holders' = holders \cup {j} /\ j \notin holders
      BY <2>4, <3>1 DEF f, HoldingSteps
    <3>3. Cardinality(holders') = Cardinality(holders) + 1
      BY <1>6, <3>2, FS_AddElement
    <3>4. line # <<>>
      <4>1. j \in ToSet(line)
        BY <2>8, <3>1
      <4> QED
        BY <4>1 DEF ToSet
    <3>5. Slots!Grant(j)
      BY <1>4, <1>5, <2>8, <3>1, <3>2, <3>4
    <3> QED
      BY <1>3, <1>5, <2>5, <2>8, <3>1, <3>3, <3>5
  <2>11. CASE GivesBack(f, s)
    <3>1. /\ f \in HoldingSteps /\ s \in {"finish", "backoff"} /\ line' = line
          /\ busy' = busy - 1
      BY <2>11 DEF GivesBack
    <3>2. holders' = holders \ {j} /\ j \in holders /\ Of({"lined"})' = ToSet(line)
      BY <2>4, <3>1 DEF f, HoldingSteps
    <3>3. Cardinality(holders') = Cardinality(holders) - 1
      BY <1>6, <3>2, FS_RemoveElement
    <3>4. Slots!Finish(j)
      BY <1>4, <3>1, <3>2
    <3> QED
      BY <1>3, <1>5, <2>5, <3>1, <3>2, <3>3, <3>4
  <2> QED
    BY <2>1, <2>6, <2>7, <2>9, <2>10, <2>11 DEF SlotStep, f
<1> QED
  BY <1>7, <1>8

(* Through pauses, retries and cancels the slots are handed out as         *)
(* FifoSlots promises: SlotsKeepTheirPromise, the refinement.              *)
THEOREM JobsRefineSlots == Spec => SlotsKeepTheirPromise
<1>1. Init => IInv /\ LineOK /\ Slots!Init
  <2> SUFFICES ASSUME Init PROVE LineOK /\ Slots!Init
    BY InitInvariant
  <2>1. line = <<>> /\ busy = 0
    BY DEF Init
  <2>2. Of({"lined"}) = {} /\ Of(HoldingSteps) = {}
    BY DEF Init, Of, Idle, HoldingSteps
  <2>3. line \in Seq(Jobs) /\ IsInjective(line) /\ ToSet(line) = {}
    BY <2>1 DEF IsInjective, ToSet
  <2>4. LineOK
    BY <2>1, <2>2, <2>3, FS_EmptySet DEF LineOK
  <2>5. Slots!Init
    BY <2>1, <2>2 DEF Slots!Init, Of
  <2> QED
    BY <2>4, <2>5
<1>2. IInv /\ LineOK /\ [Next]_vars => (IInv /\ LineOK)' /\ [Slots!Next]_(Slots!vars)
  BY NextInvariant, SlotsRefined
<1> QED
  BY <1>1, <1>2, PTL DEF Spec, SlotsKeepTheirPromise, Slots!Spec
=============================================================================
