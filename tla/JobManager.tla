----------------------------- MODULE JobManager -----------------------------
(***************************************************************************)
(* class JobManager of app/jobs.py, from the submission of a download to   *)
(* the moment its listeners hear that it is over: the executor's threads   *)
(* running _run_download() and _attempt(), and the API threads that cancel,*)
(* pause, resume, dismiss and retry jobs while they do.  With it go the    *)
(* two modules a batch of episodes ties to it: _run_batch() of             *)
(* app/routers/downloads.py, which registers a batch and submits its jobs  *)
(* one by one, and app/downloads_notify.py, which counts the results.      *)
(*                                                                         *)
(* Steps end where the code releases a lock or makes a write that another  *)
(* thread can see.  The wait for a slot is the promise of FifoSlots, which *)
(* DownloadSlots is proved to keep; sleeping and waking are left to it.    *)
(* A download (fn) may finish, fail or notice the cancel event, at any     *)
(* time.  Scheduled jobs are the business of module Schedules.             *)
(***************************************************************************)
EXTENDS Integers, FiniteSets, Lines

CONSTANTS
  BatchJobs,    \* the episodes of one batch, in the order of submission
  SpareJobs,    \* identities for downloads outside the batch and for retries
  NumThreads,   \* the executor's threads (64 in the code)
  Limit,        \* how many downloads at once
  AutoRetries,  \* AUTO_RETRIES
  MaxRequests,  \* bound: how many requests there are on jobs, resumes apart
  MaxPauses     \* bound: how many of them pause the batch

Episodes == ToSet(BatchJobs)
Jobs == Episodes \cup SpareJobs
Threads == 1..NumThreads

ASSUME BatchAssumption ==
  BatchJobs \in Seq(Episodes) /\ IsInjective(BatchJobs) /\ Episodes \cap SpareJobs = {}
ASSUME LimitAssumption == Limit \in Nat \ {0} /\ NumThreads \in Nat \ {0}
ASSUME BoundsAssumption == AutoRetries \in Nat /\ MaxPauses \in Nat /\ MaxRequests \in Nat

VARIABLES
  job,        \* the fields of each DownloadJob
  file,       \* the jobs whose video is in the library
  line,       \* the line for a slot
  busy,       \* the slots in use
  backlog,    \* calls submitted to the executor and not started
  thread,     \* what each executor thread is doing, for which job
  resubmit,   \* resume_batch(): jobs unparked, not yet back in the executor
  owed,       \* cancel(): orphaned jobs whose listeners are still to be called
  sweep,      \* the cancel_batch() in progress
  batch,      \* the _Batch of downloads_notify, and how far _run_batch() is
  heard,      \* history: the status the listeners read, at each call for the job
  calls       \* bounds: how many requests and pauses there have been

jobVars == <<job, file>>
slotVars == <<line, busy>>
apiVars == <<resubmit, owed, sweep, calls>>
vars == <<job, file, line, busy, backlog, thread, resubmit, owed, sweep, batch, heard, calls>>

Over == {"done", "error", "cancelled"}
Steps == {"idle", "lined", "refused", "park", "won", "running",
          "landed", "purging", "release", "releaseRetry", "backoff", "finish"}
\* Between a successful acquire() and release().
HoldingSteps == {"won", "running", "landed", "purging", "release", "releaseRetry"}

NewJob == [status |-> "unborn", listed |-> FALSE, paused |-> FALSE, cancelled |-> FALSE,
           parked |-> FALSE, purge |-> FALSE, retries |-> 0]
NoBatch == [state |-> "none", next |-> 1, remaining |-> 0, silent |-> FALSE,
            announced |-> FALSE, counted |-> <<>>]
NoSweep == [step |-> "none", todo |-> <<>>, finished |-> {}]
Idle == [step |-> "idle"]

Live(j) == job[j].listed /\ job[j].status \in {"queued", "paused", "running"}

At(t, s) == thread[t].step = s
Goto(t, s) == thread' = [thread EXCEPT ![t].step = s]

Init ==
  /\ job = [j \in Jobs |-> NewJob]
  /\ file = {}
  /\ line = <<>>
  /\ busy = 0
  /\ backlog = <<>>
  /\ thread = [t \in Threads |-> Idle]
  /\ resubmit = {}
  /\ owed = {}
  /\ sweep = NoSweep
  /\ batch = NoBatch
  /\ heard = [j \in Jobs |-> <<>>]
  /\ calls = [requests |-> 0, pauses |-> 0]

-----------------------------------------------------------------------------
(* downloads_notify.py *)

\* The batch with n fewer to come; the last one closes it, with a summary unless
\* it was silenced.
LessToCome(n) ==
  IF batch.remaining - n > 0
  THEN [batch EXCEPT !.remaining = @ - n]
  ELSE [batch EXCEPT !.remaining = @ - n, !.state = "closed", !.announced = ~batch.silent]

\* on_job_finished(): an episode's result is counted, and dropped when its batch
\* is already closed.
Count(j) ==
  IF j \in Episodes /\ batch.state = "open"
  THEN batch' = [LessToCome(1) EXCEPT !.counted = Append(@, j)]
  ELSE UNCHANGED batch

\* _notify_listeners(): each listener reads the job's status as it is now.
Notify(j) ==
  /\ heard' = [heard EXCEPT ![j] = Append(@, job[j].status)]
  /\ Count(j)

-----------------------------------------------------------------------------
(* Submission *)

\* _submit_job(): into _jobs, then to the executor.
Submit(j) ==
  /\ job[j].status = "unborn"
  /\ job' = [job EXCEPT ![j].status = "queued", ![j].listed = TRUE]
  /\ backlog' = Append(backlog, j)

SubmitSingle(j) ==
  /\ j \in SpareJobs
  /\ Submit(j)
  /\ UNCHANGED <<file, thread, batch, heard>> /\ UNCHANGED slotVars /\ UNCHANGED apiVars

\* _run_batch(): register() before the first job exists ...
RegisterBatch ==
  /\ batch.state = "none"
  /\ batch' = [batch EXCEPT !.state = "open", !.remaining = Len(BatchJobs)]
  /\ UNCHANGED <<backlog, thread, heard>> /\ UNCHANGED jobVars
  /\ UNCHANGED slotVars /\ UNCHANGED apiVars

Submitting == batch.state # "none" /\ batch.next <= Len(BatchJobs)

\* ... then one job after another ...
SubmitEpisode ==
  /\ Submitting
  /\ Submit(BatchJobs[batch.next])
  /\ batch' = [batch EXCEPT !.next = @ + 1]
  /\ UNCHANGED <<file, thread, heard>> /\ UNCHANGED slotVars /\ UNCHANGED apiVars

\* Mutant of AbandonRest: the episode that failed to submit is not written off.
AbandonOneTooFew ==
  /\ Submitting
  /\ batch' = [(IF batch.state = "open" THEN LessToCome(Len(BatchJobs) - batch.next)
                                       ELSE batch)
               EXCEPT !.next = Len(BatchJobs) + 1]
  /\ UNCHANGED <<backlog, thread, heard>> /\ UNCHANGED jobVars
  /\ UNCHANGED slotVars /\ UNCHANGED apiVars

\* ... until one cannot be submitted: abandon() writes off the rest.
AbandonRest ==
  /\ Submitting
  /\ batch' = [(IF batch.state = "open" THEN LessToCome(Len(BatchJobs) - batch.next + 1)
                                       ELSE batch)
               EXCEPT !.next = Len(BatchJobs) + 1]
  /\ UNCHANGED <<backlog, thread, heard>> /\ UNCHANGED jobVars
  /\ UNCHANGED slotVars /\ UNCHANGED apiVars

-----------------------------------------------------------------------------
(* An executor thread: _run_download(), _attempt() and DownloadSlots.acquire() *)

\* acquire(), first part: turned away when paused, else the end of the line.
Enter(t, j) ==
  /\ thread' = [thread EXCEPT ![t] =
                  [step |-> IF job[j].paused THEN "refused" ELSE "lined", job |-> j]]
  /\ line' = IF job[j].paused THEN line ELSE Append(line, j)
  /\ UNCHANGED busy

\* Threads are interchangeable: the first idle one takes the oldest call.
Start(t) ==
  /\ At(t, "idle")
  /\ \A u \in 1..(t - 1) : ~At(u, "idle")
  /\ backlog # <<>>
  /\ backlog' = Tail(backlog)
  /\ Enter(t, Head(backlog))
  /\ UNCHANGED <<batch, heard>> /\ UNCHANGED jobVars /\ UNCHANGED apiVars

\* Mutant of Granted: an off-by-one in the comparison with the limit.
GrantedWhenFull(t) ==
  LET j == thread[t].job IN
  /\ At(t, "lined")
  /\ Head(line) = j /\ busy <= Limit
  /\ ~job[j].cancelled /\ ~job[j].paused
  /\ line' = Without(line, j)
  /\ busy' = busy + 1
  /\ Goto(t, "won")
  /\ UNCHANGED <<backlog, batch, heard>> /\ UNCHANGED jobVars /\ UNCHANGED apiVars

\* acquire(), second part: the slot, in turn, or off the line for a flag.
Granted(t) ==
  LET j == thread[t].job IN
  /\ At(t, "lined")
  /\ Head(line) = j /\ busy < Limit
  /\ ~job[j].cancelled /\ ~job[j].paused
  /\ line' = Without(line, j)
  /\ busy' = busy + 1
  /\ Goto(t, "won")
  /\ UNCHANGED <<backlog, batch, heard>> /\ UNCHANGED jobVars /\ UNCHANGED apiVars

\* Mutant of LeaveLine: a waiter looks at the cancel event only.
LeaveWhenCancelled(t) ==
  LET j == thread[t].job IN
  /\ At(t, "lined")
  /\ job[j].cancelled
  /\ line' = Without(line, j)
  /\ Goto(t, "refused")
  /\ UNCHANGED <<busy, backlog, batch, heard>> /\ UNCHANGED jobVars /\ UNCHANGED apiVars

LeaveLine(t) ==
  LET j == thread[t].job IN
  /\ At(t, "lined")
  /\ job[j].cancelled \/ job[j].paused
  /\ line' = Without(line, j)
  /\ Goto(t, "refused")
  /\ UNCHANGED <<busy, backlog, batch, heard>> /\ UNCHANGED jobVars /\ UNCHANGED apiVars

\* acquire() returned False: cancelled, or on to _park().
Refused(t) ==
  LET j == thread[t].job IN
  /\ At(t, "refused")
  /\ IF job[j].cancelled
     THEN job' = [job EXCEPT ![j].status = "cancelled"] /\ Goto(t, "finish")
     ELSE UNCHANGED job /\ Goto(t, "park")
  /\ UNCHANGED <<file, backlog, batch, heard>> /\ UNCHANGED slotVars /\ UNCHANGED apiVars

\* _park(): back in line when resumed or cancelled in the meantime.
Park(t) ==
  LET j == thread[t].job IN
  /\ At(t, "park")
  /\ IF job[j].paused /\ ~job[j].cancelled
     THEN /\ job' = [job EXCEPT ![j].parked = TRUE, ![j].status = "paused"]
          /\ Goto(t, "finish")
          /\ UNCHANGED slotVars
     ELSE UNCHANGED job /\ Enter(t, j)
  /\ UNCHANGED <<file, backlog, batch, heard>> /\ UNCHANGED apiVars

\* "It won its slot, so a pause arriving now is too late for it."
Run(t) ==
  LET j == thread[t].job IN
  /\ At(t, "won")
  /\ job' = [job EXCEPT ![j].paused = FALSE, ![j].status = "running"]
  /\ Goto(t, "running")
  /\ UNCHANGED <<file, backlog, batch, heard>> /\ UNCHANGED slotVars /\ UNCHANGED apiVars

\* fn() returns with the video in the library.
Land(t) ==
  /\ At(t, "running")
  /\ file' = file \cup {thread[t].job}
  /\ Goto(t, "landed")
  /\ UNCHANGED <<job, backlog, batch, heard>> /\ UNCHANGED slotVars /\ UNCHANGED apiVars

\* Mutant of Settle: what lands is done, whatever happened meanwhile.
SettleAsDone(t) ==
  /\ At(t, "landed")
  /\ job' = [job EXCEPT ![thread[t].job].status = "done"]
  /\ Goto(t, "release")
  /\ UNCHANGED <<file, backlog, batch, heard>> /\ UNCHANGED slotVars /\ UNCHANGED apiVars

\* "Either it sees this job done and removes its files, or this sees purge."  The code reads
\* purge again after the lock: only a second cancel_batch() could have changed it, and one is
\* in progress at a time here.
Settle(t) ==
  LET j == thread[t].job IN
  /\ At(t, "landed")
  /\ IF job[j].purge
     THEN UNCHANGED job /\ Goto(t, "purging")
     ELSE job' = [job EXCEPT ![j].status = "done"] /\ Goto(t, "release")
  /\ UNCHANGED <<file, backlog, batch, heard>> /\ UNCHANGED slotVars /\ UNCHANGED apiVars

Purge(t) ==
  LET j == thread[t].job IN
  /\ At(t, "purging")
  /\ file' = file \ {j}
  /\ job' = [job EXCEPT ![j].status = "cancelled"]
  /\ Goto(t, "release")
  /\ UNCHANGED <<backlog, batch, heard>> /\ UNCHANGED slotVars /\ UNCHANGED apiVars

\* fn() raises DownloadCancelledError: it saw the event.
Stop(t) ==
  LET j == thread[t].job IN
  /\ At(t, "running")
  /\ job[j].cancelled
  /\ job' = [job EXCEPT ![j].status = "cancelled"]
  /\ Goto(t, "release")
  /\ UNCHANGED <<file, backlog, batch, heard>> /\ UNCHANGED slotVars /\ UNCHANGED apiVars

\* fn() raises anything else: again while retries are left and one may help ...
FailAndRetry(t) ==
  LET j == thread[t].job IN
  /\ At(t, "running")
  /\ job[j].retries < AutoRetries
  /\ job' = [job EXCEPT ![j].retries = @ + 1, ![j].status = "queued"]
  /\ Goto(t, "releaseRetry")
  /\ UNCHANGED <<file, backlog, batch, heard>> /\ UNCHANGED slotVars /\ UNCHANGED apiVars

\* ... else it failed (_worth_retrying() may say no at any count).
Fail(t) ==
  /\ At(t, "running")
  /\ job' = [job EXCEPT ![thread[t].job].status = "error"]
  /\ Goto(t, "release")
  /\ UNCHANGED <<file, backlog, batch, heard>> /\ UNCHANGED slotVars /\ UNCHANGED apiVars

\* The outer finally: the slot goes back before anybody is told.
Release(t) ==
  /\ At(t, "release") \/ At(t, "releaseRetry")
  /\ busy' = busy - 1
  /\ Goto(t, IF At(t, "release") THEN "finish" ELSE "backoff")
  /\ UNCHANGED <<line, backlog, batch, heard>> /\ UNCHANGED jobVars /\ UNCHANGED apiVars

\* cancel_event.wait(AUTO_RETRY_DELAY): the event ends it, or the delay does.
Backoff(t) ==
  LET j == thread[t].job IN
  /\ At(t, "backoff")
  /\ \/ /\ job[j].cancelled
        /\ job' = [job EXCEPT ![j].status = "cancelled"]
        /\ Goto(t, "finish")
        /\ UNCHANGED slotVars
     \/ ~job[j].cancelled /\ UNCHANGED job /\ Enter(t, j)
  /\ UNCHANGED <<file, backlog, batch, heard>> /\ UNCHANGED apiVars

\* The finally of _run_download(): everybody is told, unless the job is parked.
Finish(t) ==
  LET j == thread[t].job IN
  /\ At(t, "finish")
  /\ IF job[j].parked THEN UNCHANGED <<batch, heard>> ELSE Notify(j)
  /\ thread' = [thread EXCEPT ![t] = Idle]
  /\ UNCHANGED backlog /\ UNCHANGED jobVars /\ UNCHANGED slotVars /\ UNCHANGED apiVars

-----------------------------------------------------------------------------
(* The API threads *)

\* One more request, within the bounds.  Resumes are as many as pauses allow.
Request ==
  /\ calls.requests < MaxRequests
  /\ calls' = [calls EXCEPT !.requests = @ + 1]

\* Mutants of CancelJob: any job not running yet is taken for an orphan, and none is.
CancelOrphanQueued(j) ==
  /\ Live(j)
  /\ owed' = IF job[j].parked \/ job[j].status = "queued" THEN owed \cup {j} ELSE owed
  /\ job' = [job EXCEPT ![j].parked = FALSE, ![j].paused = FALSE,
                        ![j].cancelled = TRUE, ![j].status = "cancelled"]

CancelWithoutOrphans(j) ==
  /\ Live(j)
  /\ job' = [job EXCEPT ![j].parked = FALSE, ![j].paused = FALSE,
                        ![j].cancelled = TRUE, ![j].status = "cancelled"]
  /\ UNCHANGED owed

\* cancel(), its locked part; the listeners of a parked job are told after it.
CancelJob(j) ==
  /\ Live(j)
  /\ owed' = IF job[j].parked THEN owed \cup {j} ELSE owed
  /\ job' = [job EXCEPT ![j].parked = FALSE, ![j].paused = FALSE,
                        ![j].cancelled = TRUE, ![j].status = "cancelled"]

Cancel(j) ==
  /\ Request
  /\ CancelJob(j)
  /\ UNCHANGED <<file, backlog, thread, resubmit, sweep, batch, heard>>
  /\ UNCHANGED slotVars

\* cancel(), after the lock.
TellOrphan(j) ==
  /\ j \in owed
  /\ owed' = owed \ {j}
  /\ Notify(j)
  /\ UNCHANGED <<backlog, thread, resubmit, sweep, calls>>
  /\ UNCHANGED jobVars /\ UNCHANGED slotVars

Pausable(j) ==
  j \in Episodes /\ job[j].listed /\ job[j].status = "queued" /\ ~job[j].paused

PauseBatch ==
  /\ calls.requests < MaxRequests /\ calls.pauses < MaxPauses
  /\ calls' = [requests |-> calls.requests + 1, pauses |-> calls.pauses + 1]
  /\ \E j \in Jobs : Pausable(j)
  /\ job' = [j \in Jobs |->
       IF Pausable(j) THEN [job[j] EXCEPT !.paused = TRUE, !.status = "paused"] ELSE job[j]]
  /\ UNCHANGED <<file, backlog, thread, resubmit, owed, sweep, batch, heard>>
  /\ UNCHANGED slotVars

\* Mutants of ResumeBatch: every paused job is submitted again, and none is.
ResumeTwice ==
  LET held == {j \in Episodes : job[j].listed /\ job[j].status = "paused"} IN
  /\ held # {}
  /\ resubmit' = resubmit \cup held
  /\ job' = [j \in Jobs |->
       IF j \in held
       THEN [job[j] EXCEPT !.paused = FALSE, !.status = "queued", !.parked = FALSE]
       ELSE job[j]]
  /\ UNCHANGED <<file, backlog, thread, owed, sweep, batch, heard, calls>>
  /\ UNCHANGED slotVars
ResumeWithoutThread ==
  LET held == {j \in Episodes : job[j].listed /\ job[j].status = "paused"} IN
  /\ held # {}
  /\ job' = [j \in Jobs |->
       IF j \in held
       THEN [job[j] EXCEPT !.paused = FALSE, !.status = "queued", !.parked = FALSE]
       ELSE job[j]]
  /\ UNCHANGED <<file, backlog, thread, resubmit, owed, sweep, batch, heard, calls>>
  /\ UNCHANGED slotVars

\* resume_batch(), its locked part; the parked ones need a thread again.
ResumeBatch ==
  LET held == {j \in Episodes : job[j].listed /\ job[j].status = "paused"} IN
  /\ held # {}
  /\ resubmit' = resubmit \cup {j \in held : job[j].parked}
  /\ job' = [j \in Jobs |->
       IF j \in held
       THEN [job[j] EXCEPT !.paused = FALSE, !.status = "queued", !.parked = FALSE]
       ELSE job[j]]
  /\ UNCHANGED <<file, backlog, thread, owed, sweep, batch, heard, calls>>
  /\ UNCHANGED slotVars

Resubmit(j) ==
  /\ j \in resubmit
  /\ resubmit' = resubmit \ {j}
  /\ backlog' = Append(backlog, j)
  /\ UNCHANGED <<thread, owed, sweep, batch, heard, calls>>
  /\ UNCHANGED jobVars /\ UNCHANGED slotVars

\* Mutant of Silence: the batch is not told.
SilenceNobody ==
  /\ Request
  /\ sweep.step = "none"
  /\ batch.state # "none"
  /\ sweep' = [NoSweep EXCEPT !.step = "silenced"]
  /\ UNCHANGED <<backlog, thread, resubmit, owed, batch, heard>>
  /\ UNCHANGED jobVars /\ UNCHANGED slotVars

\* The endpoint: with delete_files the batch is silenced before anything else.
Silence ==
  /\ Request
  /\ sweep.step = "none"
  /\ batch.state # "none"
  /\ batch' = IF batch.state = "open" THEN [batch EXCEPT !.silent = TRUE] ELSE batch
  /\ sweep' = [NoSweep EXCEPT !.step = "silenced"]
  /\ UNCHANGED <<backlog, thread, resubmit, owed, heard>>
  /\ UNCHANGED jobVars /\ UNCHANGED slotVars

\* cancel_batch(), its locked part: every episode not over yet is marked, and the
\* running ones will be cancelled last.
CancelBatch(delete) ==
  LET waiting == SelectSeq(BatchJobs, LAMBDA j : Live(j) /\ job[j].status # "running")
      running == SelectSeq(BatchJobs, LAMBDA j : Live(j) /\ job[j].status = "running")
      done == {j \in Episodes : delete /\ job[j].listed /\ job[j].status = "done"}
  IN
  /\ \/ delete /\ sweep.step = "silenced" /\ UNCHANGED calls
     \/ ~delete /\ sweep.step = "none" /\ batch.state # "none" /\ Request
  /\ job' = [j \in Jobs |->
       IF j \in Episodes /\ Live(j) THEN [job[j] EXCEPT !.purge = delete] ELSE job[j]]
  /\ sweep' = [step |-> "cancelling", todo |-> waiting \o running, finished |-> done]
  /\ UNCHANGED <<file, backlog, thread, resubmit, owed, batch, heard>> /\ UNCHANGED slotVars

\* cancel() one after another; one that is over by now is skipped.
SweepCancel ==
  /\ sweep.todo # <<>>
  /\ sweep' = [sweep EXCEPT !.todo = Tail(@)]
  /\ \/ CancelJob(Head(sweep.todo))
     \/ ~Live(Head(sweep.todo)) /\ UNCHANGED <<job, owed>>
  /\ UNCHANGED <<file, backlog, thread, resubmit, batch, heard, calls>> /\ UNCHANGED slotVars

\* A finished episode leaves the library, the one after the other in any order.
SweepRemove ==
  /\ sweep.todo = <<>>
  /\ \E j \in sweep.finished :
       /\ file' = file \ {j}
       /\ job' = [job EXCEPT ![j].status = "cancelled"]
       /\ sweep' = [sweep EXCEPT !.finished = @ \ {j}]
  /\ UNCHANGED <<backlog, thread, resubmit, owed, batch, heard, calls>> /\ UNCHANGED slotVars

SweepEnd ==
  /\ sweep.step = "cancelling" /\ sweep.todo = <<>> /\ sweep.finished = {}
  /\ sweep' = NoSweep
  /\ UNCHANGED <<backlog, thread, resubmit, owed, batch, heard, calls>>
  /\ UNCHANGED jobVars /\ UNCHANGED slotVars

Dismiss(j) ==
  /\ Request
  /\ job[j].listed /\ job[j].status \in Over
  /\ job' = [job EXCEPT ![j].listed = FALSE]
  /\ UNCHANGED <<file, backlog, thread, resubmit, owed, sweep, batch, heard>>
  /\ UNCHANGED slotVars

\* retry(): the failed entry goes and a new job, outside any batch, comes.
Retry(j, new) ==
  /\ Request
  /\ job[j].listed /\ job[j].status = "error"
  /\ new \in SpareJobs /\ job[new].status = "unborn"
  /\ job' = [job EXCEPT ![j].listed = FALSE,
                        ![new] = [NewJob EXCEPT !.status = "queued", !.listed = TRUE]]
  /\ backlog' = Append(backlog, new)
  /\ UNCHANGED <<file, thread, resubmit, owed, sweep, batch, heard>> /\ UNCHANGED slotVars
-----------------------------------------------------------------------------

Worker(t) ==
  \/ Start(t) \/ Granted(t) \/ LeaveLine(t) \/ Refused(t) \/ Park(t)
  \/ Run(t) \/ Land(t) \/ Settle(t) \/ Purge(t) \/ Stop(t) \/ FailAndRetry(t) \/ Fail(t)
  \/ Release(t) \/ Backoff(t) \/ Finish(t)

\* What a request already made goes on to do.
Ongoing ==
  \/ SubmitEpisode \/ AbandonRest
  \/ CancelBatch(TRUE) \/ SweepCancel \/ SweepRemove \/ SweepEnd
  \/ \E j \in Jobs : TellOrphan(j) \/ Resubmit(j)

\* What somebody may ask for.
Asked ==
  \/ RegisterBatch \/ PauseBatch \/ ResumeBatch \/ Silence \/ CancelBatch(FALSE)
  \/ \E j \in Jobs : SubmitSingle(j) \/ Cancel(j) \/ Dismiss(j)
  \/ \E j, new \in Jobs : Retry(j, new)

Next == (\E t \in Threads : Worker(t)) \/ Ongoing \/ Asked

\* A thread that can go on does so in the end - its download finishes, fails or
\* stops - and a request that was made is carried through.
Fairness ==
  /\ \A t \in Threads : WF_vars(Worker(t))
  /\ WF_vars(SubmitEpisode \/ AbandonRest)
  /\ WF_vars(CancelBatch(TRUE) \/ SweepCancel \/ SweepRemove \/ SweepEnd)
  /\ \A j \in Jobs : WF_vars(TellOrphan(j)) /\ WF_vars(Resubmit(j))

Spec == Init /\ [][Next]_vars
FairSpec == Spec /\ Fairness
-----------------------------------------------------------------------------

\* The threads that carry job j, leaving out one that only has its listeners to tell.
CarriedBy(j) == {t \in Threads : ~At(t, "idle") /\ ~At(t, "finish") /\ thread[t].job = j}

\* The places that would still run job j: calls in the executor's queue, threads, a
\* resume about to submit it, and the call it keeps while it is parked.
Carriers(j) ==
  {<<"executor", i>> : i \in {k \in 1..Len(backlog) : backlog[k] = j}}
    \cup {<<"thread", t>> : t \in CarriedBy(j)}
    \cup (IF j \in resubmit THEN {<<"resume", 0>>} ELSE {})
    \cup (IF job[j].parked THEN {<<"parked", 0>>} ELSE {})

\* No job is lost and none runs twice at once: whatever pauses, resumes and
\* cancels come in between, a job is carried at most once, and one that is not over
\* exactly once.
CarriedOnce ==
  \A j \in Jobs :
    /\ Cardinality(Carriers(j)) <= 1
    /\ job[j].status \in {"queued", "paused", "running"} => Carriers(j) # {}

\* A job whose files are to go leaves none behind, whether its last bytes landed
\* before or after it was marked.
PurgedLeavesNoFile ==
  \A j \in Jobs : job[j].purge /\ Carriers(j) = {} => j \notin file

\* "makes every path notify exactly once" (_run_download): no job is reported
\* twice, and none before it is over.  With pauses the code breaks this: see the
\* README.
ReportedOnceWhenOver ==
  \A j \in Jobs : Len(heard[j]) <= 1 /\ ToSet(heard[j]) \subseteq Over

\* A batch closes exactly when every episode submitted has been counted once and
\* no other is to come.
BatchClosesOnTime ==
  batch.state = "closed" <=>
    /\ batch.next > Len(BatchJobs)
    /\ \A j \in Episodes : job[j].status # "unborn" => Len(heard[j]) = 1
    /\ batch.state # "none"

\* "the summary would count as scaricati episodes no longer in the library"
\* (silence): a summary that is sent counts as done only what is there.
SummaryIsTrue ==
  [][ batch'.announced /\ ~batch.announced
        => \A j \in Episodes : "done" \in ToSet(heard'[j]) => j \in file' ]_vars

\* The slots are handed out as FifoSlots promises, through pauses and retries.
Slots == INSTANCE FifoSlots WITH
  Callers <- Jobs,
  Limits <- {Limit},
  limit <- Limit,
  holders <- {thread[t].job : t \in {u \in Threads : thread[u].step \in HoldingSteps}}
SlotsKeepTheirPromise == Slots!Spec

\* Every job submitted is over in the end, out of the executor and reported ("leaving
\* anything counting completions waiting forever" is what must not happen), or it is parked.
Settled(j) == job[j].status \in Over /\ Carriers(j) = {} /\ heard[j] # <<>>
EveryJobSettles == \A j \in Jobs : job[j].listed ~> (Settled(j) \/ job[j].parked)

\* A paused job "gives up its place in the line and its executor thread".
PausedGivesUpItsThread ==
  \A j \in Jobs : job[j].paused ~> (CarriedBy(j) = {} \/ ~job[j].paused)
=============================================================================
