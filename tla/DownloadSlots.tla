---------------------------- MODULE DownloadSlots ----------------------------
(***************************************************************************)
(* class DownloadSlots of app/jobs.py: a monitor (one lock, one condition  *)
(* variable) that hands out at most limit slots in arrival order.          *)
(*                                                                         *)
(* acquire() has two critical sections with a callback between them: the   *)
(* first puts the job in the line, the second tests, sleeps and tests      *)
(* again.  A thread asleep in cond.wait() does nothing until a notify_all  *)
(* turns "asleep" into "joined", so a notification the code forgot is a    *)
(* job that waits for ever here as it would in the program.                *)
(*                                                                         *)
(* The flags paused and cancel_event belong to the job manager, which sets *)
(* them under its own lock and calls wake() afterwards: between the two    *)
(* steps a wake is owed.  resume_batch() clears paused and calls no wake().*)
(*                                                                         *)
(* A waiter is named by its job: one thread acquires for a job at a time.  *)
(***************************************************************************)
EXTENDS Integers, FiniteSets, Lines

CONSTANTS Jobs,         \* the jobs that ask for a slot
          Limits,       \* the values of max_concurrent_downloads tried
          MaxTickets    \* bound: how many times acquire() is called in all

ASSUME JobsAssumption == IsFiniteSet(Jobs)
ASSUME LimitsAssumption == Limits \subseteq Nat \ {0}
ASSUME TicketsAssumption == MaxTickets \in Nat

VARIABLES
  limit,      \* _limit
  busy,       \* _busy
  line,       \* _line, the deque of waiting jobs
  tickets,    \* _tickets, the last ticket given out
  queueSeq,   \* job.queue_seq, 0 for None
  at,         \* where the thread of the job is in acquire() .. release()
  paused,     \* job.paused
  cancelled,  \* job.cancel_event.is_set()
  wakeOwed    \* a flag was set and the wake() that follows it has not run yet

slotVars == <<limit, busy, line, tickets, queueSeq, at>>
flagVars == <<paused, cancelled, wakeOwed>>
vars == <<limit, busy, line, tickets, queueSeq, at, paused, cancelled, wakeOwed>>

Places == {"out", "joined", "asleep", "holding"}

Waiting == {j \in Jobs : at[j] \in {"joined", "asleep"}}
Holding == {j \in Jobs : at[j] = "holding"}

\* cond.notify_all: every sleeper goes back to test its condition.
NotifyAll(places) ==
  [j \in Jobs |-> IF places[j] = "asleep" THEN "joined" ELSE places[j]]

\* Mutant of Turn: an off-by-one in the comparison with the limit.
TurnWhenFull(j) == line # <<>> /\ Head(line) = j /\ busy <= limit

\* The loop condition of acquire(), negated: it is j's turn.
Turn(j) == line # <<>> /\ Head(line) = j /\ busy < limit

Init ==
  /\ limit \in Limits
  /\ busy = 0
  /\ line = <<>>
  /\ tickets = 0
  /\ queueSeq = [j \in Jobs |-> 0]
  /\ at = [j \in Jobs |-> "out"]
  /\ paused = [j \in Jobs |-> FALSE]
  /\ cancelled = [j \in Jobs |-> FALSE]
  /\ wakeOwed = FALSE

-----------------------------------------------------------------------------
(* acquire() *)

\* First critical section: a paused job is turned away with no ticket (a
\* stuttering step), any other takes a ticket and the end of the line.
Enter(j) ==
  /\ at[j] = "out"
  /\ ~paused[j]
  /\ tickets < MaxTickets
  /\ tickets' = tickets + 1
  /\ queueSeq' = [queueSeq EXCEPT ![j] = tickets + 1]
  /\ line' = Append(line, j)
  /\ at' = [at EXCEPT ![j] = "joined"]
  /\ UNCHANGED <<limit, busy>> /\ UNCHANGED flagVars

\* Mutants of LeaveLine: popleft() for remove(), and no notify_all().
LeaveFromTheHead(j, place) ==
  /\ line' = Tail(line)
  /\ queueSeq' = [queueSeq EXCEPT ![j] = 0]
  /\ at' = [NotifyAll(at) EXCEPT ![j] = place]
LeaveSilently(j, place) ==
  /\ line' = Without(line, j)
  /\ queueSeq' = [queueSeq EXCEPT ![j] = 0]
  /\ at' = [at EXCEPT ![j] = place]

\* The finally clause: off the line, no ticket, and everyone looks again.
LeaveLine(j, place) ==
  /\ line' = Without(line, j)
  /\ queueSeq' = [queueSeq EXCEPT ![j] = 0]
  /\ at' = [NotifyAll(at) EXCEPT ![j] = place]

\* The test finds a slot and no flag: return True.
Take(j) ==
  /\ at[j] = "joined"
  /\ Turn(j)
  /\ ~cancelled[j] /\ ~paused[j]
  /\ busy' = busy + 1
  /\ LeaveLine(j, "holding")
  /\ UNCHANGED <<limit, tickets>> /\ UNCHANGED flagVars

\* Mutant of Quit: the slot is counted before the flags are tested.
QuitKeepingASlot(j) ==
  /\ at[j] = "joined"
  /\ cancelled[j] \/ paused[j]
  /\ LeaveLine(j, "out")
  /\ busy' = busy + 1
  /\ UNCHANGED <<limit, tickets>> /\ UNCHANGED flagVars

\* The test finds the job cancelled or paused, its turn or not: return False.
Quit(j) ==
  /\ at[j] = "joined"
  /\ cancelled[j] \/ paused[j]
  /\ LeaveLine(j, "out")
  /\ UNCHANGED <<limit, busy, tickets>> /\ UNCHANGED flagVars

\* The test finds neither: cond.wait().
Sleep(j) ==
  /\ at[j] = "joined"
  /\ ~Turn(j)
  /\ ~cancelled[j] /\ ~paused[j]
  /\ at' = [at EXCEPT ![j] = "asleep"]
  /\ UNCHANGED <<limit, busy, line, tickets, queueSeq>> /\ UNCHANGED flagVars

Test(j) == Take(j) \/ Quit(j) \/ Sleep(j)

-----------------------------------------------------------------------------
(* release(), resize() and wake() *)

\* Mutants of Release: the slot is given back twice, and nobody is told.
ReleaseTwice(j) ==
  /\ at[j] = "holding"
  /\ busy' = busy - 2
  /\ at' = [NotifyAll(at) EXCEPT ![j] = "out"]
  /\ UNCHANGED <<limit, line, tickets, queueSeq>> /\ UNCHANGED flagVars
ReleaseSilently(j) ==
  /\ at[j] = "holding"
  /\ busy' = busy - 1
  /\ at' = [at EXCEPT ![j] = "out"]
  /\ UNCHANGED <<limit, line, tickets, queueSeq>> /\ UNCHANGED flagVars

Release(j) ==
  /\ at[j] = "holding"
  /\ busy' = busy - 1
  /\ at' = [NotifyAll(at) EXCEPT ![j] = "out"]
  /\ UNCHANGED <<limit, line, tickets, queueSeq>> /\ UNCHANGED flagVars

Resize(n) ==
  /\ limit' = n
  /\ at' = NotifyAll(at)
  /\ UNCHANGED <<busy, line, tickets, queueSeq>> /\ UNCHANGED flagVars

Wake ==
  /\ wakeOwed
  /\ wakeOwed' = FALSE
  /\ at' = NotifyAll(at)
  /\ UNCHANGED <<limit, busy, line, tickets, queueSeq, paused, cancelled>>

-----------------------------------------------------------------------------
(* The job manager's half: it sets the flags, then calls wake(). *)

Cancel(j) ==
  /\ cancelled' = [cancelled EXCEPT ![j] = TRUE]
  /\ paused' = [paused EXCEPT ![j] = FALSE]
  /\ wakeOwed' = TRUE
  /\ UNCHANGED slotVars

\* pause_batch() also takes the number away.  Which jobs it may pause is the job
\* manager's business; the monitor must stand any.
Pause(j) ==
  /\ ~paused[j]
  /\ paused' = [paused EXCEPT ![j] = TRUE]
  /\ queueSeq' = [queueSeq EXCEPT ![j] = 0]
  /\ wakeOwed' = TRUE
  /\ UNCHANGED <<limit, busy, line, tickets, at, cancelled>>

Resume(j) ==
  /\ paused[j]
  /\ paused' = [paused EXCEPT ![j] = FALSE]
  /\ UNCHANGED <<cancelled, wakeOwed>> /\ UNCHANGED slotVars

Next ==
  \/ \E j \in Jobs : Enter(j) \/ Take(j) \/ Quit(j) \/ Sleep(j) \/ Release(j)
  \/ \E j \in Jobs : Cancel(j) \/ Pause(j) \/ Resume(j)
  \/ \E n \in Limits : Resize(n)
  \/ Wake

\* A thread that can run is eventually scheduled, and whoever sets a flag goes
\* on to wake the waiters.
Scheduling == (\A j \in Jobs : WF_vars(Test(j))) /\ WF_vars(Wake)

\* A download ends: its connections have timeouts and a stalled one is aborted.
DownloadsEnd == \A j \in Jobs : WF_vars(Release(j))

Spec == Init /\ [][Next]_vars
FairSpec == Spec /\ Scheduling    \* and downloads that may never end
-----------------------------------------------------------------------------

TypeOK ==
  /\ limit \in Limits
  /\ busy \in 0..Cardinality(Jobs)
  /\ line \in Seq(Jobs)
  /\ tickets \in 0..MaxTickets
  /\ queueSeq \in [Jobs -> 0..MaxTickets]
  /\ at \in [Jobs -> Places]
  /\ paused \in [Jobs -> BOOLEAN]
  /\ cancelled \in [Jobs -> BOOLEAN]
  /\ wakeOwed \in BOOLEAN

\* The counter _busy is the number of threads between a successful acquire()
\* and its release(): no path loses a slot or gives one back twice.
SlotAccounting == busy = Cardinality(Holding)

\* The line holds every waiting job once, and nothing else.
LineIsTheWaiters ==
  /\ IsInjective(line)
  /\ ToSet(line) = Waiting

\* No lost wake-up: a thread asleep in cond.wait() has nothing to wake for,
\* unless the wake() of the flag just set on its job is still to come.
NoMissedWakeup ==
  \A j \in Jobs : at[j] = "asleep" =>
    /\ ~Turn(j)
    /\ cancelled[j] \/ paused[j] => wakeOwed

\* While downloads end, every waiter gets its slot, or leaves because it was paused
\* or cancelled.
NoStarvation == DownloadsEnd => \A j \in Jobs : j \in Waiting ~> j \notin Waiting

\* "A waiter leaves the line as soon as its job is cancelled instead of holding
\* its place until a slot frees up": it leaves even if no slot ever does.
CancelledLeaves == \A j \in Jobs : j \in Waiting /\ cancelled[j] ~> j \notin Waiting

\* Nobody is left in the line: neither who waits for a slot, nor who has given it up.
WaitersLeave == NoStarvation /\ CancelledLeaves

\* The monitor keeps the promise of FifoSlots.
Fifo == INSTANCE FifoSlots WITH Callers <- Jobs, holders <- Holding
KeepsThePromise == Fifo!Spec
=============================================================================
