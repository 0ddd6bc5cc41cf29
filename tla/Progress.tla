------------------------------- MODULE Progress -------------------------------
(***************************************************************************)
(* The progress of one download: the bar that its segment threads update   *)
(* (app/progress.py), the factory that carries bytes from one phase to the *)
(* next and is renewed at each attempt (app/jobs.py), and the stream on    *)
(* which the frames reach the open pages (app/routers/progress.py).        *)
(*                                                                         *)
(* Every thread has one segment a phase.  A frame is abstracted to its     *)
(* count and its bytes; what is sent to the pages to a serial number.      *)
(* Left out: speed, time left and the estimate of the size.                *)
(***************************************************************************)
EXTENDS Integers, Sequences, FiniteSets

CONSTANTS Threads, Pages, Phases, Attempts, QueueSize

VARIABLES
  attempt, phase,
  bar,       \* n, _bytes and prior_bytes of the phase's WebProgressBar
  thread,    \* how far each thread is with its segment and its frame
  progress,  \* job.progress
  sent,      \* how many events were broadcast
  page,      \* each page's queue, and the last event it has read; NotOpen
  wire,      \* history: the bytes that came in during this attempt
  full       \* history: whether a frame of this phase said that all is there

vars == <<attempt, phase, bar, thread, progress, sent, page, wire, full>>

Total == Cardinality(Threads)
NoFrame == [n |-> 0, bytes |-> 0]
Loading == [at |-> "loading", frame |-> NoFrame]
NotOpen == [open |-> FALSE, queue |-> <<>>, read |-> 0]
NewBar(prior) == [n |-> 0, bytes |-> 0, prior |-> prior]
BytesDone(b) == b.prior + b.bytes

Init ==
  /\ attempt = 1 /\ phase = 1
  /\ bar = NewBar(0)
  /\ thread = [s \in Threads |-> Loading]
  /\ progress = NoFrame
  /\ sent = 0 /\ page = [p \in Pages |-> NotOpen]
  /\ wire = 0 /\ full = FALSE

-----------------------------------------------------------------------------
(* Segment threads *)

Frame(b) == [n |-> b.n, bytes |-> BytesDone(b)]

\* update(), which holds the lock: a frame is built when the last segment is in, and
\* otherwise when the last one is old enough.
Counted(s, b, size) ==
  /\ bar' = b
  /\ wire' = wire + size
  /\ \/ thread' = [thread EXCEPT ![s] = [at |-> "writing", frame |-> Frame(b)]]
     \/ b.n < Total /\ thread' = [thread EXCEPT ![s].at = "over"]

\* Mutant of Update: without the lock, what a thread adds is lost to the sum that another
\* one had begun before.
UpdateUnlocked(s) ==
  /\ thread[s].at = "loading"
  /\ \E size \in 1..2, lost \in BOOLEAN :
       Counted(s, IF lost THEN bar ELSE [bar EXCEPT !.n = @ + 1, !.bytes = @ + size], size)
  /\ UNCHANGED <<attempt, phase, progress, sent, page, full>>

Update(s) ==
  /\ thread[s].at = "loading"
  /\ \E size \in 1..2 :
       Counted(s, [bar EXCEPT !.n = @ + 1, !.bytes = @ + size], size)
  /\ UNCHANGED <<attempt, phase, progress, sent, page, full>>

\* on_event(), with the lock released: frames of two threads may pass each other.
Write(s) ==
  /\ thread[s].at = "writing"
  /\ progress' = thread[s].frame
  /\ full' = (full \/ thread[s].frame.n = Total)
  /\ thread' = [thread EXCEPT ![s].at = "sending"]
  /\ UNCHANGED <<attempt, phase, bar, sent, page, wire>>

\* Mutant of Pushed: an event is queued whether it fits or not.
PushedAlways(queue, event) == Append(queue, event)

\* _fanout(): of a queue that is full the oldest event is dropped.
Pushed(queue, event) ==
  Append(IF Len(queue) < QueueSize THEN queue ELSE Tail(queue), event)

Broadcast(s) ==
  /\ thread[s].at = "sending"
  /\ sent' = sent + 1
  /\ page' = [p \in Pages |-> IF page[p].open
                              THEN [page[p] EXCEPT !.queue = Pushed(@, sent + 1)] ELSE page[p]]
  /\ thread' = [thread EXCEPT ![s].at = "over"]
  /\ UNCHANGED <<attempt, phase, bar, progress, wire, full>>

\* The segment is given up.
Miss(s) ==
  /\ thread[s].at = "loading" /\ attempt < Attempts
  /\ thread' = [thread EXCEPT ![s].at = "missed"]
  /\ UNCHANGED <<attempt, phase, bar, progress, sent, page, wire, full>>

-----------------------------------------------------------------------------
(* The job *)

AllIn == \A s \in Threads : thread[s].at = "over"

\* factory(): a new bar, that starts where the one before it ended.
NextPhase ==
  /\ AllIn /\ phase < Phases
  /\ phase' = phase + 1
  /\ bar' = NewBar(BytesDone(bar))
  /\ thread' = [s \in Threads |-> Loading] /\ full' = FALSE
  /\ UNCHANGED <<attempt, progress, sent, page, wire>>

Restarts(prior) ==
  /\ \A s \in Threads : thread[s].at \in {"over", "missed"}
  /\ \E s \in Threads : thread[s].at = "missed"
  /\ attempt' = attempt + 1 /\ phase' = 1
  /\ bar' = NewBar(prior)
  /\ thread' = [s \in Threads |-> Loading] /\ full' = FALSE
  /\ progress' = NoFrame /\ wire' = 0
  /\ UNCHANGED <<sent, page>>

\* Mutant of Retry: the next attempt gets the factory of the failed one.
RetryWithItsFactory == Restarts(BytesDone(bar))

\* _run_download(): a new factory, "the failed attempt's must not count toward the new one".
Retry == Restarts(0)

-----------------------------------------------------------------------------
(* Pages *)

\* stream_all_progress(): subscribed before the snapshot is taken.
Open(p) ==
  /\ ~page[p].open
  /\ page' = [page EXCEPT ![p] = [open |-> TRUE, queue |-> <<>>, read |-> sent]]
  /\ UNCHANGED <<attempt, phase, bar, thread, progress, sent, wire, full>>

Read(p) ==
  /\ page[p].queue # <<>>
  /\ page' = [page EXCEPT ![p].read = Head(page[p].queue), ![p].queue = Tail(@)]
  /\ UNCHANGED <<attempt, phase, bar, thread, progress, sent, wire, full>>

Close(p) ==
  /\ page[p].open
  /\ page' = [page EXCEPT ![p] = NotOpen]
  /\ UNCHANGED <<attempt, phase, bar, thread, progress, sent, wire, full>>

Next ==
  \/ \E s \in Threads : Update(s) \/ Write(s) \/ Broadcast(s) \/ Miss(s)
  \/ NextPhase \/ Retry
  \/ \E p \in Pages : Open(p) \/ Read(p) \/ Close(p)

Spec == Init /\ [][Next]_vars
-----------------------------------------------------------------------------

TypeOK ==
  /\ attempt \in 1..Attempts /\ phase \in 1..Phases
  /\ bar.n \in 0..Total /\ bar.bytes >= bar.n
  /\ \A s \in Threads : thread[s].at \in {"loading", "writing", "sending", "over", "missed"}
  /\ \A p \in Pages : Len(page[p].queue) <= QueueSize /\ page[p].read <= sent
  /\ full \in BOOLEAN

\* update() runs on every segment thread at once, and a bar covers one phase: the bytes that
\* are shown are those of this attempt, all its phases together, and none of a failed one.
BytesAreOfThisAttempt ==
  /\ BytesDone(bar) = wire
  /\ \A s \in Threads : thread[s].frame.bytes <= wire

\* However the threads' updates and frames interleave, a phase whose segments are all in
\* has shown that they are.
PhaseShowsItsEnd == AllIn => full

\* "Discarding the oldest event instead": a page that has read all it was sent has seen the
\* last event there was, however slow it has been.
QuietPageIsUpToDate ==
  \A p \in Pages : page[p].open /\ page[p].queue = <<>> => page[p].read = sent
=============================================================================
