------------------------------- MODULE Segments -------------------------------
(***************************************************************************)
(* The download of one stream, from class M3U8_Segments of                 *)
(* app/core/m3u8.py: a pool of workers fetches the segments under the      *)
(* limiter while a watchdog looks for progress; what they gave up on is    *)
(* fetched again one by one; and nothing is joined unless every segment is *)
(* there.                                                                  *)
(*                                                                         *)
(* Left out: bytes, keys and the progress bar, waits and their length (a   *)
(* wait may take any time), and a temporary folder that holds segments     *)
(* already, since each attempt of a job starts with none.                  *)
(***************************************************************************)
EXTENDS AdaptiveLimiter

CONSTANTS
  NumSegments,   \* the playlist
  Workers,       \* the pool
  Main,          \* the thread of the job
  MaxRetry,      \* max_retry, the attempts at one segment
  AbortStreak,   \* FAILURE_ABORT_STREAK
  MaxResizes     \* bound: how often another download brings a new ceiling

Segments == 1..NumSegments

ASSUME SegmentsAssumption == NumSegments \in Nat \ {0}
ASSUME WorkersAssumption == Fetchers = Workers \cup {Main} /\ Main \notin Workers
ASSUME AttemptsAssumption ==
  MaxRetry \in Nat \ {0} /\ AbortStreak \in Nat \ {0} /\ MaxResizes \in Nat

VARIABLES
  main,       \* where download_ts() and join() are
  task,       \* the future of each segment
  fetch,      \* where each thread is in get_req_ts() and after it
  file,       \* the segment files on disk
  failed,     \* _failed_segments
  streak,     \* _failure_streak
  abort,      \* _abort
  timedOut,   \* timeout_event
  cancel,     \* the job's cancel_event
  noticed,    \* cancelled, the local of download_ts()
  resizes     \* bound

passVars == <<task, failed, streak, abort, timedOut, noticed>>
vars == <<limiterVars, main, fetch, file, passVars, cancel, resizes>>

Rest == [step |-> "rest"]
At(step, s, n) == [step |-> step, seg |-> s, attempt |-> n]
Parallel == {"submit", "collect", "drain"}
Ended == {"joined", "error", "cancelled"}

Init ==
  /\ LimiterInit
  /\ main = "submit"
  /\ task = [s \in Segments |-> "new"]
  /\ fetch = [f \in Fetchers |-> Rest]
  /\ file = [s \in Segments |-> "none"]
  /\ failed = {} /\ streak = 0
  /\ abort = FALSE /\ timedOut = FALSE /\ cancel = FALSE /\ noticed = FALSE
  /\ resizes = 0

Go(f, step) == fetch' = [fetch EXCEPT ![f].step = step]

-----------------------------------------------------------------------------
(* get_req_ts(), by any thread *)

Ask(f) ==
  /\ fetch[f].step = "ask"
  /\ Go(f, IF cancel THEN "lost" ELSE "wait")
  /\ UNCHANGED <<limiterVars, main, file, passVars, cancel, resizes>>

\* A place under the limiter, held for the request alone.
Request(f) ==
  /\ fetch[f].step = "wait"
  /\ Take(f)
  /\ Go(f, "flight")
  /\ UNCHANGED <<main, file, passVars, cancel, resizes>>

\* Content, an empty answer, a verdict, or congestion: a retriable status or an exception.
Answer(f) ==
  /\ fetch[f].step = "flight"
  /\ Give(f)
  /\ \E outcome \in {"served", "empty", "lost", "pushed"} : Go(f, outcome)
  /\ UNCHANGED <<main, file, passVars, cancel, resizes>>

Served(f) ==
  /\ fetch[f].step \in {"served", "empty"}
  /\ Reward
  /\ Go(f, IF fetch[f].step = "served" THEN "got" ELSE "lost")
  /\ UNCHANGED <<main, file, passVars, cancel, resizes>>

\* Mutant of PushedBack: one attempt too many.
PushedBackAgain(f) ==
  /\ fetch[f].step = "pushed"
  /\ Penalise
  /\ IF fetch[f].attempt <= MaxRetry /\ ~abort
     THEN fetch' = [fetch EXCEPT ![f] = At("ask", @.seg, @.attempt + 1)]
     ELSE Go(f, "lost")
  /\ UNCHANGED <<main, file, passVars, cancel, resizes>>

\* Another attempt after a wait, unless this was the last or the source is written off.
PushedBack(f) ==
  /\ fetch[f].step = "pushed"
  /\ Penalise
  /\ IF fetch[f].attempt < MaxRetry /\ ~abort
     THEN fetch' = [fetch EXCEPT ![f] = At("ask", @.seg, @.attempt + 1)]
     ELSE Go(f, "lost")
  /\ UNCHANGED <<main, file, passVars, cancel, resizes>>

-----------------------------------------------------------------------------
(* save_ts(), by the workers *)

FirstOf(status, s) == task[s] = status /\ \A r \in 1..(s - 1) : task[r] # status

Start(w) ==
  /\ fetch[w] = Rest
  /\ \E s \in Segments :
       /\ FirstOf("queued", s)
       /\ IF cancel \/ abort
          THEN task' = [task EXCEPT ![s] = "over"] /\ UNCHANGED fetch
          ELSE /\ task' = [task EXCEPT ![s] = "running"]
               /\ fetch' = [fetch EXCEPT ![w] = At("ask", s, 1)]
  /\ UNCHANGED <<limiterVars, main, file, failed, streak, abort, timedOut, noticed,
                 cancel, resizes>>

\* _write_ts() and _record_success(), or an exception of the former (a key that does not
\* fit, a full disk), which leaves a file that is not whole and is only logged.
Save(w) ==
  LET s == fetch[w].seg IN
  /\ fetch[w].step = "got" /\ w \in Workers
  /\ \/ file' = [file EXCEPT ![s] = "whole"] /\ streak' = 0
     \/ file' = [file EXCEPT ![s] = "torn"] /\ UNCHANGED streak
  /\ task' = [task EXCEPT ![s] = "over"]
  /\ fetch' = [fetch EXCEPT ![w] = Rest]
  /\ UNCHANGED <<limiterVars, main, failed, abort, timedOut, noticed, cancel, resizes>>

\* _record_failure(): a run of failures with no success in it writes the source off.
GiveUp(w) ==
  LET s == fetch[w].seg IN
  /\ fetch[w].step = "lost" /\ w \in Workers
  /\ failed' = failed \cup {s}
  /\ streak' = streak + 1
  /\ abort' = (abort \/ streak + 1 >= AbortStreak)
  /\ task' = [task EXCEPT ![s] = "over"]
  /\ fetch' = [fetch EXCEPT ![w] = Rest]
  /\ UNCHANGED <<limiterVars, main, file, timedOut, noticed, cancel, resizes>>

-----------------------------------------------------------------------------
(* download_ts(), by the job's thread *)

Stopped == timedOut \/ abort

Submit ==
  /\ main = "submit"
  /\ \E s \in Segments :
       /\ FirstOf("new", s)
       /\ IF Stopped \/ cancel
          THEN /\ main' = "collect" /\ noticed' = ~Stopped /\ UNCHANGED task
          ELSE /\ task' = [task EXCEPT ![s] = "queued"]
               /\ main' = IF s = NumSegments THEN "collect" ELSE main
               /\ UNCHANGED noticed
  /\ UNCHANGED <<limiterVars, fetch, file, failed, streak, abort, timedOut, cancel, resizes>>

Dropped == [s \in Segments |-> IF task[s] = "queued" THEN "collected" ELSE task[s]]

\* as_completed(): the flags are looked at once per future that is over.
Collect(s) ==
  /\ main = "collect" /\ task[s] = "over"
  /\ IF Stopped \/ cancel
     THEN task' = Dropped /\ noticed' = (noticed \/ ~Stopped) /\ main' = "drain"
     ELSE task' = [task EXCEPT ![s] = "collected"] /\ UNCHANGED <<noticed, main>>
  /\ UNCHANGED <<limiterVars, fetch, file, failed, streak, abort, timedOut, cancel, resizes>>

AllCollected ==
  /\ main = "collect"
  /\ \A s \in Segments : task[s] \in {"new", "collected"}
  /\ main' = "drain"
  /\ UNCHANGED <<limiterVars, fetch, file, passVars, cancel, resizes>>

\* Mutant of Drain: the pool is left without waiting for it.
DrainAtOnce ==
  /\ main = "drain"
  /\ main' = IF noticed THEN "cancelled" ELSE IF Stopped THEN "error" ELSE "retry"
  /\ UNCHANGED <<limiterVars, fetch, file, passVars, cancel, resizes>>

\* The pool waits for what is running, then the watchdog is stopped and the flags decide.
Drain ==
  /\ main = "drain"
  /\ \A s \in Segments : task[s] # "running"
  /\ main' = IF noticed THEN "cancelled" ELSE IF Stopped THEN "error" ELSE "retry"
  /\ UNCHANGED <<limiterVars, fetch, file, passVars, cancel, resizes>>

\* timer(): no progress for as long as it takes.
Watchdog ==
  /\ main \in Parallel
  /\ ~timedOut /\ timedOut' = TRUE
  /\ UNCHANGED <<limiterVars, main, fetch, file, task, failed, streak, abort, noticed,
                 cancel, resizes>>

\* _retry_failed_sequentially(): `streak` and the pool are out of it; what fails again stays in
\* `failed`, which the loop counts down here as what is still to try.
Retry ==
  /\ main = "retry" /\ fetch[Main] = Rest
  /\ \E s \in failed :
       /\ \A r \in failed : s <= r
       /\ IF cancel THEN main' = "cancelled" /\ UNCHANGED fetch
                    ELSE fetch' = [fetch EXCEPT ![Main] = At("ask", s, 1)] /\ UNCHANGED main
  /\ UNCHANGED <<limiterVars, file, passVars, cancel, resizes>>

RetryEnds ==
  LET s == fetch[Main].seg IN
  /\ main = "retry" /\ fetch[Main].step \in {"got", "lost"}
  /\ failed' = failed \ {s}
  /\ fetch' = [fetch EXCEPT ![Main] = Rest]
  /\ \/ fetch[Main].step = "lost" /\ UNCHANGED <<file, main>>
     \/ /\ fetch[Main].step = "got"
        /\ \/ file' = [file EXCEPT ![s] = "whole"] /\ UNCHANGED main
           \/ file' = [file EXCEPT ![s] = "torn"] /\ main' = "error"
  /\ UNCHANGED <<limiterVars, task, streak, abort, timedOut, noticed, cancel, resizes>>

\* Mutant of Missing: the bookkeeping of the parallel pass in place of the disk.
MissingByTheBooks == failed

\* _missing_segments(), from the names in the folder.
Missing == {s \in Segments : file[s] = "none"}

\* _require_every_segment() at the end of download_ts().
Require ==
  /\ main = "retry" /\ fetch[Main] = Rest /\ failed = {}
  /\ main' = IF Missing = {} THEN "join" ELSE "error"
  /\ UNCHANGED <<limiterVars, fetch, file, passVars, cancel, resizes>>

\* join(): the flag and the files once more, then ffmpeg, which may fail.
Join ==
  /\ main = "join"
  /\ \/ main' = IF cancel THEN "cancelled" ELSE IF Missing = {} THEN "joined" ELSE "error"
     \/ ~cancel /\ main' = "error"
  /\ UNCHANGED <<limiterVars, fetch, file, passVars, cancel, resizes>>

-----------------------------------------------------------------------------

Cancel ==
  /\ ~cancel /\ main \notin Ended
  /\ cancel' = TRUE
  /\ UNCHANGED <<limiterVars, main, fetch, file, passVars, resizes>>

\* segment_budget(), by another download.
NewCeiling ==
  /\ resizes < MaxResizes /\ resizes' = resizes + 1
  /\ \E ceiling \in Ceilings : Resize(ceiling)
  /\ UNCHANGED <<main, fetch, file, passVars, cancel>>

CoolDown == Cool /\ UNCHANGED <<main, fetch, file, passVars, cancel, resizes>>

Fetching(f) ==
  \/ Ask(f) \/ Request(f) \/ Answer(f) \/ Served(f) \/ PushedBack(f)

Working(w) == Start(w) \/ Save(w) \/ GiveUp(w)

MainSteps ==
  \/ Submit \/ AllCollected \/ Drain \/ Retry \/ RetryEnds \/ Require \/ Join
  \/ \E s \in Segments : Collect(s)

Next ==
  \/ \E f \in Fetchers : Fetching(f)
  \/ \E w \in Workers : Working(w)
  \/ MainSteps \/ Watchdog \/ Cancel \/ NewCeiling \/ CoolDown

\* Every thread that can go on does: a request has a timeout, and so has the wait for a
\* place.
Fairness ==
  /\ WF_vars(MainSteps)
  /\ \A f \in Fetchers : WF_vars(Fetching(f))
  /\ \A w \in Workers : WF_vars(Working(w))

Spec == Init /\ [][Next]_vars
FairSpec == Spec /\ Fairness
-----------------------------------------------------------------------------

TypeOK ==
  /\ maximum \in Ceilings /\ AllowanceInBounds /\ served \in Nat /\ cooling \in BOOLEAN
  /\ inFlight = {f \in Fetchers : fetch[f].step = "flight"}
  /\ main \in Parallel \cup {"retry", "join"} \cup Ended
  /\ task \in [Segments -> {"new", "queued", "running", "over", "collected"}]
  /\ fetch \in [Fetchers -> {Rest} \cup
       [step : {"ask", "wait", "flight", "served", "empty", "pushed", "got", "lost"},
        seg : Segments, attempt : 1..MaxRetry]]
  /\ file \in [Segments -> {"none", "whole", "torn"}]
  /\ failed \subseteq Segments /\ streak \in 0..NumSegments
  /\ abort \in BOOLEAN /\ timedOut \in BOOLEAN
  /\ cancel \in BOOLEAN /\ noticed \in BOOLEAN
  /\ resizes \in 0..MaxResizes

\* "Refuse to hand on an incomplete set of segments" (_require_every_segment): whatever
\* was never submitted, given up on, aborted, timed out or cancelled, what is joined has
\* a file for every segment of the playlist.
JoinedIsComplete == main = "joined" => \A s \in Segments : file[s] # "none"

\* The second pass asks "later and one request at a time": no worker is still fetching when
\* it begins or when the files are counted and joined, so no file changes under them.
SecondPassIsAlone ==
  main \notin Parallel =>
    /\ \A w \in Workers : fetch[w] = Rest
    /\ inFlight \subseteq {Main}

\* Whatever the source answers and whoever interrupts, a download once begun comes to an end: no
\* thread keeps a place under the limiter and no future is waited for in vain.
DownloadEnds == (\E s \in Segments : task[s] # "new") ~> main \in Ended
=============================================================================
