------------------------------- MODULE Requests ------------------------------
(***************************************************************************)
(* The life of a request, from app/requests: the rows and their guarded    *)
(* transitions (models.py), creation, approval, execution on the           *)
(* resolution pool, cancellation, the job listener and the recovery at     *)
(* startup (service.py), and the approver's correction (router.py).        *)
(*                                                                         *)
(* The row is in SQLite: each UPDATE is a step of its own, committed by    *)
(* itself, and transition() tests the status in its WHERE clause.  What a  *)
(* request asks for - title, episode and tracks - is one value, content,   *)
(* and content_key is the content it was computed from.  The job a request *)
(* starts is kept here by its outcome; the rest of it is JobManager's.     *)
(* Errors of SQLite itself and the notifications sent are left out.        *)
(***************************************************************************)
EXTENDS Integers, FiniteSets

CONSTANTS
  Rows,         \* the requests that may be created
  Contents,     \* what may be asked for
  MaxAsks,      \* bound: how many decisions, corrections and deletions there are
  MaxRestarts   \* bound: how often the panel is restarted, or crashes

ASSUME BoundsAssumption == MaxAsks \in Nat /\ MaxRestarts \in Nat

VARIABLES
  row,        \* jf_request: status, content, content_key, and whether job_id is set
  creating,   \* create_request(): rows whose library check is still to come
  worker,     \* what the resolution pool is doing for each request
  job,        \* the job of each request, in the memory of this session
  stopping,   \* cancel(): rows marked, whose job is still to be cancelled
  editing,    \* edit_request(): what is about to be written, for which row
  library,    \* the contents whose file is in the library
  asks,       \* bound: how much has been asked so far
  restarts,   \* bound: how many restarts there have been
  unheard     \* history: rows whose job was dismissed before its id was written

vars == <<row, creating, worker, job, stopping, editing, library, asks, restarts, unheard>>

Open == {"pending", "approved", "downloading", "needs_attention"}
Closed == {"completed", "denied", "failed", "cancelled", "available"}

\* ALLOWED_TRANSITIONS
Allowed ==
  [s \in Open |->
    CASE s = "pending" -> {"approved", "denied", "needs_attention", "cancelled", "available"}
      [] s = "approved" -> {"downloading", "needs_attention", "failed", "completed"}
      [] s = "downloading" -> {"completed", "failed", "cancelled"}
      [] s = "needs_attention" -> {"approved", "denied", "cancelled"}]

\* sources_for()
Sources(target) == {s \in Open : target \in Allowed[s]}

NoJob == [state |-> "none"]
Terminal == {"done", "error", "cancelled"}
NoEdit == [step |-> "none"]
Resting == [step |-> "none"]

IsOpen(r) == row[r].status \in Open
May(r, target) == row[r].status \in Sources(target)

\* transition(), for a row whose status allows it.
Moved(r, target) == [row EXCEPT ![r].status = target]

Init ==
  /\ row = [r \in Rows |-> [status |-> "unborn", content |-> "none", key |-> "none",
                            linked |-> FALSE]]
  /\ creating = {}
  /\ worker = [r \in Rows |-> Resting]
  /\ job = [r \in Rows |-> NoJob]
  /\ stopping = {}
  /\ editing = NoEdit
  /\ library \in SUBSET Contents
  /\ asks = 0 /\ restarts = 0
  /\ unheard = {}

\* Somebody asks for something, within the bound.
Ask == asks < MaxAsks /\ asks' = asks + 1

-----------------------------------------------------------------------------
(* create_request() *)

\* Mutant of Create: the key is left for later.
CreateWithoutKey(r, c) ==
  /\ row[r].status = "unborn"
  /\ row' = [row EXCEPT ![r].status = "pending", ![r].content = c]
  /\ creating' = creating \cup {r}
  /\ UNCHANGED <<worker, job, stopping, editing, library, asks, restarts, unheard>>

\* create(): one transaction; an open row with the same key is joined instead,
\* which changes nothing here.
Create(r, c) ==
  /\ row[r].status = "unborn"
  /\ ~\E o \in Rows : IsOpen(o) /\ row[o].key = c
  /\ row' = [row EXCEPT ![r].status = "pending", ![r].content = c, ![r].key = c]
  /\ creating' = creating \cup {r}
  /\ UNCHANGED <<worker, job, stopping, editing, library, asks, restarts, unheard>>

\* "Already downloaded? Then there is nothing to queue."  A check that fails, or a
\* row somebody decided on meanwhile, changes nothing.
CheckLibrary(r) ==
  /\ r \in creating
  /\ creating' = creating \ {r}
  /\ \/ row[r].content \in library /\ May(r, "available") /\ row' = Moved(r, "available")
     \/ UNCHANGED row
  /\ UNCHANGED <<worker, job, stopping, editing, library, asks, restarts, unheard>>

-----------------------------------------------------------------------------
(* approve() and _execute() *)

Approve(r) ==
  /\ Ask
  /\ May(r, "approved")
  /\ row' = Moved(r, "approved")
  /\ worker' = [worker EXCEPT ![r] = [step |-> "queued"]]
  /\ UNCHANGED <<creating, job, stopping, editing, library, restarts, unheard>>

\* _execute_inner(): the row is read once, and resolved as it was read.
Begin(r) ==
  /\ worker[r].step = "queued"
  /\ worker' = [worker EXCEPT ![r] =
       IF row[r].status = "approved" THEN [step |-> "resolve", content |-> row[r].content]
                                     ELSE Resting]
  /\ UNCHANGED <<row, creating, job, stopping, editing, library, asks, restarts, unheard>>

\* _park(): the resolution failed, or anything before the job did.
Park(r) ==
  /\ worker[r].step = "resolve"
  /\ row' = IF May(r, "needs_attention") THEN Moved(r, "needs_attention") ELSE row
  /\ worker' = [worker EXCEPT ![r] = Resting]
  /\ UNCHANGED <<creating, job, stopping, editing, library, asks, restarts, unheard>>

AlreadyThere(r) ==
  /\ worker[r].step = "resolve"
  /\ worker[r].content \in library
  /\ row' = IF May(r, "completed") THEN Moved(r, "completed") ELSE row
  /\ worker' = [worker EXCEPT ![r] = Resting]
  /\ UNCHANGED <<creating, job, stopping, editing, library, asks, restarts, unheard>>

\* resolution.submit(): the job may run, and end, before its id is written.
Submit(r) ==
  /\ worker[r].step = "resolve"
  /\ worker[r].content \notin library
  /\ job' = [job EXCEPT ![r] =
       [state |-> "live", content |-> worker[r].content,
        stop |-> FALSE, told |-> FALSE, listed |-> TRUE]]
  /\ worker' = [worker EXCEPT ![r].step = "claim"]
  /\ UNCHANGED <<row, creating, stopping, editing, library, asks, restarts, unheard>>

\* "Claiming the work and recording the job is one atomic step"; whoever finds the
\* row no longer approved stops the job.
Claim(r) ==
  /\ worker[r].step = "claim"
  /\ IF May(r, "downloading")
     THEN /\ row' = [row EXCEPT ![r].status = "downloading", ![r].linked = TRUE]
          /\ worker' = [worker EXCEPT ![r].step = "recheck"]
          /\ UNCHANGED stopping
     ELSE /\ stopping' = stopping \cup {r}
          /\ worker' = [worker EXCEPT ![r] = Resting]
          /\ UNCHANGED row
  /\ UNCHANGED <<creating, job, editing, library, asks, restarts, unheard>>

\* on_job_finished(): the row of the job, if its id is written and it downloads.
Outcome(r) ==
  CASE job[r].state = "done" -> "completed"
    [] job[r].state = "error" -> "failed"
    [] OTHER -> "cancelled"    \* stopped, whether its thread has noticed or not

\* Mutant of Heard: the row is written whatever became of it.
HeardAnyway(r) == IF row[r].linked THEN Moved(r, Outcome(r)) ELSE row

Heard(r) ==
  IF row[r].linked /\ row[r].status = "downloading" THEN Moved(r, Outcome(r)) ELSE row

\* The job is on the list with a status that says it is over: one that was told to
\* stop says so at once, though its thread may still be downloading.
JobIsOver(r) ==
  /\ job[r].state # "none" /\ job[r].listed
  /\ job[r].state \in Terminal \/ job[r].stop

\* Mutant of Recheck: the job is not looked at again.
NoRecheck(r) ==
  /\ worker[r].step = "recheck"
  /\ worker' = [worker EXCEPT ![r] = Resting]
  /\ UNCHANGED <<row, creating, job, stopping, editing, library, asks, restarts, unheard>>

\* "a fast failure could have fired the completion listener while get_by_job_id()
\* still found nothing": the job is looked at again.
Recheck(r) ==
  /\ worker[r].step = "recheck"
  /\ row' = IF JobIsOver(r) THEN Heard(r) ELSE row
  /\ worker' = [worker EXCEPT ![r] = Resting]
  /\ UNCHANGED <<creating, job, stopping, editing, library, asks, restarts, unheard>>

-----------------------------------------------------------------------------
(* The job, as the request sees it *)

\* A download that was told to stop may still be in time to finish.
JobEnds(r) ==
  /\ job[r].state = "live"
  /\ \E end \in {"done", "error"} \cup (IF job[r].stop THEN {"cancelled"} ELSE {}) :
       /\ job' = [job EXCEPT ![r].state = end]
       /\ library' = IF end = "done" THEN library \cup {job[r].content} ELSE library
  /\ UNCHANGED <<row, creating, worker, stopping, editing, asks, restarts, unheard>>

JobTells(r) ==
  /\ job[r].state \in Terminal
  /\ ~job[r].told
  /\ job' = [job EXCEPT ![r].told = TRUE]
  /\ row' = Heard(r)
  /\ UNCHANGED <<creating, worker, stopping, editing, library, asks, restarts, unheard>>

\* Somebody stops the job itself, or takes it off the list once it says it is over.
\* Its thread goes on to tell its listeners all the same.
StopJob(r) ==
  /\ Ask
  /\ job[r].state = "live" /\ ~job[r].stop
  /\ job' = [job EXCEPT ![r].stop = TRUE]
  /\ UNCHANGED <<row, creating, worker, stopping, editing, library, restarts, unheard>>

DismissJob(r) ==
  /\ Ask
  /\ JobIsOver(r)
  /\ job' = [job EXCEPT ![r].listed = FALSE]
  /\ unheard' = IF worker[r].step \in {"claim", "recheck"} THEN unheard \cup {r} ELSE unheard
  /\ UNCHANGED <<row, creating, worker, stopping, editing, library, restarts>>

\* A person deletes the file.
LeaveLibrary(c) ==
  /\ Ask
  /\ c \in library
  /\ library' = library \ {c}
  /\ UNCHANGED <<row, creating, worker, job, stopping, editing, restarts, unheard>>

-----------------------------------------------------------------------------
(* deny(), cancel() and edit_request() *)

Deny(r) ==
  /\ Ask
  /\ May(r, "denied")
  /\ row' = Moved(r, "denied")
  /\ UNCHANGED <<creating, worker, job, stopping, editing, library, restarts, unheard>>

\* Mutant of Cancel: the job goes on.
CancelRowOnly(r) ==
  /\ Ask
  /\ May(r, "cancelled")
  /\ row' = Moved(r, "cancelled")
  /\ UNCHANGED <<creating, worker, job, stopping, editing, library, restarts, unheard>>

\* cancel(): first the row ...
Cancel(r) ==
  /\ Ask
  /\ row[r].status # "unborn"
  /\ IF May(r, "cancelled")
     THEN /\ row' = Moved(r, "cancelled")
          /\ stopping' = IF row[r].linked THEN stopping \cup {r} ELSE stopping
     ELSE UNCHANGED <<row, stopping>>
  /\ UNCHANGED <<creating, worker, job, editing, library, restarts, unheard>>

\* ... then its job, which may be over by now.
CancelJob(r) ==
  /\ r \in stopping
  /\ stopping' = stopping \ {r}
  /\ job' = IF job[r].state = "live" THEN [job EXCEPT ![r].stop = TRUE] ELSE job
  /\ UNCHANGED <<row, creating, worker, editing, library, asks, restarts, unheard>>

\* edit_request(): the status is looked at ...
Edit(r, c) ==
  /\ Ask
  /\ editing = NoEdit
  /\ row[r].status = "needs_attention" /\ c # row[r].content
  /\ editing' = [step |-> "update", row |-> r, content |-> c]
  /\ UNCHANGED <<row, creating, worker, job, stopping, library, restarts, unheard>>

\* ... update_fields() writes the correction ...
Update ==
  /\ editing.step = "update"
  /\ row' = [row EXCEPT ![editing.row].content = editing.content]
  /\ editing' = [editing EXCEPT !.step = "rekey"]
  /\ UNCHANGED <<creating, worker, job, stopping, library, asks, restarts, unheard>>

\* ... and rekey() its key, unless the unique index of the open rows refuses it.
Rekey ==
  LET taken == \E o \in Rows \ {editing.row} : IsOpen(o) /\ row[o].key = editing.content IN
  /\ editing.step = "rekey"
  /\ row' = IF IsOpen(editing.row) /\ taken THEN row
            ELSE [row EXCEPT ![editing.row].key = editing.content]
  /\ editing' = NoEdit
  /\ UNCHANGED <<creating, worker, job, stopping, library, asks, restarts, unheard>>

-----------------------------------------------------------------------------
(* The panel stops, at any point, and starts again: what was in memory is gone, and
   reconcile_orphaned_requests() runs before anybody can ask for anything. *)

\* Mutant of Recovered: only the downloads are recovered.
RecoveredDownloads(s) == IF s = "downloading" THEN "failed" ELSE s

\* What becomes of a row nobody works on any more.
Recovered(s) ==
  CASE s = "approved" -> "needs_attention"
    [] s = "downloading" -> "failed"
    [] OTHER -> s

Restart ==
  /\ restarts < MaxRestarts
  /\ restarts' = restarts + 1
  /\ row' = [r \in Rows |-> [row[r] EXCEPT !.status = Recovered(@)]]
  /\ creating' = {} /\ stopping' = {} /\ unheard' = {}
  /\ worker' = [r \in Rows |-> Resting]
  /\ job' = [r \in Rows |-> NoJob]
  /\ editing' = NoEdit
  /\ UNCHANGED <<library, asks>>

Work(r) ==
  \/ Begin(r) \/ Park(r) \/ AlreadyThere(r) \/ Submit(r) \/ Claim(r) \/ Recheck(r)

Next ==
  \/ \E r \in Rows :
       \/ CheckLibrary(r) \/ Approve(r) \/ Work(r)
       \/ JobEnds(r) \/ JobTells(r) \/ StopJob(r) \/ DismissJob(r)
       \/ Deny(r) \/ Cancel(r) \/ CancelJob(r)
       \/ \E c \in Contents : Create(r, c) \/ Edit(r, c)
  \/ Update \/ Rekey \/ Restart
  \/ \E c \in Contents : LeaveLibrary(c)

\* The pool comes to every request, downloads end, and their listeners are called.
Fairness ==
  \A r \in Rows : WF_vars(Work(r)) /\ WF_vars(JobEnds(r)) /\ WF_vars(JobTells(r))

Spec == Init /\ [][Next]_vars
FairSpec == Spec /\ Fairness
-----------------------------------------------------------------------------

RowRecords ==
  [status : Open \cup Closed \cup {"unborn"}, content : Contents \cup {"none"},
   key : Contents \cup {"none"}, linked : BOOLEAN]
JobRecords ==
  [state : {"live"} \cup Terminal, content : Contents,
   stop : BOOLEAN, told : BOOLEAN, listed : BOOLEAN]

RowsOK ==
  /\ row \in [Rows -> RowRecords]
  /\ \A r \in Rows :
       row[r].status # "unborn" => row[r].content \in Contents /\ row[r].key \in Contents
WorkersOK ==
  worker \in [Rows -> {Resting} \cup [step : {"queued"}] \cup
                     [step : {"resolve", "claim", "recheck"}, content : Contents]]
JobsOK == job \in [Rows -> {NoJob} \cup JobRecords]
EditOK == editing \in {NoEdit} \cup [step : {"update", "rekey"}, row : Rows, content : Contents]
SetsOK ==
  /\ creating \subseteq Rows /\ stopping \subseteq Rows /\ unheard \subseteq Rows
  /\ library \subseteq Contents
  /\ asks \in 0..MaxAsks /\ restarts \in 0..MaxRestarts

TypeOK == RowsOK /\ WorkersOK /\ JobsOK /\ EditOK /\ SetsOK

\* An approved request is in the hands of the pool, and a closed or waiting one
\* is not: no row stays approved with nobody to take it on.
ApprovedIsInHand ==
  \A r \in Rows :
    row[r].status = "approved" <=> worker[r].step \in {"queued", "resolve", "claim"}

\* A download runs only for a request that wants it: the one about to be claimed,
\* the one downloading, or one withdrawn whose job is being stopped.
NoStrayDownload ==
  \A r \in Rows :
    job[r].state = "live" /\ ~job[r].stop =>
      \/ row[r].status = "approved" /\ worker[r].step = "claim"
      \/ row[r].status = "downloading" /\ row[r].linked
      \/ r \in stopping

\* A request once closed stays as it was closed, whatever comes late: an answer of
\* the job, a decision, the recovery of a restart.
ClosedStaysClosed ==
  [][ \A r \in Rows : row[r].status \in Closed => row'[r].status = row[r].status ]_vars

\* Nobody is left waiting: an approved request comes back to a person or
\* downloads, and one that downloads is closed - unless its job was taken off the
\* list before the worker had looked at it again.
RequestsMoveOn ==
  \A r \in Rows :
    row[r].status \in {"approved", "downloading"}
      ~> row[r].status \notin {"approved", "downloading"} \/ r \in unheard

\* "While a request is in one of these it holds the content key, so nobody can
\* queue the same thing twice" (models.py): no two open requests ask for the same,
\* but while a correction is being written.  A correction refused for that reason
\* breaks this: see the README.
NobodyQueuesTheSameTwice ==
  editing = NoEdit =>
    \A r, o \in Rows : r # o /\ IsOpen(r) /\ IsOpen(o) => row[r].content # row[o].content
=============================================================================
