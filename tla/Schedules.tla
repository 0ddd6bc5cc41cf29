------------------------------ MODULE Schedules ------------------------------
(***************************************************************************)
(* Downloads scheduled for later: the ScheduleStore of app/schedule.py (a  *)
(* JSON file behind a lock), the jobs app/jobs.py keeps for its entries,   *)
(* the scheduler loop and fire_now() that dispatch them, and the restart   *)
(* that rebuilds the jobs from the file.                                   *)
(*                                                                         *)
(* Whoever fires an entry looks at the job without a lock, and marks it    *)
(* later, under one; the loop and an API thread may do so at once, and a   *)
(* cancel may come in between.  A save rewrites the file in place: while   *)
(* it lasts the store's lock is held, and a crash then leaves a file that  *)
(* the next start cannot read and takes for empty.                         *)
(*                                                                         *)
(* Every operation of the store takes the store's lock, so it waits for the *)
(* save of the one before it to end (~saving).  A save that fails is logged *)
(* and forgotten by the code; such failures are left out.                   *)
(*                                                                         *)
(* A dispatched download is a call in the executor; what happens to it     *)
(* there is the business of JobManager and only its outcome is kept here.  *)
(***************************************************************************)
EXTENDS Integers, FiniteSets

CONSTANTS
  Entries,      \* the scheduled downloads
  MaxRestarts,  \* bound: how often the panel is restarted, or crashes
  MaxRequests   \* bound: how often somebody fires, cancels or dismisses a job

ASSUME BoundsAssumption == MaxRestarts \in Nat /\ MaxRequests \in Nat

VARIABLES
  entry,       \* the store: "absent", "pending" or "fired" for each entry
  linked,      \* the entries whose job_id names the job of this session
  saving,      \* _save() has truncated the file and not written it yet
  due,         \* the entries whose scheduled_at is past
  adding,      \* how far _add_schedule() is with each entry
  job,         \* the DownloadJob of each entry
  firing,      \* what the loop and an API thread in fire_now() are about to do
  calls,       \* calls of each job in the executor, not started
  running,     \* calls of each job that download
  removing,    \* dismiss(): jobs deleted, whose entry is still to be removed
  session,     \* how many restarts there have been
  requests,    \* bound: how many requests
  dispatched,  \* history: the sessions in which each entry was dispatched
  withdrawn,   \* history: entries whose job somebody cancelled while it was scheduled
  revived,     \* history: of these, what a restart has made a job of again
  overdue,     \* history: entries past their time when their job was made
  torn         \* history: a restart found the file half written

storeVars == <<entry, linked, saving>>
runVars == <<calls, running>>
history == <<dispatched, withdrawn, revived, overdue, torn>>
vars == <<entry, linked, saving, due, adding, job, firing, calls, running, removing,
          session, requests, dispatched, withdrawn, revived, overdue, torn>>

Firers == {"loop", "api"}
NoJob == [status |-> "none", listed |-> FALSE, cancelled |-> FALSE]
AtRest == [step |-> "none"]
Over == {"done", "error", "cancelled"}

Init ==
  /\ entry = [e \in Entries |-> "absent"]
  /\ linked = {}
  /\ saving = FALSE
  /\ due = {}
  /\ adding = [e \in Entries |-> "new"]
  /\ job = [e \in Entries |-> NoJob]
  /\ firing = [w \in Firers |-> AtRest]
  /\ calls = [e \in Entries |-> 0]
  /\ running = [e \in Entries |-> 0]
  /\ removing = {}
  /\ session = 0
  /\ requests = 0
  /\ dispatched = [e \in Entries |-> {}]
  /\ withdrawn = {} /\ revived = {}
  /\ overdue = {}
  /\ torn = FALSE

\* Mutant of JobFor: the comparison of scheduled_at with now the wrong way round.
JobForReversed(e) ==
  [status |-> IF e \in due THEN "scheduled" ELSE "queued", listed |-> TRUE, cancelled |-> FALSE]

\* _make_job(): an entry whose time is past gets a job that is "queued".
JobFor(e) ==
  [status |-> IF e \in due THEN "queued" ELSE "scheduled", listed |-> TRUE, cancelled |-> FALSE]

-----------------------------------------------------------------------------
(* The store's file, and time *)

SaveEnds ==
  /\ saving
  /\ saving' = FALSE
  /\ UNCHANGED <<entry, linked, due, adding, job, firing, removing, session, requests>>
  /\ UNCHANGED runVars /\ UNCHANGED history

Elapse(e) ==
  /\ e \notin due
  /\ due' = due \cup {e}
  /\ UNCHANGED <<adding, job, firing, removing, session, requests>>
  /\ UNCHANGED storeVars /\ UNCHANGED runVars /\ UNCHANGED history

-----------------------------------------------------------------------------
(* _add_schedule(): into the store, into _jobs, and the link between them *)

Store(e) ==
  /\ adding[e] = "new" /\ ~saving
  /\ entry' = [entry EXCEPT ![e] = "pending"]
  /\ saving' = TRUE
  /\ adding' = [adding EXCEPT ![e] = "stored"]
  /\ UNCHANGED <<linked, due, job, firing, removing, session, requests>>
  /\ UNCHANGED runVars /\ UNCHANGED history

List(e) ==
  /\ adding[e] = "stored" /\ ~saving
  /\ job' = [job EXCEPT ![e] = JobFor(e)]
  /\ overdue' = IF e \in due THEN overdue \cup {e} ELSE overdue
  /\ adding' = [adding EXCEPT ![e] = "listed"]
  /\ UNCHANGED <<due, firing, removing, session, requests, dispatched, withdrawn, revived, torn>>
  /\ UNCHANGED storeVars /\ UNCHANGED runVars

Link(e) ==
  /\ adding[e] = "listed" /\ ~saving
  /\ linked' = linked \cup {e}
  /\ saving' = TRUE
  /\ adding' = [adding EXCEPT ![e] = "added"]
  /\ UNCHANGED <<entry, due, job, firing, removing, session, requests>>
  /\ UNCHANGED runVars /\ UNCHANGED history

-----------------------------------------------------------------------------
(* Dispatching: _scheduler_loop(), fire_now() and _fire_job() *)

\* One more request, within the bound.
Request == requests < MaxRequests /\ requests' = requests + 1

\* The loop takes a job whose time has come, fire_now() any scheduled one.
Check(w, e) ==
  /\ firing[w] = AtRest
  /\ job[e].listed /\ job[e].status = "scheduled"
  /\ w = "loop" => e \in due
  /\ ~saving /\ entry[e] # "absent"
  /\ firing' = [firing EXCEPT ![w] = [step |-> "fire", entry |-> e]]
  /\ IF w = "api" THEN Request ELSE UNCHANGED requests
  /\ UNCHANGED <<due, adding, job, removing, session>>
  /\ UNCHANGED storeVars /\ UNCHANGED runVars /\ UNCHANGED history

\* Mutant of Fire: the entry is not marked.
FireUnmarked(w) ==
  /\ firing[w].step = "fire" /\ ~saving
  /\ job' = [job EXCEPT ![firing[w].entry].status = "queued"]
  /\ firing' = [firing EXCEPT ![w].step = "submit"]
  /\ UNCHANGED <<due, adding, removing, session, requests>>
  /\ UNCHANGED storeVars /\ UNCHANGED runVars /\ UNCHANGED history

\* _fire_job(), its locked part: whatever the job is by now, it is queued, and its
\* entry, if still there, is marked.
Fire(w) ==
  LET e == firing[w].entry IN
  /\ firing[w].step = "fire" /\ ~saving
  /\ job' = [job EXCEPT ![e].status = "queued"]
  /\ entry' = [entry EXCEPT ![e] = IF @ = "pending" THEN "fired" ELSE @]
  /\ saving' = (entry[e] # "absent")
  /\ firing' = [firing EXCEPT ![w].step = "submit"]
  /\ UNCHANGED <<linked, due, adding, removing, session, requests>>
  /\ UNCHANGED runVars /\ UNCHANGED history

\* ... and then handed to the executor.
Submit(w) ==
  LET e == firing[w].entry IN
  /\ firing[w].step = "submit" /\ ~saving
  /\ calls' = [calls EXCEPT ![e] = @ + 1]
  /\ dispatched' = [dispatched EXCEPT ![e] = @ \cup {session}]
  /\ firing' = [firing EXCEPT ![w] = AtRest]
  /\ UNCHANGED <<due, adding, job, running, removing, session, requests,
                 withdrawn, revived, overdue, torn>>
  /\ UNCHANGED storeVars

\* Mutant of Run: the cancel event is not looked at once a slot is free.
RunAnyway(e) ==
  /\ calls[e] > 0
  /\ calls' = [calls EXCEPT ![e] = @ - 1]
  /\ job' = [job EXCEPT ![e].status = "running"]
  /\ running' = [running EXCEPT ![e] = @ + 1]
  /\ UNCHANGED <<due, adding, firing, removing, session, requests>>
  /\ UNCHANGED storeVars /\ UNCHANGED history

\* A call starts: _attempt() finds the cancel event set, or downloads.
Run(e) ==
  /\ calls[e] > 0
  /\ calls' = [calls EXCEPT ![e] = @ - 1]
  /\ IF job[e].cancelled
     THEN job' = [job EXCEPT ![e].status = "cancelled"] /\ UNCHANGED running
     ELSE /\ job' = [job EXCEPT ![e].status = "running"]
          /\ running' = [running EXCEPT ![e] = @ + 1]
  /\ UNCHANGED <<due, adding, firing, removing, session, requests>>
  /\ UNCHANGED storeVars /\ UNCHANGED history

Finish(e) ==
  /\ running[e] > 0
  /\ running' = [running EXCEPT ![e] = @ - 1]
  /\ \E outcome \in {"done", "error"} \cup (IF job[e].cancelled THEN {"cancelled"} ELSE {}) :
       job' = [job EXCEPT ![e].status = outcome]
  /\ UNCHANGED <<due, adding, firing, calls, removing, session, requests>>
  /\ UNCHANGED storeVars /\ UNCHANGED history

-----------------------------------------------------------------------------
(* cancel() and dismiss() *)

\* The entry of a cancelled job stays in the store, pending if it was.
Cancel(e) ==
  /\ Request
  /\ job[e].listed /\ job[e].status \in {"scheduled", "queued", "running"}
  /\ job' = [job EXCEPT ![e].cancelled = TRUE, ![e].status = "cancelled"]
  /\ IF job[e].status = "scheduled"
     THEN withdrawn' = withdrawn \cup {e} /\ revived' = revived \ {e}
     ELSE UNCHANGED <<withdrawn, revived>>
  /\ UNCHANGED <<due, adding, firing, removing, session, dispatched, overdue, torn>>
  /\ UNCHANGED storeVars /\ UNCHANGED runVars

Dismiss(e) ==
  /\ Request
  /\ job[e].listed /\ job[e].status \in Over
  /\ job' = [job EXCEPT ![e].listed = FALSE]
  /\ removing' = removing \cup {e}
  /\ UNCHANGED <<due, adding, firing, session>>
  /\ UNCHANGED storeVars /\ UNCHANGED runVars /\ UNCHANGED history

\* remove_by_job_id() finds the entry by its link.
Remove(e) ==
  /\ e \in removing /\ ~saving
  /\ removing' = removing \ {e}
  /\ entry' = [entry EXCEPT ![e] = IF e \in linked THEN "absent" ELSE @]
  /\ saving' = (e \in linked /\ entry[e] # "absent")
  /\ UNCHANGED <<linked, due, adding, job, firing, session, requests>>
  /\ UNCHANGED runVars /\ UNCHANGED history

-----------------------------------------------------------------------------
(* The panel stops, at any point, and starts again: _load(), which takes a file it
   cannot read for an empty one, and load_scheduled_from_store(). *)

Restart ==
  LET kept == IF saving THEN [e \in Entries |-> "absent"] ELSE entry
      restored == {e \in Entries : kept[e] = "pending"}
  IN
  /\ session < MaxRestarts
  /\ session' = session + 1
  /\ entry' = kept
  /\ linked' = restored
  /\ saving' = FALSE
  /\ adding' = [e \in Entries |-> IF adding[e] = "new" THEN "new" ELSE "added"]
  /\ job' = [e \in Entries |-> IF e \in restored THEN JobFor(e) ELSE NoJob]
  /\ overdue' = overdue \cup (restored \cap due)
  /\ firing' = [w \in Firers |-> AtRest]
  /\ calls' = [e \in Entries |-> 0]
  /\ running' = [e \in Entries |-> 0]
  /\ removing' = {}
  /\ revived' = revived \cup (restored \cap withdrawn)
  /\ torn' = (torn \/ saving)
  /\ UNCHANGED <<due, dispatched, withdrawn, requests>>

Next ==
  \/ SaveEnds \/ Restart
  \/ \E w \in Firers : Fire(w) \/ Submit(w) \/ \E e \in Entries : Check(w, e)
  \/ \E e \in Entries :
       \/ Elapse(e) \/ Store(e) \/ List(e) \/ Link(e)
       \/ Run(e) \/ Finish(e) \/ Cancel(e) \/ Dismiss(e) \/ Remove(e)

\* Time passes, a save ends, the loop comes round every SCHEDULER_INTERVAL and
\* looks at every job, and what was begun is carried through.
Fairness ==
  /\ WF_vars(SaveEnds)
  /\ \A w \in Firers : WF_vars(Fire(w) \/ Submit(w))
  /\ \A e \in Entries :
       /\ WF_vars(Elapse(e))
       /\ SF_vars(Check("loop", e))
       /\ WF_vars(List(e) \/ Link(e))

Spec == Init /\ [][Next]_vars
FairSpec == Spec /\ Fairness
-----------------------------------------------------------------------------

\* "already dispatched in a previous session - skip" (load_scheduled_from_store): no
\* crash, however placed, makes a download start again in a later session.
DispatchedInOneSession == \A e \in Entries : Cardinality(dispatched[e]) <= 1

\* A download cancelled while it was scheduled does not download, though the loop or
\* fire_now() may have been about to dispatch it, in this session or in a later one -
\* unless a restart made a job of it again since: cancel() leaves its entry pending in
\* the file, and load_scheduled_from_store() takes every pending entry.
WithdrawnNeverDownloads == \A e \in withdrawn : running[e] > 0 => e \in revived

\* A scheduled entry leaves the line of the waiting: dispatched, marked as such,
\* cancelled, or gone.
Attended(e) == dispatched[e] # {} \/ entry[e] # "pending" \/ job[e].cancelled

\* A stored download is attended to in the end, through restarts - unless its time
\* was past when its job was made, or a crash tore the file.
SurvivesUnlessOverdue ==
  \A e \in Entries : entry[e] = "pending" ~> Attended(e) \/ e \in overdue \/ torn
=============================================================================
