---------------------------- MODULE Announcements ----------------------------
(***************************************************************************)
(* Who is told that a download is over: the listeners of                   *)
(* app/requests/service.py, app/downloads_notify.py and                    *)
(* app/downloads_hooks.py, called in this order by the thread of the job,  *)
(* and the delivery of app/requests/notify.py and apprise_channel.py to    *)
(* the bell and to the channels outside.  The worker that submitted the    *)
(* job of a request writes its id afterwards and then looks again.         *)
(*                                                                         *)
(* Meanwhile an administrator edits the channels and the hooks.  Every     *)
(* target may fail, and so may the write of the bell's rows.  Left out:    *)
(* texts, the filter of a channel by event, the refresh of Jellyfin, and   *)
(* the episodes of a batch, which are in JobManager.                       *)
(***************************************************************************)
EXTENDS FiniteSets, Naturals, Sequences

CONSTANTS
  Channels,   \* ids of notification channels
  Hooks,      \* ids of download hooks
  MaxEdits    \* bound

VARIABLES
  job,      \* the job
  row,      \* the request it belongs to, "none" for a direct download
  thread,   \* the executor's thread and the request's worker
  target,   \* the channels and hooks: absent, off or on
  edits,    \* bound
  told,     \* history: who was told what
  steady,   \* history: targets that were on all the time
  broken,   \* history: a write of the bell's rows failed
  refused   \* history: hooks that did not land

vars == <<job, row, thread, target, edits, told, steady, broken, refused>>
history == <<told, steady, broken, refused>>

Targets == Channels \cup Hooks
Threads == {"executor", "worker"}
On == {x \in Targets : target[x] = "on"}

\* An announcement: what, to whom on the bell, and whether it goes outside as well.
News(what, whom, external) == [what |-> what, whom |-> whom, external |-> external]
At(step, news, then) == [step |-> step, news |-> news, left |-> {}, hooks |-> {}, then |-> then]

Init ==
  /\ job = "running"
  /\ row \in {"none", "approved"}
  /\ thread = [p \in Threads |-> At(IF p = "executor" THEN "download"
                                    ELSE IF row = "none" THEN "over" ELSE "claim", <<>>, "")]
  /\ target \in [Targets -> {"absent", "on"}]
  /\ edits = 0
  /\ told = {} /\ broken = FALSE /\ refused = {}
  /\ steady = On

Go(p, step) == thread' = [thread EXCEPT ![p].step = step]

\* create_channel(), update_channel() and delete_channel(), and the same for hooks; an
\* update of one that is gone changes no row.
Edit(x) ==
  /\ edits < MaxEdits /\ edits' = edits + 1
  /\ \/ target[x] = "absent" /\ target' = [target EXCEPT ![x] = "on"]
     \/ target[x] # "absent" /\ \E s \in {"on", "off", "absent"} :
          s # target[x] /\ target' = [target EXCEPT ![x] = s]
  /\ steady' = steady \ {x}
  /\ UNCHANGED <<job, row, thread, told, broken, refused>>

JobEnds ==
  /\ job = "running"
  /\ job' \in {"done", "error", "cancelled"}
  /\ Go("executor", "requests")
  /\ UNCHANGED <<row, target, edits, history>>

-----------------------------------------------------------------------------
(* The listeners *)

\* What service.on_job_finished() tells: the subscribers, and of a failure the approvers
\* too, who have it outside already.
Outcome ==
  CASE job = "done" -> <<News("outcome", "subscribers", TRUE)>>
    [] job = "error" -> <<News("outcome", "subscribers", TRUE),
                          News("outcome", "approvers", FALSE)>>
    [] OTHER -> <<>>

\* service.on_job_finished(), by the executor's thread and, looking again, by the worker.
Heard(p, then) ==
  IF row = "downloading"
  THEN row' = "closed" /\ thread' = [thread EXCEPT ![p] = At("tell", Outcome, then)]
  ELSE UNCHANGED row /\ Go(p, then)

RequestListens ==
  /\ thread["executor"].step = "requests"
  /\ Heard("executor", "batches")
  /\ UNCHANGED <<job, target, edits, history>>

\* downloads_notify.on_job_finished(): a cancellation is no news, and a job that a row
\* names has been reported.
BatchListens ==
  /\ thread["executor"].step = "batches"
  /\ IF job = "cancelled" \/ row \in {"downloading", "closed"}
     THEN Go("executor", "hooks")
     ELSE thread' = [thread EXCEPT !["executor"] =
                       At("tell", <<News("single", "owner", TRUE)>>, "hooks")]
  /\ UNCHANGED <<job, row, target, edits, history>>

\* downloads_hooks.on_job_finished(): the enabled hooks, read once ...
HooksListen ==
  /\ thread["executor"].step = "hooks"
  /\ thread' = [thread EXCEPT !["executor"].step = "fire", !["executor"].hooks = On \cap Hooks]
  /\ UNCHANGED <<job, row, target, edits, history>>

\* Mutant of Fire: a hook that does not land is logged and that is all.
FireQuietly ==
  /\ thread["executor"].step = "fire"
  /\ \E h \in thread["executor"].hooks :
       /\ thread' = [thread EXCEPT !["executor"].hooks = @ \ {h}]
       /\ told' = told \cup {<<"fired", h>>}
       /\ refused' \in {refused, refused \cup {h}}
  /\ UNCHANGED <<job, row, target, edits, steady, broken>>

\* ... and fired one after the other; one that does not land is announced.
Fire ==
  LET x == thread["executor"] IN
  /\ x.step = "fire"
  /\ \E h \in x.hooks :
       /\ told' = told \cup {<<"fired", h>>}
       /\ \/ thread' = [thread EXCEPT !["executor"].hooks = @ \ {h}] /\ UNCHANGED refused
          \/ /\ refused' = refused \cup {h}
             /\ thread' = [thread EXCEPT !["executor"] =
                  [At("tell", <<News("hook", "managers", TRUE)>>, "fire")
                     EXCEPT !.hooks = x.hooks \ {h}]]
  /\ UNCHANGED <<job, row, target, edits, steady, broken>>

AllFired ==
  /\ thread["executor"].step = "fire" /\ thread["executor"].hooks = {}
  /\ Go("executor", "over")
  /\ UNCHANGED <<job, row, target, edits, history>>

\* _execute_inner(): the id of the job is written to the row ...
Claim ==
  /\ thread["worker"].step = "claim" /\ row = "approved"
  /\ row' = "downloading"
  /\ Go("worker", "recheck")
  /\ UNCHANGED <<job, target, edits, history>>

\* ... and a job that is over by now is heard again.
Recheck ==
  /\ thread["worker"].step = "recheck"
  /\ IF job = "running" THEN Go("worker", "over") /\ UNCHANGED row ELSE Heard("worker", "over")
  /\ UNCHANGED <<job, target, edits, history>>

-----------------------------------------------------------------------------
(* notify() *)

\* InAppChannel.deliver(): a row for each recipient, in one transaction.
Bell(p) ==
  /\ thread[p].step = "tell" /\ thread[p].news # <<>>
  /\ LET n == Head(thread[p].news) IN
     \/ told' = told \cup {<<n.what, n.whom>>} /\ UNCHANGED broken
     \/ broken' = TRUE /\ UNCHANGED told
  /\ Go(p, "outside")
  /\ UNCHANGED <<job, row, target, edits, steady, refused>>

Told(p) == [thread EXCEPT ![p].step = "tell", ![p].news = Tail(@)]

\* AppriseChannel.deliver(): the enabled channels, read once ...
Outside(p) ==
  /\ thread[p].step = "outside"
  /\ IF Head(thread[p].news).external
     THEN thread' = [thread EXCEPT ![p].step = "send", ![p].left = On \cap Channels]
     ELSE thread' = Told(p)
  /\ UNCHANGED <<job, row, target, edits, history>>

\* Mutant of Send: the first channel that fails ends it.
SendUntilFailure(p) ==
  /\ thread[p].step = "send"
  /\ \E c \in thread[p].left :
       /\ told' = told \cup {<<Head(thread[p].news).what, c>>}
       /\ thread' \in {[thread EXCEPT ![p].left = @ \ {c}], [thread EXCEPT ![p].left = {}]}
  /\ UNCHANGED <<job, row, target, edits, steady, broken, refused>>

\* ... and sent to one after the other, whatever becomes of each.
Send(p) ==
  /\ thread[p].step = "send"
  /\ \E c \in thread[p].left :
       /\ told' = told \cup {<<Head(thread[p].news).what, c>>}
       /\ thread' = [thread EXCEPT ![p].left = @ \ {c}]
  /\ UNCHANGED <<job, row, target, edits, steady, broken, refused>>

Sent(p) ==
  /\ thread[p].step = "send" /\ thread[p].left = {}
  /\ thread' = Told(p)
  /\ UNCHANGED <<job, row, target, edits, history>>

AllTold(p) ==
  /\ thread[p].step = "tell" /\ thread[p].news = <<>>
  /\ thread' = [thread EXCEPT ![p].step = thread[p].then, ![p].then = ""]
  /\ UNCHANGED <<job, row, target, edits, history>>

Telling(p) == Bell(p) \/ Outside(p) \/ Send(p) \/ Sent(p) \/ AllTold(p)

Next ==
  \/ JobEnds \/ RequestListens \/ BatchListens \/ HooksListen \/ Fire \/ AllFired
  \/ Claim \/ Recheck
  \/ \E p \in Threads : Telling(p)
  \/ \E x \in Targets : Edit(x)

Spec == Init /\ [][Next]_vars
-----------------------------------------------------------------------------

TypeOK ==
  /\ job \in {"running", "done", "error", "cancelled"}
  /\ row \in {"none", "approved", "downloading", "closed"}
  /\ \A p \in Threads :
       /\ thread[p].step \in {"download", "claim", "recheck", "requests", "batches", "hooks",
                              "fire", "tell", "outside", "send", "over"}
       /\ thread[p].left \subseteq Channels /\ thread[p].hooks \subseteq Hooks
       /\ thread[p].step \in {"outside", "send"} => thread[p].news # <<>>
  /\ target \in [Targets -> {"absent", "off", "on"}]
  /\ edits \in 0..MaxEdits /\ steady \subseteq On /\ refused \subseteq Hooks

Concerned == IF row = "none" THEN <<"single", "owner">> ELSE <<"outcome", "subscribers">>

\* "One dead webhook must not stop the others" (AppriseChannel), "a hook that fails silently
\* is worse than not having one" (_notify_failure), and a job that was faster than the
\* note of its id is not forgotten (_execute_inner): when everybody has been told, the
\* request is closed, whom the download concerns has it on the bell, every channel
\* and hook that was on was tried, and a hook that did not land was announced - but for
\* rows of the bell that could not be written.
EveryoneIsTold ==
  (\A p \in Threads : thread[p].step = "over") =>
    /\ row \in {"none", "closed"}
    /\ job # "cancelled" => broken \/ Concerned \in told
    /\ job # "cancelled" => \A c \in Channels \cap steady : <<Concerned[1], c>> \in told
    /\ \A h \in Hooks \cap steady : <<"fired", h>> \in told
    /\ refused # {} => broken \/ <<"hook", "managers">> \in told
=============================================================================
