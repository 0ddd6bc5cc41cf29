------------------------------- MODULE Watches -------------------------------
(***************************************************************************)
(* Followed series, from app/watches: following and unfollowing (router.py *)
(* and models.py), and the poller that turns each new episode into a       *)
(* request (poller.py), run by the periodic cycle and by "check now".      *)
(*                                                                         *)
(* All rows here are of one series.  A row is enabled when it is created   *)
(* and its ledger of seen episodes is filled by later steps, with a look   *)
(* at the source in between; the poller reads the source, then the ledger, *)
(* and marks each episode after it has asked for it.                       *)
(*                                                                         *)
(* What becomes of a request, and that an open one is joined, is the       *)
(* business of Requests; here it is enough that the episode was asked for. *)
(* Left out: who may skip the approval queue, languages, the year,         *)
(* notifications, panels without accounts, and the repair of ledgers that  *)
(* hold seasons the source does not list, since the source of the model    *)
(* takes no episode back.                                                  *)
(***************************************************************************)
EXTENDS Integers, FiniteSets

CONSTANTS
  Rows,          \* the watches that may be created
  Users,         \* whoever may follow
  NumEpisodes,   \* how many episodes the series has, in the order they are listed
  PartialLists,  \* whether a list may lack episodes: it may for an anime, whose
                 \* failed batches are skipped, not for a series
  MaxAsks,       \* bound: how often somebody follows, unfollows, stops or checks
  MaxRestarts    \* bound: how often the panel is restarted, or crashes

Episodes == 1..NumEpisodes

ASSUME EpisodesAssumption == NumEpisodes \in Nat
ASSUME PartialAssumption == PartialLists \in BOOLEAN
ASSUME BoundsAssumption == MaxAsks \in Nat /\ MaxRestarts \in Nat

VARIABLES
  published,  \* what the source publishes
  watch,      \* jf_series_watch: state and created_by
  followers,  \* jf_series_watch_subscriber
  seen,       \* jf_watch_seen_episode, the ledger
  following,  \* follow_series(): what is still to do for a row just created
  poll,       \* poll_watch(), as run by the cycle and by check_now()
  asks,       \* bound
  restarts,   \* bound
  back,       \* history: what was published when the row was created, or read for it
  held,       \* history: the episodes that were found in the library
  askedBy     \* history: the episodes each row has asked for

rowVars == <<watch, followers, following, back>>
boundVars == <<asks, restarts>>
vars == <<published, watch, followers, seen, following, poll, asks, restarts,
          back, held, askedBy>>

Pollers == {"cycle", "check"}
Rest == [step |-> "rest"]
Nobody == "nobody"

Enabled(w) == watch[w].state = "enabled"

Init ==
  /\ published \in SUBSET Episodes
  /\ watch = [w \in Rows |-> [state |-> "unborn", owner |-> Nobody]]
  /\ followers = [w \in Rows |-> {}]
  /\ seen = [w \in Rows |-> {}]
  /\ following = [w \in Rows |-> Rest]
  /\ poll = [p \in Pollers |-> Rest]
  /\ held = {}
  /\ asks = 0 /\ restarts = 0
  /\ back = [w \in Rows |-> {}]
  /\ askedBy = [w \in Rows |-> {}]

\* Somebody asks for something, within the bound.
Ask == asks < MaxAsks /\ asks' = asks + 1

Publish(e) ==
  /\ e \notin published
  /\ published' = published \cup {e}
  /\ UNCHANGED <<seen, poll, held, askedBy>>
  /\ UNCHANGED rowVars /\ UNCHANGED boundVars

\* What current_episodes() may return, when it does not fail.
Lists == IF PartialLists THEN SUBSET published ELSE {published}

-----------------------------------------------------------------------------
(* Following *)

\* create(), one transaction: an enabled row is joined ...
Join(u, w) ==
  /\ Ask
  /\ Enabled(w)
  /\ followers' = [followers EXCEPT ![w] = @ \cup {u}]
  /\ UNCHANGED <<published, watch, seen, following, poll, held, restarts,
                 back, askedBy>>

\* ... or else there is a new one, enabled from now on, with an empty ledger.
Follow(u, w) ==
  /\ Ask
  /\ \A v \in Rows : ~Enabled(v)
  /\ watch[w].state = "unborn"
  /\ watch' = [watch EXCEPT ![w] = [state |-> "enabled", owner |-> u]]
  /\ followers' = [followers EXCEPT ![w] = {u}]
  /\ following' = [following EXCEPT ![w] = [step |-> "read"]]
  /\ back' = [back EXCEPT ![w] = published]
  /\ UNCHANGED <<published, seen, poll, held, restarts, askedBy>>

\* The episodes published so far are read; none at all, or an error, means that the
\* source could not be read.
ReadBaseline(w) ==
  /\ following[w].step = "read"
  /\ \/ \E list \in Lists \ {{}} :
          following' = [following EXCEPT ![w] = [step |-> "seed", list |-> list]]
     \/ following' = [following EXCEPT ![w] = [step |-> "undo"]]
  /\ back' = [back EXCEPT ![w] = published]
  /\ UNCHANGED <<published, watch, followers, seen, poll, held, askedBy>>
  /\ UNCHANGED boundVars

\* seed_seen().
Seed(w) ==
  /\ following[w].step = "seed"
  /\ seen' = [seen EXCEPT ![w] = @ \cup following[w].list]
  /\ following' = [following EXCEPT ![w] = Rest]
  /\ UNCHANGED <<published, watch, followers, poll, held, back, askedBy>>
  /\ UNCHANGED boundVars

\* disable(): nobody follows it any more.
Disabled(w) ==
  /\ watch' = [watch EXCEPT ![w].state = "disabled"]
  /\ followers' = [followers EXCEPT ![w] = {}]

\* "the watch is rolled back rather than left armed"
Undo(w) ==
  /\ following[w].step = "undo"
  /\ Disabled(w)
  /\ following' = [following EXCEPT ![w] = Rest]
  /\ UNCHANGED <<published, seen, poll, held, back, askedBy>>
  /\ UNCHANGED boundVars

\* Mutant of Unfollow: the owner leaves and stays the owner.
UnfollowWithoutHeir(u, w) ==
  LET left == followers[w] \ {u} IN
  /\ Ask
  /\ Enabled(w)
  /\ IF left = {}
     THEN Disabled(w)
     ELSE followers' = [followers EXCEPT ![w] = left] /\ UNCHANGED watch
  /\ UNCHANGED <<published, seen, following, poll, held, restarts, back, askedBy>>

\* unfollow(), one transaction: the last one out stops the watch, and an owner who
\* leaves hands it to one who stays.
Unfollow(u, w) ==
  LET left == followers[w] \ {u} IN
  /\ Ask
  /\ Enabled(w)
  /\ \/ left = {} /\ Disabled(w)
     \/ /\ left # {}
        /\ followers' = [followers EXCEPT ![w] = left]
        /\ IF watch[w].owner \in left
           THEN UNCHANGED watch
           ELSE \E heir \in left : watch' = [watch EXCEPT ![w].owner = heir]
  /\ UNCHANGED <<published, seen, following, poll, held, restarts, back, askedBy>>

\* An approver stops it for everyone.
Stop(w) ==
  /\ Ask
  /\ Enabled(w)
  /\ Disabled(w)
  /\ UNCHANGED <<published, seen, following, poll, held, restarts, back, askedBy>>

-----------------------------------------------------------------------------
(* Polling: run_poll_cycle() and check_now() both call poll_watch() *)

Polled(p, step) == poll' = [poll EXCEPT ![p] = step]

Begin(p, w) ==
  /\ poll[p] = Rest
  /\ Enabled(w)
  /\ Polled(p, [step |-> "read", row |-> w])
  /\ IF p = "check" THEN Ask ELSE UNCHANGED asks
  /\ UNCHANGED <<published, seen, held, restarts, askedBy>>
  /\ UNCHANGED rowVars

Read(p, list) ==
  /\ poll[p].step = "read"
  /\ Polled(p, [step |-> "compare", row |-> poll[p].row, list |-> list])
  /\ UNCHANGED <<published, seen, held, askedBy>>
  /\ UNCHANGED rowVars /\ UNCHANGED boundVars

ReadFails(p) ==
  /\ poll[p].step = "read"
  /\ Polled(p, Rest)
  /\ UNCHANGED <<published, seen, held, askedBy>>
  /\ UNCHANGED rowVars /\ UNCHANGED boundVars

\* What the loop over the fresh episodes goes on with.
Work(w, todo) ==
  IF todo = {} THEN Rest ELSE [step |-> "work", row |-> w, todo |-> todo]

First(todo) == CHOOSE e \in todo : \A f \in todo : e <= f

\* Mutant of Fresh: a ledger with anything in it is taken for a complete one.
FreshIfEmpty(w, list) == IF seen[w] = {} THEN list ELSE {}

Fresh(w, list) == list \ seen[w]

Compare(p) ==
  LET w == poll[p].row IN
  /\ poll[p].step = "compare"
  /\ Polled(p, Work(w, Fresh(w, poll[p].list)))
  /\ UNCHANGED <<published, seen, held, askedBy>>
  /\ UNCHANGED rowVars /\ UNCHANGED boundVars

\* process_episode(): an episode that is in the library is only marked.  The check may
\* also fail, which is taken for "no".
InLibrary(p) ==
  /\ poll[p].step = "work"
  /\ held' = held \cup {First(poll[p].todo)}
  /\ Polled(p, [poll[p] EXCEPT !.step = "mark"])
  /\ UNCHANGED <<published, seen, askedBy>>
  /\ UNCHANGED rowVars /\ UNCHANGED boundVars

\* create_request(), with the subscription of the followers and the approval of a series
\* that is armed.
MakeRequest(p) ==
  /\ poll[p].step = "work"
  /\ askedBy' = [askedBy EXCEPT ![poll[p].row] = @ \cup {First(poll[p].todo)}]
  /\ Polled(p, [poll[p] EXCEPT !.step = "mark"])
  /\ UNCHANGED <<published, seen, held>>
  /\ UNCHANGED rowVars /\ UNCHANGED boundVars

\* Mutant of RequestFails: the episode is marked whatever happened to its request.
RequestFailsMarked(p) ==
  /\ poll[p].step = "work"
  /\ Polled(p, [poll[p] EXCEPT !.step = "mark"])
  /\ UNCHANGED <<published, seen, held, askedBy>>
  /\ UNCHANGED rowVars /\ UNCHANGED boundVars

\* An exception, before or after the request was stored: the episode stays unseen, for
\* the next cycle, and the loop goes on.
RequestFails(p) ==
  /\ poll[p].step = "work"
  /\ Polled(p, Work(poll[p].row, poll[p].todo \ {First(poll[p].todo)}))
  /\ \/ UNCHANGED askedBy
     \/ askedBy' = [askedBy EXCEPT ![poll[p].row] = @ \cup {First(poll[p].todo)}]
  /\ UNCHANGED <<published, seen, held>>
  /\ UNCHANGED rowVars /\ UNCHANGED boundVars

\* mark_seen(), last of all.
Mark(p) ==
  LET w == poll[p].row IN
  /\ poll[p].step = "mark"
  /\ seen' = [seen EXCEPT ![w] = @ \cup {First(poll[p].todo)}]
  /\ Polled(p, Work(w, poll[p].todo \ {First(poll[p].todo)}))
  /\ UNCHANGED <<published, held, askedBy>>
  /\ UNCHANGED rowVars /\ UNCHANGED boundVars

\* The panel stops, at any point, and starts again: the rows stay, what was being
\* done to them does not.
Restart ==
  /\ restarts < MaxRestarts
  /\ restarts' = restarts + 1
  /\ following' = [w \in Rows |-> Rest]
  /\ poll' = [p \in Pollers |-> Rest]
  /\ UNCHANGED <<published, watch, followers, seen, held, asks, back, askedBy>>
-----------------------------------------------------------------------------

Poll(p) ==
  \/ ReadFails(p) \/ Compare(p) \/ InLibrary(p) \/ MakeRequest(p) \/ RequestFails(p) \/ Mark(p)
  \/ \E list \in Lists : Read(p, list)

Next ==
  \/ \E e \in Episodes : Publish(e)
  \/ \E w \in Rows :
       \/ ReadBaseline(w) \/ Seed(w) \/ Undo(w) \/ Stop(w)
       \/ \E u \in Users : Join(u, w) \/ Follow(u, w) \/ Unfollow(u, w)
       \/ \E p \in Pollers : Begin(p, w)
  \/ \E p \in Pollers : Poll(p)
  \/ Restart

\* The cycle comes round for ever, and neither the source nor the database fails it
\* every time.
Fairness ==
  /\ \A w \in Rows : WF_vars(Begin("cycle", w))
  /\ WF_vars(Poll("cycle"))
  /\ SF_vars(Read("cycle", published))
  /\ SF_vars(MakeRequest("cycle"))

Spec == Init /\ [][Next]_vars
FairSpec == Spec /\ Fairness
-----------------------------------------------------------------------------

\* "otherwise auto-download would key off a user who is no longer involved"
\* (unfollow): a watch that is on belongs to somebody who follows it, and one that is
\* off has no followers, whoever comes and goes.
OwnerFollows ==
  \A w \in Rows : IF Enabled(w) THEN watch[w].owner \in followers[w]
                                 ELSE followers[w] = {}

\* No episode is ticked off for nothing: whatever failed, crashed or ran at the same
\* time, one in the ledger was there before, was asked for, or is in the library.
SeenIsAccountedFor ==
  \A w \in Rows : seen[w] \subseteq back[w] \cup askedBy[w] \cup held

\* An episode that is published comes into the ledger of a watch that stays on, in
\* whatever order the source publishes.
NothingIsMissed ==
  \A w \in Rows : \A e \in Episodes :
    e \in published /\ Enabled(w) ~> e \in seen[w] \/ ~Enabled(w)

\* "Everything already published counts as handled: following means 'tell me about
\* what comes next', not 'download the back catalogue'" (follow_series).  The code
\* breaks this: see the README.
NoBackCatalogue == \A w \in Rows : askedBy[w] \cap back[w] = {}
=============================================================================
