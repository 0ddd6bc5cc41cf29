---------------------------- MODULE WatchesProofs ----------------------------
(***************************************************************************)
(* Proofs about Watches, for any rows, users and episodes.                 *)
(*                                                                         *)
(* That a watch belongs to one of its followers is inductive once the rows *)
(* have their types.  That nothing is ticked off for nothing needs what    *)
(* the two writers of the ledger know when they write: follow_series()     *)
(* seeds it with a list that was published, and poll_watch() marks an      *)
(* episode only after it was asked for or found.                           *)
(***************************************************************************)
EXTENDS Watches, TLAPS

(* The episodes that may be marked.                                        *)
Marked == Episodes \cup {First(todo) : todo \in SUBSET Episodes}

RowsOK ==
  /\ watch \in [Rows -> [state : {"unborn", "enabled", "disabled"}, owner : Users \cup {Nobody}]]
  /\ followers \in [Rows -> SUBSET Users]

LedgersOK ==
  /\ seen \in [Rows -> SUBSET Marked] /\ askedBy \in [Rows -> SUBSET Marked]
  /\ back \in [Rows -> SUBSET Episodes] /\ published \subseteq Episodes
  /\ \A w \in Rows : back[w] \subseteq published

FollowingOK ==
  /\ following \in [Rows -> {Rest} \cup [step : {"read", "undo"}]
                              \cup [step : {"seed"}, list : SUBSET Episodes]]
  /\ \A w \in Rows : following[w].step = "seed" => following[w].list \subseteq back[w]

Polls == {Rest} \cup [step : {"read"}, row : Rows]
                \cup [step : {"compare"}, row : Rows, list : SUBSET Episodes]
                \cup [step : {"work", "mark"}, row : Rows, todo : SUBSET Episodes]

PollOK ==
  /\ poll \in [Pollers -> Polls]
  /\ \A p \in Pollers :
       poll[p].step = "mark" => First(poll[p].todo) \in askedBy[poll[p].row] \cup held

IInv ==
  /\ RowsOK /\ LedgersOK /\ FollowingOK /\ PollOK
  /\ OwnerFollows /\ SeenIsAccountedFor

-----------------------------------------------------------------------------

LEMMA InitInvariant == Init => IInv
<1> SUFFICES ASSUME Init PROVE IInv
  OBVIOUS
<1>1. RowsOK /\ OwnerFollows
  BY DEF Init, RowsOK, OwnerFollows, Enabled
<1>2. LedgersOK /\ SeenIsAccountedFor
  BY DEF Init, LedgersOK, SeenIsAccountedFor
<1>3. FollowingOK
  BY DEF Init, FollowingOK, Rest
<1>4. PollOK
  BY DEF Init, PollOK, Polls, Rest
<1> QED
  BY <1>1, <1>2, <1>3, <1>4 DEF IInv

(* What is listed is published.                                            *)
LEMMA ListsArePublished ==
  ASSUME LedgersOK, NEW list \in Lists
  PROVE  list \subseteq published /\ list \subseteq Episodes
BY DEF Lists, LedgersOK

(* Rows come, go and change hands.                                         *)
LEMMA RowsKeep ==
  ASSUME IInv, NEW w \in Rows, NEW u \in Users,
         Join(u, w) \/ Follow(u, w) \/ Unfollow(u, w)
  PROVE  IInv'
<1>1. RowsOK' /\ OwnerFollows'
  <2>1. CASE Join(u, w)
    BY <2>1 DEF IInv, RowsOK, OwnerFollows, Enabled, Join
  <2>2. CASE Follow(u, w)
    BY <2>2 DEF IInv, RowsOK, OwnerFollows, Enabled, Follow
  <2>3. CASE Unfollow(u, w)
    BY <2>3 DEF IInv, RowsOK, OwnerFollows, Enabled, Unfollow, Disabled
  <2> QED
    BY <2>1, <2>2, <2>3
<1>2. UNCHANGED <<published, seen, poll, held, askedBy>>
  BY DEF Join, Follow, Unfollow
<1>3. LedgersOK' /\ FollowingOK' /\ SeenIsAccountedFor'
  <2>1. CASE Follow(u, w)
    <3>1. /\ back' = [back EXCEPT ![w] = published]
          /\ following' = [following EXCEPT ![w] = [step |-> "read"]]
      BY <2>1 DEF Follow
    <3> QED
      BY <3>1, <1>2 DEF IInv, LedgersOK, FollowingOK, SeenIsAccountedFor, Rest
  <2>2. CASE Join(u, w) \/ Unfollow(u, w)
    <3>1. UNCHANGED <<back, following>>
      BY <2>2 DEF Join, Unfollow
    <3> QED
      BY <3>1, <1>2 DEF IInv, LedgersOK, FollowingOK, SeenIsAccountedFor
  <2> QED
    BY <2>1, <2>2
<1>4. PollOK'
  BY <1>2 DEF IInv, PollOK
<1> QED
  BY <1>1, <1>3, <1>4 DEF IInv

(* The ledger of a new row is seeded with what was published.              *)
LEMMA SeedingKeeps ==
  ASSUME IInv, NEW w \in Rows, ReadBaseline(w) \/ Seed(w)
  PROVE  IInv'
<1>1. UNCHANGED <<published, watch, followers, poll, held, askedBy>>
  BY DEF ReadBaseline, Seed
<1>2. RowsOK' /\ OwnerFollows' /\ PollOK'
  BY <1>1 DEF IInv, RowsOK, OwnerFollows, Enabled, PollOK
<1>3. CASE ReadBaseline(w)
  <2>1. back' = [back EXCEPT ![w] = published] /\ seen' = seen
    BY <1>3 DEF ReadBaseline
  <2>2. LedgersOK' /\ SeenIsAccountedFor'
    BY <1>1, <2>1 DEF IInv, LedgersOK, SeenIsAccountedFor
  <2>3. ASSUME following' = [following EXCEPT ![w] = [step |-> "undo"]]
        PROVE  FollowingOK'
    BY <2>1, <2>3 DEF IInv, FollowingOK, LedgersOK, Rest
  <2>4. ASSUME \E list \in Lists \ {{}} :
                 following' = [following EXCEPT ![w] = [step |-> "seed", list |-> list]]
        PROVE  FollowingOK'
    <3>1. PICK list \in Lists \ {{}} :
                 following' = [following EXCEPT ![w] = [step |-> "seed", list |-> list]]
      BY <2>4
    <3>2. list \subseteq published /\ list \subseteq Episodes
      BY ListsArePublished DEF IInv
    <3> QED
      BY <2>1, <3>1, <3>2 DEF IInv, FollowingOK, LedgersOK, Rest
  <2> QED
    BY <1>2, <1>3, <2>2, <2>3, <2>4 DEF IInv, ReadBaseline
<1>4. CASE Seed(w)
  <2>1. /\ following[w].step = "seed" /\ back' = back
        /\ seen' = [seen EXCEPT ![w] = @ \cup following[w].list]
        /\ following' = [following EXCEPT ![w] = Rest]
    BY <1>4 DEF Seed
  <2>2. following[w].list \subseteq back[w] /\ following[w].list \subseteq Episodes
    BY <2>1 DEF IInv, FollowingOK, LedgersOK
  <2>3. LedgersOK' /\ SeenIsAccountedFor'
    BY <1>1, <2>1, <2>2 DEF IInv, LedgersOK, SeenIsAccountedFor, Marked
  <2>4. FollowingOK'
    BY <2>1 DEF IInv, FollowingOK, Rest
  <2> QED
    BY <1>2, <2>3, <2>4 DEF IInv
<1> QED
  BY <1>3, <1>4

-----------------------------------------------------------------------------
(* Steps of poll_watch().                                                  *)

(* A poll is at rest, or at one of its rows with what it read or has left. *)
LEMMA PollIsTyped ==
  ASSUME PollOK, NEW p \in Pollers
  PROVE  /\ poll[p].step \notin {"rest"} => poll[p].row \in Rows
         /\ poll[p].step = "compare" => poll[p].list \subseteq Episodes
         /\ poll[p].step \in {"work", "mark"} =>
              /\ poll[p].todo \subseteq Episodes
              /\ First(poll[p].todo) \in Marked
BY DEF PollOK, Polls, Rest, Marked

(* What a poll goes on with is of its type.                                *)
LEMMA WorkIsTyped ==
  ASSUME NEW w \in Rows, NEW todo \in SUBSET Episodes
  PROVE  Work(w, todo) \in Polls /\ Work(w, todo).step # "mark"
BY DEF Work, Polls, Rest

(* One poll moves; what was asked for and what was found only grows.       *)
LEMMA PollMoves ==
  ASSUME PollOK, NEW p \in Pollers, NEW s \in Polls, Polled(p, s),
         askedBy \in [Rows -> SUBSET Marked],
         \A w \in Rows : askedBy[w] \subseteq askedBy'[w], held \subseteq held',
         s.step = "mark" => First(s.todo) \in askedBy'[s.row] \cup held'
  PROVE  PollOK'
<1>1. poll' = [poll EXCEPT ![p] = s]
  BY DEF Polled
<1>2. ASSUME NEW q \in Pollers, q # p, poll[q].step = "mark"
      PROVE  First(poll[q].todo) \in askedBy'[poll[q].row] \cup held'
  <2>1. poll[q].row \in Rows
    BY <1>2, PollIsTyped
  <2> QED
    BY <1>2, <2>1 DEF PollOK
<1> HIDE DEF Polls
<1> QED
  BY <1>1, <1>2 DEF PollOK

LEMMA PollingKeeps ==
  ASSUME IInv, NEW p \in Pollers, Poll(p) \/ (\E w \in Rows : Begin(p, w))
  PROVE  IInv'
<1>1. UNCHANGED <<published, watch, followers, following, back>>
  BY DEF Poll, Begin, Read, ReadFails, Compare, InLibrary, MakeRequest, RequestFails, Mark,
         rowVars
<1>2. RowsOK' /\ OwnerFollows' /\ FollowingOK'
  BY <1>1 DEF IInv, RowsOK, OwnerFollows, Enabled, FollowingOK
<1> DEFINE todo == poll[p].todo
           here == poll[p].row
           rest == todo \ {First(todo)}
<1>3. LedgersOK /\ PollOK /\ SeenIsAccountedFor
  BY DEF IInv
<1>4. askedBy \in [Rows -> SUBSET Marked] /\ seen \in [Rows -> SUBSET Marked]
  BY DEF IInv, LedgersOK
<1>5. ASSUME UNCHANGED <<seen, held, askedBy>>, NEW s \in Polls, Polled(p, s), s.step # "mark"
      PROVE  IInv'
  <2>1. PollOK'
    BY <1>3, <1>4, <1>5, PollMoves
  <2> QED
    BY <1>1, <1>2, <1>5, <2>1 DEF IInv, LedgersOK, SeenIsAccountedFor
<1>6. CASE \E w \in Rows : Begin(p, w)
  <2>1. PICK w \in Rows : Begin(p, w)
    BY <1>6
  <2>2. [step |-> "read", row |-> w] \in Polls
    BY DEF Polls
  <2> QED
    BY <1>5, <2>1, <2>2 DEF Begin
<1>7. CASE \E list \in Lists : Read(p, list)
  <2>1. PICK list \in Lists : Read(p, list)
    BY <1>7
  <2>2. poll[p].row \in Rows /\ list \subseteq Episodes
    BY <1>3, <2>1, PollIsTyped, ListsArePublished DEF Read
  <2>3. [step |-> "compare", row |-> poll[p].row, list |-> list] \in Polls
    BY <2>2 DEF Polls
  <2> QED
    BY <1>5, <2>1, <2>3 DEF Read
<1>8. CASE ReadFails(p)
  <2>1. Rest \in Polls /\ Rest.step # "mark"
    BY DEF Polls, Rest
  <2> QED
    BY <1>5, <1>8, <2>1 DEF ReadFails
<1>9. CASE Compare(p)
  <2>1. here \in Rows /\ Fresh(here, poll[p].list) \in SUBSET Episodes
    BY <1>3, <1>9, PollIsTyped DEF Compare, Fresh
  <2>2. /\ Work(here, Fresh(here, poll[p].list)) \in Polls
        /\ Work(here, Fresh(here, poll[p].list)).step # "mark"
    BY <2>1, WorkIsTyped
  <2> QED
    BY <1>5, <1>9, <2>2 DEF Compare
<1>10. CASE InLibrary(p) \/ MakeRequest(p)
  <2> DEFINE s == [poll[p] EXCEPT !.step = "mark"]
  <2>1. poll[p].step = "work" /\ Polled(p, s) /\ seen' = seen
    BY <1>10 DEF InLibrary, MakeRequest
  <2>2. /\ poll[p] \in Polls
        /\ here \in Rows /\ First(todo) \in Marked
    BY <1>3, <2>1, PollIsTyped DEF PollOK
  <2>3. s \in Polls /\ s.step = "mark" /\ s.todo = todo /\ s.row = here
    BY <2>1, <2>2 DEF Polls, Rest
  <2>4. \/ held' = held \cup {First(todo)} /\ askedBy' = askedBy
        \/ held' = held /\ askedBy' = [askedBy EXCEPT ![here] = @ \cup {First(todo)}]
    BY <1>10 DEF InLibrary, MakeRequest
  <2>5. /\ askedBy' \in [Rows -> SUBSET Marked]
        /\ \A w \in Rows : askedBy[w] \subseteq askedBy'[w]
        /\ held \subseteq held'
        /\ First(todo) \in askedBy'[here] \cup held'
    BY <1>4, <2>2, <2>4
  <2> HIDE DEF s
  <2>6. PollOK'
    BY <1>3, <1>4, <2>1, <2>3, <2>5, PollMoves
  <2>7. LedgersOK' /\ SeenIsAccountedFor'
    BY <1>1, <1>3, <2>1, <2>5 DEF LedgersOK, SeenIsAccountedFor
  <2> QED
    BY <1>2, <2>6, <2>7 DEF IInv
<1>11. CASE RequestFails(p)
  <2>1. poll[p].step = "work" /\ Polled(p, Work(here, rest)) /\ seen' = seen /\ held' = held
    BY <1>11 DEF RequestFails
  <2>2. here \in Rows /\ First(todo) \in Marked /\ rest \in SUBSET Episodes
    BY <1>3, <2>1, PollIsTyped
  <2>3. Work(here, rest) \in Polls /\ Work(here, rest).step # "mark"
    BY <2>2, WorkIsTyped
  <2>4. \/ askedBy' = askedBy
        \/ askedBy' = [askedBy EXCEPT ![here] = @ \cup {First(todo)}]
    BY <1>11 DEF RequestFails
  <2>5. /\ askedBy' \in [Rows -> SUBSET Marked]
        /\ \A w \in Rows : askedBy[w] \subseteq askedBy'[w]
    BY <1>4, <2>2, <2>4
  <2>6. PollOK'
    BY <1>3, <1>4, <2>1, <2>3, <2>5, PollMoves
  <2>7. LedgersOK' /\ SeenIsAccountedFor'
    BY <1>1, <1>3, <2>1, <2>5 DEF LedgersOK, SeenIsAccountedFor
  <2> QED
    BY <1>2, <2>6, <2>7 DEF IInv
<1>12. CASE Mark(p)
  <2>1. /\ poll[p].step = "mark" /\ Polled(p, Work(here, rest))
        /\ seen' = [seen EXCEPT ![here] = @ \cup {First(todo)}]
        /\ askedBy' = askedBy /\ held' = held
    BY <1>12 DEF Mark
  <2>2. here \in Rows /\ First(todo) \in Marked /\ rest \in SUBSET Episodes
    BY <1>3, <2>1, PollIsTyped
  <2>3. Work(here, rest) \in Polls /\ Work(here, rest).step # "mark"
    BY <2>2, WorkIsTyped
  <2>4. First(todo) \in askedBy[here] \cup held
    BY <1>3, <2>1 DEF PollOK
  <2>5. PollOK'
    BY <1>3, <1>4, <2>1, <2>3, PollMoves
  <2>6. LedgersOK' /\ SeenIsAccountedFor'
    BY <1>1, <1>3, <1>4, <2>1, <2>2, <2>4 DEF LedgersOK, SeenIsAccountedFor
  <2> QED
    BY <1>2, <2>5, <2>6 DEF IInv
<1> QED
  BY <1>6, <1>7, <1>8, <1>9, <1>10, <1>11, <1>12 DEF Poll

(* The source publishes, the panel restarts, or nothing happens.           *)
LEMMA OutsideKeeps ==
  ASSUME IInv, (\E e \in Episodes : Publish(e)) \/ Restart \/ UNCHANGED vars
  PROVE  IInv'
<1>1. UNCHANGED <<watch, followers, seen, held, back, askedBy>>
  BY DEF Publish, Restart, vars, rowVars
<1>2. published \subseteq published' /\ published' \subseteq Episodes
  BY DEF Publish, Restart, vars, IInv, LedgersOK
<1>3. RowsOK' /\ OwnerFollows' /\ LedgersOK' /\ SeenIsAccountedFor'
  BY <1>1, <1>2 DEF IInv, RowsOK, OwnerFollows, Enabled, LedgersOK, SeenIsAccountedFor
<1>4. CASE UNCHANGED <<following, poll>>
  BY <1>1, <1>3, <1>4 DEF IInv, FollowingOK, PollOK
<1>5. CASE Restart
  <2>1. FollowingOK'
    BY <1>5 DEF Restart, FollowingOK, Rest
  <2>2. PollOK'
    BY <1>5 DEF Restart, PollOK, Polls, Rest
  <2> QED
    BY <1>3, <2>1, <2>2 DEF IInv
<1> QED
  BY <1>4, <1>5 DEF Publish, rowVars, vars

LEMMA NextInvariant == IInv /\ [Next]_vars => IInv'
<1> SUFFICES ASSUME IInv, [Next]_vars PROVE IInv'
  OBVIOUS
<1>1. ASSUME NEW w \in Rows, ReadBaseline(w) \/ Seed(w) PROVE IInv'
  BY <1>1, SeedingKeeps
<1>2. ASSUME NEW w \in Rows, NEW u \in Users, Join(u, w) \/ Follow(u, w) \/ Unfollow(u, w)
      PROVE  IInv'
  BY <1>2, RowsKeep
<1>3. ASSUME NEW w \in Rows, Undo(w) \/ Stop(w) PROVE IInv'
  <2>1. RowsOK' /\ OwnerFollows'
    BY <1>3 DEF IInv, RowsOK, OwnerFollows, Enabled, Stop, Undo, Disabled
  <2>2. /\ UNCHANGED <<published, seen, poll, held, askedBy, back>>
        /\ following' = [following EXCEPT ![w] = Rest] \/ following' = following
    BY <1>3 DEF Stop, Undo
  <2>3. LedgersOK' /\ FollowingOK' /\ SeenIsAccountedFor' /\ PollOK'
    BY <2>2 DEF IInv, LedgersOK, FollowingOK, SeenIsAccountedFor, PollOK, Rest
  <2> QED
    BY <2>1, <2>3 DEF IInv
<1>4. ASSUME NEW p \in Pollers, Poll(p) \/ (\E w \in Rows : Begin(p, w)) PROVE IInv'
  BY <1>4, PollingKeeps
<1>5. ASSUME (\E e \in Episodes : Publish(e)) \/ Restart \/ UNCHANGED vars PROVE IInv'
  BY <1>5, OutsideKeeps
<1> QED
  BY <1>1, <1>2, <1>3, <1>4, <1>5 DEF Next

(* Every reachable state satisfies the inductive invariant.                *)
THEOREM InvariantHolds == Spec => []IInv
<1>1. Init => IInv
  BY InitInvariant
<1>2. IInv /\ [Next]_vars => IInv'
  BY NextInvariant
<1> QED
  BY <1>1, <1>2, PTL DEF Spec

(* Whoever joins, leaves or stops it, in whatever order, a watch that is   *)
(* on belongs to one of its followers: the user whose permission decides   *)
(* its automatic downloads is one who still wants them.                    *)
THEOREM OwnerIsAFollower == Spec => []OwnerFollows
<1>1. IInv => OwnerFollows
  BY DEF IInv
<1> QED
  BY <1>1, InvariantHolds, PTL

(* No crash, failure or second poll ticks an episode off that was neither  *)
(* there before, nor asked for, nor found in the library.                  *)
THEOREM NothingIsTickedOffForNothing == Spec => []SeenIsAccountedFor
<1>1. IInv => SeenIsAccountedFor
  BY DEF IInv
<1> QED
  BY <1>1, InvariantHolds, PTL
=============================================================================
