------------------------- MODULE DownloadSlotsProofs -------------------------
(***************************************************************************)
(* Proofs about DownloadSlots, for any finite set of jobs, any limits and  *)
(* any number of acquire() calls.                                          *)
(*                                                                         *)
(* The inductive invariant is the conjunction of the four properties the   *)
(* runs check: the accounting of slots needs to know which jobs are in the *)
(* line, and the absence of a lost wake-up needs the line not to be empty  *)
(* while somebody sleeps in it.                                            *)
(***************************************************************************)
EXTENDS DownloadSlots, FiniteSetTheorems, SequenceTheorems, TLAPS

IInv == TypeOK /\ SlotAccounting /\ LineIsTheWaiters /\ NoMissedWakeup

(* deque.remove on a line without repetition: one place shorter, still     *)
(* without repetition, and exactly x is gone.                              *)
LEMMA WithoutProperties ==
  ASSUME NEW S, NEW s \in Seq(S), IsInjective(s), NEW x \in ToSet(s)
  PROVE  /\ Without(s, x) \in Seq(S)
         /\ IsInjective(Without(s, x))
         /\ ToSet(Without(s, x)) = ToSet(s) \ {x}
         /\ x = Head(s) => Without(s, x) = Tail(s)
<1> DEFINE First(i) == s[i] = x /\ \A k \in 1..(i - 1) : s[k] # x
           p == CHOOSE i \in DOMAIN s : First(i)
           r == Without(s, x)
<1>1. /\ Len(s) \in Nat
      /\ DOMAIN s = 1..Len(s)
      /\ \A i \in 1..Len(s) : s[i] \in S
  BY LenProperties
<1>2. PICK q \in 1..Len(s) : s[q] = x
  BY <1>1 DEF ToSet
<1>3. First(q)
  BY <1>1, <1>2 DEF IsInjective
<1>4. p \in 1..Len(s) /\ s[p] = x
  BY <1>1, <1>3
<1>5. r = RemoveAt(s, p)
  BY DEF Without
<1>6. r = SubSeq(s, 1, p - 1) \o SubSeq(s, p + 1, Len(s))
  BY <1>5 DEF RemoveAt
<1> HIDE DEF p, r
<1> DEFINE u == SubSeq(s, 1, p - 1)
           v == SubSeq(s, p + 1, Len(s))
<1>7. /\ u \in Seq(S)
      /\ Len(u) = p - 1
      /\ \A i \in 1..(p - 1) : u[i] = s[i]
  <2>1. \A i \in 1..(p - 1) : s[i] \in S
    BY <1>1, <1>4
  <2>2. 1 \in Int /\ p - 1 \in Int
    BY <1>4
  <2>3. /\ u \in Seq(S)
        /\ Len(u) = IF 1 <= p - 1 THEN (p - 1) - 1 + 1 ELSE 0
        /\ \A i \in 1..((p - 1) - 1 + 1) : u[i] = s[1 + i - 1]
    BY <2>1, <2>2, SubSeqProperties
  <2> HIDE DEF u
  <2>4. ASSUME NEW i \in 1..(p - 1) PROVE u[i] = s[i]
    <3>1. i \in 1..((p - 1) - 1 + 1) /\ 1 + i - 1 = i
      BY <1>4
    <3> QED
      BY <2>3, <3>1
  <2> QED
    BY <1>4, <2>3, <2>4
<1>8. /\ v \in Seq(S)
      /\ Len(v) = Len(s) - p
      /\ \A i \in 1..(Len(s) - p) : v[i] = s[p + i]
  <2>1. \A i \in (p + 1)..Len(s) : s[i] \in S
    BY <1>1, <1>4
  <2>2. p + 1 \in Int /\ Len(s) \in Int
    BY <1>1, <1>4
  <2>3. /\ v \in Seq(S)
        /\ Len(v) = IF p + 1 <= Len(s) THEN Len(s) - (p + 1) + 1 ELSE 0
        /\ \A i \in 1..(Len(s) - (p + 1) + 1) : v[i] = s[p + 1 + i - 1]
    BY <2>1, <2>2, SubSeqProperties
  <2> HIDE DEF v
  <2>4. ASSUME NEW i \in 1..(Len(s) - p) PROVE v[i] = s[p + i]
    <3>1. i \in 1..(Len(s) - (p + 1) + 1) /\ p + 1 + i - 1 = p + i
      BY <1>1, <1>4
    <3> QED
      BY <2>3, <3>1
  <2>5. Len(v) = Len(s) - p
    <3>1. Len(v) = IF p + 1 <= Len(s) THEN Len(s) - (p + 1) + 1 ELSE 0
      BY <2>3
    <3>2. CASE p + 1 <= Len(s)
      BY <1>1, <1>4, <3>1, <3>2
    <3>3. CASE p = Len(s)
      BY <1>1, <1>4, <3>1, <3>3
    <3>4. p + 1 <= Len(s) \/ p = Len(s)
      <4> DEFINE n == Len(s)
      <4>1. n \in Nat /\ p \in 1..n
        BY <1>1, <1>4
      <4> HIDE DEF n
      <4>2. p + 1 <= n \/ p = n
        BY <4>1
      <4> QED
        BY <4>2 DEF n
    <3> QED
      BY <3>2, <3>3, <3>4
  <2> QED
    BY <2>3, <2>4, <2>5
<1>9. /\ r \in Seq(S)
      /\ Len(r) = Len(s) - 1
      /\ \A i \in 1..(Len(s) - 1) : r[i] = IF i < p THEN s[i] ELSE s[i + 1]
  <2>1. r = u \o v
    BY <1>6
  <2> HIDE DEF u, v
  <2>2. /\ u \o v \in Seq(S)
        /\ Len(u \o v) = Len(u) + Len(v)
        /\ \A i \in 1..(Len(u) + Len(v)) :
             (u \o v)[i] = IF i <= Len(u) THEN u[i] ELSE v[i - Len(u)]
    BY <1>7, <1>8, ConcatProperties
  <2>3. Len(r) = Len(s) - 1
    BY <1>1, <1>4, <1>7, <1>8, <2>1, <2>2
  <2>4. ASSUME NEW i \in 1..(Len(s) - 1)
        PROVE  r[i] = IF i < p THEN s[i] ELSE s[i + 1]
    <3>1. r[i] = IF i <= p - 1 THEN u[i] ELSE v[i - (p - 1)]
      BY <1>1, <1>4, <1>7, <1>8, <2>1, <2>2
    <3>2. CASE i < p
      BY <1>4, <1>7, <3>1, <3>2
    <3>3. CASE i >= p
      <4>1. i - (p - 1) \in 1..(Len(s) - p) /\ p + (i - (p - 1)) = i + 1
        BY <1>1, <1>4, <3>3
      <4>2. v[i - (p - 1)] = s[p + (i - (p - 1))]
        BY <1>8, <4>1
      <4> QED
        BY <1>4, <3>1, <3>3, <4>1, <4>2
    <3> QED
      BY <1>4, <3>2, <3>3
  <2> QED
    BY <2>1, <2>2, <2>3, <2>4
<1>10. DOMAIN r = 1..(Len(s) - 1)
  BY <1>9
<1>11. IsInjective(r)
  <2>1. ASSUME NEW i \in 1..(Len(s) - 1), NEW k \in 1..(Len(s) - 1), r[i] = r[k]
        PROVE  i = k
    <3> DEFINE m(n) == IF n < p THEN n ELSE n + 1
    <3>1. r[i] = s[m(i)] /\ r[k] = s[m(k)]
      BY <1>9
    <3>2. m(i) \in DOMAIN s /\ m(k) \in DOMAIN s
      BY <1>1, <1>4
    <3>3. m(i) = m(k)
      BY <2>1, <3>1, <3>2 DEF IsInjective
    <3> QED
      BY <1>1, <1>4, <3>3
  <2> QED
    BY <1>10, <2>1 DEF IsInjective
<1>12. ToSet(r) = ToSet(s) \ {x}
  <2>1. ASSUME NEW y \in ToSet(r) PROVE y \in ToSet(s) \ {x}
    <3>1. PICK i \in 1..(Len(s) - 1) : y = r[i]
      BY <1>10 DEF ToSet
    <3>2. PICK k \in 1..Len(s) : k # p /\ y = s[k]
      BY <1>1, <1>4, <1>9, <3>1
    <3>3. y # x
      BY <1>1, <1>4, <3>2 DEF IsInjective
    <3> QED
      BY <1>1, <3>2, <3>3 DEF ToSet
  <2>2. ASSUME NEW y \in ToSet(s) \ {x} PROVE y \in ToSet(r)
    <3>1. PICK k \in 1..Len(s) : k # p /\ y = s[k]
      BY <1>1, <1>4 DEF ToSet
    <3>2. CASE k < p
      BY <1>1, <1>4, <1>9, <1>10, <3>1, <3>2, SMTT(20) DEF ToSet
    <3>3. CASE k > p
      <4>1. k - 1 \in 1..(Len(s) - 1) /\ r[k - 1] = s[k]
        BY <1>1, <1>4, <1>9, <3>3
      <4> QED
        BY <1>10, <3>1, <4>1 DEF ToSet
    <3> QED
      BY <1>1, <1>4, <3>1, <3>2, <3>3
  <2> QED
    BY <2>1, <2>2
<1>13. ASSUME x = Head(s) PROVE r = Tail(s)
  <2>1. s # <<>>
    BY <1>1, <1>2
  <2>2. p = 1
    BY <1>1, <1>4, <1>13, <2>1 DEF IsInjective
  <2>3. /\ Tail(s) \in Seq(S)
        /\ Len(Tail(s)) = Len(s) - 1
        /\ \A i \in 1..(Len(s) - 1) : Tail(s)[i] = s[i + 1]
    BY <1>1, <2>1
  <2>4. \A i \in 1..Len(r) : r[i] = Tail(s)[i]
    BY <1>1, <1>9, <2>2, <2>3
  <2> QED
    BY <1>9, <2>3, <2>4, SeqEqual
<1> QED
  BY <1>9, <1>11, <1>12, <1>13 DEF r

(* notify_all moves sleepers back to their test and nobody else.           *)
LEMMA NotifyAllProperties ==
  ASSUME at \in [Jobs -> Places]
  PROVE  /\ NotifyAll(at) \in [Jobs -> Places]
         /\ \A j \in Jobs : /\ NotifyAll(at)[j] # "asleep"
                            /\ NotifyAll(at)[j] = "holding" <=> at[j] = "holding"
                            /\ NotifyAll(at)[j] = "out" <=> at[j] = "out"
BY DEF NotifyAll, Places

(* A set of jobs is finite, and gaining or losing one moves its size by one. *)
LEMMA CountingJobs ==
  ASSUME NEW T \in SUBSET Jobs
  PROVE  /\ IsFiniteSet(T)
         /\ Cardinality(T) \in 0..Cardinality(Jobs)
         /\ \A j \in Jobs \ T : Cardinality(T \cup {j}) = Cardinality(T) + 1
         /\ \A j \in T : Cardinality(T \ {j}) = Cardinality(T) - 1
<1>1. /\ IsFiniteSet(T)
      /\ Cardinality(T) <= Cardinality(Jobs)
  BY JobsAssumption, FS_Subset
<1>2. Cardinality(T) \in Nat /\ Cardinality(Jobs) \in Nat
  BY <1>1, JobsAssumption, FS_CardinalityType
<1>3. \A j \in Jobs \ T : Cardinality(T \cup {j}) = Cardinality(T) + 1
  BY <1>1, FS_AddElement
<1>4. \A j \in T : Cardinality(T \ {j}) = Cardinality(T) - 1
  BY <1>1, FS_RemoveElement
<1> QED
  BY <1>1, <1>2, <1>3, <1>4

(* The invariant holds at the start: nobody waits, nobody holds.           *)
LEMMA InitInvariant == Init => IInv
<1> SUFFICES ASSUME Init PROVE IInv
  OBVIOUS
<1>1. Holding = {} /\ Waiting = {}
  BY DEF Init, Holding, Waiting
<1>2. Cardinality({}) = 0 /\ Cardinality(Jobs) \in Nat
  BY JobsAssumption, FS_EmptySet, FS_CardinalityType
<1>3. line = <<>> /\ DOMAIN <<>> = {}
  BY DEF Init
<1>4. TypeOK
  <2>1. 0 \in 0..MaxTickets /\ 0 \in 0..Cardinality(Jobs)
    BY <1>2, TicketsAssumption
  <2>2. <<>> \in Seq(Jobs)
    OBVIOUS
  <2> QED
    BY <2>1, <2>2 DEF Init, TypeOK, Places
<1>5. LineIsTheWaiters
  BY <1>1, <1>3 DEF LineIsTheWaiters, IsInjective, ToSet
<1>6. NoMissedWakeup
  BY DEF Init, NoMissedWakeup
<1> QED
  BY <1>1, <1>2, <1>4, <1>5, <1>6 DEF Init, IInv, SlotAccounting

(* A thread enters: it is behind everyone, so no sleeper's turn comes.     *)
LEMMA EnterInvariant == ASSUME IInv, NEW j \in Jobs, Enter(j) PROVE IInv'
<1> USE DEF IInv
<1>1. j \notin Waiting /\ j \notin Holding /\ at \in [Jobs -> Places]
  BY DEF Enter, Waiting, Holding, TypeOK
<1>2. at' = [at EXCEPT ![j] = "joined"] /\ line' = Append(line, j)
  BY DEF Enter
<1>3. Holding' = Holding /\ Waiting' = Waiting \cup {j}
  BY <1>1, <1>2 DEF Holding, Waiting, Enter
<1>4. /\ Len(line) \in Nat /\ DOMAIN line = 1..Len(line)
      /\ line' \in Seq(Jobs) /\ Len(line') = Len(line) + 1
      /\ \A i \in 1..Len(line) : line'[i] = line[i]
      /\ line'[Len(line) + 1] = j
  BY <1>2 DEF TypeOK
<1>5. DOMAIN line' = 1..(Len(line) + 1)
  BY <1>4
<1>6. \A i \in 1..Len(line) : line[i] # j
  BY <1>1, <1>4 DEF LineIsTheWaiters, ToSet
<1>7. IsInjective(line')
  BY <1>4, <1>5, <1>6 DEF LineIsTheWaiters, IsInjective
<1>8. ToSet(line') = ToSet(line) \cup {j}
  BY <1>4, <1>5 DEF ToSet
<1>9. TypeOK'
  <2>1. tickets + 1 \in 0..MaxTickets
    BY TicketsAssumption DEF Enter, TypeOK
  <2> QED
    BY <1>1, <1>2, <1>4, <2>1 DEF TypeOK, Enter, flagVars, Places
<1>10. NoMissedWakeup'
  <2> SUFFICES ASSUME NEW k \in Jobs, at'[k] = "asleep"
               PROVE  /\ ~Turn(k)'
                      /\ cancelled'[k] \/ paused'[k] => wakeOwed'
    BY DEF NoMissedWakeup
  <2>1. at[k] = "asleep" /\ k # j
    BY <1>1, <1>2
  <2>2. ~Turn(k) /\ (cancelled[k] \/ paused[k] => wakeOwed)
    BY <2>1 DEF NoMissedWakeup
  <2>3. k \in ToSet(line)
    BY <2>1 DEF LineIsTheWaiters, Waiting
  <2>4. line # <<>> /\ 1 \in 1..Len(line)
    BY <1>4, <2>3 DEF ToSet
  <2>5. line' # <<>> /\ Head(line') = Head(line)
    BY <1>4, <2>4
  <2> QED
    BY <2>2, <2>4, <2>5 DEF Turn, Enter, flagVars
<1> QED
  BY <1>3, <1>7, <1>8, <1>9, <1>10 DEF LineIsTheWaiters, SlotAccounting, Enter

(* A thread leaves the line for place: the line loses exactly that job and *)
(* nobody is left asleep.                                                  *)
LEMMA LeaveLineProperties ==
  ASSUME IInv, NEW j \in Waiting, NEW place \in {"out", "holding"}, LeaveLine(j, place)
  PROVE  /\ line' \in Seq(Jobs) /\ IsInjective(line') /\ ToSet(line') = Waiting'
         /\ queueSeq' \in [Jobs -> 0..MaxTickets]
         /\ at' \in [Jobs -> Places]
         /\ \A k \in Jobs : at'[k] # "asleep"
         /\ Waiting' = Waiting \ {j}
         /\ Holding' = IF place = "holding" THEN Holding \cup {j} ELSE Holding
         /\ j \notin Holding
<1> USE DEF IInv
<1>1. j \in Jobs /\ j \in ToSet(line) /\ at[j] \in {"joined", "asleep"}
  BY DEF Waiting, LineIsTheWaiters
<1>2. /\ line' \in Seq(Jobs) /\ IsInjective(line')
      /\ ToSet(line') = ToSet(line) \ {j}
  BY <1>1, WithoutProperties DEF LeaveLine, LineIsTheWaiters, TypeOK
<1>3. /\ at' \in [Jobs -> Places]
      /\ \A k \in Jobs : at'[k] = IF k = j THEN place ELSE NotifyAll(at)[k]
  BY NotifyAllProperties, <1>1 DEF LeaveLine, TypeOK, Places
<1>4. \A k \in Jobs : at'[k] # "asleep"
  BY <1>3, NotifyAllProperties DEF TypeOK
<1>5. Waiting' = Waiting \ {j}
  BY <1>1, <1>3, NotifyAllProperties DEF Waiting, TypeOK, Places
<1>6. Holding' = IF place = "holding" THEN Holding \cup {j} ELSE Holding
  BY <1>1, <1>3, NotifyAllProperties DEF Holding, TypeOK, Places
<1>7. queueSeq' \in [Jobs -> 0..MaxTickets]
  BY TicketsAssumption, <1>1 DEF LeaveLine, TypeOK
<1> QED
  BY <1>1, <1>2, <1>3, <1>4, <1>5, <1>6, <1>7 DEF LineIsTheWaiters, Holding

LEMMA TakeInvariant == ASSUME IInv, NEW j \in Jobs, Take(j) PROVE IInv'
<1> USE DEF IInv
<1>1. j \in Waiting /\ LeaveLine(j, "holding")
  BY DEF Take, Waiting
<1>2. Holding' = Holding \cup {j} /\ j \notin Holding
  BY <1>1, LeaveLineProperties
<1>3. Holding \in SUBSET Jobs /\ Holding' \in SUBSET Jobs
  BY <1>2 DEF Holding
<1>4. SlotAccounting'
  BY <1>2, <1>3, CountingJobs DEF SlotAccounting, Take
<1>5. TypeOK'
  BY <1>1, <1>3, <1>4, CountingJobs, LeaveLineProperties
     DEF TypeOK, Take, flagVars, SlotAccounting
<1> QED
  BY <1>1, <1>4, <1>5, LeaveLineProperties DEF LineIsTheWaiters, NoMissedWakeup

LEMMA QuitInvariant == ASSUME IInv, NEW j \in Jobs, Quit(j) PROVE IInv'
<1> USE DEF IInv
<1>1. j \in Waiting /\ LeaveLine(j, "out")
  BY DEF Quit, Waiting
<1>2. Holding' = Holding
  BY <1>1, LeaveLineProperties
<1>3. TypeOK'
  BY <1>1, LeaveLineProperties DEF TypeOK, Quit, flagVars
<1> QED
  BY <1>1, <1>2, <1>3, LeaveLineProperties
     DEF Quit, SlotAccounting, LineIsTheWaiters, NoMissedWakeup

(* A thread sleeps only when it has nothing to do.                         *)
LEMMA SleepInvariant == ASSUME IInv, NEW j \in Jobs, Sleep(j) PROVE IInv'
<1> USE DEF IInv
<1>1. /\ at[j] = "joined" /\ at' = [at EXCEPT ![j] = "asleep"] /\ at \in [Jobs -> Places]
      /\ UNCHANGED <<limit, busy, line, tickets, queueSeq, paused, cancelled, wakeOwed>>
  BY DEF Sleep, flagVars, TypeOK
<1>2. Holding' = Holding /\ Waiting' = Waiting
  BY <1>1 DEF Holding, Waiting
<1>3. TypeOK'
  BY <1>1 DEF TypeOK, Places
<1>4. NoMissedWakeup'
  BY <1>1 DEF NoMissedWakeup, Sleep, Turn
<1> QED
  BY <1>1, <1>2, <1>3, <1>4 DEF SlotAccounting, LineIsTheWaiters

LEMMA ReleaseInvariant == ASSUME IInv, NEW j \in Jobs, Release(j) PROVE IInv'
<1> USE DEF IInv
<1>1. /\ at[j] = "holding" /\ busy' = busy - 1 /\ at \in [Jobs -> Places]
      /\ at' = [NotifyAll(at) EXCEPT ![j] = "out"]
      /\ UNCHANGED <<limit, line, tickets, queueSeq, paused, cancelled, wakeOwed>>
  BY DEF Release, flagVars, TypeOK
<1>2. /\ at' \in [Jobs -> Places]
      /\ \A k \in Jobs : at'[k] = IF k = j THEN "out" ELSE NotifyAll(at)[k]
  BY <1>1, NotifyAllProperties DEF Places
<1>3. \A k \in Jobs : at'[k] # "asleep"
  BY <1>1, <1>2, NotifyAllProperties
<1>4. Holding' = Holding \ {j} /\ Waiting' = Waiting
  BY <1>1, <1>2, NotifyAllProperties DEF Holding, Waiting, Places
<1>5. j \in Holding /\ Holding \in SUBSET Jobs /\ Holding' \in SUBSET Jobs
  BY <1>1, <1>4 DEF Holding
<1>6. SlotAccounting'
  BY <1>1, <1>4, <1>5, CountingJobs DEF SlotAccounting
<1>7. TypeOK'
  BY <1>1, <1>2, <1>5, <1>6, CountingJobs DEF TypeOK, SlotAccounting
<1> QED
  BY <1>1, <1>3, <1>4, <1>6, <1>7 DEF LineIsTheWaiters, NoMissedWakeup

(* A change of the limit and a wake() both leave nobody asleep.            *)
LEMMA NotifyInvariant ==
  ASSUME IInv, at' = NotifyAll(at), limit' \in Limits, wakeOwed' \in BOOLEAN,
         UNCHANGED <<busy, line, tickets, queueSeq, paused, cancelled>>
  PROVE  IInv'
<1> USE DEF IInv
<1>1. at \in [Jobs -> Places]
  BY DEF TypeOK
<1>2. Holding' = Holding /\ Waiting' = Waiting
  BY <1>1, NotifyAllProperties DEF Holding, Waiting, Places
<1>3. TypeOK'
  BY <1>1, NotifyAllProperties DEF TypeOK
<1> QED
  BY <1>1, <1>2, <1>3, NotifyAllProperties DEF SlotAccounting, LineIsTheWaiters, NoMissedWakeup

(* A flag that is set owes a wake; a flag that is cleared wakes nobody and *)
(* need not.                                                               *)
LEMMA FlagInvariant ==
  ASSUME IInv, NEW j \in Jobs, Cancel(j) \/ Pause(j) \/ Resume(j)
  PROVE  IInv'
<1> USE DEF IInv
<1>1. UNCHANGED <<limit, busy, line, tickets, at>>
  BY DEF Cancel, Pause, Resume, slotVars
<1>2. Holding' = Holding /\ Waiting' = Waiting
  BY <1>1 DEF Holding, Waiting
<1>3. TypeOK'
  <2>1. /\ queueSeq' \in [Jobs -> 0..MaxTickets]
        /\ cancelled' \in [Jobs -> BOOLEAN]
        /\ wakeOwed' \in BOOLEAN
    <3>1. CASE Cancel(j)
      BY <3>1 DEF TypeOK, Cancel, slotVars
    <3>2. CASE Pause(j)
      BY <3>2, TicketsAssumption DEF TypeOK, Pause
    <3>3. CASE Resume(j)
      BY <3>3 DEF TypeOK, Resume, slotVars
    <3> QED
      BY <3>1, <3>2, <3>3
  <2>2. paused' \in [Jobs -> BOOLEAN]
    BY DEF TypeOK, Cancel, Pause, Resume
  <2> QED
    BY <1>1, <2>1, <2>2 DEF TypeOK
<1>4. NoMissedWakeup'
  BY <1>1 DEF NoMissedWakeup, Turn, Cancel, Pause, Resume, slotVars, TypeOK
<1> QED
  BY <1>1, <1>2, <1>3, <1>4 DEF SlotAccounting, LineIsTheWaiters

(* Every step keeps the invariant.                                         *)
LEMMA NextInvariant == IInv /\ [Next]_vars => IInv'
<1> SUFFICES ASSUME IInv, [Next]_vars PROVE IInv'
  OBVIOUS
<1>1. ASSUME NEW j \in Jobs, Enter(j) PROVE IInv'
  BY <1>1, EnterInvariant
<1>2. ASSUME NEW j \in Jobs, Take(j) PROVE IInv'
  BY <1>2, TakeInvariant
<1>3. ASSUME NEW j \in Jobs, Quit(j) PROVE IInv'
  BY <1>3, QuitInvariant
<1>4. ASSUME NEW j \in Jobs, Sleep(j) PROVE IInv'
  BY <1>4, SleepInvariant
<1>5. ASSUME NEW j \in Jobs, Release(j) PROVE IInv'
  BY <1>5, ReleaseInvariant
<1>6. ASSUME NEW j \in Jobs, Cancel(j) \/ Pause(j) \/ Resume(j) PROVE IInv'
  BY <1>6, FlagInvariant
<1>7. ASSUME NEW n \in Limits, Resize(n) PROVE IInv'
  BY <1>7, NotifyInvariant DEF Resize, flagVars, IInv, TypeOK
<1>8. CASE Wake
  BY <1>8, NotifyInvariant DEF Wake, IInv, TypeOK
<1>9. CASE UNCHANGED vars
  <2>1. Holding' = Holding /\ Waiting' = Waiting
    BY <1>9 DEF vars, Holding, Waiting
  <2> QED
    BY <1>9, <2>1 DEF vars, IInv, TypeOK, SlotAccounting, LineIsTheWaiters, NoMissedWakeup, Turn
<1> QED
  BY <1>1, <1>2, <1>3, <1>4, <1>5, <1>6, <1>7, <1>8, <1>9 DEF Next

THEOREM InvariantHolds == Spec => []IInv
BY InitInvariant, NextInvariant, PTL DEF Spec

(* The variables keep their types; the busy counter is never negative.     *)
THEOREM TypeCorrect == Spec => []TypeOK
<1>1. IInv => TypeOK
  BY DEF IInv
<1> QED
  BY <1>1, InvariantHolds, PTL

(* No path through acquire() and release() loses a slot or frees it twice. *)
THEOREM SlotsAreAccountedFor == Spec => []SlotAccounting
<1>1. IInv => SlotAccounting
  BY DEF IInv
<1> QED
  BY <1>1, InvariantHolds, PTL

(* The line holds each waiting job exactly once.                           *)
THEOREM LineHoldsTheWaiters == Spec => []LineIsTheWaiters
<1>1. IInv => LineIsTheWaiters
  BY DEF IInv
<1> QED
  BY <1>1, InvariantHolds, PTL

(* No thread sleeps through the event it waits for.                        *)
THEOREM NoWakeupIsMissed == Spec => []NoMissedWakeup
<1>1. IInv => NoMissedWakeup
  BY DEF IInv
<1> QED
  BY <1>1, InvariantHolds, PTL

-----------------------------------------------------------------------------
(* Every step of the monitor is a step of the promise, or changes nothing  *)
(* the promise speaks of.  A thread that takes a slot is at the head of the *)
(* line and finds fewer than limit holders because busy counts them.       *)
LEMMA StepKeepsThePromise ==
  ASSUME IInv, Next
  PROVE  Fifo!Next \/ UNCHANGED <<limit, line, Holding>>
<1> USE DEF IInv
<1>a. \A s : Fifo!ToSet(s) = ToSet(s)
  BY DEF Fifo!ToSet, ToSet
<1>b. \A s, x : Fifo!Without(s, x) = Without(s, x)
  BY DEF Fifo!Without, Without, Fifo!RemoveAt, RemoveAt
<1>c. Fifo!Cardinality(Holding) = Cardinality(Holding)
  BY DEF Fifo!Cardinality, Cardinality
<1>1. ASSUME NEW j \in Jobs, Enter(j) PROVE Fifo!Join(j)
  <2>1. at[j] = "out" /\ at' = [at EXCEPT ![j] = "joined"] /\ at \in [Jobs -> Places]
    BY <1>1 DEF Enter, TypeOK
  <2>2. j \notin ToSet(line) \cup Holding
    BY <2>1 DEF LineIsTheWaiters, Waiting, Holding
  <2>3. Holding' = Holding
    BY <2>1 DEF Holding
  <2> QED
    BY <1>1, <1>a, <2>2, <2>3 DEF Enter, Fifo!Join
<1>2. ASSUME NEW j \in Jobs, Take(j) PROVE Fifo!Grant(j)
  <2>1. j \in Waiting /\ LeaveLine(j, "holding") /\ Turn(j)
    BY <1>2 DEF Take, Waiting
  <2>2. line' = Without(line, j)
    BY <2>1 DEF LeaveLine
  <2>3. line' = Tail(line)
    BY <2>1, <2>2, WithoutProperties DEF LineIsTheWaiters, TypeOK, Turn
  <2>4. Holding' = Holding \cup {j}
    BY <2>1, LeaveLineProperties
  <2> QED
    BY <1>2, <1>c, <2>1, <2>3, <2>4 DEF Take, Turn, SlotAccounting, Fifo!Grant
<1>3. ASSUME NEW j \in Jobs, Quit(j) PROVE Fifo!GiveUp(j)
  <2>1. j \in Waiting /\ LeaveLine(j, "out")
    BY <1>3 DEF Quit, Waiting
  <2>2. Holding' = Holding
    BY <2>1, LeaveLineProperties
  <2> QED
    BY <1>3, <1>a, <1>b, <2>1, <2>2 DEF Quit, LeaveLine, LineIsTheWaiters, Fifo!GiveUp
<1>4. ASSUME NEW j \in Jobs, Sleep(j) PROVE UNCHANGED <<limit, line, Holding>>
  BY <1>4 DEF Sleep, Holding, TypeOK
<1>5. ASSUME NEW j \in Jobs, Release(j) PROVE Fifo!Finish(j)
  <2>1. /\ at[j] = "holding" /\ at \in [Jobs -> Places]
        /\ \A k \in Jobs : at'[k] = IF k = j THEN "out" ELSE NotifyAll(at)[k]
    BY <1>5, NotifyAllProperties DEF Release, TypeOK
  <2>2. Holding' = Holding \ {j} /\ j \in Holding
    BY <2>1, NotifyAllProperties DEF Holding
  <2> QED
    BY <1>5, <2>2 DEF Release, Fifo!Finish
<1>6. ASSUME NEW j \in Jobs, Cancel(j) \/ Pause(j) \/ Resume(j)
      PROVE  UNCHANGED <<limit, line, Holding>>
  BY <1>6 DEF Cancel, Pause, Resume, slotVars, Holding
<1>7. ASSUME NEW n \in Limits, Resize(n) PROVE Fifo!Resize(n)
  BY <1>7, NotifyAllProperties DEF Resize, TypeOK, Holding, Fifo!Resize
<1>8. CASE Wake
  BY <1>8, NotifyAllProperties DEF Wake, TypeOK, Holding
<1> QED
  BY <1>1, <1>2, <1>3, <1>4, <1>5, <1>6, <1>7, <1>8 DEF Next, Fifo!Next

(* The monitor implements FifoSlots: at most limit at once, in order of    *)
(* arrival, whatever is cancelled, paused, resumed or resized meanwhile.   *)
THEOREM MonitorKeepsThePromise == Spec => KeepsThePromise
<1>1. Init => Fifo!Init
  BY DEF Init, Fifo!Init, Holding
<1>2. IInv /\ [Next]_vars => [Fifo!Next]_Fifo!vars
  <2> SUFFICES ASSUME IInv, [Next]_vars PROVE [Fifo!Next]_Fifo!vars
    OBVIOUS
  <2>1. CASE Next
    BY <2>1, StepKeepsThePromise DEF Fifo!vars
  <2>2. CASE UNCHANGED vars
    BY <2>2 DEF vars, Fifo!vars, Holding
  <2> QED
    BY <2>1, <2>2
<1> QED
  BY <1>1, <1>2, InvariantHolds, PTL DEF Spec, KeepsThePromise, Fifo!Spec
=============================================================================
