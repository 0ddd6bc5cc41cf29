----------------------------- MODULE PanelProofs ------------------------------
(***************************************************************************)
(* Proofs about the components of the panel, each in its instance in       *)
(* MCPanel, for any downloads, channels, persons, folders, ...: as many as *)
(* there are, and any bounds.  A component has a section: its variables    *)
(* under the names they have there, its inductive invariant, one lemma per *)
(* action that needs one, and the theorem.  What the other components do   *)
(* it does not see: focus stays where it is.                               *)
(***************************************************************************)
EXTENDS MCPanel, FiniteSetTheorems, SequenceTheorems, TLAPS

-----------------------------------------------------------------------------

(***************************************************************************)
(* Destinations: a file that is not whole belongs to somebody who is not   *)
(* finished with it (FileOK), and so does a staging file (StagedOK).       *)
(* Whoever is at work has the lock of its destination (LockOK), so that    *)
(* what it finds there is its own (OwnFile) - or nothing, since a download *)
(* of the title into another container may remove it at any moment.        *)
(***************************************************************************)
at == v1
box == v2
subs == v3
disk == v4
staged == v5
beside == v6
holder == v7
USE DEF at, box, subs, disk, staged, beside, holder

FileSteps == {"prepare", "fetch", "join", "joining", "tracks", "remux", "remuxing", "place",
          "siblings", "clean"}
Writing == {"joining", "tracks", "remux", "remuxing"}

FilesShape ==
  /\ at \in [Downloads -> Files!Over \cup FileSteps]
  /\ box \in [Downloads -> Containers]
  /\ disk \in [Containers -> {Files!Absent} \cup
                 [state : {"partial", "unmerged", "whole"}, by : Downloads]]
  /\ staged \in [Containers -> BOOLEAN]
  /\ holder \in [Containers -> Downloads \cup {Files!Nobody}]

LockOK == \A d \in Downloads : at[d] \notin Files!Over => holder[box[d]] = d

OwnFile ==
  \A d \in Downloads :
    at[d] \in Writing => disk[box[d]] = Files!Absent \/ disk[box[d]].by = d

FileOK ==
  \A c \in Containers :
    \/ disk[c] = Files!Absent \/ disk[c].state = "whole"
    \/ \E d \in Downloads : box[d] = c /\ at[d] \in Writing \cup {"clean"}

StagedOK ==
  \A c \in Containers :
    staged[c] => \E d \in Downloads : box[d] = c /\ at[d] \in {"remuxing", "clean"}

FilesInv == FilesShape /\ LockOK /\ OwnFile /\ FileOK /\ StagedOK


LEMMA FilesInit == Files!Init => FilesInv
BY DEF Files!Init, FilesInv, FilesShape, LockOK, OwnFile, FileOK, StagedOK, Files!Over, Writing

(* Two downloads at work have two destinations.                            *)
LEMMA OneWriter ==
  ASSUME LockOK, NEW d \in Downloads, NEW e \in Downloads,
         at[d] \notin Files!Over, at[e] \notin Files!Over, box[d] = box[e]
  PROVE  d = e
BY DEF LockOK

(* A step of d moves d only.                                               *)
LEMMA DownloadMoves ==
  ASSUME FilesShape, NEW d \in Downloads, NEW s \in Files!Over \cup FileSteps, Files!Go(d, s)
  PROVE  /\ at' \in [Downloads -> Files!Over \cup FileSteps] /\ at'[d] = s
         /\ \A e \in Downloads : e # d => at'[e] = at[e]
BY DEF FilesShape, Files!Go

(* Into the lock and out of it.                                            *)
LEMMA AcquireKeeps ==
  ASSUME FilesInv, NEW d \in Downloads, Files!Acquire(d)
  PROVE  FilesInv'
<1>1. /\ at[d] = "idle" /\ holder[box[d]] = Files!Nobody /\ Files!Go(d, "prepare")
      /\ holder' = [holder EXCEPT ![box[d]] = d] /\ UNCHANGED <<box, disk, staged>>
  BY DEF Files!Acquire, Files!choiceVars, Files!fileVars
<1>2. FilesShape /\ LockOK /\ OwnFile /\ FileOK /\ StagedOK /\ box[d] \in Containers
  BY DEF FilesInv, FilesShape
<1>3. /\ at' \in [Downloads -> Files!Over \cup FileSteps] /\ at'[d] = "prepare"
      /\ \A e \in Downloads : e # d => at'[e] = at[e]
  BY <1>1, <1>2, DownloadMoves DEF FileSteps
<1>4. FilesShape' /\ holder'[box[d]] = d /\ \A c \in Containers : c # box[d] => holder'[c] = holder[c]
  BY <1>1, <1>2, <1>3 DEF FilesShape
<1>5. LockOK'
  BY <1>1, <1>2, <1>3, <1>4, DownloadsAssumption DEF LockOK, FilesShape, Files!Nobody
<1>6. OwnFile' /\ FileOK' /\ StagedOK'
  BY <1>1, <1>2, <1>3 DEF OwnFile, FileOK, StagedOK, Writing
<1> QED
  BY <1>4, <1>5, <1>6 DEF FilesInv

(* While it has the lock: the file, if it changes, is in the step's hands. *)
LEMMA WorkKeeps ==
  ASSUME FilesInv, NEW d \in Downloads, NEW s \in FileSteps, at[d] \notin Files!Over, Files!Go(d, s),
         UNCHANGED <<box, holder>>,
         disk' \in [Containers -> {Files!Absent} \cup
                      [state : {"partial", "unmerged", "whole"}, by : Downloads]],
         staged' \in [Containers -> BOOLEAN],
         \A c \in Containers : c # box[d] => disk'[c] = disk[c] /\ staged'[c] = staged[c],
         s \in Writing => disk'[box[d]] = Files!Absent \/ disk'[box[d]].by = d,
         \/ disk'[box[d]] = Files!Absent \/ disk'[box[d]].state = "whole"
         \/ s \in Writing \cup {"clean"},
         staged'[box[d]] => s \in {"remuxing", "clean"}
  PROVE  FilesInv'
<1>1. FilesShape /\ LockOK /\ OwnFile /\ FileOK /\ StagedOK /\ box[d] \in Containers
  BY DEF FilesInv, FilesShape
<1>2. /\ at' \in [Downloads -> Files!Over \cup FileSteps] /\ at'[d] = s
      /\ \A e \in Downloads : e # d => at'[e] = at[e]
  BY <1>1, DownloadMoves
<1>3. \A e \in Downloads : e # d /\ at[e] \notin Files!Over => box[e] # box[d]
  BY <1>1, OneWriter
<1>4. FilesShape' /\ LockOK'
  BY <1>1, <1>2 DEF FilesShape, LockOK
<1>5. OwnFile'
  <2> SUFFICES ASSUME NEW e \in Downloads, at'[e] \in Writing
               PROVE  disk'[box[e]] = Files!Absent \/ disk'[box[e]].by = e
    BY DEF OwnFile
  <2>1. CASE e = d
    BY <1>2, <2>1
  <2>2. CASE e # d
    <3>1. at[e] \in Writing /\ box[e] # box[d] /\ box[e] \in Containers
      BY <1>1, <1>2, <1>3, <2>2 DEF Writing, Files!Over, FilesShape
    <3> QED
      BY <1>1, <3>1 DEF OwnFile
  <2> QED
    BY <2>1, <2>2
<1>6. FileOK'
  <2> SUFFICES ASSUME NEW c \in Containers
               PROVE  \/ disk'[c] = Files!Absent \/ disk'[c].state = "whole"
                      \/ \E e \in Downloads : box[e] = c /\ at'[e] \in Writing \cup {"clean"}
    BY DEF FileOK
  <2>1. CASE c = box[d]
    BY <1>2, <2>1
  <2>2. CASE c # box[d]
    BY <1>1, <1>2, <2>2 DEF FileOK
  <2> QED
    BY <2>1, <2>2
<1>7. StagedOK'
  <2> SUFFICES ASSUME NEW c \in Containers, staged'[c]
               PROVE  \E e \in Downloads : box[e] = c /\ at'[e] \in {"remuxing", "clean"}
    BY DEF StagedOK
  <2>1. CASE c = box[d]
    BY <1>2, <2>1
  <2>2. CASE c # box[d]
    BY <1>1, <1>2, <2>2 DEF StagedOK
  <2> QED
    BY <2>1, <2>2
<1> QED
  BY <1>4, <1>5, <1>6, <1>7 DEF FilesInv

(* What the holder of the lock finds.                                      *)
LEMMA HolderFinds ==
  ASSUME FilesInv, NEW d \in Downloads, at[d] \notin Files!Over
  PROVE  /\ FilesShape /\ box[d] \in Containers
         /\ at[d] \in Writing => disk[box[d]] = Files!Absent \/ disk[box[d]].by = d
         /\ at[d] \notin Writing \cup {"clean"} =>
              disk[box[d]] = Files!Absent \/ disk[box[d]].state = "whole"
         /\ at[d] \notin {"remuxing", "clean"} => ~staged[box[d]]
<1>1. FilesShape /\ LockOK /\ OwnFile /\ FileOK /\ StagedOK /\ box[d] \in Containers
  BY DEF FilesInv, FilesShape
<1>2. \A e \in Downloads : box[e] = box[d] /\ at[e] \notin Files!Over => e = d
  BY <1>1, OneWriter
<1> QED
  BY <1>1, <1>2 DEF OwnFile, FileOK, StagedOK, Writing, Files!Over

(* Out of the lock: what it leaves is whole, or nothing.                   *)
LEMMA LeavingKeeps ==
  ASSUME FilesInv, NEW d \in Downloads, NEW s \in {"done", "failed"}, at[d] \notin Files!Over,
         Files!Go(d, s), Files!Released(d), box' = box,
         disk' \in [Containers -> {Files!Absent} \cup
                      [state : {"partial", "unmerged", "whole"}, by : Downloads]],
         staged' \in [Containers -> BOOLEAN],
         \A c \in Containers : /\ disk'[c] = disk[c] \/ disk'[c] = Files!Absent
                               /\ staged'[c] => staged[c],
         disk'[box[d]] = Files!Absent \/ disk'[box[d]].state = "whole",
         ~staged'[box[d]]
  PROVE  FilesInv'
<1>1. FilesShape /\ LockOK /\ OwnFile /\ FileOK /\ StagedOK /\ box[d] \in Containers
  BY DEF FilesInv, FilesShape
<1>2. /\ at' \in [Downloads -> Files!Over \cup FileSteps] /\ at'[d] = s /\ s \in Files!Over
      /\ \A e \in Downloads : e # d => at'[e] = at[e]
  BY <1>1, DownloadMoves DEF Files!Over
<1>3. \A e \in Downloads : e # d /\ at[e] \notin Files!Over => box[e] # box[d]
  BY <1>1, OneWriter
<1>4. /\ holder' \in [Containers -> Downloads \cup {Files!Nobody}]
      /\ \A c \in Containers : c # box[d] => holder'[c] = holder[c]
  BY <1>1 DEF Files!Released, FilesShape
<1>5. FilesShape'
  BY <1>1, <1>2, <1>4 DEF FilesShape
<1>6. LockOK'
  BY <1>1, <1>2, <1>3, <1>4 DEF LockOK, FilesShape
<1>7. OwnFile'
  BY <1>1, <1>2 DEF OwnFile, Writing, Files!Over, FilesShape
<1>8. FileOK'
  <2> SUFFICES ASSUME NEW c \in Containers, c # box[d], disk'[c] # Files!Absent,
                      disk'[c].state # "whole"
               PROVE  \E e \in Downloads : box[e] = c /\ at'[e] \in Writing \cup {"clean"}
    BY <1>1 DEF FileOK
  <2> QED
    BY <1>1, <1>2 DEF FileOK
<1>9. StagedOK'
  <2> SUFFICES ASSUME NEW c \in Containers, c # box[d], staged'[c]
               PROVE  \E e \in Downloads : box[e] = c /\ at'[e] \in {"remuxing", "clean"}
    BY <1>1 DEF StagedOK
  <2> QED
    BY <1>1, <1>2 DEF StagedOK
<1> QED
  BY <1>5, <1>6, <1>7, <1>8, <1>9 DEF FilesInv

(* The steps.                                                              *)

(* What the holder writes: a new file, or its own, or - where somebody     *)
(* removed it - nothing.                                                   *)
LEMMA WrittenIsOwn ==
  ASSUME FilesShape, NEW d \in Downloads, NEW state \in {"partial", "unmerged", "whole"},
         disk[box[d]] = Files!Absent \/ disk[box[d]].by = d
  PROVE  Files!Written(d, state) = Files!Absent \/ Files!Written(d, state) = Files!Video(state, d)
BY DEF Files!Written

LEMMA VideoIs ==
  ASSUME NEW d \in Downloads, NEW state \in {"partial", "unmerged", "whole"}
  PROVE  /\ Files!Video(state, d) \in [state : {"partial", "unmerged", "whole"}, by : Downloads]
         /\ Files!Video(state, d).by = d /\ Files!Video(state, d).state = state
BY DEF Files!Video

LEMMA StepKeeps ==
  ASSUME FilesInv, NEW d \in Downloads,
         \/ Files!Prepare(d) \/ Files!Fetch(d) \/ Files!JoinBegins(d) \/ Files!JoinEnds(d) \/ Files!Tracks(d)
         \/ Files!RemuxBegins(d) \/ Files!RemuxEnds(d) \/ Files!Place(d)
  PROVE  FilesInv'
<1>1. at[d] \notin Files!Over /\ UNCHANGED box
  BY DEF Files!Prepare, Files!Fetch, Files!JoinBegins, Files!JoinEnds, Files!Tracks, Files!RemuxBegins, Files!RemuxEnds, Files!Place, Files!Over,
         Files!choiceVars
<1>2. /\ FilesShape /\ box[d] \in Containers
      /\ at[d] \in Writing => disk[box[d]] = Files!Absent \/ disk[box[d]].by = d
      /\ at[d] \notin Writing \cup {"clean"} =>
           disk[box[d]] = Files!Absent \/ disk[box[d]].state = "whole"
      /\ at[d] \notin {"remuxing", "clean"} => ~staged[box[d]]
  BY <1>1, HolderFinds
<1>3. /\ disk \in [Containers -> {Files!Absent} \cup
                     [state : {"partial", "unmerged", "whole"}, by : Downloads]]
      /\ staged \in [Containers -> BOOLEAN]
  BY <1>2 DEF FilesShape
(* On to step s, the files as they are.                                    *)
<1>4. ASSUME NEW s \in FileSteps, Files!Go(d, s), UNCHANGED <<holder, disk, staged>>,
             s \in Writing => at[d] \in Writing,
             s = "clean" \/ at[d] \notin Writing \cup {"clean"}
               \/ (at[d] = "tracks" /\ s = "remux"),
             at[d] # "remuxing" \/ s = "clean"
      PROVE  FilesInv'
  BY <1>1, <1>2, <1>3, <1>4, WorkKeeps DEF Writing, Files!Over
(* On to step s, its file as f.                                            *)
<1>5. ASSUME NEW s \in FileSteps, Files!Go(d, s), UNCHANGED holder,
             NEW state \in {"partial", "unmerged", "whole"},
             NEW f \in {Files!Absent, Files!Video(state, d)},
             disk' = [disk EXCEPT ![box[d]] = f],
             staged' = staged \/ staged' = [staged EXCEPT ![box[d]] = FALSE],
             state = "whole" \/ s \in Writing, ~staged'[box[d]]
      PROVE  FilesInv'
  <2>1. /\ f = Files!Absent \/ f = Files!Video(state, d)
        /\ f \in {Files!Absent} \cup [state : {"partial", "unmerged", "whole"}, by : Downloads]
        /\ f = Files!Absent \/ (f.by = d /\ f.state = state)
    BY VideoIs
  <2>2. /\ disk' \in [Containers -> {Files!Absent} \cup
                       [state : {"partial", "unmerged", "whole"}, by : Downloads]]
        /\ disk'[box[d]] = f /\ staged' \in [Containers -> BOOLEAN]
        /\ \A c \in Containers : c # box[d] => disk'[c] = disk[c] /\ staged'[c] = staged[c]
    BY <1>2, <1>3, <1>5, <2>1
  <2> QED
    BY <1>1, <1>5, <2>1, <2>2, WorkKeeps
<1>6. CASE Files!Prepare(d)
  <2>1. CASE Files!Go(d, "fetch") /\ UNCHANGED holder
    BY <1>4, <1>6, <2>1 DEF Files!Prepare, Files!fileVars, FileSteps, Writing
  <2>2. CASE Files!Go(d, "failed") /\ Files!Released(d)
    <3>1. UNCHANGED <<disk, staged>> /\ at[d] = "prepare"
      BY <1>6 DEF Files!Prepare, Files!fileVars
    <3> QED
      BY <1>1, <1>2, <1>3, <2>2, <3>1, LeavingKeeps DEF Writing
  <2> QED
    BY <1>6, <2>1, <2>2 DEF Files!Prepare
<1>7. CASE Files!Fetch(d)
  <2>1. PICK s \in {"join", "clean"} : Files!Go(d, s)
    BY <1>7 DEF Files!Fetch
  <2> QED
    BY <1>4, <1>7, <2>1 DEF Files!Fetch, Files!fileVars, FileSteps, Writing
<1>8. CASE Files!JoinBegins(d)
  <2>1. /\ at[d] = "join" /\ Files!Go(d, "joining") /\ UNCHANGED <<holder, staged>>
        /\ disk' = [disk EXCEPT ![box[d]] = Files!Video("partial", d)]
    BY <1>8 DEF Files!JoinBegins
  <2>2. ~staged'[box[d]]
    BY <1>2, <2>1
  <2> QED
    BY <1>5, <2>1, <2>2 DEF FileSteps, Writing
<1>9. CASE Files!JoinEnds(d)
  <2>1. at[d] = "joining" /\ UNCHANGED <<holder, staged>> /\ ~staged'[box[d]]
    BY <1>2, <1>9 DEF Files!JoinEnds
  <2>2. \A state \in {"unmerged", "whole"} : Files!Written(d, state) \in {Files!Absent, Files!Video(state, d)}
    BY <1>2, <2>1, WrittenIsOwn DEF Writing
  <2>3. CASE disk' = [disk EXCEPT ![box[d]] = Files!Written(d, "whole")] /\ Files!Go(d, "place")
    BY <1>5, <2>1, <2>2, <2>3 DEF FileSteps
  <2>4. CASE disk' = [disk EXCEPT ![box[d]] = Files!Written(d, "unmerged")] /\ Files!Go(d, "tracks")
    BY <1>5, <2>1, <2>2, <2>4 DEF FileSteps, Writing
  <2>5. CASE UNCHANGED disk /\ Files!Go(d, "clean")
    BY <1>4, <2>1, <2>5 DEF FileSteps, Writing
  <2> QED
    BY <1>9, <2>3, <2>4, <2>5 DEF Files!JoinEnds
<1>10. CASE Files!Tracks(d)
  <2>1. PICK s \in {"remux", "clean"} : Files!Go(d, s)
    BY <1>10 DEF Files!Tracks
  <2> QED
    BY <1>4, <1>10, <2>1 DEF Files!Tracks, Files!fileVars, FileSteps, Writing
<1>11. CASE Files!RemuxBegins(d)
  <2>1. at[d] = "remux" /\ UNCHANGED <<holder, disk>>
    BY <1>11 DEF Files!RemuxBegins
  <2>2. CASE Files!Go(d, "clean") /\ UNCHANGED staged
    BY <1>4, <2>1, <2>2 DEF FileSteps, Writing
  <2>3. CASE Files!Go(d, "remuxing") /\ staged' = [staged EXCEPT ![box[d]] = TRUE]
    <3>1. /\ staged' \in [Containers -> BOOLEAN]
          /\ \A c \in Containers : c # box[d] => staged'[c] = staged[c]
      BY <1>3, <2>3
    <3> QED
      BY <1>1, <1>2, <1>3, <2>1, <2>3, <3>1, WorkKeeps DEF FileSteps, Writing
  <2> QED
    BY <1>11, <2>2, <2>3 DEF Files!RemuxBegins
<1>12. CASE Files!RemuxEnds(d)
  <2>1. at[d] = "remuxing" /\ UNCHANGED holder
    BY <1>12 DEF Files!RemuxEnds
  <2>2. ASSUME disk' = [disk EXCEPT ![box[d]] = IF @ = Files!Absent THEN Files!Video("whole", d)
                                                             ELSE Files!Written(d, "whole")],
               staged' = [staged EXCEPT ![box[d]] = FALSE], Files!Go(d, "place")
        PROVE  FilesInv'
    <3>1. disk' = [disk EXCEPT ![box[d]] = Files!Video("whole", d)]
      BY <1>2, <2>1, <2>2 DEF Files!Written, Writing
    <3>2. ~staged'[box[d]]
      BY <1>2, <1>3, <2>2
    <3> QED
      BY <1>5, <2>1, <2>2, <3>1, <3>2 DEF FileSteps
  <2>3. CASE staged' = [staged EXCEPT ![box[d]] = FALSE] /\ UNCHANGED disk /\ Files!Go(d, "clean")
    <3>1. /\ staged' \in [Containers -> BOOLEAN]
          /\ \A c \in Containers : c # box[d] => staged'[c] = staged[c]
      BY <1>3, <2>3
    <3> QED
      BY <1>1, <1>2, <1>3, <2>1, <2>3, <3>1, WorkKeeps DEF FileSteps, Writing
  <2>4. CASE UNCHANGED <<staged, disk>> /\ Files!Go(d, "clean")
    BY <1>4, <2>1, <2>4 DEF FileSteps, Writing
  <2> QED
    BY <1>12, <2>2, <2>3, <2>4 DEF Files!RemuxEnds
<1>13. CASE Files!Place(d)
  BY <1>4, <1>13 DEF Files!Place, FileSteps, Writing
<1> QED
  BY <1>6, <1>7, <1>8, <1>9, <1>10, <1>11, <1>12, <1>13

LEMMA EndKeeps ==
  ASSUME FilesInv, NEW d \in Downloads, Files!RemoveSiblings(d) \/ Files!Clean(d)
  PROVE  FilesInv'
<1>1. at[d] \in {"siblings", "clean"} /\ at[d] \notin Files!Over /\ UNCHANGED box /\ Files!Released(d)
  BY DEF Files!RemoveSiblings, Files!Clean, Files!Over, Files!choiceVars
<1>2. /\ FilesShape /\ box[d] \in Containers
      /\ at[d] \notin Writing \cup {"clean"} =>
           disk[box[d]] = Files!Absent \/ disk[box[d]].state = "whole"
      /\ at[d] \notin {"remuxing", "clean"} => ~staged[box[d]]
  BY <1>1, HolderFinds
<1>3. CASE Files!RemoveSiblings(d)
  BY <1>1, <1>2, <1>3, LeavingKeeps DEF Files!RemoveSiblings, FilesShape, Writing
<1>4. CASE Files!Clean(d)
  BY <1>1, <1>2, <1>4, LeavingKeeps DEF Files!Clean, FilesShape
<1> QED
  BY <1>3, <1>4

LEMMA AgainKeeps ==
  ASSUME FilesInv, NEW d \in Downloads, Files!Again(d)
  PROVE  FilesInv'
<1>1. FilesShape /\ LockOK /\ OwnFile /\ FileOK /\ StagedOK
  BY DEF FilesInv
<1>2. PICK c \in Containers :
        /\ at[d] = "failed" /\ Files!Go(d, "idle") /\ box' = [box EXCEPT ![d] = c]
        /\ UNCHANGED <<disk, staged, holder>>
  BY DEF Files!Again, Files!fileVars
<1>3. /\ at' \in [Downloads -> Files!Over \cup FileSteps] /\ at'[d] = "idle"
      /\ \A e \in Downloads : e # d => at'[e] = at[e] /\ box'[e] = box[e]
      /\ box' \in [Downloads -> Containers]
  BY <1>1, <1>2, DownloadMoves DEF Files!Over, FilesShape
<1>4. FilesShape' /\ LockOK' /\ OwnFile'
  BY <1>1, <1>2, <1>3 DEF FilesShape, LockOK, OwnFile, Files!Over, Writing
<1>5. FileOK' /\ StagedOK'
  BY <1>1, <1>2, <1>3 DEF FileOK, StagedOK, Writing
<1> QED
  BY <1>4, <1>5 DEF FilesInv

LEMMA FilesNext ==
  ASSUME FilesInv, Files!Next \/ UNCHANGED Files!vars
  PROVE  FilesInv'
<1>1. ASSUME NEW d \in Downloads, Files!Step(d) PROVE FilesInv'
  BY <1>1, AcquireKeeps, StepKeeps, EndKeeps, AgainKeeps DEF Files!Step
<1>2. CASE UNCHANGED Files!vars
  BY <1>2 DEF Files!vars, FilesInv, FilesShape, LockOK, OwnFile, FileOK, StagedOK
<1> QED
  BY <1>1, <1>2 DEF Files!Next

(* Once no download of the title runs, what is there is whole and nothing  *)
(* is staged, however many there were and wherever each of them failed.    *)
THEOREM NothingHalfMadeStays == Spec => []RestIsWhole
<1> DEFINE I == focus = "files" => FilesInv
<1>1. Init => I
  BY FilesInit DEF Init
<1>2. I /\ [Next]_vars => I'
  BY FilesNext DEF Next, vars, Files!vars
<1>3. I => RestIsWhole
  BY DEF FilesInv, RestIsWhole, Files!RestIsWhole, FileOK, StagedOK, Writing, Files!Over
<1> QED
  BY <1>1, <1>2, <1>3, PTL DEF Spec

(* Who holds the lock of a file is at work on it.                          *)
HeldByItsOwn ==
  \A c \in Containers :
    holder[c] # Files!Nobody => at[holder[c]] \notin Files!Over /\ box[holder[c]] = c

FilesTypes ==
  /\ FilesInv /\ HeldByItsOwn
  /\ subs \in [Downloads -> {"none", "embed", "external"}] /\ beside \in BOOLEAN

LEMMA HoldingKeeps ==
  ASSUME FilesInv, HeldByItsOwn, NEW d \in Downloads, Files!Step(d)
  PROVE  HeldByItsOwn'
<1>1. /\ at \in [Downloads -> Files!Over \cup FileSteps] /\ box \in [Downloads -> Containers]
      /\ holder \in [Containers -> Downloads \cup {Files!Nobody}]
  BY DEF FilesInv, FilesShape
<1>2. ASSUME NEW step, at' = [at EXCEPT ![d] = step], step \notin Files!Over, box' = box,
             at[d] \notin Files!Over, holder' = holder
      PROVE  HeldByItsOwn'
  BY <1>1, <1>2 DEF HeldByItsOwn
<1>3. ASSUME NEW step, at' = [at EXCEPT ![d] = step], box' = box, Files!Released(d)
      PROVE  HeldByItsOwn'
  BY <1>1, <1>3 DEF HeldByItsOwn, Files!Released
<1>4. CASE Files!Acquire(d)
  <2>1. /\ at' = [at EXCEPT ![d] = "prepare"] /\ holder' = [holder EXCEPT ![box[d]] = d]
        /\ box' = box /\ at[d] = "idle"
    BY <1>4 DEF Files!Acquire, Files!Go, Files!choiceVars
  <2> QED
    BY <1>1, <2>1 DEF HeldByItsOwn, Files!Over
<1>5. CASE Files!Again(d)
  <2>1. /\ at[d] = "failed" /\ at' = [at EXCEPT ![d] = "idle"] /\ holder' = holder
        /\ \E c \in Containers : box' = [box EXCEPT ![d] = c]
    BY <1>5 DEF Files!Again, Files!Go
  <2>2. \A c \in Containers : holder[c] # d
    BY <1>1, <2>1, DownloadsAssumption DEF HeldByItsOwn, Files!Over, Files!Nobody
  <2> QED
    BY <1>1, <2>1, <2>2 DEF HeldByItsOwn
<1>6. CASE Files!Prepare(d)
  <2>1. at[d] \notin Files!Over /\ box' = box /\ "fetch" \notin Files!Over
    BY <1>6 DEF Files!Prepare, Files!choiceVars, Files!Over
  <2>2. \/ at' = [at EXCEPT ![d] = "fetch"] /\ holder' = holder
        \/ at' = [at EXCEPT ![d] = "failed"] /\ Files!Released(d)
    BY <1>6 DEF Files!Prepare, Files!Go
  <2> QED
    BY <1>2, <1>3, <2>1, <2>2
<1>7. CASE Files!RemoveSiblings(d) \/ Files!Clean(d)
  <2>1. box' = box /\ Files!Released(d) /\ \E step : at' = [at EXCEPT ![d] = step]
    BY <1>7 DEF Files!RemoveSiblings, Files!Clean, Files!Go, Files!choiceVars
  <2> QED
    BY <1>3, <2>1
<1>8. CASE \/ Files!Fetch(d) \/ Files!JoinBegins(d) \/ Files!JoinEnds(d) \/ Files!Tracks(d)
           \/ Files!RemuxBegins(d) \/ Files!RemuxEnds(d) \/ Files!Place(d)
  <2>1. /\ box' = box /\ holder' = holder /\ at[d] \notin Files!Over
        /\ \E step \in FileSteps : at' = [at EXCEPT ![d] = step]
    BY <1>8 DEF Files!Fetch, Files!JoinBegins, Files!JoinEnds, Files!Tracks, Files!RemuxBegins,
       Files!RemuxEnds, Files!Place, Files!Go, Files!choiceVars, Files!Over, FileSteps
  <2>2. FileSteps \cap Files!Over = {}
    BY DEF FileSteps, Files!Over
  <2> QED
    BY <1>2, <2>1, <2>2
<1> QED
  BY <1>4, <1>5, <1>6, <1>7, <1>8 DEF Files!Step

LEMMA FilesTyped == Spec => [](focus = "files" => Files!TypeOK)
<1> DEFINE I == focus = "files" => FilesTypes
<1>1. Files!Init => FilesTypes
  BY FilesInit DEF Files!Init, FilesTypes, HeldByItsOwn
<1>2. ASSUME FilesTypes, Files!Next \/ UNCHANGED Files!vars PROVE FilesTypes'
  <2>1. FilesInv'
    BY <1>2, FilesNext DEF FilesTypes
  <2>2. HeldByItsOwn'
    <3>1. CASE UNCHANGED Files!vars
      BY <1>2, <3>1 DEF FilesTypes, HeldByItsOwn, Files!vars
    <3> QED
      BY <1>2, <3>1, HoldingKeeps DEF FilesTypes, Files!Next
  <2>3. subs' = subs /\ beside' \in BOOLEAN
    BY <1>2 DEF FilesTypes, Files!vars, Files!Next, Files!Step, Files!Acquire, Files!Prepare,
       Files!Fetch, Files!JoinBegins, Files!JoinEnds, Files!Tracks, Files!RemuxBegins,
       Files!RemuxEnds, Files!Place, Files!RemoveSiblings, Files!Clean, Files!Again,
       Files!choiceVars, Files!fileVars
  <2> QED
    BY <1>2, <2>1, <2>2, <2>3 DEF FilesTypes
<1>3. FilesTypes => Files!TypeOK
  BY DEF FilesTypes, FilesInv, FilesShape, HeldByItsOwn, Files!TypeOK, FileSteps
<1>4. Init => I
  BY <1>1 DEF Init
<1>5. I /\ [Next]_vars => I'
  BY <1>2 DEF Next, vars, Files!vars
<1> QED
  BY <1>3, <1>4, <1>5, PTL DEF Spec

-----------------------------------------------------------------------------

(***************************************************************************)
(* Tracks: from the moment it is planned, the plan of a request has what   *)
(* it asks for, what the file held (PlanOK) and what it is to have for the *)
(* requests it saw (SawOK); what its job has collected, if anything, is    *)
(* all of the plan (CollectedOK), whatever the source has changed in       *)
(* between; and since the lock keeps the others from a file that is being  *)
(* written, a file at rest has what its last writer collected (FilmOK).    *)
(***************************************************************************)
task == v1
film == v2
writer == v3
offered == v4
sourceChanges == v5
ffprobe == v6
USE DEF task, film, writer, offered, sourceChanges, ffprobe

Tongues == SUBSET Languages
TaskSteps == {"none", "asked", "pending", "attention"} \cup Tracked!Working \cup Tracked!Ended
TaskRecords ==
  [step : TaskSteps, strict : BOOLEAN, want : Tongues, available : Tongues, plan : Tongues,
   tracks : Tongues, tries : Nat, saw : SUBSET Tasks, held : Tongues]

Planned == {"file", "check"} \cup Tracked!Running
HasCollected == {"lock", "video", "joining", "merge", "clean"}

Sounds == SUBSET (Languages \cup {Tracked!Und})
Films == [there : BOOLEAN, whole : BOOLEAN, audio : Sounds, by : Tasks \cup {Tracked!Nobody}]

TracksShape ==
  /\ task \in [Tasks -> TaskRecords]
  /\ film \in Films /\ offered \subseteq Languages
PlanOK(r) ==
  r.strict /\ r.step \in Planned =>
    r.want \subseteq r.plan /\ (r.step # "file" => r.held \subseteq r.plan)
CollectedOK(r) ==
  r.strict /\ r.step \in HasCollected => r.tracks = {} \/ r.plan \subseteq r.tracks
TaskOK(r) == PlanOK(r) /\ CollectedOK(r)

TracksInv == TracksShape /\ \A t \in Tasks : TaskOK(task[t])


(* What a step of task t leaves of its plan, once it has one, and what it  *)
(* makes of the requests it sees.                                          *)
PlanFollows(t, r) ==
  LET q == task[t] IN
  /\ q.step # "done" /\ r.step # "none"
  /\ q.step # "none" => r.want = q.want /\ r.strict = q.strict
  /\ q.step \in Planned => r.saw = q.saw /\ r.available = q.available
  /\ q.step \in Planned \ {"file"} => r.plan = q.plan /\ r.held = q.held /\ r.step # "file"
  /\ r.strict /\ r.step \in Planned => q.step \in Planned \cup {"rows"}
  /\ q.step = "rows" => r.saw \subseteq Tracked!Requested /\ \A o \in r.saw : task[o].want \subseteq r.plan
  /\ q.step = "file" =>
       /\ r.step = "check"
       /\ (IF q.available = {} THEN q.plan ELSE q.plan \cap (q.available \cup q.want))
            \subseteq r.plan

(* A step that moves task t on, to r.                                      *)
TaskMoves(t, r) ==
  /\ r \in TaskRecords /\ TaskOK(r)
  /\ task' = [task EXCEPT ![t] = r]
  /\ PlanFollows(t, r)

LEMMA MoveKeeps ==
  ASSUME TracksInv, NEW t \in Tasks, NEW r, TaskMoves(t, r),
         film' \in Films, offered' = offered
  PROVE  /\ TracksInv'
         /\ task'[t] = r /\ \A u \in Tasks \ {t} : task'[u] = task[u]
<1>1. task' \in [Tasks -> TaskRecords] /\ \A u \in Tasks : task'[u] = IF u = t THEN r ELSE task[u]
  BY Zenon DEF TracksInv, TracksShape, TaskMoves
<1>2. TracksInv'
  BY <1>1, Zenon DEF TracksInv, TracksShape, TaskMoves
<1> QED
  BY <1>1, <1>2

LEMMA TracksInit == Tracked!Init => TracksInv
<1>1. Tracked!NoTask \in TaskRecords /\ TaskOK(Tracked!NoTask)
  BY DEF Tracked!NoTask, TaskRecords, TaskSteps, Tongues, TaskOK, PlanOK, CollectedOK, Planned,
         HasCollected, Tracked!Running
<1>2. Tracked!NoFilm \in Films
  BY DEF Tracked!NoFilm, Films, Sounds
<1> QED
  BY <1>1, <1>2 DEF Tracked!Init, TracksInv, TracksShape

(* What a task that goes to another step, and nothing else, may be.        *)
LEMMA GoingOn ==
  ASSUME TracksInv, NEW t \in Tasks, NEW step \in TaskSteps, Tracked!Go(t, step),
         step \in Planned => task[t].step \in Planned,
         step \in HasCollected => task[t].step \in HasCollected,
         task[t].step \notin {"rows", "file", "done"}, step \notin {"none", "file"}
  PROVE  \E r : TaskMoves(t, r)
<1>1. PICK r : r = [task[t] EXCEPT !.step = step]
  OBVIOUS
<1>2. task[t] \in TaskRecords /\ TaskOK(task[t])
  BY DEF TracksInv, TracksShape
<1>3. r \in TaskRecords
  BY <1>1, <1>2 DEF TaskRecords
<1>4. TaskOK(r)
  BY <1>1, <1>2 DEF TaskOK, PlanOK, CollectedOK, TaskRecords
<1>5. task' = [task EXCEPT ![t] = r]
  BY <1>1, <1>2 DEF Tracked!Go, TracksInv, TracksShape
<1>6. PlanFollows(t, r)
  BY <1>1, <1>2 DEF PlanFollows, TaskRecords
<1> QED
  BY <1>3, <1>4, <1>5, <1>6 DEF TaskMoves

LEMMA TaskIs ==
  ASSUME TracksInv, NEW t \in Tasks
  PROVE  task[t] \in TaskRecords /\ TaskOK(task[t]) /\ offered \in Tongues
  BY DEF TracksInv, TracksShape, Tongues

(* What a task becomes, every field by itself.                             *)
LEMMA ATask ==
  ASSUME NEW step \in TaskSteps, NEW strict \in BOOLEAN, NEW want \in Tongues,
         NEW available \in Tongues, NEW plan \in Tongues, NEW tracks \in Tongues,
         NEW tries \in Nat, NEW saw \in SUBSET Tasks, NEW held \in Tongues
  PROVE  [step |-> step, strict |-> strict, want |-> want, available |-> available,
          plan |-> plan, tracks |-> tracks, tries |-> tries, saw |-> saw, held |-> held] \in TaskRecords
  BY DEF TaskRecords

LEMMA FailureKeeps ==
  ASSUME TracksInv, NEW t \in Tasks, Tracked!Failed(t), task[t].step \in Planned \ {"file"}
  PROVE  \E r : TaskMoves(t, r)
<1>1. task[t] \in TaskRecords /\ TaskOK(task[t])
  BY TaskIs
<1>2. /\ "failed" \in TaskSteps /\ "failed" \notin Planned /\ "failed" \notin HasCollected
      /\ "rows" \notin Planned /\ "done" \notin Planned
  BY DEF TaskSteps, Tracked!Ended, Planned, HasCollected, Tracked!Running
<1>3. CASE Tracked!Go(t, "failed")
  BY <1>2, <1>3, GoingOn
<1>4. CASE Tracked!Set(t, [task[t] EXCEPT !.step = "stream", !.tries = @ + 1, !.tracks = {}])
  <2>1. PICK k \in Nat : k = task[t].tries
    BY <1>1 DEF TaskRecords
  <2>2. PICK n \in Nat : n = k + 1
    OBVIOUS
  <2>3. PICK r : r = [task[t] EXCEPT !.step = "stream", !.tries = n, !.tracks = {}]
    OBVIOUS
  <2>4. task' = [task EXCEPT ![t] = r]
    BY <1>4, <2>1, <2>2, <2>3 DEF Tracked!Set
  <2>5. "stream" \in TaskSteps /\ {} \in Tongues
    BY DEF TaskSteps, Tracked!Working, Tracked!Running, Tongues
  <2>6. r \in TaskRecords
    BY <1>1, <2>3, <2>5 DEF TaskRecords
  <2>7. TaskOK(r)
    BY <1>1, <2>3 DEF TaskOK, PlanOK, CollectedOK, TaskRecords, Planned, HasCollected
  <2>8. PlanFollows(t, r)
    BY <1>1, <1>2, <2>3 DEF PlanFollows, TaskRecords
  <2> QED
    BY <2>4, <2>6, <2>7, <2>8 DEF TaskMoves
<1> QED
  BY <1>3, <1>4 DEF Tracked!Failed


(* A step of a request before its job, or of its job.                      *)
LEMMA StepMoves ==
  ASSUME TracksInv, NEW t \in Tasks, Tracked!Step(t)
  PROVE  /\ \E r : TaskMoves(t, r)
         /\ film' \in Films /\ offered' = offered
<1>1. /\ task[t] \in TaskRecords /\ TaskOK(task[t]) /\ offered \in Tongues
      /\ film \in Films
  BY TaskIs DEF TracksInv, TracksShape
<1>2. /\ {} \in Tongues
      /\ {"asked", "available", "pending", "find", "attention", "rows", "file", "check",
          "completed", "stream", "collect", "lock", "video", "joining", "merge", "clean",
          "done"} \subseteq TaskSteps
  BY DEF TaskSteps, Tongues, Tracked!Working, Tracked!Running, Tracked!Ended
<1>3. CASE Tracked!Ask(t)
  <2>1. PICK want \in Tongues : task' = [task EXCEPT ![t] = [Tracked!NoTask EXCEPT !.step = "asked", !.want = want]]
    BY <1>3 DEF Tracked!Ask, Tracked!Set, Tongues
  <2>2. PICK r : r = [Tracked!NoTask EXCEPT !.step = "asked", !.want = want]
    OBVIOUS
  <2>3. r = [step |-> "asked", strict |-> TRUE, want |-> want, available |-> {}, plan |-> {},
             tracks |-> {}, tries |-> 0, saw |-> {}, held |-> {}]
    BY <2>2 DEF Tracked!NoTask
  <2>4. r \in TaskRecords
    BY <1>2, <2>3, ATask
  <2>5. TaskOK(r) /\ r.step = "asked"
    BY <2>3 DEF TaskOK, PlanOK, CollectedOK, Planned, HasCollected, Tracked!Running
  <2>6. PlanFollows(t, r)
    BY <1>3, <2>5 DEF Tracked!Ask, Tracked!NoTask, PlanFollows, Planned, Tracked!Running
  <2> QED
    BY <1>1, <1>3, <2>1, <2>2, <2>4, <2>5, <2>6 DEF Tracked!Ask, TaskMoves
<1>4. CASE Tracked!Direct(t)
  <2>1. PICK want \in Tongues : task' = [task EXCEPT ![t] =
           [Tracked!NoTask EXCEPT !.step = "stream", !.strict = FALSE, !.want = want,
                                  !.plan = want]]
    BY <1>4 DEF Tracked!Direct, Tracked!Set, Tongues
  <2>2. PICK r : r = [Tracked!NoTask EXCEPT !.step = "stream", !.strict = FALSE, !.want = want,
                                  !.plan = want]
    OBVIOUS
  <2>3. r = [step |-> "stream", strict |-> FALSE, want |-> want, available |-> {},
             plan |-> want, tracks |-> {}, tries |-> 0, saw |-> {}, held |-> {}]
    BY <2>2 DEF Tracked!NoTask
  <2>4. r \in TaskRecords
    BY <1>2, <2>3, ATask
  <2>5. TaskOK(r) /\ r.step = "stream" /\ ~r.strict
    BY <2>3 DEF TaskOK, PlanOK, CollectedOK
  <2>6. PlanFollows(t, r)
    BY <1>4, <2>5 DEF Tracked!Direct, Tracked!NoTask, PlanFollows, Planned, Tracked!Running
  <2> QED
    BY <1>1, <1>4, <2>1, <2>2, <2>4, <2>5, <2>6 DEF Tracked!Direct, TaskMoves
<1>5. CASE Tracked!FirstCheck(t) \/ Tracked!Approve(t)
  <2>1. \E s \in {"available", "pending", "find"} : Tracked!Go(t, s)
    BY <1>5 DEF Tracked!FirstCheck, Tracked!Approve
  <2>2. {"available", "pending", "find"} \cap (Planned \cup HasCollected) = {}
    BY DEF Planned, HasCollected, Tracked!Running
  <2> QED
    BY <1>1, <1>2, <1>5, <2>1, <2>2, GoingOn DEF Tracked!FirstCheck, Tracked!Approve
<1>6. CASE Tracked!Resolve(t)
  <2>1. CASE Tracked!Go(t, "attention")
    BY <1>1, <1>2, <1>6, <2>1, GoingOn
       DEF Tracked!Resolve, Planned, HasCollected, Tracked!Running
  <2>2. CASE Tracked!Set(t, [task[t] EXCEPT !.step = "rows", !.available = offered])
    <3>1. PICK r : r = [task[t] EXCEPT !.step = "rows", !.available = offered]
      OBVIOUS
    <3>2. r \in TaskRecords /\ r.step = "rows"
      BY <1>1, <1>2, <3>1 DEF TaskRecords
    <3>3. TaskOK(r)
      BY <3>2 DEF TaskOK, PlanOK, CollectedOK, Planned, HasCollected, Tracked!Running
    <3>4. PlanFollows(t, r)
      BY <1>1, <1>6, <3>1, <3>2
         DEF Tracked!Resolve, PlanFollows, TaskRecords, Planned, Tracked!Running
    <3> QED
      BY <1>1, <1>6, <2>2, <3>1, <3>2, <3>3, <3>4 DEF TaskMoves, Tracked!Set, Tracked!Resolve
  <2> QED
    BY <1>6, <2>1, <2>2 DEF Tracked!Resolve
<1>7. CASE Tracked!ReadRows(t)
  <2>1. PICK saw : saw = {o \in Tracked!Requested : task[o].step # "failed"}
    OBVIOUS
  <2>2. PICK plan : plan = Tracked!WantedLanguages(t)
    OBVIOUS
  <2>3. task[t].want \subseteq plan /\ \A o \in saw : task[o].want \subseteq plan
    BY <2>1, <2>2 DEF Tracked!WantedLanguages, Tracked!Live
  <2>4. saw \in SUBSET Tasks /\ plan \in Tongues
    <3>1. \A o \in Tracked!Requested : task[o].want \subseteq Languages
      BY TaskIs DEF Tracked!Requested, TaskRecords, Tongues
    <3>2. task[t].want \subseteq Languages
      BY <1>1 DEF TaskRecords, Tongues
    <3> QED
      BY <2>1, <2>2, <3>1, <3>2
         DEF Tracked!WantedLanguages, Tracked!Live, Tracked!Requested, Tongues
  <2>5. PICK r : r = [task[t] EXCEPT !.step = "file", !.plan = plan, !.saw = saw]
    OBVIOUS
  <2>6. /\ r \in TaskRecords /\ r.step = "file" /\ r.plan = plan /\ r.saw = saw
        /\ r.want = task[t].want /\ r.strict = task[t].strict /\ r.held = task[t].held
    BY <1>1, <1>2, <2>4, <2>5 DEF TaskRecords
  <2>7. TaskOK(r)
    BY <1>7, <2>3, <2>6 DEF TaskOK, PlanOK, CollectedOK, HasCollected, Tracked!ReadRows
  <2>8. task' = [task EXCEPT ![t] = r]
    BY <1>7, <2>1, <2>2, <2>5, Zenon DEF Tracked!ReadRows, Tracked!Set
  <2>9. PlanFollows(t, r)
    BY <1>7, <2>1, <2>3, <2>6 DEF PlanFollows, Tracked!ReadRows, Planned, Tracked!Running
  <2> QED
    BY <1>1, <1>7, <2>6, <2>7, <2>8, <2>9 DEF TaskMoves, Tracked!ReadRows
<1>8. CASE Tracked!Widen(t)
  <2>1. PICK found, offer :
           /\ found \subseteq Languages /\ offer = task[t].available
           /\ LET On(langs) == IF offer = {} THEN langs ELSE langs \cap (offer \cup task[t].want)
              IN task' = [task EXCEPT ![t] =
                   [task[t] EXCEPT !.step = "check", !.plan = On(@ \cup found),
                                   !.held = On(found)]]
    <3>1. \A reading \in Tracked!Readings :
            (IF film.there /\ reading # Tracked!Unknown THEN reading ELSE {}) \ {Tracked!Und}
              \subseteq Languages
      BY <1>1 DEF Tracked!Readings, Films, Sounds
    <3> QED
      BY <1>8, <3>1, Zenon DEF Tracked!Widen, Tracked!Set
  <2>2. PICK plan, held :
           /\ plan = (IF offer = {} THEN task[t].plan \cup found
                      ELSE (task[t].plan \cup found) \cap (offer \cup task[t].want))
           /\ held = (IF offer = {} THEN found ELSE found \cap (offer \cup task[t].want))
    OBVIOUS
  <2>3. PICK r : r = [task[t] EXCEPT !.step = "check", !.plan = plan, !.held = held]
    OBVIOUS
  <2>4. task' = [task EXCEPT ![t] = r]
    BY <2>1, <2>2, <2>3
  <2>5. plan \in Tongues /\ held \in Tongues
    BY <1>1, <2>1, <2>2 DEF TaskRecords, Tongues
  <2>6. /\ r \in TaskRecords /\ r.step = "check" /\ r.plan = plan /\ r.held = held
        /\ r.want = task[t].want /\ r.strict = task[t].strict
        /\ r.saw = task[t].saw /\ r.available = task[t].available
    BY <1>1, <1>2, <2>3, <2>5 DEF TaskRecords
  <2>7. task[t].strict => task[t].want \subseteq task[t].plan
    BY <1>1, <1>8 DEF Tracked!Widen, TaskOK, PlanOK, Planned
  <2>8. TaskOK(r)
    BY <2>2, <2>6, <2>7 DEF TaskOK, PlanOK, CollectedOK, HasCollected
  <2>9. PlanFollows(t, r)
    BY <1>8, <2>1, <2>2, <2>6 DEF PlanFollows, Tracked!Widen, Planned, Tracked!Running
  <2> QED
    BY <1>1, <1>8, <2>4, <2>6, <2>8, <2>9, Zenon DEF TaskMoves, Tracked!Widen
<1>9. CASE Tracked!SecondCheck(t)
  BY <1>1, <1>2, <1>9, GoingOn DEF Tracked!SecondCheck, Planned, HasCollected, Tracked!Running
<1>10. CASE Tracked!Stream(t)
  BY <1>1, <1>2, <1>10, GoingOn, FailureKeeps
     DEF Tracked!Stream, Planned, HasCollected, Tracked!Running
<1>11. CASE Tracked!Collect(t)
  <2>1. CASE task[t].strict /\ Tracked!Failed(t)
    BY <1>1, <1>11, <2>1, FailureKeeps DEF Tracked!Collect, Planned, Tracked!Running
  <2>2. CASE \/ ~task[t].strict /\ Tracked!Go(t, "lock")
             \/ /\ offered = {} \/ ~task[t].strict \/ task[t].plan \subseteq offered
                /\ Tracked!Set(t, Tracked!Collected(t))
    <3>1. PICK tracks \in Tongues :
             /\ task' = [task EXCEPT ![t] = [task[t] EXCEPT !.step = "lock", !.tracks = tracks]]
             /\ task[t].strict => tracks = {} \/ task[t].plan \subseteq tracks
      <4>1. CASE ~task[t].strict /\ Tracked!Go(t, "lock")
        <5>1. task[t].tracks \in Tongues
          BY <1>1 DEF TaskRecords
        <5>2. [task EXCEPT ![t].step = "lock"] =
              [task EXCEPT ![t] = [task[t] EXCEPT !.step = "lock", !.tracks = task[t].tracks]]
          BY <1>1 DEF TaskRecords
        <5> QED
          BY <4>1, <5>1, <5>2, Zenon DEF Tracked!Go
      <4>2. CASE /\ offered = {} \/ ~task[t].strict \/ task[t].plan \subseteq offered
                 /\ Tracked!Set(t, Tracked!Collected(t))
        <5>1. PICK tracks : tracks = task[t].plan \cap offered
          OBVIOUS
        <5>2. tracks \in Tongues
          BY <1>1, <5>1 DEF Tongues
        <5>3. task[t].strict => tracks = {} \/ task[t].plan \subseteq tracks
          BY <4>2, <5>1
        <5> QED
          BY <4>2, <5>1, <5>2, <5>3 DEF Tracked!Set, Tracked!Collected
      <4> QED
        BY <2>2, <4>1, <4>2
    <3>2. PICK r : r = [task[t] EXCEPT !.step = "lock", !.tracks = tracks]
      OBVIOUS
    <3>3. /\ r \in TaskRecords /\ r.step = "lock" /\ r.tracks = tracks
          /\ r.strict = task[t].strict /\ r.plan = task[t].plan /\ r.want = task[t].want
          /\ r.saw = task[t].saw /\ r.held = task[t].held /\ r.available = task[t].available
      BY <1>1, <1>2, <3>2 DEF TaskRecords
    <3>4. TaskOK(r)
      BY <1>1, <1>11, <3>1, <3>3
         DEF Tracked!Collect, TaskOK, PlanOK, CollectedOK, Planned, Tracked!Running
    <3>5. PlanFollows(t, r)
      BY <1>11, <3>3 DEF PlanFollows, Tracked!Collect, Planned, Tracked!Running
    <3> QED
      BY <1>1, <1>11, <3>1, <3>2, <3>3, <3>4, <3>5 DEF TaskMoves, Tracked!Collect
  <2> QED
    BY <1>11, <2>1, <2>2 DEF Tracked!Collect
<1>12. CASE Tracked!Lock(t)
  BY <1>1, <1>2, <1>12, GoingOn DEF Tracked!Lock, Planned, HasCollected, Tracked!Running
<1>13. CASE Tracked!Video(t)
  <2>1. film' \in Films
    <3>1. {} \in Sounds /\ t \in Tasks \cup {Tracked!Nobody}
      BY DEF Sounds
    <3>2. [there |-> TRUE, whole |-> FALSE, audio |-> {}, by |-> t] \in Films
      BY <3>1, Zenon DEF Films
    <3> QED
      BY <1>1, <1>13, <3>2 DEF Tracked!Video
  <2> QED
    BY <1>1, <1>2, <1>13, <2>1, GoingOn
       DEF Tracked!Video, Planned, HasCollected, Tracked!Running
<1>14. CASE Tracked!Join(t)
  <2>1. film' \in Films
    <3>1. \A own \in {{Tracked!Und}, {}} : [film EXCEPT !.whole = TRUE, !.audio = own] \in Films
      BY <1>1 DEF Films, Sounds
    <3> QED
      BY <1>1, <1>14, <3>1 DEF Tracked!Join
  <2> QED
    BY <1>1, <1>2, <1>14, <2>1, GoingOn
       DEF Tracked!Join, Planned, HasCollected, Tracked!Running
<1>15. CASE Tracked!Merge(t)
  <2>1. CASE /\ film' = [film EXCEPT !.audio = task[t].tracks]
             /\ Tracked!Go(t, "done")
    <3>1. task[t].tracks \in Sounds
      BY <1>1 DEF TaskRecords, Tongues, Sounds
    <3>2. film' \in Films
      BY <1>1, <2>1, <3>1 DEF Films
    <3>3. "done" \notin Planned /\ "done" \notin HasCollected
      BY DEF Planned, HasCollected, Tracked!Running
    <3> QED
      BY <1>1, <1>2, <1>15, <2>1, <3>2, <3>3, GoingOn DEF Tracked!Merge
  <2>2. CASE Tracked!Go(t, "clean") /\ UNCHANGED film
    BY <1>1, <1>2, <1>15, <2>2, GoingOn
       DEF Tracked!Merge, Planned, HasCollected, Tracked!Running
  <2> QED
    BY <1>15, <2>1, <2>2 DEF Tracked!Merge
<1>16. CASE Tracked!Clean(t)
  <2>1. film' \in Films
    BY <1>16 DEF Tracked!Clean, Tracked!NoFilm, Films, Sounds
  <2> QED
    BY <1>1, <1>16, <2>1, FailureKeeps DEF Tracked!Clean, Planned, Tracked!Running
<1> QED
  BY <1>3, <1>4, <1>5, <1>6, <1>7, <1>8, <1>9, <1>10, <1>11, <1>12, <1>13, <1>14, <1>15, <1>16
     DEF Tracked!Step

LEMMA TracksNext ==
  ASSUME TracksInv, Tracked!Next \/ UNCHANGED Tracked!vars
  PROVE  TracksInv'
<1>1. CASE \E t \in Tasks : Tracked!Step(t)
  BY <1>1, StepMoves, MoveKeeps
<1>2. CASE Tracked!SourceChanges
  <2>1. task' = task /\ film' = film /\ offered' \subseteq Languages
    BY <1>2 DEF Tracked!SourceChanges
  <2> QED
    BY <2>1 DEF TracksInv, TracksShape
<1>3. CASE UNCHANGED Tracked!vars
  BY <1>3 DEF Tracked!vars, TracksInv, TracksShape
<1> QED
  BY <1>1, <1>2, <1>3 DEF Tracked!Next

(* The lock of the film, which its holder has from the video to the end.   *)
Locked == {"video", "joining", "merge", "clean"}
LockIsHeld == \A t \in Tasks : task[t].step \in Locked => writer = t
TriesOK == \A t \in Tasks : task[t].tries <= AutoRetries
FilmIsSomebodys == film.there <=> film.by # Tracked!Nobody

TracksTypes ==
  /\ TracksInv /\ LockIsHeld /\ TriesOK /\ FilmIsSomebodys
  /\ sourceChanges \in 0..MaxChanges /\ ffprobe \in BOOLEAN

(* What a step does to the lock and the tries, told by what its task       *)
(* becomes.                                                                *)
LockMoves(t) ==
  \/ writer' = writer /\ (task'[t].step \in Locked => task[t].step \in Locked)
  \/ writer = Tracked!Nobody /\ writer' = t
  \/ task[t].step \in Locked /\ writer' = Tracked!Nobody /\ task'[t].step \notin Locked

LEMMA GoIs ==
  ASSUME TracksInv, NEW t \in Tasks, NEW step, Tracked!Go(t, step)
  PROVE  task'[t].step = step /\ task'[t].tries = task[t].tries
  BY DEF TracksInv, TracksShape, TaskRecords, Tracked!Go

LEMMA FailedIs ==
  ASSUME TracksInv, NEW t \in Tasks, Tracked!Failed(t), task[t].tries <= AutoRetries
  PROVE  task'[t].step \in {"stream", "failed"} /\ task'[t].tries <= AutoRetries
<1>1. task[t] \in TaskRecords /\ task[t].tries \in Nat /\ AutoRetries \in Nat
  BY TaskIs, BoundsAssumption DEF TaskRecords
<1>2. CASE task[t].tries < AutoRetries
  <2>1. PICK n \in Nat : n = task[t].tries + 1 /\ n <= AutoRetries
    BY <1>1, <1>2
  <2>2. task' = [task EXCEPT ![t] = [task[t] EXCEPT !.step = "stream", !.tries = n, !.tracks = {}]]
    BY <1>1, <1>2, <2>1 DEF Tracked!Failed, Tracked!Set
  <2>3. task'[t].step = "stream" /\ task'[t].tries = n
    BY <1>1, <2>2 DEF TracksInv, TracksShape, TaskRecords
  <2> QED
    BY <2>1, <2>3
<1>3. CASE ~(task[t].tries < AutoRetries)
  BY <1>3, GoIs DEF Tracked!Failed
<1> QED
  BY <1>2, <1>3

LEMMA SetIs ==
  ASSUME TracksInv, NEW t \in Tasks, NEW r, Tracked!Set(t, r)
  PROVE  task'[t] = r
  BY DEF TracksInv, TracksShape, Tracked!Set

LEMMA LockingKeeps ==
  ASSUME TracksInv, NEW t \in Tasks, Tracked!Step(t), task[t].tries <= AutoRetries
  PROVE  LockMoves(t) /\ task'[t].tries <= AutoRetries
<1>1. task[t] \in TaskRecords /\ AutoRetries \in Nat
  BY TaskIs, BoundsAssumption
<1>2. ASSUME NEW step, Tracked!Go(t, step), writer' = writer,
             step \in Locked => task[t].step \in Locked
      PROVE  LockMoves(t) /\ task'[t].tries <= AutoRetries
  BY <1>2, GoIs DEF LockMoves
<1>3. ASSUME NEW r, Tracked!Set(t, r), writer' = writer, r.step \notin Locked,
             r.tries <= AutoRetries
      PROVE  LockMoves(t) /\ task'[t].tries <= AutoRetries
  BY <1>3, SetIs DEF LockMoves
<1>4. ASSUME Tracked!Failed(t), writer' = writer
      PROVE  LockMoves(t) /\ task'[t].tries <= AutoRetries
  BY <1>4, FailedIs DEF LockMoves, Locked
<1>5. CASE Tracked!Ask(t) \/ Tracked!Direct(t)
  <2>1. PICK r : /\ Tracked!Set(t, r)
                 /\ \E want : \/ r = [Tracked!NoTask EXCEPT !.step = "asked", !.want = want]
                              \/ r = [Tracked!NoTask EXCEPT !.step = "stream", !.strict = FALSE,
                                                           !.want = want, !.plan = want]
    BY <1>5 DEF Tracked!Ask, Tracked!Direct
  <2>2. r.step \notin Locked /\ r.tries = 0
    BY <2>1 DEF Locked, Tracked!NoTask
  <2>3. writer' = writer
    BY <1>5 DEF Tracked!Ask, Tracked!Direct
  <2>4. r.tries <= AutoRetries
    BY <1>1, <2>2
  <2> QED
    BY <1>3, <2>1, <2>2, <2>3, <2>4, SMTT(30)
<1>6. CASE Tracked!FirstCheck(t) \/ Tracked!Approve(t) \/ Tracked!SecondCheck(t)
  <2>1. \E s \in {"available", "pending", "find", "completed", "stream"} : Tracked!Go(t, s)
    BY <1>6 DEF Tracked!FirstCheck, Tracked!Approve, Tracked!SecondCheck
  <2>2. writer' = writer
    BY <1>6 DEF Tracked!FirstCheck, Tracked!Approve, Tracked!SecondCheck
  <2>3. {"available", "pending", "find", "completed", "stream"} \cap Locked = {}
    BY DEF Locked
  <2> QED
    BY <1>2, <2>1, <2>2, <2>3
<1>7. CASE Tracked!Resolve(t)
  <2>1. writer' = writer /\ "attention" \notin Locked
    BY <1>7 DEF Tracked!Resolve, Locked
  <2>2. CASE Tracked!Go(t, "attention")
    BY <1>2, <2>1, <2>2
  <2>3. CASE Tracked!Set(t, [task[t] EXCEPT !.step = "rows", !.available = offered])
    <3>1. PICK r : r = [task[t] EXCEPT !.step = "rows", !.available = offered]
      OBVIOUS
    <3>2. r.step \notin Locked /\ r.tries = task[t].tries
      BY <1>1, <3>1 DEF TaskRecords, Locked
    <3> QED
      BY <1>3, <2>1, <2>3, <3>1, <3>2
  <2> QED
    BY <1>7, <2>2, <2>3 DEF Tracked!Resolve
<1>8. CASE Tracked!ReadRows(t)
  <2>1. PICK plan, saw : Tracked!Set(t, [task[t] EXCEPT !.step = "file", !.plan = plan,
                                                      !.saw = saw])
    BY <1>8 DEF Tracked!ReadRows
  <2>2. PICK r : r = [task[t] EXCEPT !.step = "file", !.plan = plan, !.saw = saw]
    OBVIOUS
  <2>3. r.step \notin Locked /\ r.tries = task[t].tries /\ writer' = writer
    BY <1>1, <1>8, <2>2 DEF TaskRecords, Locked, Tracked!ReadRows
  <2> QED
    BY <1>3, <2>1, <2>2, <2>3
<1>9. CASE Tracked!Widen(t)
  <2>1. PICK plan, held : Tracked!Set(t, [task[t] EXCEPT !.step = "check", !.plan = plan,
                                                       !.held = held])
    BY <1>9 DEF Tracked!Widen
  <2>2. PICK r : r = [task[t] EXCEPT !.step = "check", !.plan = plan, !.held = held]
    OBVIOUS
  <2>3. r.step \notin Locked /\ r.tries = task[t].tries /\ writer' = writer
    BY <1>1, <1>9, <2>2 DEF TaskRecords, Locked, Tracked!Widen
  <2> QED
    BY <1>3, <2>1, <2>2, <2>3
<1>10. CASE Tracked!Stream(t)
  <2>1. writer' = writer /\ "collect" \notin Locked
    BY <1>10 DEF Tracked!Stream, Locked
  <2> QED
    BY <1>2, <1>4, <1>10, <2>1 DEF Tracked!Stream
<1>11. CASE Tracked!Collect(t)
  <2>1. writer' = writer /\ "lock" \notin Locked
    BY <1>11 DEF Tracked!Collect, Locked
  <2>2. CASE Tracked!Set(t, Tracked!Collected(t))
    <3>1. Tracked!Collected(t).step \notin Locked /\ Tracked!Collected(t).tries = task[t].tries
      BY <1>1 DEF Tracked!Collected, TaskRecords, Locked
    <3> QED
      BY <1>3, <2>1, <2>2, <3>1
  <2> QED
    BY <1>2, <1>4, <1>11, <2>1, <2>2 DEF Tracked!Collect
<1>12. CASE Tracked!Lock(t)
  BY <1>12, GoIs DEF Tracked!Lock, LockMoves
<1>13. CASE Tracked!Video(t)
  <2>1. writer' = writer /\ task[t].step \in Locked /\ \E s : Tracked!Go(t, s)
    BY <1>13 DEF Tracked!Video, Locked
  <2> QED
    BY <1>2, <2>1
<1>14. CASE Tracked!Join(t) \/ Tracked!Merge(t)
  <2>1. /\ task[t].step \in Locked
        /\ \/ writer' = writer /\ \E s : Tracked!Go(t, s)
           \/ writer' = Tracked!Nobody /\ Tracked!Go(t, "done")
    BY <1>14 DEF Tracked!Join, Tracked!Merge, Locked
  <2>2. CASE writer' = Tracked!Nobody /\ Tracked!Go(t, "done")
    BY <2>1, <2>2, GoIs DEF LockMoves, Locked
  <2> QED
    BY <1>2, <2>1, <2>2
<1>15. CASE Tracked!Clean(t)
  BY <1>15, FailedIs DEF Tracked!Clean, LockMoves, Locked
<1> QED
  BY <1>5, <1>6, <1>7, <1>8, <1>9, <1>10, <1>11, <1>12, <1>13, <1>14, <1>15 DEF Tracked!Step

LEMMA FilmKeeps ==
  ASSUME TracksInv, FilmIsSomebodys, NEW t \in Tasks, Tracked!Step(t)
  PROVE  FilmIsSomebodys'
<1>1. film \in Films /\ t # Tracked!Nobody
  BY TasksAssumption DEF TracksInv, TracksShape, Tracked!Nobody
<1>2. CASE film' = film
  BY <1>2 DEF FilmIsSomebodys
<1>3. CASE film' = [there |-> TRUE, whole |-> FALSE, audio |-> {}, by |-> t]
  BY <1>1, <1>3 DEF FilmIsSomebodys
<1>4. ASSUME NEW own, film' = [film EXCEPT !.whole = TRUE, !.audio = own] PROVE FilmIsSomebodys'
  BY <1>1, <1>4 DEF FilmIsSomebodys, Films
<1>5. ASSUME NEW own, film' = [film EXCEPT !.audio = own] PROVE FilmIsSomebodys'
  BY <1>1, <1>5 DEF FilmIsSomebodys, Films
<1>6. CASE film' = Tracked!NoFilm
  BY <1>6, SMTT(30) DEF FilmIsSomebodys, Tracked!NoFilm
<1>7. \/ film' = film \/ film' = [there |-> TRUE, whole |-> FALSE, audio |-> {}, by |-> t]
      \/ \E own : film' = [film EXCEPT !.whole = TRUE, !.audio = own]
      \/ \E own : film' = [film EXCEPT !.audio = own]
      \/ film' = Tracked!NoFilm
  BY Zenon
     DEF Tracked!Step, Tracked!Ask, Tracked!FirstCheck, Tracked!Approve, Tracked!Resolve,
     Tracked!ReadRows, Tracked!Widen, Tracked!SecondCheck, Tracked!Direct, Tracked!Stream,
     Tracked!Collect, Tracked!Lock, Tracked!Video, Tracked!Join, Tracked!Merge, Tracked!Clean
<1> QED
  BY <1>2, <1>3, <1>4, <1>5, <1>6, <1>7

LEMMA TracksTypesInit == Tracked!Init => TracksTypes
<1> SUFFICES ASSUME Tracked!Init PROVE TracksTypes
  OBVIOUS
<1>0. {MaxChanges, AutoRetries} \subseteq Nat
  BY BoundsAssumption
<1>1. \A t \in Tasks : task[t] = Tracked!NoTask
  BY DEF Tracked!Init
<1>2. LockIsHeld /\ TriesOK
  BY <1>0, <1>1 DEF LockIsHeld, TriesOK, Tracked!NoTask, Locked
<1>3. FilmIsSomebodys /\ sourceChanges \in 0..MaxChanges /\ ffprobe \in BOOLEAN
  BY <1>0 DEF Tracked!Init, FilmIsSomebodys, Tracked!NoFilm
<1> QED
  BY <1>2, <1>3, TracksInit DEF TracksTypes

LEMMA TracksTypesNext ==
  ASSUME TracksTypes, Tracked!Next \/ UNCHANGED Tracked!vars
  PROVE  TracksTypes'
<1>1. ASSUME NEW t \in Tasks, Tracked!Step(t) PROVE TracksTypes'
  <2>1. TracksInv' /\ FilmIsSomebodys'
    BY <1>1, TracksNext, FilmKeeps DEF TracksTypes, Tracked!Next
  <2>2. \A u \in Tasks \ {t} : task'[u] = task[u]
    <3>1. PICK r : task' = [task EXCEPT ![t] = r]
      BY <1>1, StepMoves DEF TracksTypes, TaskMoves
    <3> QED
      BY <3>1 DEF TracksTypes, TracksInv, TracksShape
  <2>3. LockMoves(t) /\ task'[t].tries <= AutoRetries
    BY <1>1, LockingKeeps DEF TracksTypes, TriesOK
  <2>4. TriesOK'
    BY <2>2, <2>3 DEF TracksTypes, TriesOK
  <2>5. LockIsHeld'
    BY <2>2, <2>3, TasksAssumption, SMTT(30)
       DEF TracksTypes, LockIsHeld, LockMoves, Tracked!Nobody
  <2>6. sourceChanges' = sourceChanges /\ ffprobe' = ffprobe
    BY <1>1, Zenon
       DEF Tracked!Step, Tracked!Ask, Tracked!FirstCheck, Tracked!Approve,
       Tracked!Resolve, Tracked!ReadRows, Tracked!Widen, Tracked!SecondCheck, Tracked!Direct,
       Tracked!Stream, Tracked!Collect, Tracked!Lock, Tracked!Video, Tracked!Join,
       Tracked!Merge, Tracked!Clean
  <2> QED
    BY <2>1, <2>4, <2>5, <2>6 DEF TracksTypes
<1>2. CASE Tracked!SourceChanges \/ UNCHANGED Tracked!vars
  <2>1. TracksInv'
    BY <1>2, TracksNext DEF TracksTypes, Tracked!Next
  <2>2. task' = task /\ writer' = writer /\ film' = film /\ ffprobe' = ffprobe
    BY <1>2 DEF Tracked!SourceChanges, Tracked!vars
  <2>3. sourceChanges' \in 0..MaxChanges
    BY <1>2, BoundsAssumption DEF TracksTypes, Tracked!SourceChanges, Tracked!vars
  <2> QED
    BY <2>1, <2>2, <2>3 DEF TracksTypes, LockIsHeld, TriesOK, FilmIsSomebodys
<1> QED
  BY <1>1, <1>2 DEF Tracked!Next

(* What the others get.                                                    *)

SawOK(t) ==
  task[t].strict /\ task[t].step \in Planned =>
    /\ task[t].saw \subseteq Tracked!Requested
    /\ \A o \in task[t].saw :
         /\ Tracked!Promised(o, t) \subseteq task[t].plan
         /\ task[t].step = "file" => task[o].want \subseteq task[t].plan

(* Everybody task t saw is served by a file with these tracks.             *)
Serves(t, audio) ==
  /\ \A o \in task[t].saw \cup {t} : Tracked!Promised(o, t) \subseteq audio
  /\ task[t].held \subseteq audio

FilmOK ==
  /\ \A t \in Tasks : task[t].step \in {"joining", "merge"} => film.by = t
  /\ film.whole =>
       /\ film.by \in Tasks /\ task[film.by].step \in {"merge", "clean", "done"}
       /\ task[film.by].step = "done" /\ task[film.by].strict /\ task[film.by].tracks # {} =>
            task[film.by].saw \subseteq Tracked!Requested /\ Serves(film.by, film.audio)

TracksSound == TracksTypes /\ FilmOK /\ \A t \in Tasks : SawOK(t)

(* Nobody's wishes change once he has asked.                               *)
LEMMA WishesStay ==
  ASSUME TracksInv, NEW t \in Tasks, NEW r, TaskMoves(t, r),
         task'[t] = r, \A u \in Tasks \ {t} : task'[u] = task[u]
  PROVE  /\ Tracked!Requested \subseteq Tracked!Requested'
         /\ \A o \in Tracked!Requested : task'[o].want = task[o].want
  BY DEF Tracked!Requested, TaskMoves, PlanFollows

LEMMA SawKeeps ==
  ASSUME TracksInv, \A u \in Tasks : SawOK(u), NEW t \in Tasks, NEW r, TaskMoves(t, r),
         task'[t] = r, \A u \in Tasks \ {t} : task'[u] = task[u],
         NEW u \in Tasks
  PROVE  SawOK(u)'
<1>1. /\ Tracked!Requested \subseteq Tracked!Requested'
      /\ \A o \in Tracked!Requested : task'[o].want = task[o].want
  BY WishesStay
<1>2. CASE u # t
  <2>1. task'[u] = task[u] /\ SawOK(u)
    BY <1>2
  <2> SUFFICES ASSUME task[u].strict, task[u].step \in Planned, NEW o \in task[u].saw
               PROVE  /\ Tracked!Promised(o, u)' \subseteq task[u].plan
                      /\ task[u].step = "file" => task'[o].want \subseteq task[u].plan
    BY <1>1, <2>1 DEF SawOK
  <2>2. o \in Tracked!Requested /\ task'[o].want = task[o].want
    BY <1>1, <2>1 DEF SawOK
  <2>3. Tracked!Promised(o, u)' = Tracked!Promised(o, u)
    BY <2>1, <2>2 DEF Tracked!Promised
  <2> QED
    BY <2>1, <2>2, <2>3 DEF SawOK
<1>3. CASE u = t
  <2>1. /\ task'[u] = r /\ PlanFollows(u, r) /\ SawOK(u) /\ TaskOK(task[u])
        /\ task[u] \in TaskRecords /\ r \in TaskRecords
    BY <1>3, TaskIs DEF TaskMoves
  <2> SUFFICES ASSUME r.strict, r.step \in Planned
               PROVE  /\ r.saw \subseteq Tracked!Requested'
                      /\ \A o \in r.saw : /\ Tracked!Promised(o, u)' \subseteq r.plan
                                          /\ r.step = "file" => task'[o].want \subseteq r.plan
    BY <2>1 DEF SawOK
  <2>2. task[u].step \in Planned \cup {"rows"}
    BY <2>1 DEF PlanFollows
  <2>3. task[u].step # "none" /\ task[u].strict /\ r.want = task[u].want
    BY <2>1, <2>2 DEF PlanFollows, Planned, Tracked!Running
  <2>4. CASE task[u].step = "rows"
    <3>1. r.saw \subseteq Tracked!Requested /\ \A o \in r.saw : task[o].want \subseteq r.plan
      BY <2>1, <2>4 DEF PlanFollows
    <3>2. \A o \in r.saw : task'[o].want \subseteq r.plan
      BY <1>1, <3>1
    <3> QED
      BY <1>1, <3>1, <3>2 DEF Tracked!Promised
  <2>5. CASE task[u].step = "file"
    <3>1. /\ r.saw = task[u].saw /\ r.available = task[u].available /\ r.step = "check"
          /\ (IF r.available = {} THEN task[u].plan
              ELSE task[u].plan \cap (r.available \cup r.want)) \subseteq r.plan
      BY <2>1, <2>3, <2>5 DEF PlanFollows, Planned
    <3>2. /\ r.saw \subseteq Tracked!Requested
          /\ \A o \in r.saw : task[o].want \subseteq task[u].plan
      BY <2>1, <2>3, <2>5, <3>1 DEF SawOK, Planned
    <3>3. ASSUME NEW o \in r.saw PROVE Tracked!Promised(o, u)' \subseteq r.plan
      BY <1>1, <2>1, <3>1, <3>2 DEF Tracked!Promised
    <3> QED
      BY <1>1, <3>1, <3>2, <3>3
  <2>6. CASE task[u].step \in Planned \ {"file"}
    <3>1. /\ r.saw = task[u].saw /\ r.available = task[u].available /\ r.plan = task[u].plan
          /\ r.step # "file"
      BY <2>1, <2>6 DEF PlanFollows
    <3>2. /\ r.saw \subseteq Tracked!Requested
          /\ \A o \in r.saw : Tracked!Promised(o, u) \subseteq r.plan
      BY <2>1, <2>3, <2>6, <3>1 DEF SawOK
    <3>3. ASSUME NEW o \in r.saw PROVE Tracked!Promised(o, u)' = Tracked!Promised(o, u)
      BY <1>1, <2>1, <2>3, <3>1, <3>2 DEF Tracked!Promised
    <3> QED
      BY <1>1, <3>1, <3>2, <3>3
  <2> QED
    BY <2>2, <2>4, <2>5, <2>6
<1> QED
  BY <1>2, <1>3

(* Whom a file serves it goes on serving, when no more than a task moves.  *)
LEMMA ServesOn ==
  ASSUME TracksInv, NEW t \in Tasks, NEW r, TaskMoves(t, r),
         task'[t] = r, \A u \in Tasks \ {t} : task'[u] = task[u],
         NEW u \in Tasks, task[u].saw \subseteq Tracked!Requested, u \in Tracked!Requested,
         task'[u].saw = task[u].saw, task'[u].available = task[u].available,
         task'[u].held = task[u].held, NEW audio, Serves(u, audio)
  PROVE  task'[u].saw \subseteq Tracked!Requested' /\ Serves(u, audio)'
<1>1. /\ Tracked!Requested \subseteq Tracked!Requested'
      /\ \A o \in Tracked!Requested : task'[o].want = task[o].want
  BY WishesStay
<1>2. \A o \in task[u].saw \cup {u} : Tracked!Promised(o, u)' = Tracked!Promised(o, u)
  BY <1>1 DEF Tracked!Promised
<1> QED
  BY <1>1, <1>2 DEF Serves

LEMMA FilmSteps ==
  ASSUME TracksSound, NEW t \in Tasks, Tracked!Step(t), NEW r, TaskMoves(t, r),
         task'[t] = r, \A u \in Tasks \ {t} : task'[u] = task[u]
  PROVE  FilmOK'
<1>1. /\ task[t] \in TaskRecords /\ r \in TaskRecords /\ TaskOK(task[t]) /\ film \in Films
      /\ FilmOK /\ SawOK(t) /\ LockIsHeld /\ t # Tracked!Nobody
  BY TaskIs, TasksAssumption
     DEF TracksSound, TracksTypes, TracksInv, TracksShape, TaskMoves, Tracked!Nobody
<1>2. task[t].step \in Locked => \A u \in Tasks \ {t} : task[u].step \notin Locked
  BY <1>1 DEF LockIsHeld
<1>3. ASSUME film' = film, r.step \in {"joining", "merge"} => film.by = t,
             film.by # t \/ ~film.whole \/ r.step = "clean"
      PROVE  FilmOK'
  <2>1. ASSUME NEW u \in Tasks, task'[u].step \in {"joining", "merge"} PROVE film'.by = u
    BY <1>1, <1>3, <2>1 DEF FilmOK
  <2>2. ASSUME film.whole
        PROVE  /\ film.by \in Tasks /\ task'[film.by].step \in {"merge", "clean", "done"}
               /\ task'[film.by].step = "done" /\ task'[film.by].strict
                    /\ task'[film.by].tracks # {} =>
                    /\ task'[film.by].saw \subseteq Tracked!Requested'
                    /\ Serves(film.by, film.audio)'
    <3>1. PICK u \in Tasks : u = film.by
      BY <1>1, <2>2 DEF FilmOK
    <3>2. CASE u = t
      BY <1>3, <2>2, <3>1, <3>2
    <3>3. CASE u # t
      <4>1. task'[u] = task[u]
        BY <3>3
      <4>2. task[u].step \in {"merge", "clean", "done"}
        BY <1>1, <2>2, <3>1 DEF FilmOK
      <4>3. ASSUME task[u].step = "done", task[u].strict, task[u].tracks # {}
            PROVE  task'[u].saw \subseteq Tracked!Requested' /\ Serves(u, film.audio)'
        <5>1. task[u].saw \subseteq Tracked!Requested /\ Serves(u, film.audio)
          BY <1>1, <2>2, <3>1, <4>3 DEF FilmOK
        <5>2. u \in Tracked!Requested
          BY <4>3 DEF Tracked!Requested
        <5>3. PICK audio : audio = film.audio
          OBVIOUS
        <5>4. task'[u].saw \subseteq Tracked!Requested' /\ Serves(u, audio)'
          BY <4>1, <5>1, <5>2, <5>3, ServesOn DEF TracksSound, TracksTypes
        <5>5. film'.audio = audio
          BY <1>3, <5>3
        <5> QED
          BY <1>3, <5>3, <5>4 DEF Serves
      <4> QED
        BY <1>3, <3>1, <4>1, <4>2, <4>3
    <3> QED
      BY <3>2, <3>3
  <2> QED
    BY <1>3, <2>1, <2>2 DEF FilmOK, Serves
<1>4. CASE task[t].step \notin {"joining", "merge", "clean"} /\ film' = film
           /\ r.step \notin {"joining", "merge"}
  BY <1>1, <1>3, <1>4 DEF FilmOK, TaskMoves, PlanFollows
<1>5. CASE Tracked!Video(t)
  <2>1. CASE film' = film /\ Tracked!Go(t, "clean")
    <3>1. task[t].step = "video" /\ r.step = "clean"
      BY <1>5, <2>1, GoIs DEF Tracked!Video, TracksSound, TracksTypes
    <3> QED
      BY <1>4, <2>1, <3>1
  <2>2. CASE /\ film' = [there |-> TRUE, whole |-> FALSE, audio |-> {}, by |-> t]
             /\ Tracked!Go(t, "joining")
    <3>1. ~film'.whole /\ film'.by = t
      BY <2>2
    <3>2. \A u \in Tasks \ {t} : task'[u].step \notin {"joining", "merge"}
      BY <1>2, <1>5 DEF Tracked!Video, Locked
    <3> QED
      BY <3>1, <3>2 DEF FilmOK
  <2> QED
    BY <1>5, <2>1, <2>2 DEF Tracked!Video
<1>6. CASE Tracked!Join(t)
  <2>1. task[t].step = "joining" /\ film.by = t /\ ~film.whole
    BY <1>1, <1>6 DEF FilmOK, Tracked!Join
  <2>2. CASE film' = film /\ Tracked!Go(t, "clean")
    BY <1>3, <2>1, <2>2, GoIs DEF TracksSound, TracksTypes
  <2>3. CASE /\ \E own : film' = [film EXCEPT !.whole = TRUE, !.audio = own]
             /\ \/ Tracked!Go(t, "done") /\ task[t].tracks = {}
                \/ Tracked!Go(t, "merge")
    <3>1. film'.by = t
      BY <1>1, <2>1, <2>3 DEF Films
    <3>2. r.step \in {"done", "merge"} /\ (r.step = "done" => r.tracks = {})
      BY <1>1, <2>3 DEF Tracked!Go, TracksSound, TracksTypes, TracksInv, TracksShape, TaskRecords
    <3>3. \A u \in Tasks \ {t} : task'[u].step \notin {"joining", "merge"}
      BY <1>2, <2>1 DEF Locked
    <3> QED
      BY <3>1, <3>2, <3>3 DEF FilmOK
  <2> QED
    BY <1>6, <2>2, <2>3 DEF Tracked!Join
<1>7. CASE Tracked!Merge(t)
  <2>1. task[t].step = "merge" /\ film.by = t
    BY <1>1, <1>7 DEF FilmOK, Tracked!Merge
  <2>2. CASE film' = film /\ Tracked!Go(t, "clean")
    BY <1>3, <2>1, <2>2, GoIs DEF TracksSound, TracksTypes
  <2>3. CASE film' = [film EXCEPT !.audio = task[t].tracks] /\ Tracked!Go(t, "done")
    <3>1. film'.by = t /\ film'.audio = task[t].tracks
      BY <1>1, <2>1, <2>3 DEF Films
    <3>2. /\ r.step = "done" /\ r.strict = task[t].strict /\ r.tracks = task[t].tracks
          /\ r.saw = task[t].saw /\ r.held = task[t].held /\ r.available = task[t].available
      BY <1>1, <2>3 DEF Tracked!Go, TracksSound, TracksTypes, TracksInv, TracksShape, TaskRecords
    <3>3. \A u \in Tasks \ {t} : task'[u].step \notin {"joining", "merge"}
      BY <1>2, <2>1 DEF Locked
    <3>4. ASSUME r.strict, r.tracks # {}
          PROVE  task'[t].saw \subseteq Tracked!Requested' /\ Serves(t, task[t].tracks)'
      <4>1. /\ task[t].plan \subseteq task[t].tracks /\ task[t].want \subseteq task[t].plan
            /\ task[t].held \subseteq task[t].plan
        BY <1>1, <2>1, <3>2, <3>4
           DEF TaskOK, PlanOK, CollectedOK, Planned, HasCollected, Tracked!Running
      <4>2. /\ task[t].saw \subseteq Tracked!Requested
            /\ \A o \in task[t].saw : Tracked!Promised(o, t) \subseteq task[t].plan
        BY <1>1, <2>1, <3>2, <3>4 DEF SawOK, Planned, Tracked!Running
      <4>3. Tracked!Promised(t, t) \subseteq task[t].want
        BY DEF Tracked!Promised
      <4>4. PICK audio : audio = task[t].tracks
        OBVIOUS
      <4>5. Serves(t, audio) /\ t \in Tracked!Requested
        BY <2>1, <3>2, <3>4, <4>1, <4>2, <4>3, <4>4 DEF Serves, Tracked!Requested
      <4>6. task'[t].saw \subseteq Tracked!Requested' /\ Serves(t, audio)'
        BY <3>2, <4>2, <4>5, ServesOn DEF TracksSound, TracksTypes
      <4> QED
        BY <3>2, <4>4, <4>6 DEF Serves
    <3> QED
      BY <3>1, <3>2, <3>3, <3>4 DEF FilmOK, Serves
  <2> QED
    BY <1>7, <2>2, <2>3 DEF Tracked!Merge
<1>8. CASE Tracked!Clean(t)
  <2>1. ~film'.whole
    BY <1>8 DEF Tracked!Clean, Tracked!NoFilm
  <2>2. r.step \in {"stream", "failed"}
    BY <1>8, FailedIs DEF Tracked!Clean, TracksSound, TracksTypes, TriesOK
  <2>3. \A u \in Tasks : task'[u].step \notin {"joining", "merge"}
    BY <1>2, <1>8, <2>2 DEF Tracked!Clean, Locked
  <2> QED
    BY <2>1, <2>3 DEF FilmOK
<1>9. CASE \/ Tracked!Ask(t) \/ Tracked!FirstCheck(t) \/ Tracked!Approve(t)
           \/ Tracked!Resolve(t) \/ Tracked!ReadRows(t) \/ Tracked!Widen(t)
           \/ Tracked!SecondCheck(t) \/ Tracked!Direct(t) \/ Tracked!Stream(t)
           \/ Tracked!Collect(t) \/ Tracked!Lock(t)
  <2>1. film' = film
    BY <1>9 DEF Tracked!Ask, Tracked!FirstCheck, Tracked!Approve, Tracked!Resolve,
         Tracked!ReadRows, Tracked!Widen, Tracked!SecondCheck, Tracked!Direct,
         Tracked!Stream, Tracked!Collect, Tracked!Lock
  <2>2. task[t].step \in {"none", "asked", "pending", "attention", "find", "rows", "file",
                          "check", "stream", "collect", "lock"}
    <3>1. Tracked!NoTask.step = "none"
      BY DEF Tracked!NoTask
    <3>2. CASE Tracked!Ask(t) \/ Tracked!Direct(t)
      BY <3>1, <3>2, Zenon DEF Tracked!Ask, Tracked!Direct
    <3>3. CASE Tracked!FirstCheck(t) \/ Tracked!Approve(t) \/ Tracked!Resolve(t)
      BY <3>3, Zenon DEF Tracked!FirstCheck, Tracked!Approve, Tracked!Resolve
    <3>4. CASE Tracked!ReadRows(t) \/ Tracked!Widen(t) \/ Tracked!SecondCheck(t)
      BY <3>4, Zenon DEF Tracked!ReadRows, Tracked!Widen, Tracked!SecondCheck
    <3>5. CASE Tracked!Stream(t) \/ Tracked!Collect(t) \/ Tracked!Lock(t)
      BY <3>5, Zenon DEF Tracked!Stream, Tracked!Collect, Tracked!Lock
    <3> QED
      BY <1>9, <3>2, <3>3, <3>4, <3>5
  <2>3. r.step \notin {"joining", "merge"}
    <3>1. LockMoves(t)
      BY LockingKeeps DEF TracksSound, TracksTypes, TriesOK
    <3>2. CASE Tracked!Lock(t)
      <4>1. r.step = "video"
        BY <3>2, GoIs DEF Tracked!Lock, TracksSound, TracksTypes
      <4> QED
        BY <4>1
    <3>3. CASE ~Tracked!Lock(t)
      <4>1. writer' = writer
        BY <1>9, <3>3, Zenon DEF Tracked!Ask, Tracked!FirstCheck, Tracked!Approve,
           Tracked!Resolve, Tracked!ReadRows, Tracked!Widen, Tracked!SecondCheck,
           Tracked!Direct, Tracked!Stream, Tracked!Collect
      <4>2. writer \in Tasks => writer # Tracked!Nobody
        BY TasksAssumption DEF Tracked!Nobody
      <4> QED
        BY <1>1, <2>2, <3>1, <4>1, <4>2 DEF LockMoves, Locked
    <3> QED
      BY <3>2, <3>3
  <2> QED
    BY <1>4, <2>1, <2>2, <2>3
<1> QED
  BY <1>5, <1>6, <1>7, <1>8, <1>9 DEF Tracked!Step

LEMMA TracksSoundNext ==
  ASSUME TracksSound, Tracked!Next \/ UNCHANGED Tracked!vars
  PROVE  TracksSound'
<1>1. TracksTypes'
  BY TracksTypesNext DEF TracksSound
<1>2. ASSUME NEW t \in Tasks, Tracked!Step(t) PROVE FilmOK' /\ \A u \in Tasks : SawOK(u)'
  <2>1. PICK r : TaskMoves(t, r)
    BY <1>2, StepMoves DEF TracksSound, TracksTypes
  <2>2. task'[t] = r /\ \A u \in Tasks \ {t} : task'[u] = task[u]
    BY <1>2, <2>1, StepMoves, MoveKeeps DEF TracksSound, TracksTypes
  <2>3. \A u \in Tasks : SawOK(u)'
    BY <2>1, <2>2, SawKeeps DEF TracksSound, TracksTypes
  <2> QED
    BY <1>2, <2>1, <2>2, <2>3, FilmSteps
<1>3. ASSUME Tracked!SourceChanges \/ UNCHANGED Tracked!vars
      PROVE  FilmOK' /\ \A u \in Tasks : SawOK(u)'
  <2>1. task' = task /\ film' = film
    BY <1>3 DEF Tracked!SourceChanges, Tracked!vars
  <2> QED
    BY <2>1 DEF TracksSound, FilmOK, SawOK, Serves, Tracked!Promised, Tracked!Requested
<1> QED
  BY <1>1, <1>2, <1>3 DEF TracksSound, Tracked!Next

\* The file that is left when nobody writes it has what its last writer asked for, and what
\* every request asked for, and the file had, that resolver.py found when this writer was
\* planned, as far as the source offered it then: whatever the source changes between
\* resolver.py and download_m3u8(), and whoever else is at work on the file.  Nothing is
\* said of who asked after that, of direct downloads, or of a file with one soundtrack.
THEOREM EverybodyHasTheirLanguage == Spec => []SatisfiesWhomItKnew
<1> DEFINE I == focus = "tracks" => TracksSound
<1>1. Init => I
  <2>1. ASSUME Tracked!Init PROVE TracksSound
    <3>1. ~film.whole /\ \A t \in Tasks : task[t].step = "none"
      BY <2>1 DEF Tracked!Init, Tracked!NoFilm, Tracked!NoTask
    <3>2. FilmOK /\ \A t \in Tasks : SawOK(t)
      BY <3>1 DEF FilmOK, SawOK, Planned, Tracked!Running
    <3> QED
      BY <2>1, <3>2, TracksTypesInit DEF TracksSound
  <2> QED
    BY <2>1 DEF Init
<1>2. I /\ [Next]_vars => I'
  BY TracksSoundNext DEF Next, vars, Tracked!vars
<1>3. I => SatisfiesWhomItKnew
  <2> SUFFICES ASSUME TracksSound, film.whole, writer = Tracked!Nobody,
                      task[film.by].strict, task[film.by].tracks # {}
               PROVE  Serves(film.by, film.audio)
    BY DEF SatisfiesWhomItKnew, Tracked!SatisfiesWhomItKnew, Serves
  <2>1. film.by \in Tasks /\ task[film.by].step \in {"merge", "clean", "done"}
    BY DEF TracksSound, FilmOK
  <2>2. task[film.by].step \notin {"merge", "clean"}
    BY <2>1, TasksAssumption
       DEF TracksSound, TracksTypes, LockIsHeld, Locked, Tracked!Nobody
  <2> QED
    BY <2>1, <2>2 DEF TracksSound, FilmOK
<1> QED
  BY <1>1, <1>2, <1>3, PTL DEF Spec

LEMMA TracksTyped == Spec => [](focus = "tracks" => Tracked!TypeOK)
<1> DEFINE I == focus = "tracks" => TracksTypes
<1>4. ASSUME TracksTypes PROVE Tracked!TypeOK
  <2>1. ASSUME NEW t \in Tasks
        PROVE  /\ task[t].step \in TaskSteps /\ task[t].strict \in BOOLEAN
               /\ task[t].tries \in 0..AutoRetries
               /\ task[t].want \cup task[t].available \cup task[t].plan \cup task[t].tracks
                    \cup task[t].held \subseteq Languages
               /\ task[t].saw \subseteq Tasks
    BY <1>4, TaskIs, BoundsAssumption DEF TracksTypes, TriesOK, TaskRecords, Tongues
  <2>2. film.audio \subseteq Languages \cup {Tracked!Und} /\ film.whole \in BOOLEAN
        /\ offered \subseteq Languages
    BY <1>4 DEF TracksTypes, TracksInv, TracksShape, Films, Sounds
  <2> QED
    BY <1>4, <2>1, <2>2
       DEF TracksTypes, Tracked!TypeOK, FilmIsSomebodys, LockIsHeld, Locked, TaskSteps
<1>5. Init => I
  BY TracksTypesInit DEF Init
<1>6. I /\ [Next]_vars => I'
  BY TracksTypesNext DEF Next, vars, Tracked!vars
<1> QED
  BY <1>4, <1>5, <1>6, PTL DEF Spec

-----------------------------------------------------------------------------

(***************************************************************************)
(* Announcements: what a thread owes it has delivered or has under way: on *)
(* the bell first, and then to each channel that has been on all the time  *)
(* and that it has not come to yet.  And a request that is not closed has  *)
(* somebody who will look at it again: its worker, or the executor that    *)
(* has not heard the end of the job.                                       *)
(***************************************************************************)
job == v1
row == v2
teller == v3
target == v4
edits == v5
told == v6
steady == v7
broken == v8
refused == v9
USE DEF job, row, teller, target, edits, told, steady, broken, refused

Items ==
  [what : {"outcome", "single", "hook"}, whom : {"subscribers", "approvers", "owner", "managers"},
   external : BOOLEAN]
NewsLists == Seq(Items)
TellSteps == {"tell", "outside", "send"}
TellerSteps ==
  {"download", "claim", "recheck", "requests", "batches", "hooks", "fire", "over"} \cup TellSteps
Tellers ==
  [step : TellerSteps, news : NewsLists, left : SUBSET Channels, hooks : SUBSET Hooks,
   then : {"", "batches", "hooks", "fire", "over"}]
executor == teller["executor"]
worker == teller["worker"]

OutcomeNews == News!News("outcome", "subscribers", TRUE)
SingleNews == News!News("single", "owner", TRUE)
HookNews == News!News("hook", "managers", TRUE)

Pair(a, b) == <<a, b>>
Belled(n) == broken \/ Pair(n.what, n.whom) \in told
Delivered(n) == Belled(n) /\ \A c \in Channels \cap steady : Pair(n.what, c) \in told
UnderWay(t, n) ==
  /\ t.step \in TellSteps /\ t.news # <<>> /\ Head(t.news) = n
  /\ t.step # "tell" => Belled(n)
  /\ t.step = "send" => \A c \in Channels \cap steady : c \in t.left \/ Pair(n.what, c) \in told

PastBatches ==
  \/ executor.step \in {"hooks", "fire", "over"}
  \/ executor.step \in TellSteps /\ executor.then \in {"hooks", "fire"}
PastHooks ==
  \/ executor.step \in {"fire", "over"}
  \/ executor.step \in TellSteps /\ executor.then = "fire"

NewsShape ==
  /\ job \in {"running", "done", "error", "cancelled"}
  /\ row \in {"none", "approved", "downloading", "closed"}
  /\ teller \in [{"executor", "worker"} -> Tellers]
  /\ target \in [Channels \cup Hooks -> {"absent", "off", "on"}]
  /\ steady \subseteq News!On
  /\ broken \in BOOLEAN

Orderly(t) == t.step \in {"outside", "send"} => t.news # <<>>

NewsFlow ==
  /\ Orderly(executor) /\ Orderly(worker)
  /\ executor.step \in {"download", "requests", "batches", "hooks", "fire", "over"} \cup TellSteps
  /\ executor.step \in TellSteps => executor.then \in {"batches", "hooks", "fire"}
  /\ worker.step \in {"claim", "recheck", "over"} \cup TellSteps
  /\ worker.step \in TellSteps => worker.then = "over"
  /\ executor.step = "download" <=> job = "running"
  /\ row = "approved" => worker.step = "claim"
  /\ row = "downloading" =>
       worker.step = "recheck" \/ executor.step \in {"download", "requests"}
  /\ row = "closed" => job # "running"

OutcomeOK ==
  row = "closed" /\ job # "cancelled" =>
    Delivered(OutcomeNews) \/ UnderWay(executor, OutcomeNews) \/ UnderWay(worker, OutcomeNews)
SingleOK ==
  row = "none" /\ job # "cancelled" /\ PastBatches =>
    Delivered(SingleNews) \/ UnderWay(executor, SingleNews)
HooksOK ==
  /\ PastHooks => \A h \in Hooks \cap steady : Pair("fired", h) \in told \/ h \in executor.hooks
  /\ executor.step = "over" => executor.hooks = {}
RefusedOK == refused # {} => Belled(HookNews) \/ UnderWay(executor, HookNews)

NewsInv == NewsShape /\ NewsFlow /\ OutcomeOK /\ SingleOK /\ HooksOK /\ RefusedOK


LEMMA Announced ==
  /\ OutcomeNews \in Items /\ SingleNews \in Items /\ HookNews \in Items
  /\ OutcomeNews.external /\ SingleNews.external /\ HookNews.external
  BY DEF OutcomeNews, SingleNews, HookNews, Items, News!News

LEMMA NewsInit == News!Init => NewsInv
<1> SUFFICES ASSUME News!Init PROVE NewsInv
  OBVIOUS
<1>1. /\ job = "running" /\ row \in {"none", "approved"} /\ broken = FALSE /\ refused = {}
      /\ steady = News!On /\ target \in [Channels \cup Hooks -> {"absent", "on"}]
      /\ teller = [p \in {"executor", "worker"} |->
           [step |-> IF p = "executor" THEN "download" ELSE IF row = "none" THEN "over" ELSE "claim",
            news |-> <<>>, left |-> {}, hooks |-> {}, then |-> ""]]
  BY DEF News!Init, News!At, News!Threads, News!Targets
<1>2. <<>> \in NewsLists
  BY DEF NewsLists
<1>3. /\ executor = [step |-> "download", news |-> <<>>, left |-> {}, hooks |-> {}, then |-> ""]
      /\ worker = [step |-> IF row = "none" THEN "over" ELSE "claim",
                   news |-> <<>>, left |-> {}, hooks |-> {}, then |-> ""]
  BY <1>1 DEF executor, worker
<1>4. teller \in [{"executor", "worker"} -> Tellers]
  BY <1>1, <1>2 DEF Tellers, TellerSteps
<1>5. executor.step = "download" /\ worker.step = IF row = "none" THEN "over" ELSE "claim"
  BY <1>3
<1>6. NewsShape
  BY <1>1, <1>4 DEF NewsShape
<1>7. NewsFlow
  BY <1>1, <1>5 DEF NewsFlow, Orderly, TellSteps
<1> QED
  BY <1>1, <1>5, <1>6, <1>7 DEF NewsInv, OutcomeOK, SingleOK, HooksOK, RefusedOK, PastBatches,
    PastHooks, TellSteps

(* What has been told stays told, and a steady target was always one.      *)
Onward ==
  told \subseteq told' /\ (broken => broken') /\ broken' \in BOOLEAN /\ steady' \subseteq steady

LEMMA ToldStaysTold ==
  ASSUME Onward, NEW n
  PROVE  /\ Belled(n) => Belled(n)'
         /\ Delivered(n) => Delivered(n)'
         /\ \A t : UnderWay(t, n) => UnderWay(t, n)'
  BY DEF Onward, Belled, Delivered, UnderWay

(* One teller moves.                                                       *)
Turns(p, r) == teller' = [teller EXCEPT ![p] = r] /\ r \in Tellers

LEMMA TurnsOne ==
  ASSUME NewsShape, NEW r
  PROVE  /\ Turns("executor", r) => executor' = r /\ worker' = worker
         /\ Turns("worker", r) => worker' = r /\ executor' = executor
         /\ \A p \in {"executor", "worker"} : Turns(p, r) =>
              teller' \in [{"executor", "worker"} -> Tellers]
  BY DEF NewsShape, Turns, executor, worker

(* Telling: a teller turns from t to r.                                    *)
Tells(t, r) ==
  /\ \/ r.step \in TellSteps /\ r.then = t.then
     \/ t.step = "tell" /\ t.news = <<>> /\ r.step = t.then
  /\ t.step \in TellSteps /\ r.hooks = t.hooks /\ Orderly(r)
  /\ \A n : n.external /\ UnderWay(t, n) => UnderWay(r, n)' \/ Delivered(n)'

LEMMA TellingIs ==
  ASSUME NewsInv, NEW p \in {"executor", "worker"}, News!Telling(p)
  PROVE  /\ \E r : Turns(p, r) /\ Tells(teller[p], r)
         /\ Onward /\ UNCHANGED <<job, row, target, steady, refused>>
<1> DEFINE t == teller[p]
<1>1. /\ t \in Tellers /\ Orderly(t)
      /\ (t.step \in TellSteps => t.then \in {"batches", "hooks", "fire", "over"})
  BY DEF NewsInv, NewsShape, NewsFlow, executor, worker
<1>2. UNCHANGED <<job, row, target, steady, refused>>
  BY DEF News!Telling, News!Bell, News!Outside, News!Send, News!Sent, News!AllTold, News!history
<1>3. steady \subseteq News!On /\ broken \in BOOLEAN
  BY DEF NewsInv, NewsShape
<1> HIDE DEF t
<1>4. CASE News!Bell(p)
  <2>1. t.step = "tell" /\ t.news # <<>>
    BY <1>4 DEF News!Bell, t
  <2>2. PICK r : r = [t EXCEPT !.step = "outside"]
    OBVIOUS
  <2>3. /\ r \in Tellers /\ r.step = "outside" /\ r.news = t.news /\ r.hooks = t.hooks
        /\ r.then = t.then
    BY <1>1, <2>2 DEF Tellers, TellerSteps, TellSteps
  <2>4. teller' = [teller EXCEPT ![p] = r]
    BY <1>4, <2>2 DEF News!Bell, News!Go, t, NewsInv, NewsShape
  <2>5. PICK n : n = Head(t.news)
    OBVIOUS
  <2>6. \/ told' = told \cup {Pair(n.what, n.whom)} /\ UNCHANGED broken
        \/ broken' = TRUE /\ UNCHANGED told
    BY <1>4, <2>5 DEF News!Bell, Pair, t
  <2>7. Onward
    BY <1>2, <1>3, <2>6 DEF Onward
  <2>8. Belled(n)'
    BY <2>6 DEF Belled
  <2>9. Tells(t, r)
    BY <2>1, <2>3, <2>5, <2>8 DEF Tells, Orderly, UnderWay, TellSteps
  <2> QED
    BY <1>2, <2>3, <2>4, <2>7, <2>9 DEF Turns, t
<1>5. CASE News!Outside(p)
  <2>1. /\ t.step = "outside" /\ t.news # <<>>
        /\ UNCHANGED <<told, broken, steady>>
    BY <1>1, <1>5 DEF News!Outside, t, Orderly, News!history
  <2>2. Onward
    BY <1>3, <2>1 DEF Onward
  <2>3. CASE Head(t.news).external
    <3>1. PICK r : r = [t EXCEPT !.step = "send", !.left = News!On \cap Channels]
      OBVIOUS
    <3>2. /\ r \in Tellers /\ r.step = "send" /\ r.news = t.news /\ r.hooks = t.hooks
          /\ r.then = t.then /\ r.left = News!On \cap Channels
      BY <1>1, <3>1 DEF Tellers, TellerSteps, TellSteps
    <3>3. teller' = [teller EXCEPT ![p] = r]
      BY <1>5, <2>3, <3>1 DEF News!Outside, t, NewsInv, NewsShape
    <3>4. Tells(t, r)
      BY <1>3, <2>1, <3>2 DEF Tells, Orderly, UnderWay, TellSteps, Belled
    <3> QED
      BY <1>2, <2>2, <3>2, <3>3, <3>4 DEF Turns, t
  <2>4. CASE ~Head(t.news).external
    <3>1. PICK r : r = [t EXCEPT !.step = "tell", !.news = Tail(t.news)]
      OBVIOUS
    <3>2. Tail(t.news) \in NewsLists
      BY <1>1, <2>1, HeadTailProperties DEF Tellers, NewsLists
    <3>3. /\ r \in Tellers /\ r.step = "tell" /\ r.hooks = t.hooks /\ r.then = t.then
      BY <1>1, <3>1, <3>2 DEF Tellers, TellerSteps, TellSteps
    <3>4. teller' = [teller EXCEPT ![p] = r]
      BY <1>5, <2>4, <3>1 DEF News!Outside, News!Told, t, NewsInv, NewsShape
    <3>5. Tells(t, r)
      BY <2>1, <2>4, <3>3 DEF Tells, Orderly, UnderWay, TellSteps
    <3> QED
      BY <1>2, <2>2, <3>3, <3>4, <3>5 DEF Turns, t
  <2> QED
    BY <2>3, <2>4
<1>6. CASE News!Send(p)
  <2>1. PICK c \in t.left : /\ t.step = "send"
                            /\ told' = told \cup {Pair(Head(t.news).what, c)}
                            /\ teller' = [teller EXCEPT ![p].left = @ \ {c}]
                            /\ UNCHANGED <<broken, steady>>
    BY <1>6 DEF News!Send, t, Pair
  <2>2. PICK r : r = [t EXCEPT !.left = t.left \ {c}]
    OBVIOUS
  <2>3. /\ r \in Tellers /\ r.step = "send" /\ r.news = t.news /\ r.hooks = t.hooks
        /\ r.then = t.then /\ r.left = t.left \ {c}
    BY <1>1, <2>1, <2>2 DEF Tellers
  <2>4. teller' = [teller EXCEPT ![p] = r]
    BY <2>1, <2>2 DEF t, NewsInv, NewsShape
  <2>5. Onward
    BY <1>3, <2>1 DEF Onward
  <2>6. Tells(t, r)
    BY <1>1, <2>1, <2>3 DEF Tells, Orderly, UnderWay, TellSteps, Belled
  <2> QED
    BY <1>2, <2>3, <2>4, <2>5, <2>6 DEF Turns, t
<1>7. CASE News!Sent(p)
  <2>1. /\ t.step = "send" /\ t.left = {} /\ t.news # <<>>
        /\ UNCHANGED <<told, broken, steady>>
    BY <1>1, <1>7 DEF News!Sent, t, Orderly, News!history
  <2>2. Onward
    BY <1>3, <2>1 DEF Onward
  <2>3. PICK r : r = [t EXCEPT !.step = "tell", !.news = Tail(t.news)]
    OBVIOUS
  <2>4. Tail(t.news) \in NewsLists
    BY <1>1, <2>1, HeadTailProperties DEF Tellers, NewsLists
  <2>5. /\ r \in Tellers /\ r.step = "tell" /\ r.hooks = t.hooks /\ r.then = t.then
    BY <1>1, <2>3, <2>4 DEF Tellers, TellerSteps, TellSteps
  <2>6. teller' = [teller EXCEPT ![p] = r]
    BY <1>7, <2>3 DEF News!Sent, News!Told, t, NewsInv, NewsShape
  <2>7. ASSUME NEW n, UnderWay(t, n) PROVE Delivered(n)'
    BY <2>1, <2>7 DEF UnderWay, Delivered, Belled
  <2>8. Tells(t, r)
    BY <2>1, <2>5, <2>7 DEF Tells, Orderly, TellSteps
  <2> QED
    BY <1>2, <2>2, <2>5, <2>6, <2>8 DEF Turns, t
<1>8. CASE News!AllTold(p)
  <2>1. /\ t.step = "tell" /\ t.news = <<>>
        /\ UNCHANGED <<told, broken, steady>>
    BY <1>8 DEF News!AllTold, t, News!history
  <2>2. Onward
    BY <1>3, <2>1 DEF Onward
  <2>3. PICK r : r = [t EXCEPT !.step = t.then, !.then = ""]
    OBVIOUS
  <2>4. /\ r \in Tellers /\ r.step = t.then /\ r.hooks = t.hooks
    BY <1>1, <2>1, <2>3 DEF Tellers, TellerSteps, TellSteps
  <2>5. teller' = [teller EXCEPT ![p] = r]
    BY <1>8, <2>3 DEF News!AllTold, t, NewsInv, NewsShape
  <2>6. Tells(t, r)
    BY <1>1, <2>1, <2>4 DEF Tells, Orderly, UnderWay, TellSteps
  <2> QED
    BY <1>2, <2>2, <2>4, <2>5, <2>6 DEF Turns, t
<1> QED
  BY <1>4, <1>5, <1>6, <1>7, <1>8 DEF News!Telling

LEMMA TellingKeeps ==
  ASSUME NewsInv, NEW p \in {"executor", "worker"}, News!Telling(p)
  PROVE  NewsInv'
<1>1. PICK r : Turns(p, r) /\ Tells(teller[p], r)
  BY TellingIs
<1>2. Onward /\ UNCHANGED <<job, row, target, steady, refused>>
  BY TellingIs
<1>3. teller' \in [{"executor", "worker"} -> Tellers] /\ r \in Tellers
  BY <1>1, TurnsOne DEF NewsInv, Turns
<1>4. NewsShape'
  BY <1>2, <1>3 DEF NewsInv, NewsShape, Onward, News!On
<1>5. CASE p = "executor"
  <2>1. executor' = r /\ worker' = worker /\ Tells(executor, r)
    BY <1>1, <1>5, TurnsOne DEF NewsInv, executor
  <2>2. NewsFlow'
    BY <1>2, <2>1 DEF NewsInv, NewsFlow, Tells, Orderly, TellSteps
  <2>3. (PastBatches' => PastBatches) /\ (PastHooks' => PastHooks)
    BY <2>1 DEF PastBatches, PastHooks, Tells, TellSteps, NewsInv, NewsFlow
  <2>4. OutcomeOK' /\ SingleOK' /\ RefusedOK'
    <3>1. ASSUME NEW n, n.external
          PROVE  /\ Delivered(n) => Delivered(n)'
                 /\ Belled(n) => Belled(n)'
                 /\ UnderWay(executor, n) => UnderWay(executor, n)' \/ Delivered(n)'
                 /\ UnderWay(worker, n) => UnderWay(worker, n)'
      BY <1>2, <2>1, <3>1, ToldStaysTold DEF Tells, UnderWay
    <3>2. ASSUME NEW n PROVE Delivered(n)' => Belled(n)'
      BY DEF Delivered
    <3> QED
      BY <1>2, <2>3, <3>1, <3>2, Announced
        DEF NewsInv, OutcomeOK, SingleOK, RefusedOK
  <2>5. HooksOK'
    BY <1>2, <2>1, <2>3 DEF NewsInv, NewsFlow, HooksOK, Onward, Tells, TellSteps
  <2> QED
    BY <1>4, <2>2, <2>4, <2>5 DEF NewsInv
<1>6. CASE p = "worker"
  <2>1. worker' = r /\ executor' = executor /\ Tells(worker, r)
    BY <1>1, <1>6, TurnsOne DEF NewsInv, worker
  <2>2. NewsFlow'
    BY <1>2, <2>1 DEF NewsInv, NewsFlow, Tells, Orderly, TellSteps
  <2>3. (PastBatches' => PastBatches) /\ (PastHooks' => PastHooks)
    BY <2>1 DEF PastBatches, PastHooks
  <2>4. OutcomeOK' /\ SingleOK' /\ RefusedOK'
    <3>1. ASSUME NEW n, n.external
          PROVE  /\ Delivered(n) => Delivered(n)'
                 /\ Belled(n) => Belled(n)'
                 /\ UnderWay(worker, n) => UnderWay(worker, n)' \/ Delivered(n)'
                 /\ UnderWay(executor, n) => UnderWay(executor, n)'
      BY <1>2, <2>1, <3>1, ToldStaysTold DEF Tells, UnderWay
    <3> QED
      BY <1>2, <2>3, <3>1, Announced DEF NewsInv, OutcomeOK, SingleOK, RefusedOK
  <2>5. HooksOK'
    BY <1>2, <2>1, <2>3 DEF NewsInv, HooksOK, Onward
  <2> QED
    BY <1>4, <2>2, <2>4, <2>5 DEF NewsInv
<1> QED
  BY <1>5, <1>6

(* Outside of telling a teller owes nothing.                               *)
LEMMA OwesNothing ==
  ASSUME NEW t, t.step \notin TellSteps
  PROVE  \A n : ~UnderWay(t, n)
  BY DEF UnderWay

(* What a teller is made of.                                               *)
LEMMA ATeller ==
  ASSUME NEW step \in TellerSteps, NEW news \in NewsLists, NEW left \in SUBSET Channels,
         NEW hooks \in SUBSET Hooks, NEW then \in {"", "batches", "hooks", "fire", "over"}
  PROVE  [step |-> step, news |-> news, left |-> left, hooks |-> hooks, then |-> then] \in Tellers
  BY Zenon DEF Tellers

(* One piece of news to tell.                                              *)
LEMMA OnePiece ==
  ASSUME NEW o \in Items
  PROVE  <<o>> \in NewsLists /\ <<o>> # <<>> /\ Head(<<o>>) = o
<1>1. <<o>> \in Seq(Items) /\ <<o>> # <<>> /\ Head(<<o>>) = o
  OBVIOUS
<1> QED
  BY <1>1, Zenon DEF NewsLists

(* A teller begins to tell.                                                *)
LEMMA Begins ==
  ASSUME NEW news \in NewsLists, NEW then \in {"batches", "hooks", "fire", "over"},
         NEW r, r = News!At("tell", news, then)
  PROVE  /\ r \in Tellers /\ r.step = "tell" /\ r.then = then /\ r.hooks = {}
         /\ news # <<>> => UnderWay(r, Head(news))
<1>1. r = [step |-> "tell", news |-> news, left |-> {}, hooks |-> {}, then |-> then]
  BY DEF News!At
<1>2. r \in Tellers
  <2>1. "tell" \in TellerSteps /\ {} \in SUBSET Channels /\ {} \in SUBSET Hooks
    BY DEF TellerSteps, TellSteps
  <2>2. then \in {"", "batches", "hooks", "fire", "over"}
    OBVIOUS
  <2> QED
    BY <1>1, <2>1, <2>2, ATeller
<1> QED
  BY <1>1, <1>2 DEF UnderWay, TellSteps

LEMMA OutcomeIs ==
  /\ News!Outcome \in NewsLists
  /\ job \in {"done", "error"} => News!Outcome # <<>> /\ Head(News!Outcome) = OutcomeNews
<1>1. PICK o \in Items : o = OutcomeNews
  BY Announced
<1>2. PICK a \in Items : a = News!News("outcome", "approvers", FALSE)
  BY DEF Items, News!News
<1>3. News!Outcome = IF job = "done" THEN <<o>> ELSE IF job = "error" THEN <<o, a>> ELSE <<>>
  BY <1>1, <1>2 DEF News!Outcome, OutcomeNews
<1>4. <<o>> \in Seq(Items) /\ <<o>> # <<>> /\ Head(<<o>>) = o
  OBVIOUS
<1>5. <<o, a>> \in Seq(Items) /\ <<o, a>> # <<>> /\ Head(<<o, a>>) = o
  OBVIOUS
<1>6. <<>> \in Seq(Items)
  OBVIOUS
<1> QED
  BY <1>1, <1>3, <1>4, <1>5, <1>6 DEF NewsLists

(* A teller goes on to another step, telling nothing.                      *)
LEMMA GoesOn ==
  ASSUME NewsShape, NEW p \in {"executor", "worker"}, NEW step \in TellerSteps, News!Go(p, step)
  PROVE  \E r : /\ Turns(p, r) /\ r.step = step
                /\ r.hooks = teller[p].hooks /\ r.then = teller[p].then
                /\ r.news = teller[p].news /\ r.left = teller[p].left
<1>1. teller[p] \in Tellers
  BY DEF NewsShape
<1>2. PICK r : r = [teller[p] EXCEPT !.step = step]
  OBVIOUS
<1>3. /\ r \in Tellers /\ r.step = step
      /\ r.hooks = teller[p].hooks /\ r.then = teller[p].then
      /\ r.news = teller[p].news /\ r.left = teller[p].left
  BY <1>1, <1>2 DEF Tellers
<1>4. teller' = [teller EXCEPT ![p] = r]
  BY <1>2 DEF News!Go, NewsShape
<1> QED
  BY <1>3, <1>4 DEF Turns

(* One teller turns to r and tells nothing meanwhile; the other stays.     *)
LEMMA JobEndsKeeps == ASSUME NewsInv, News!JobEnds PROVE NewsInv'
<1>1. /\ job = "running" /\ job' \in {"done", "error", "cancelled"}
      /\ News!Go("executor", "requests")
      /\ UNCHANGED <<row, target, told, steady, broken, refused>>
  BY DEF News!JobEnds, News!history
<1>2. "requests" \in TellerSteps /\ NewsShape
  BY DEF TellerSteps, NewsInv
<1>3. PICK r : Turns("executor", r) /\ r.step = "requests"
  BY <1>1, <1>2, GoesOn
<1>4. executor' = r /\ worker' = worker /\ teller' \in [{"executor", "worker"} -> Tellers]
  BY <1>2, <1>3, TurnsOne
<1>5. executor.step = "download" /\ row # "closed"
  BY <1>1 DEF NewsInv, NewsFlow
<1>6. NewsShape'
  BY <1>1, <1>4 DEF NewsInv, NewsShape, News!On
<1>7. NewsFlow'
  BY <1>1, <1>3, <1>4, <1>5 DEF NewsInv, NewsFlow, Orderly, TellSteps
<1>8. OutcomeOK' /\ SingleOK' /\ HooksOK'
  BY <1>1, <1>3, <1>4, <1>5 DEF OutcomeOK, SingleOK, HooksOK, PastBatches, PastHooks, TellSteps
<1>9. ~UnderWay(executor, HookNews)
  BY <1>5 DEF UnderWay, TellSteps
<1>10. RefusedOK'
  BY <1>1, <1>9 DEF NewsInv, RefusedOK, Belled
<1> QED
  BY <1>6, <1>7, <1>8, <1>10 DEF NewsInv

LEMMA Unspoken ==
  ASSUME UNCHANGED <<told, steady, broken>>
  PROVE  /\ \A n : (Belled(n)' <=> Belled(n)) /\ (Delivered(n)' <=> Delivered(n))
         /\ \A t, n : UnderWay(t, n)' <=> UnderWay(t, n)
  BY DEF Belled, Delivered, UnderWay

(* service.on_job_finished(), by either.                                   *)
LEMMA RequestListensKeeps == ASSUME NewsInv, News!RequestListens PROVE NewsInv'
<1>1. /\ executor.step = "requests" /\ News!Heard("executor", "batches")
      /\ UNCHANGED <<job, target, told, steady, broken, refused>>
  BY DEF News!RequestListens, News!history, executor
<1>2. NewsShape /\ job # "running" /\ job \in {"done", "error", "cancelled"}
  BY <1>1 DEF NewsInv, NewsShape, NewsFlow
<1>3. ~UnderWay(executor, HookNews) /\ ~UnderWay(executor, OutcomeNews)
  BY <1>1 DEF UnderWay, TellSteps
<1>4. CASE row = "downloading"
  <2>1. /\ row' = "closed"
        /\ teller' = [teller EXCEPT !["executor"] = News!At("tell", News!Outcome, "batches")]
    BY <1>1, <1>4 DEF News!Heard
  <2>2. PICK r \in Tellers : /\ r = News!At("tell", News!Outcome, "batches")
                             /\ r.step = "tell" /\ r.then = "batches"
                             /\ News!Outcome # <<>> => UnderWay(r, Head(News!Outcome))
    BY OutcomeIs, Begins
  <2>3. /\ executor' = r /\ worker' = worker
        /\ teller' \in [{"executor", "worker"} -> Tellers]
    BY <1>2, <2>1, <2>2, TurnsOne DEF Turns
  <2>4. NewsShape'
    BY <1>1, <2>1, <2>3 DEF NewsInv, NewsShape, News!On
  <2>5. NewsFlow'
    BY <1>1, <1>2, <2>1, <2>2, <2>3 DEF NewsInv, NewsFlow, Orderly, TellSteps
  <2>6. OutcomeOK'
    BY <1>1, <1>2, <2>2, <2>3, OutcomeIs, Unspoken DEF OutcomeOK
  <2>7. SingleOK' /\ HooksOK'
    BY <2>1, <2>2, <2>3 DEF SingleOK, HooksOK, PastBatches, PastHooks, TellSteps
  <2>8. RefusedOK'
    BY <1>1, <1>3, Unspoken DEF NewsInv, RefusedOK
  <2> QED
    BY <2>4, <2>5, <2>6, <2>7, <2>8 DEF NewsInv
<1>5. CASE row # "downloading"
  <2>1. row' = row /\ News!Go("executor", "batches")
    BY <1>1, <1>5 DEF News!Heard
  <2>2. "batches" \in TellerSteps
    BY DEF TellerSteps
  <2>3. PICK r : Turns("executor", r) /\ r.step = "batches"
    BY <1>2, <2>1, <2>2, GoesOn
  <2>4. /\ executor' = r /\ worker' = worker
        /\ teller' \in [{"executor", "worker"} -> Tellers]
    BY <1>2, <2>3, TurnsOne
  <2>5. NewsShape'
    BY <1>1, <2>1, <2>4 DEF NewsInv, NewsShape, News!On
  <2>6. NewsFlow'
    BY <1>1, <1>2, <1>5, <2>1, <2>3, <2>4 DEF NewsInv, NewsFlow, Orderly, TellSteps
  <2>7. OutcomeOK'
    BY <1>1, <1>3, <2>1, <2>4, Unspoken DEF NewsInv, OutcomeOK
  <2>8. SingleOK' /\ HooksOK'
    BY <2>1, <2>3, <2>4 DEF SingleOK, HooksOK, PastBatches, PastHooks, TellSteps
  <2>9. RefusedOK'
    BY <1>1, <1>3, Unspoken DEF NewsInv, RefusedOK
  <2> QED
    BY <2>5, <2>6, <2>7, <2>8, <2>9 DEF NewsInv
<1> QED
  BY <1>4, <1>5

LEMMA RecheckKeeps == ASSUME NewsInv, News!Recheck PROVE NewsInv'
<1>1. /\ worker.step = "recheck"
      /\ UNCHANGED <<job, target, told, steady, broken, refused>>
  BY DEF News!Recheck, News!history, worker
<1>2. NewsShape
  BY DEF NewsInv
<1>3. ~UnderWay(worker, OutcomeNews)
  BY <1>1 DEF UnderWay, TellSteps
<1>4. CASE job # "running" /\ row = "downloading"
  <2>1. /\ row' = "closed"
        /\ teller' = [teller EXCEPT !["worker"] = News!At("tell", News!Outcome, "over")]
    BY <1>4 DEF News!Recheck, News!Heard
  <2>2. PICK r \in Tellers : /\ r = News!At("tell", News!Outcome, "over")
                             /\ r.step = "tell" /\ r.then = "over"
                             /\ News!Outcome # <<>> => UnderWay(r, Head(News!Outcome))
    BY OutcomeIs, Begins
  <2>3. /\ worker' = r /\ executor' = executor
        /\ teller' \in [{"executor", "worker"} -> Tellers]
    BY <1>2, <2>1, <2>2, TurnsOne DEF Turns
  <2>4. NewsShape'
    BY <1>1, <2>1, <2>3 DEF NewsInv, NewsShape, News!On
  <2>5. NewsFlow'
    BY <1>1, <1>4, <2>1, <2>2, <2>3 DEF NewsInv, NewsFlow, Orderly, TellSteps
  <2>6. OutcomeOK'
    BY <1>1, <1>2, <1>4, <2>2, <2>3, OutcomeIs, Unspoken DEF OutcomeOK, NewsShape
  <2>7. SingleOK' /\ HooksOK' /\ RefusedOK'
    BY <1>1, <2>1, <2>3, Unspoken DEF NewsInv, SingleOK, HooksOK, RefusedOK, PastHooks
  <2> QED
    BY <2>4, <2>5, <2>6, <2>7 DEF NewsInv
<1>5. CASE job = "running" \/ row # "downloading"
  <2>1. row' = row /\ News!Go("worker", "over")
    BY <1>5 DEF News!Recheck, News!Heard
  <2>2. "over" \in TellerSteps
    BY DEF TellerSteps
  <2>3. PICK r : Turns("worker", r) /\ r.step = "over"
    BY <1>2, <2>1, <2>2, GoesOn
  <2>4. /\ worker' = r /\ executor' = executor
        /\ teller' \in [{"executor", "worker"} -> Tellers]
    BY <1>2, <2>3, TurnsOne
  <2>5. NewsShape'
    BY <1>1, <2>1, <2>4 DEF NewsInv, NewsShape, News!On
  <2>6. NewsFlow'
    BY <1>1, <1>5, <2>1, <2>3, <2>4 DEF NewsInv, NewsFlow, Orderly, TellSteps
  <2>7. OutcomeOK'
    BY <1>1, <1>3, <2>1, <2>4, Unspoken DEF NewsInv, OutcomeOK
  <2>8. SingleOK' /\ HooksOK' /\ RefusedOK'
    BY <1>1, <2>1, <2>4, Unspoken
      DEF NewsInv, SingleOK, HooksOK, RefusedOK, PastHooks, PastBatches
  <2> QED
    BY <2>5, <2>6, <2>7, <2>8 DEF NewsInv
<1> QED
  BY <1>4, <1>5

LEMMA ClaimKeeps == ASSUME NewsInv, News!Claim PROVE NewsInv'
<1>1. /\ worker.step = "claim" /\ row = "approved" /\ row' = "downloading"
      /\ News!Go("worker", "recheck")
      /\ UNCHANGED <<job, target, told, steady, broken, refused>>
  BY DEF News!Claim, News!history, worker
<1>2. "recheck" \in TellerSteps /\ NewsShape
  BY DEF TellerSteps, NewsInv
<1>3. PICK r : Turns("worker", r) /\ r.step = "recheck"
  BY <1>1, <1>2, GoesOn
<1>4. worker' = r /\ executor' = executor /\ teller' \in [{"executor", "worker"} -> Tellers]
  BY <1>2, <1>3, TurnsOne
<1>5. NewsShape'
  BY <1>1, <1>4 DEF NewsInv, NewsShape, News!On
<1>6. NewsFlow'
  BY <1>1, <1>3, <1>4 DEF NewsInv, NewsFlow, Orderly, TellSteps
<1>7. OutcomeOK' /\ SingleOK' /\ HooksOK' /\ RefusedOK'
  BY <1>1, <1>4, Unspoken DEF NewsInv, OutcomeOK, SingleOK, HooksOK, RefusedOK, PastHooks
<1> QED
  BY <1>5, <1>6, <1>7 DEF NewsInv

LEMMA BatchListensKeeps == ASSUME NewsInv, News!BatchListens PROVE NewsInv'
<1>1. /\ executor.step = "batches"
      /\ UNCHANGED <<job, row, target, told, steady, broken, refused>>
  BY DEF News!BatchListens, News!history, executor
<1>2. NewsShape /\ job # "running"
  BY <1>1 DEF NewsInv, NewsShape, NewsFlow
<1>3. ~UnderWay(executor, HookNews) /\ ~UnderWay(executor, OutcomeNews)
  BY <1>1 DEF UnderWay, TellSteps
<1>4. CASE job = "cancelled" \/ row \in {"downloading", "closed"}
  <2>1. News!Go("executor", "hooks")
    BY <1>4 DEF News!BatchListens
  <2>2. "hooks" \in TellerSteps
    BY DEF TellerSteps
  <2>3. PICK r : Turns("executor", r) /\ r.step = "hooks"
    BY <1>2, <2>1, <2>2, GoesOn
  <2>4. /\ executor' = r /\ worker' = worker
        /\ teller' \in [{"executor", "worker"} -> Tellers]
    BY <1>2, <2>3, TurnsOne
  <2>5. NewsShape'
    BY <1>1, <2>4 DEF NewsInv, NewsShape, News!On
  <2>6. NewsFlow'
    BY <1>1, <1>2, <2>3, <2>4 DEF NewsInv, NewsFlow, Orderly, TellSteps
  <2>7. OutcomeOK' /\ RefusedOK'
    BY <1>1, <1>3, <2>4, Unspoken DEF NewsInv, OutcomeOK, RefusedOK
  <2>8. SingleOK' /\ HooksOK'
    BY <1>1, <1>4, <2>3, <2>4 DEF SingleOK, HooksOK, PastHooks, TellSteps
  <2> QED
    BY <2>5, <2>6, <2>7, <2>8 DEF NewsInv
<1>5. CASE ~(job = "cancelled" \/ row \in {"downloading", "closed"})
  <2>1. PICK o \in Items : o = SingleNews
    BY Announced
  <2>2. PICK news \in NewsLists : news = <<o>> /\ news # <<>> /\ Head(news) = o
    BY OnePiece, Zenon
  <2>3. teller' = [teller EXCEPT !["executor"] = News!At("tell", news, "hooks")]
    BY <1>5, <2>1, <2>2 DEF News!BatchListens, SingleNews
  <2>4. PICK r \in Tellers : /\ r = News!At("tell", news, "hooks")
                             /\ r.step = "tell" /\ r.then = "hooks" /\ UnderWay(r, SingleNews)
    BY <2>1, <2>2, Begins
  <2>5. /\ executor' = r /\ worker' = worker
        /\ teller' \in [{"executor", "worker"} -> Tellers]
    BY <1>2, <2>3, <2>4, TurnsOne DEF Turns
  <2>6. NewsShape'
    BY <1>1, <2>5 DEF NewsInv, NewsShape, News!On
  <2>7. NewsFlow'
    BY <1>1, <1>2, <2>4, <2>5 DEF NewsInv, NewsFlow, Orderly, TellSteps
  <2>8. OutcomeOK' /\ RefusedOK' /\ SingleOK'
    BY <1>1, <1>3, <2>4, <2>5, Unspoken DEF NewsInv, OutcomeOK, RefusedOK, SingleOK
  <2>9. HooksOK'
    BY <2>4, <2>5 DEF HooksOK, PastHooks, TellSteps
  <2> QED
    BY <2>6, <2>7, <2>8, <2>9 DEF NewsInv
<1> QED
  BY <1>4, <1>5

LEMMA HooksListenKeeps == ASSUME NewsInv, News!HooksListen PROVE NewsInv'
<1>1. /\ executor.step = "hooks"
      /\ teller' = [teller EXCEPT !["executor"].step = "fire",
                                  !["executor"].hooks = News!On \cap Hooks]
      /\ UNCHANGED <<job, row, target, told, steady, broken, refused>>
  BY DEF News!HooksListen, News!history, executor
<1>2. NewsShape /\ job # "running" /\ executor \in Tellers
  BY <1>1 DEF NewsInv, NewsShape, NewsFlow, executor
<1>3. PICK r : r = [executor EXCEPT !.step = "fire", !.hooks = News!On \cap Hooks]
  OBVIOUS
<1>4. r \in Tellers /\ r.step = "fire" /\ r.hooks = News!On \cap Hooks
  BY <1>2, <1>3 DEF Tellers, TellerSteps
<1>5. Turns("executor", r)
  BY <1>1, <1>2, <1>3, <1>4 DEF Turns, executor, NewsShape
<1>6. executor' = r /\ worker' = worker /\ teller' \in [{"executor", "worker"} -> Tellers]
  BY <1>2, <1>5, TurnsOne
<1>7. NewsShape'
  BY <1>1, <1>6 DEF NewsInv, NewsShape, News!On
<1>8. NewsFlow'
  BY <1>1, <1>2, <1>4, <1>6 DEF NewsInv, NewsFlow, Orderly, TellSteps
<1>9. HooksOK'
  BY <1>1, <1>2, <1>4, <1>6 DEF HooksOK, NewsShape
<1>10. OutcomeOK' /\ SingleOK' /\ RefusedOK'
  <2>1. \A n : ~UnderWay(executor, n)
    BY <1>1 DEF UnderWay, TellSteps
  <2>2. PastBatches
    BY <1>1 DEF PastBatches
  <2> QED
    BY <1>1, <1>6, <2>1, <2>2, Unspoken DEF NewsInv, OutcomeOK, SingleOK, RefusedOK
<1> QED
  BY <1>7, <1>8, <1>9, <1>10 DEF NewsInv

LEMMA AllFiredKeeps == ASSUME NewsInv, News!AllFired PROVE NewsInv'
<1>1. /\ executor.step = "fire" /\ executor.hooks = {} /\ News!Go("executor", "over")
      /\ UNCHANGED <<job, row, target, told, steady, broken, refused>>
  BY DEF News!AllFired, News!history, executor
<1>2. NewsShape /\ job # "running" /\ "over" \in TellerSteps
  BY <1>1 DEF NewsInv, NewsFlow, TellerSteps
<1>3. PICK r : Turns("executor", r) /\ r.step = "over" /\ r.hooks = {}
  BY <1>1, <1>2, GoesOn DEF executor
<1>4. executor' = r /\ worker' = worker /\ teller' \in [{"executor", "worker"} -> Tellers]
  BY <1>2, <1>3, TurnsOne
<1>5. NewsShape'
  BY <1>1, <1>4 DEF NewsInv, NewsShape, News!On
<1>6. NewsFlow'
  BY <1>1, <1>2, <1>3, <1>4 DEF NewsInv, NewsFlow, Orderly, TellSteps
<1>7. HooksOK'
  BY <1>1, <1>3, <1>4 DEF NewsInv, HooksOK, PastHooks
<1>8. OutcomeOK' /\ SingleOK' /\ RefusedOK'
  <2>1. \A n : ~UnderWay(executor, n)
    BY <1>1 DEF UnderWay, TellSteps
  <2>2. PastBatches
    BY <1>1 DEF PastBatches
  <2> QED
    BY <1>1, <1>4, <2>1, <2>2, Unspoken DEF NewsInv, OutcomeOK, SingleOK, RefusedOK
<1> QED
  BY <1>5, <1>6, <1>7, <1>8 DEF NewsInv

LEMMA FireKeeps == ASSUME NewsInv, News!Fire PROVE NewsInv'
<1>1. PICK h \in executor.hooks :
        /\ told' = told \cup {Pair("fired", h)}
        /\ \/ /\ teller' = [teller EXCEPT !["executor"].hooks = @ \ {h}]
              /\ UNCHANGED refused
           \/ teller' = [teller EXCEPT !["executor"] =
                 [News!At("tell", <<HookNews>>, "fire") EXCEPT !.hooks = executor.hooks \ {h}]]
  BY DEF News!Fire, executor, Pair, HookNews
<1>2. executor.step = "fire" /\ UNCHANGED <<job, row, target, steady, broken>>
  BY DEF News!Fire, executor
<1>3. NewsShape /\ job # "running" /\ executor \in Tellers
  BY <1>2 DEF NewsInv, NewsShape, NewsFlow, executor
<1>4. Onward
  BY <1>1, <1>2, <1>3 DEF Onward, NewsShape
<1>5. \A n : ~UnderWay(executor, n)
  BY <1>2 DEF UnderWay, TellSteps
<1>6. PastBatches /\ PastHooks
  BY <1>2 DEF PastBatches, PastHooks
<1>7. PICK r : /\ Turns("executor", r) /\ r.hooks = executor.hooks \ {h}
               /\ \/ r.step = "fire" /\ UNCHANGED refused
                  \/ r.step = "tell" /\ r.then = "fire" /\ UnderWay(r, HookNews)
  <2>1. CASE /\ teller' = [teller EXCEPT !["executor"].hooks = @ \ {h}]
             /\ UNCHANGED refused
    <3>1. PICK r : r = [executor EXCEPT !.hooks = executor.hooks \ {h}]
      OBVIOUS
    <3>2. r \in Tellers /\ r.step = "fire" /\ r.hooks = executor.hooks \ {h}
      BY <1>2, <1>3, <3>1 DEF Tellers
    <3>3. Turns("executor", r)
      BY <1>3, <2>1, <3>1, <3>2 DEF Turns, executor, NewsShape
    <3> QED
      BY <2>1, <3>2, <3>3
  <2>2. CASE teller' = [teller EXCEPT !["executor"] =
               [News!At("tell", <<HookNews>>, "fire") EXCEPT !.hooks = executor.hooks \ {h}]]
    <3>1. PICK o \in Items : o = HookNews
      BY Announced
    <3>2. PICK news \in NewsLists : news = <<o>> /\ news # <<>> /\ Head(news) = o
      BY OnePiece, Zenon
    <3>3. PICK q \in Tellers : /\ q = News!At("tell", news, "fire") /\ q.step = "tell"
                               /\ q.then = "fire" /\ UnderWay(q, HookNews)
      BY <3>1, <3>2, Begins
    <3>4. PICK r : r = [q EXCEPT !.hooks = executor.hooks \ {h}]
      OBVIOUS
    <3>5. /\ r \in Tellers /\ r.step = "tell" /\ r.then = "fire" /\ r.news = q.news
          /\ r.left = q.left /\ r.hooks = executor.hooks \ {h}
      BY <1>3, <3>3, <3>4 DEF Tellers
    <3>6. UnderWay(r, HookNews)
      BY <3>3, <3>5 DEF UnderWay
    <3>7. teller' = [teller EXCEPT !["executor"] = r]
      BY <2>2, <3>1, <3>2, <3>3, <3>4
    <3> QED
      BY <3>5, <3>6, <3>7 DEF Turns
  <2> QED
    BY <1>1, <2>1, <2>2
<1>8. executor' = r /\ worker' = worker /\ teller' \in [{"executor", "worker"} -> Tellers]
  BY <1>3, <1>7, TurnsOne
<1>9. NewsShape'
  BY <1>2, <1>8 DEF NewsInv, NewsShape, News!On
<1>10. NewsFlow'
  <2>1. Orderly(r)
    BY <1>7 DEF Orderly
  <2> QED
    BY <1>2, <1>3, <1>7, <1>8, <2>1 DEF NewsInv, NewsFlow, TellSteps, Orderly
<1>11. HooksOK'
  <2>1. \A x \in Hooks \cap steady : Pair("fired", x) \in told \/ x \in executor.hooks
    BY <1>6 DEF NewsInv, HooksOK
  <2>2. ASSUME NEW x \in Hooks \cap steady
        PROVE  Pair("fired", x) \in told' \/ x \in r.hooks
    BY <1>1, <1>7, <2>1
  <2> QED
    BY <1>2, <1>7, <1>8, <2>2 DEF HooksOK
<1>12. OutcomeOK' /\ SingleOK'
  <2>1. \A n : (Delivered(n) => Delivered(n)') /\ (UnderWay(worker, n) => UnderWay(worker, n)')
    BY <1>4, <1>8, ToldStaysTold DEF UnderWay
  <2> QED
    BY <1>2, <1>5, <1>6, <1>8, <2>1 DEF NewsInv, OutcomeOK, SingleOK
<1>13. RefusedOK'
  <2>1. CASE r.step = "fire" /\ UNCHANGED refused
    BY <1>4, <1>5, <2>1, ToldStaysTold DEF NewsInv, RefusedOK
  <2>2. CASE UnderWay(r, HookNews)
    BY <1>4, <1>8, <2>2, ToldStaysTold DEF RefusedOK, UnderWay
  <2> QED
    BY <1>7, <2>1, <2>2
<1> QED
  BY <1>9, <1>10, <1>11, <1>12, <1>13 DEF NewsInv

LEMMA EditKeeps == ASSUME NewsInv, NEW x \in News!Targets, News!Edit(x) PROVE NewsInv'
<1>1. /\ steady' = steady \ {x} /\ UNCHANGED <<job, row, teller, told, broken, refused>>
      /\ \E s \in {"on", "off", "absent"} : target' = [target EXCEPT ![x] = s]
  BY DEF News!Edit
<1>2. NewsShape'
  BY <1>1 DEF NewsInv, NewsShape, News!On, News!Targets
<1>3. Onward
  BY <1>1 DEF NewsInv, NewsShape, Onward
<1>4. NewsFlow'
  BY <1>1 DEF NewsInv, NewsFlow, executor, worker
<1>5. executor' = executor /\ worker' = worker
  BY <1>1 DEF executor, worker
<1>6. \A n : /\ Belled(n) => Belled(n)'
             /\ Delivered(n) => Delivered(n)'
             /\ UnderWay(executor, n) => UnderWay(executor, n)'
             /\ UnderWay(worker, n) => UnderWay(worker, n)'
  BY <1>3, <1>5, ToldStaysTold DEF UnderWay
<1>7. OutcomeOK' /\ SingleOK' /\ RefusedOK'
  BY <1>1, <1>5, <1>6 DEF NewsInv, OutcomeOK, SingleOK, RefusedOK, PastBatches
<1>8. HooksOK'
  BY <1>1, <1>3, <1>5 DEF NewsInv, HooksOK, PastHooks, Onward
<1> QED
  BY <1>2, <1>4, <1>7, <1>8 DEF NewsInv

LEMMA NewsNext ==
  ASSUME NewsInv, News!Next \/ UNCHANGED News!vars
  PROVE  NewsInv'
<1>1. CASE UNCHANGED News!vars
  <2>1. UNCHANGED <<job, row, teller, target, told, steady, broken, refused>>
    BY <1>1 DEF News!vars
  <2>2. executor' = executor /\ worker' = worker
    BY <2>1 DEF executor, worker
  <2>3. NewsShape' /\ NewsFlow'
    BY <2>1, <2>2 DEF NewsInv, NewsShape, NewsFlow, News!On, Orderly
  <2> QED
    BY <2>1, <2>2, <2>3, Unspoken
      DEF NewsInv, OutcomeOK, SingleOK, HooksOK, RefusedOK, PastBatches, PastHooks
<1> QED
  BY <1>1, JobEndsKeeps, RequestListensKeeps, BatchListensKeeps, HooksListenKeeps, FireKeeps,
     AllFiredKeeps, ClaimKeeps, RecheckKeeps, TellingKeeps, EditKeeps
    DEF News!Next, News!Threads

\* When the executor of a download and the worker of its request are both through, the
\* request is closed and whom the download concerns has been told on the bell and on every
\* channel that was on all the time, every such hook has been fired and a hook that failed
\* has been announced: in whatever order app/requests/service.py, app/downloads_notify.py
\* and app/downloads_hooks.py get to it.
THEOREM WhomItConcernsIsTold == Spec => []EveryoneIsTold
<1> DEFINE I == focus = "news" => NewsInv
<1>1. Init => I
  BY NewsInit DEF Init
<1>2. I /\ [Next]_vars => I'
  BY NewsNext DEF Next, vars, News!vars
<1>3. NewsInv => News!EveryoneIsTold
  <2> SUFFICES ASSUME NewsInv, \A p \in News!Threads : teller[p].step = "over"
               PROVE  /\ row \in {"none", "closed"}
                      /\ job # "cancelled" => broken \/ News!Concerned \in told
                      /\ job # "cancelled" =>
                           \A c \in Channels \cap steady : <<News!Concerned[1], c>> \in told
                      /\ \A h \in Hooks \cap steady : <<"fired", h>> \in told
                      /\ refused # {} => broken \/ <<"hook", "managers">> \in told
    BY DEF News!EveryoneIsTold
  <2>1. executor.step = "over" /\ worker.step = "over"
    BY DEF News!Threads, executor, worker
  <2>2. \A n : ~UnderWay(executor, n) /\ ~UnderWay(worker, n)
    BY <2>1 DEF UnderWay, TellSteps
  <2>3. row \in {"none", "closed"}
    BY <2>1 DEF NewsInv, NewsFlow, NewsShape
  <2>4. \A h \in Hooks \cap steady : Pair("fired", h) \in told
    BY <2>1 DEF NewsInv, HooksOK, PastHooks
  <2>5. refused # {} => broken \/ Pair("hook", "managers") \in told
    BY <2>2 DEF NewsInv, RefusedOK, Belled, HookNews, News!News
  <2>6. CASE job # "cancelled" /\ row = "none"
    <3>1. Delivered(SingleNews)
      BY <2>1, <2>2, <2>6 DEF NewsInv, SingleOK, PastBatches
    <3>2. /\ broken \/ Pair("single", "owner") \in told
          /\ \A c \in Channels \cap steady : Pair("single", c) \in told
      BY <3>1 DEF Delivered, Belled, SingleNews, News!News
    <3>3. News!Concerned = <<"single", "owner">> /\ News!Concerned[1] = "single"
      BY <2>6 DEF News!Concerned
    <3> QED
      BY <2>3, <2>4, <2>5, <3>2, <3>3, Zenon DEF Pair
  <2>7. CASE job # "cancelled" /\ row = "closed"
    <3>1. Delivered(OutcomeNews)
      BY <2>2, <2>7 DEF NewsInv, OutcomeOK
    <3>2. /\ broken \/ Pair("outcome", "subscribers") \in told
          /\ \A c \in Channels \cap steady : Pair("outcome", c) \in told
      BY <3>1 DEF Delivered, Belled, OutcomeNews, News!News
    <3>3. News!Concerned = <<"outcome", "subscribers">> /\ News!Concerned[1] = "outcome"
      BY <2>7 DEF News!Concerned
    <3> QED
      BY <2>3, <2>4, <2>5, <3>2, <3>3, Zenon DEF Pair
  <2>8. CASE job = "cancelled"
    BY <2>3, <2>4, <2>5, <2>8, Zenon DEF Pair
  <2> QED
    BY <2>3, <2>6, <2>7, <2>8
<1>4. I => EveryoneIsTold
  BY <1>3 DEF EveryoneIsTold
<1> QED
  BY <1>1, <1>2, <1>4, PTL DEF Spec

NewsTypes == NewsInv /\ edits \in 0..MaxEdits /\ refused \subseteq Hooks

LEMMA NewsTyped == Spec => [](focus = "news" => News!TypeOK)
<1> DEFINE I == focus = "news" => NewsTypes
<1>0. MaxEdits \in Nat
  BY BoundsAssumption
<1>1. ASSUME News!Init PROVE NewsTypes
  <2>1. edits = 0 /\ refused = {}
    BY <1>1 DEF News!Init
  <2> QED
    BY <1>0, <1>1, <2>1, NewsInit DEF NewsTypes
<1>2. ASSUME NewsTypes, News!Next \/ UNCHANGED News!vars PROVE NewsTypes'
  <2>1. NewsInv'
    BY <1>2, NewsNext DEF NewsTypes
  <2>2. edits' \in 0..MaxEdits
    <3>1. edits' = edits \/ (edits < MaxEdits /\ edits' = edits + 1)
      BY <1>2 DEF News!vars, News!Next, News!JobEnds, News!RequestListens, News!BatchListens,
         News!HooksListen, News!Fire, News!AllFired, News!Claim, News!Recheck, News!Telling,
         News!Bell, News!Outside, News!Send, News!Sent, News!AllTold, News!Edit
    <3> QED
      BY <1>0, <1>2, <3>1 DEF NewsTypes
  <2>3. refused' \subseteq Hooks
    <3>1. CASE News!Fire
      <4>1. teller["executor"].hooks \subseteq Hooks
        BY <1>2 DEF NewsTypes, NewsInv, NewsShape, Tellers
      <4>2. refused' = refused \/ \E h \in teller["executor"].hooks : refused' = refused \cup {h}
        BY <3>1 DEF News!Fire
      <4> QED
        BY <1>2, <4>1, <4>2 DEF NewsTypes
    <3>2. CASE UNCHANGED refused
      BY <1>2, <3>2 DEF NewsTypes
    <3>3. News!Fire \/ UNCHANGED refused
      BY <1>2 DEF News!vars, News!Next, News!JobEnds, News!RequestListens, News!BatchListens,
         News!HooksListen, News!AllFired, News!Claim, News!Recheck, News!Telling,
         News!Bell, News!Outside, News!Send, News!Sent, News!AllTold, News!Edit, News!history
    <3> QED
      BY <3>1, <3>2, <3>3
  <2> QED
    BY <2>1, <2>2, <2>3 DEF NewsTypes
<1>3. ASSUME NewsTypes PROVE News!TypeOK
  <2>1. ASSUME NEW p \in News!Threads
        PROVE  /\ teller[p].step \in TellerSteps /\ teller[p].left \subseteq Channels
               /\ teller[p].hooks \subseteq Hooks /\ Orderly(teller[p])
    BY <1>3 DEF NewsTypes, NewsInv, NewsShape, NewsFlow, Tellers, News!Threads, executor, worker
  <2> QED
    BY <1>3, <2>1 DEF NewsTypes, NewsInv, NewsShape, News!TypeOK, News!Targets, Orderly,
       TellerSteps, TellSteps
<1>4. Init => I
  BY <1>1 DEF Init
<1>5. I /\ [Next]_vars => I'
  BY <1>2 DEF Next, vars, News!vars
<1> QED
  BY <1>3, <1>4, <1>5, PTL DEF Spec

-----------------------------------------------------------------------------

(***************************************************************************)
(* Progress: n counts the threads that are past their segment; when it is  *)
(* complete, a frame that says so was written or is about to be; and the   *)
(* last event in a page's queue is the last there was.                     *)
(***************************************************************************)
attempt == v1
phase == v2
bar == v3
thread == v4
progress == v5
sent == v6
page == v7
wire == v8
full == v9
USE DEF attempt, phase, bar, thread, progress, sent, page, wire, full

Frames == [n : Nat, bytes : Nat]
Queues == Seq(Nat)
Stages == {"loading", "writing", "sending", "over", "missed"}

BarsShape ==
  /\ bar \in [n : Nat, bytes : Nat, prior : Nat]
  /\ thread \in [Senders -> [at : Stages, frame : Frames]]
  /\ page \in [Pages -> [open : BOOLEAN, queue : Queues, read : Nat]]
  /\ sent \in Nat /\ wire \in Nat /\ full \in BOOLEAN

CountedNow == {s \in Senders : thread[s].at \in {"writing", "sending", "over"}}
SegmentsCount == bar.n = Cardinality(CountedNow)

EndIsShown ==
  bar.n = Cardinality(Senders) =>
    full \/ \E s \in Senders : thread[s].at = "writing" /\ thread[s].frame.n = bar.n

LastIsQueued(p) ==
  IF p.open /\ p.queue = <<>> THEN p.read = sent
  ELSE p.queue # <<>> => p.open /\ p.queue[Len(p.queue)] = sent

BarsInv ==
  /\ BarsShape /\ SegmentsCount /\ EndIsShown
  /\ Bars!BytesAreOfThisAttempt
  /\ \A p \in Pages : LastIsQueued(page[p])


LEMMA TotalIs == Bars!Total = Cardinality(Senders) /\ Cardinality(Senders) \in Nat \ {0}
<1>1. Bars!Total = Cardinality(Senders)
  BY DEF Bars!Total, Bars!Cardinality, Cardinality
<1>2. Cardinality(Senders) \in Nat \ {0}
  BY SendersAssumption, FS_CardinalityType, FS_EmptySet
<1> QED
  BY <1>1, <1>2

LEMMA FreshThreads ==
  /\ Bars!Loading \in [at : Stages, frame : Frames] /\ Bars!Loading.at = "loading"
  /\ Bars!Loading.frame.bytes = 0
  BY DEF Bars!Loading, Bars!NoFrame, Stages, Frames

(* A new bar, with no segment in yet.                                      *)
LEMMA NewBarKeeps ==
  ASSUME NEW prior \in Nat, bar' = Bars!NewBar(prior), wire' = prior, full' \in BOOLEAN,
         thread' = [s \in Senders |-> Bars!Loading], NEW a, a = page, page' = a,
         sent' = sent, sent \in Nat,
         page \in [Pages -> [open : BOOLEAN, queue : Queues, read : Nat]],
         \A p \in Pages : LastIsQueued(page[p])
  PROVE  BarsInv'
<1>1. bar' = [n |-> 0, bytes |-> 0, prior |-> prior]
  BY DEF Bars!NewBar
<1>2. BarsShape'
  BY <1>1, FreshThreads DEF BarsShape
<1>3. CountedNow' = {}
  BY FreshThreads DEF CountedNow
<1>4. SegmentsCount'
  BY <1>1, <1>3, FS_EmptySet DEF SegmentsCount
<1>5. EndIsShown'
  BY <1>1, TotalIs DEF EndIsShown
<1>6. Bars!BytesAreOfThisAttempt'
  BY <1>1, FreshThreads DEF Bars!BytesAreOfThisAttempt, Bars!BytesDone
<1>7. (\A p \in Pages : LastIsQueued(page[p]))'
  BY DEF LastIsQueued
<1> QED
  BY <1>2, <1>4, <1>5, <1>6, <1>7 DEF BarsInv

LEMMA BarsInit == Bars!Init => BarsInv
<1> SUFFICES ASSUME Bars!Init PROVE BarsInv
  OBVIOUS
<1>1. /\ bar = [n |-> 0, bytes |-> 0, prior |-> 0] /\ wire = 0 /\ full = FALSE /\ sent = 0
      /\ thread = [s \in Senders |-> Bars!Loading]
      /\ page = [p \in Pages |-> [open |-> FALSE, queue |-> <<>>, read |-> 0]]
  BY DEF Bars!Init, Bars!NewBar, Bars!NotOpen
<1>2. BarsShape
  <2>1. <<>> \in Queues
    BY DEF Queues
  <2> QED
    BY <1>1, <2>1, FreshThreads DEF BarsShape
<1>3. CountedNow = {}
  BY <1>1, FreshThreads DEF CountedNow
<1>4. SegmentsCount
  BY <1>1, <1>3, FS_EmptySet DEF SegmentsCount
<1>5. EndIsShown
  BY <1>1, TotalIs DEF EndIsShown
<1>6. Bars!BytesAreOfThisAttempt
  BY <1>1, FreshThreads DEF Bars!BytesAreOfThisAttempt, Bars!BytesDone
<1>7. \A p \in Pages : LastIsQueued(page[p])
  BY <1>1 DEF LastIsQueued
<1> QED
  BY <1>2, <1>4, <1>5, <1>6, <1>7 DEF BarsInv

(* What a thread does to its record alone.                                 *)
Sets(s, r) ==
  /\ thread' = [thread EXCEPT ![s] = r]
  /\ thread'[s] = r /\ \A x \in Senders \ {s} : thread'[x] = thread[x]

LEMMA SegmentIsIn ==
  ASSUME BarsInv, NEW s \in Senders, NEW size \in 1..2,
         thread[s].at = "loading",
         Bars!Counted(s, [bar EXCEPT !.n = @ + 1, !.bytes = @ + size], size),
         UNCHANGED <<sent, page, full>>
  PROVE  BarsInv'
<1>1. PICK b : b = [bar EXCEPT !.n = @ + 1, !.bytes = @ + size]
  OBVIOUS
<1>2. /\ b \in [n : Nat, bytes : Nat, prior : Nat]
      /\ b.n = bar.n + 1 /\ b.bytes = bar.bytes + size /\ b.prior = bar.prior
  <2>1. bar \in [n : Nat, bytes : Nat, prior : Nat] /\ size \in Nat
    BY DEF BarsInv, BarsShape
  <2>2. b.n = bar.n + 1 /\ b.bytes = bar.bytes + size /\ b.prior = bar.prior
    BY <1>1, <2>1
  <2>3. PICK k \in Nat, l \in Nat : b = [bar EXCEPT !.n = k, !.bytes = l]
    <3>1. PICK k \in Nat : k = bar.n + 1
      BY <2>1
    <3>2. PICK l \in Nat : l = bar.bytes + size
      BY <2>1
    <3> QED
      BY <1>1, <3>1, <3>2
  <2>4. b \in [n : Nat, bytes : Nat, prior : Nat]
    BY <2>1, <2>3
  <2> QED
    BY <2>2, <2>4
<1>3. bar' = b /\ wire' = wire + size
  BY <1>1 DEF Bars!Counted
<1>4. PICK r \in [at : Stages, frame : Frames] :
        /\ Sets(s, r) /\ r.at \in {"writing", "over"}
        /\ r.frame.bytes <= wire + size
        /\ r.at = "over" => b.n < Bars!Total
        /\ r.at = "writing" => r.frame.n = b.n
  <2>1. thread[s] \in [at : Stages, frame : Frames] /\ thread[s].frame.bytes <= wire
    BY DEF BarsInv, BarsShape, Bars!BytesAreOfThisAttempt
  <2>2. bar.prior + bar.bytes = wire /\ wire \in Nat
    BY DEF BarsInv, BarsShape, Bars!BytesAreOfThisAttempt, Bars!BytesDone
  <2>3. CASE thread' = [thread EXCEPT ![s] = [at |-> "writing", frame |-> Bars!Frame(b)]]
    <3>1. PICK r : r = [at |-> "writing", frame |-> [n |-> b.n, bytes |-> b.prior + b.bytes]]
      OBVIOUS
    <3>2. r \in [at : Stages, frame : Frames] /\ r.at = "writing" /\ r.frame.n = b.n
          /\ r.frame.bytes = b.prior + b.bytes
      <4>1. [n |-> b.n, bytes |-> b.prior + b.bytes] \in Frames /\ "writing" \in Stages
        BY <1>2 DEF Frames, Stages
      <4> QED
        BY <3>1, <4>1
    <3>3. b.prior + b.bytes = wire + size
      BY <1>2, <2>2 DEF BarsInv, BarsShape
    <3>4. thread' = [thread EXCEPT ![s] = r]
      BY <2>3, <3>1 DEF Bars!Frame, Bars!BytesDone
    <3>5. Sets(s, r)
      BY <3>4 DEF Sets, BarsInv, BarsShape
    <3> QED
      BY <2>2, <3>2, <3>3, <3>5
  <2>4. CASE b.n < Bars!Total /\ thread' = [thread EXCEPT ![s].at = "over"]
    <3>1. PICK r : r = [thread[s] EXCEPT !.at = "over"]
      OBVIOUS
    <3>2. r \in [at : Stages, frame : Frames] /\ r.at = "over" /\ r.frame = thread[s].frame
      BY <2>1, <3>1 DEF Stages
    <3>3. Sets(s, r)
      BY <2>4, <3>1 DEF Sets, BarsInv, BarsShape
    <3>4. r.frame.bytes <= wire + size
      BY <2>1, <2>2, <3>2 DEF Frames
    <3> QED
      BY <2>4, <3>2, <3>3, <3>4
  <2> QED
    BY <1>1, <2>3, <2>4 DEF Bars!Counted
<1>5. BarsShape'
  BY <1>2, <1>3, <1>4 DEF BarsInv, BarsShape, Sets
<1>6. SegmentsCount'
  <2>1. CountedNow' = CountedNow \cup {s} /\ s \notin CountedNow
    BY <1>4 DEF CountedNow, Sets
  <2>2. IsFiniteSet(CountedNow)
    BY SendersAssumption, FS_Subset DEF CountedNow
  <2> QED
    <3>1. Cardinality(CountedNow') = Cardinality(CountedNow) + 1
      BY <2>1, <2>2, FS_AddElement
    <3>2. bar.n = Cardinality(CountedNow) /\ bar'.n = bar.n + 1
      BY <1>2, <1>3 DEF BarsInv, SegmentsCount
    <3> QED
      BY <3>1, <3>2 DEF SegmentsCount
<1>7. EndIsShown'
  BY <1>2, <1>3, <1>4, TotalIs DEF EndIsShown, Sets
<1>8. Bars!BytesAreOfThisAttempt'
  <2>1. b.prior + b.bytes = wire + size
    BY <1>2 DEF BarsInv, BarsShape, Bars!BytesAreOfThisAttempt, Bars!BytesDone
  <2>2. ASSUME NEW x \in Senders PROVE thread'[x].frame.bytes <= wire + size
    <3>1. CASE x = s
      BY <1>4, <3>1 DEF Sets
    <3>2. CASE x # s
      <4>1. thread'[x] = thread[x] /\ thread[x].frame.bytes <= wire
        BY <1>4, <3>2 DEF Sets, BarsInv, Bars!BytesAreOfThisAttempt
      <4>2. thread[x].frame.bytes \in Nat /\ wire \in Nat
        BY DEF BarsInv, BarsShape, Frames
      <4> QED
        BY <4>1, <4>2
    <3> QED
      BY <3>1, <3>2
  <2> QED
    BY <1>3, <2>1, <2>2 DEF Bars!BytesAreOfThisAttempt, Bars!BytesDone
<1>9. (\A p \in Pages : LastIsQueued(page[p]))'
  BY DEF BarsInv, LastIsQueued
<1> QED
  BY <1>5, <1>6, <1>7, <1>8, <1>9 DEF BarsInv

(* A thread goes on to a stage that counts the same, with its frame.       *)
LEMMA ThreadGoesOn ==
  ASSUME BarsInv, NEW s \in Senders, NEW stage \in Stages,
         thread' = [thread EXCEPT ![s].at = stage],
         thread[s].at \in {"writing", "sending", "over"} <=>
           stage \in {"writing", "sending", "over"},
         thread[s].at = "writing" /\ thread[s].frame.n = Cardinality(Senders) => full',
         UNCHANGED <<bar, wire>>, full' \in BOOLEAN, full => full',
         page' \in [Pages -> [open : BOOLEAN, queue : Queues, read : Nat]], sent' \in Nat,
         (\A p \in Pages : LastIsQueued(page[p]))'
  PROVE  BarsInv'
<1>1. thread[s] \in [at : Stages, frame : Frames]
  BY DEF BarsInv, BarsShape
<1>2. PICK r \in [at : Stages, frame : Frames] :
        r = [thread[s] EXCEPT !.at = stage] /\ r.at = stage /\ r.frame = thread[s].frame
  <2>1. PICK r : r = [thread[s] EXCEPT !.at = stage]
    OBVIOUS
  <2>2. r \in [at : Stages, frame : Frames] /\ r.at = stage /\ r.frame = thread[s].frame
    BY <1>1, <2>1
  <2> QED
    BY <2>1, <2>2
<1>3. Sets(s, r)
  BY <1>2 DEF Sets, BarsInv, BarsShape
<1>4. BarsShape'
  BY <1>2, <1>3 DEF BarsInv, BarsShape, Sets
<1>5. SegmentsCount'
  <2>1. CountedNow' = CountedNow
    BY <1>2, <1>3 DEF CountedNow, Sets
  <2> QED
    BY <2>1 DEF BarsInv, SegmentsCount
<1>6. EndIsShown'
  BY <1>2, <1>3 DEF BarsInv, EndIsShown, Sets
<1>7. Bars!BytesAreOfThisAttempt'
  BY <1>2, <1>3 DEF BarsInv, Bars!BytesAreOfThisAttempt, Bars!BytesDone, Sets
<1> QED
  BY <1>4, <1>5, <1>6, <1>7 DEF BarsInv

LEMMA WriteKeeps == ASSUME BarsInv, NEW s \in Senders, Bars!Write(s) PROVE BarsInv'
<1>1. /\ thread[s].at = "writing" /\ thread' = [thread EXCEPT ![s].at = "sending"]
      /\ full' = (full \/ thread[s].frame.n = Cardinality(Senders))
      /\ UNCHANGED <<bar, wire, sent, page>>
  BY TotalIs DEF Bars!Write
<1>2. /\ page' \in [Pages -> [open : BOOLEAN, queue : Queues, read : Nat]] /\ sent' \in Nat
      /\ (\A p \in Pages : LastIsQueued(page[p]))' /\ full \in BOOLEAN
  BY <1>1 DEF BarsInv, BarsShape, LastIsQueued
<1>3. "sending" \in Stages
  BY DEF Stages
<1> QED
  BY <1>1, <1>2, <1>3, ThreadGoesOn

LEMMA MissKeeps == ASSUME BarsInv, NEW s \in Senders, Bars!Miss(s) PROVE BarsInv'
<1>1. /\ thread[s].at = "loading" /\ thread' = [thread EXCEPT ![s].at = "missed"]
      /\ UNCHANGED <<bar, wire, sent, page, full>>
  BY DEF Bars!Miss
<1>2. /\ page' \in [Pages -> [open : BOOLEAN, queue : Queues, read : Nat]] /\ sent' \in Nat
      /\ (\A p \in Pages : LastIsQueued(page[p]))' /\ full \in BOOLEAN
  BY <1>1 DEF BarsInv, BarsShape, LastIsQueued
<1>3. "missed" \in Stages
  BY DEF Stages
<1> QED
  BY <1>1, <1>2, <1>3, ThreadGoesOn

(* However full it is, what is pushed onto a queue is last in it.          *)
LEMMA PushedIsLast ==
  ASSUME NEW queue \in Queues, NEW event \in Nat, NEW q, q = Bars!Pushed(queue, event)
  PROVE  q \in Queues /\ q # <<>> /\ q[Len(q)] = event
<1>1. PICK rest \in Seq(Nat) : q = Append(rest, event)
  <2>1. CASE Len(queue) < QueueSize
    BY <2>1 DEF Bars!Pushed, Queues
  <2>2. CASE ~(Len(queue) < QueueSize)
    <3>1. queue \in Seq(Nat) /\ queue # <<>>
      BY <2>2, QueueAssumption DEF Queues
    <3>2. Tail(queue) \in Seq(Nat)
      BY <3>1
    <3>3. q = Append(Tail(queue), event)
      BY <2>2 DEF Bars!Pushed
    <3> QED
      BY <3>2, <3>3
  <2> QED
    BY <2>1, <2>2
<1>2. q \in Seq(Nat) /\ Len(q) = Len(rest) + 1 /\ q[Len(rest) + 1] = event
  BY <1>1
<1>3. q # <<>>
  BY <1>1
<1> QED
  BY <1>2, <1>3 DEF Queues

LEMMA BroadcastKeeps == ASSUME BarsInv, NEW s \in Senders, Bars!Broadcast(s) PROVE BarsInv'
<1>1. /\ thread[s].at = "sending" /\ thread' = [thread EXCEPT ![s].at = "over"]
      /\ sent' = sent + 1 /\ UNCHANGED <<bar, wire, full>>
      /\ page' = [p \in Pages |->
           IF page[p].open THEN [page[p] EXCEPT !.queue = Bars!Pushed(@, sent + 1)] ELSE page[p]]
  BY DEF Bars!Broadcast
<1>2. ASSUME NEW p \in Pages
      PROVE  /\ page'[p] \in [open : BOOLEAN, queue : Queues, read : Nat]
             /\ LastIsQueued(page[p])'
  <2>1. page[p] \in [open : BOOLEAN, queue : Queues, read : Nat] /\ LastIsQueued(page[p])
    BY DEF BarsInv, BarsShape
  <2>2. CASE page[p].open
    <3>1. PICK q : q = Bars!Pushed(page[p].queue, sent + 1)
      OBVIOUS
    <3>2. q \in Queues /\ q # <<>> /\ q[Len(q)] = sent + 1
      BY <2>1, <3>1, PushedIsLast DEF BarsInv, BarsShape
    <3>3. page'[p] = [page[p] EXCEPT !.queue = q]
      BY <1>1, <2>2, <3>1
    <3>4. /\ page'[p] \in [open : BOOLEAN, queue : Queues, read : Nat]
          /\ page'[p].open /\ page'[p].queue = q
      BY <2>1, <2>2, <3>2, <3>3
    <3> QED
      BY <1>1, <3>2, <3>4 DEF LastIsQueued
  <2>3. CASE ~page[p].open
    <3>1. page'[p] = page[p]
      BY <1>1, <2>3
    <3> QED
      BY <2>1, <2>3, <3>1 DEF LastIsQueued
  <2> QED
    BY <2>2, <2>3
<1>3. page' \in [Pages -> [open : BOOLEAN, queue : Queues, read : Nat]]
  BY <1>1, <1>2
<1>4. sent' \in Nat /\ full' \in BOOLEAN
  BY <1>1 DEF BarsInv, BarsShape
<1>5. "over" \in Stages
  BY DEF Stages
<1>6. (\A p \in Pages : LastIsQueued(page[p]))'
  BY <1>2
<1> QED
  BY <1>1, <1>3, <1>4, <1>5, <1>6, ThreadGoesOn

(* Pages come and go and read.                                             *)
LEMMA PageKeeps ==
  ASSUME BarsInv, NEW p \in Pages, NEW r \in [open : BOOLEAN, queue : Queues, read : Nat],
         LastIsQueued(r), page' = [page EXCEPT ![p] = r],
         UNCHANGED <<bar, thread, sent, wire, full>>
  PROVE  BarsInv'
<1>1. BarsShape'
  BY DEF BarsInv, BarsShape
<1>2. SegmentsCount' /\ EndIsShown' /\ Bars!BytesAreOfThisAttempt'
  BY DEF BarsInv, SegmentsCount, CountedNow, EndIsShown, Bars!BytesAreOfThisAttempt,
         Bars!BytesDone
<1>3. (\A x \in Pages : LastIsQueued(page[x]))'
  <2> SUFFICES ASSUME NEW x \in Pages PROVE LastIsQueued(page[x])'
    OBVIOUS
  <2>1. page'[x] = IF x = p THEN r ELSE page[x]
    BY DEF BarsInv, BarsShape
  <2> QED
    BY <2>1 DEF BarsInv, LastIsQueued
<1> QED
  BY <1>1, <1>2, <1>3 DEF BarsInv

(* What is last stays last, or was the only one.                           *)
LEMMA LastStays ==
  ASSUME NEW q \in Seq(Nat), q # <<>>
  PROVE  IF Tail(q) = <<>> THEN q[Len(q)] = q[1] ELSE Tail(q)[Len(Tail(q))] = q[Len(q)]
<1>1. PICK t \in Seq(Nat) : t = Tail(q)
  BY HeadTailProperties
<1>2. Len(t) = Len(q) - 1 /\ \A i \in 1..Len(t) : t[i] = q[i + 1]
  BY <1>1, HeadTailProperties
<1>3. PICK n \in Nat, k \in Nat : n = Len(q) /\ k = Len(t)
  BY <1>1
<1>4. k = n - 1 /\ \A i \in 1..k : t[i] = q[i + 1]
  BY <1>2, <1>3
<1>5. CASE t = <<>>
  <2>1. k = 0
    BY <1>3, <1>5
  <2>2. n = 1
    BY <1>4, <2>1
  <2> QED
    BY <1>1, <1>3, <1>5, <2>2
<1>6. CASE t # <<>>
  <2>1. k # 0
    BY <1>1, <1>3, <1>6
  <2>2. k \in 1..k /\ k + 1 = n
    BY <1>4, <2>1
  <2>3. t[k] = q[n]
    BY <1>4, <2>2
  <2> QED
    BY <1>1, <1>3, <1>6, <2>3
<1> QED
  BY <1>5, <1>6

LEMMA PagesKeep ==
  ASSUME BarsInv, NEW p \in Pages, Bars!Open(p) \/ Bars!Read(p) \/ Bars!Close(p)
  PROVE  BarsInv'
<1>1. <<>> \in Queues /\ sent \in Nat
  BY DEF Queues, BarsInv, BarsShape
<1>2. page[p] \in [open : BOOLEAN, queue : Queues, read : Nat] /\ LastIsQueued(page[p])
  BY DEF BarsInv, BarsShape
<1>3. CASE Bars!Open(p)
  <2>1. PICK r : r = [open |-> TRUE, queue |-> <<>>, read |-> sent]
    OBVIOUS
  <2>2. r \in [open : BOOLEAN, queue : Queues, read : Nat] /\ LastIsQueued(r)
    BY <1>1, <2>1 DEF LastIsQueued
  <2> QED
    BY <1>3, <2>1, <2>2, PageKeeps DEF Bars!Open
<1>4. CASE Bars!Close(p)
  <2>1. PICK r : r = [open |-> FALSE, queue |-> <<>>, read |-> 0]
    OBVIOUS
  <2>2. r \in [open : BOOLEAN, queue : Queues, read : Nat] /\ LastIsQueued(r)
    BY <1>1, <2>1 DEF LastIsQueued
  <2> QED
    BY <1>4, <2>1, <2>2, PageKeeps DEF Bars!Close, Bars!NotOpen
<1>5. CASE Bars!Read(p)
  <2>1. PICK q \in Seq(Nat) : q = page[p].queue /\ q # <<>>
    BY <1>2, <1>5 DEF Bars!Read, Queues
  <2>2. /\ Head(q) = q[1] /\ Head(q) \in Nat /\ Tail(q) \in Seq(Nat)
        /\ Len(Tail(q)) = Len(q) - 1 /\ \A i \in 1..Len(Tail(q)) : Tail(q)[i] = q[i + 1]
    BY <2>1, HeadTailProperties
  <2>3. PICK r : r = [page[p] EXCEPT !.read = Head(q), !.queue = Tail(q)]
    OBVIOUS
  <2>4. page' = [page EXCEPT ![p] = r]
    BY <1>2, <1>5, <2>1, <2>3 DEF Bars!Read, BarsInv, BarsShape
  <2>5. /\ r \in [open : BOOLEAN, queue : Queues, read : Nat]
        /\ r.open = page[p].open /\ r.read = Head(q) /\ r.queue = Tail(q)
    BY <1>2, <2>2, <2>3 DEF Queues
  <2>6. page[p].open /\ q[Len(q)] = sent
    BY <1>2, <2>1 DEF LastIsQueued
  <2>7. LastIsQueued(r)
    BY <2>1, <2>2, <2>5, <2>6, LastStays DEF LastIsQueued
  <2>8. UNCHANGED <<bar, thread, sent, wire, full>>
    BY <1>5 DEF Bars!Read
  <2> QED
    BY <2>4, <2>5, <2>7, <2>8, PageKeeps
<1> QED
  BY <1>3, <1>4, <1>5

LEMMA BarsNext ==
  ASSUME BarsInv, Bars!Next \/ UNCHANGED Bars!vars
  PROVE  BarsInv'
<1>1. ASSUME NEW s \in Senders, Bars!Update(s) PROVE BarsInv'
  BY <1>1, SegmentIsIn DEF Bars!Update
<1>2. /\ page \in [Pages -> [open : BOOLEAN, queue : Queues, read : Nat]]
      /\ \A p \in Pages : LastIsQueued(page[p])
      /\ sent \in Nat
  BY DEF BarsInv, BarsShape
<1>3. CASE Bars!NextPhase
  <2>1. PICK prior \in Nat : prior = Bars!BytesDone(bar)
    BY DEF BarsInv, BarsShape, Bars!BytesDone
  <2>2. wire = prior
    BY <2>1 DEF BarsInv, Bars!BytesAreOfThisAttempt
  <2>3. /\ bar' = Bars!NewBar(prior) /\ wire' = prior /\ full' = FALSE
        /\ thread' = [s \in Senders |-> Bars!Loading] /\ UNCHANGED <<page, sent>>
    BY <1>3, <2>1, <2>2 DEF Bars!NextPhase
  <2> QED
    BY <1>2, <2>3, NewBarKeeps
<1>4. CASE Bars!Retry
  <2>1. /\ bar' = Bars!NewBar(0) /\ wire' = 0 /\ full' = FALSE
        /\ thread' = [s \in Senders |-> Bars!Loading] /\ UNCHANGED <<page, sent>>
    BY <1>4 DEF Bars!Retry, Bars!Restarts
  <2> QED
    BY <1>2, <2>1, NewBarKeeps
<1>5. CASE UNCHANGED Bars!vars
  BY <1>5 DEF Bars!vars, BarsInv, BarsShape, SegmentsCount, CountedNow, EndIsShown,
              Bars!BytesAreOfThisAttempt, Bars!BytesDone, LastIsQueued
<1> QED
  BY <1>1, <1>3, <1>4, <1>5, WriteKeeps, MissKeeps, BroadcastKeeps, PagesKeep DEF Bars!Next

\* The bytes that are shown are those of this attempt, a phase whose segments are all in has
\* shown it, and a page that has read its queue has seen the last event: however the threads
\* of app/progress.py interleave and however often app/jobs.py tries again.
THEOREM BarsAreTrue == Spec => []ProgressIsTrue
<1> DEFINE I == focus = "bars" => BarsInv
<1>1. Init => I
  BY BarsInit DEF Init
<1>2. I /\ [Next]_vars => I'
  BY BarsNext DEF Next, vars, Bars!vars
<1>3. BarsInv => Bars!PhaseShowsItsEnd
  <2> SUFFICES ASSUME BarsInv, Bars!AllIn PROVE full
    BY DEF Bars!PhaseShowsItsEnd
  <2>1. \A s \in Senders : thread[s].at = "over"
    BY DEF Bars!AllIn
  <2>2. CountedNow = Senders
    BY <2>1 DEF CountedNow
  <2> QED
    BY <2>1, <2>2 DEF BarsInv, SegmentsCount, EndIsShown
<1>4. BarsInv => Bars!QuietPageIsUpToDate
  BY DEF BarsInv, Bars!QuietPageIsUpToDate, LastIsQueued
<1>5. I => ProgressIsTrue
  BY <1>3, <1>4 DEF ProgressIsTrue, BarsInv
<1> QED
  BY <1>1, <1>2, <1>5, PTL DEF Spec

(* A page has read, and has in its queue, what was sent and no more than   *)
(* fits.                                                                   *)
Within(r, n) ==
  r.read <= n /\ Len(r.queue) <= QueueSize /\ \A i \in 1..Len(r.queue) : r.queue[i] <= n
PagesFit == \A p \in Pages : Within(page[p], sent)

(* A segment that is given up leaves another attempt to make.              *)
AttemptsLeft ==
  /\ attempt \in 1..Attempts /\ phase \in 1..Phases /\ bar.n <= bar.bytes
  /\ \A s \in Senders : thread[s].at = "missed" => attempt < Attempts

BarsTypes == BarsInv /\ PagesFit /\ AttemptsLeft

LEMMA PushedFits ==
  ASSUME NEW queue \in Queues, NEW n \in Nat, Len(queue) <= QueueSize,
         \A i \in 1..Len(queue) : queue[i] <= n, NEW q, q = Bars!Pushed(queue, n + 1)
  PROVE  Len(q) <= QueueSize /\ \A i \in 1..Len(q) : q[i] <= n + 1
<1>1. PICK rest \in Seq(Nat) : /\ q = Append(rest, n + 1) /\ Len(rest) < QueueSize
                               /\ \A i \in 1..Len(rest) : rest[i] <= n
  <2>1. CASE Len(queue) < QueueSize
    BY <2>1 DEF Bars!Pushed, Queues
  <2>2. CASE ~(Len(queue) < QueueSize)
    <3>1. queue \in Seq(Nat) /\ queue # <<>> /\ Len(queue) \in Nat
      BY <2>2, QueueAssumption DEF Queues
    <3>2. PICK t \in Seq(Nat) : t = Tail(queue)
      BY <3>1, HeadTailProperties
    <3>3. Len(t) = Len(queue) - 1 /\ \A i \in 1..Len(t) : t[i] = queue[i + 1]
      BY <3>1, <3>2, HeadTailProperties
    <3>4. Len(t) < QueueSize /\ \A i \in 1..Len(t) : i + 1 \in 1..Len(queue)
      BY <3>1, <3>3, QueueAssumption
    <3>5. q = Append(t, n + 1)
      BY <2>2, <3>2 DEF Bars!Pushed
    <3> QED
      BY <3>3, <3>4, <3>5
  <2> QED
    BY <2>1, <2>2
<1>2. /\ Len(q) = Len(rest) + 1 /\ Len(rest) \in Nat
      /\ \A i \in 1..Len(q) : q[i] = IF i = Len(rest) + 1 THEN n + 1 ELSE rest[i]
  BY <1>1, SMTT(30)
<1>3. QueueSize \in Nat
  BY QueueAssumption
<1>4. ASSUME NEW i \in 1..Len(q) PROVE q[i] <= n + 1
  <2>1. CASE i = Len(rest) + 1
    BY <1>2, <2>1
  <2>2. CASE i # Len(rest) + 1
    <3>1. i \in 1..Len(rest)
      BY <1>2, <2>2
    <3>2. q[i] = rest[i] /\ rest[i] <= n /\ rest[i] \in Nat
      BY <1>1, <1>2, <2>2, <3>1
    <3> QED
      BY <3>2
  <2> QED
    BY <2>1, <2>2
<1> QED
  BY <1>1, <1>2, <1>3, <1>4

LEMMA PageIs ==
  ASSUME BarsInv, NEW p \in Pages
  PROVE  /\ page[p] \in [open : BOOLEAN, queue : Queues, read : Nat]
         /\ page[p].queue \in Queues /\ sent \in Nat
  BY DEF BarsInv, BarsShape

LEMMA PagesFitOn ==
  ASSUME BarsInv, PagesFit, Bars!Next \/ UNCHANGED Bars!vars
  PROVE  PagesFit'
<1>1. page \in [Pages -> [open : BOOLEAN, queue : Queues, read : Nat]] /\ sent \in Nat
  BY DEF BarsInv, BarsShape
<1>2. CASE UNCHANGED <<page, sent>>
  BY <1>2 DEF PagesFit, Within
<1>3. ASSUME NEW s \in Senders, Bars!Broadcast(s) PROVE PagesFit'
  <2>1. /\ sent' = sent + 1
        /\ page' = [p \in Pages |->
             IF page[p].open THEN [page[p] EXCEPT !.queue = Bars!Pushed(@, sent + 1)]
             ELSE page[p]]
    BY <1>3 DEF Bars!Broadcast
  <2> SUFFICES ASSUME NEW p \in Pages PROVE Within(page[p], sent)'
    BY DEF PagesFit
  <2>2. /\ page[p] \in [open : BOOLEAN, queue : Queues, read : Nat]
        /\ page[p].queue \in Queues /\ page[p].read \in Nat /\ Within(page[p], sent)
    BY <1>1 DEF PagesFit
  <2>3. CASE page[p].open
    <3>1. PICK q : q = Bars!Pushed(page[p].queue, sent + 1)
      OBVIOUS
    <3>2. Len(q) <= QueueSize /\ \A i \in 1..Len(q) : q[i] <= sent + 1
      BY <1>1, <2>2, <3>1, PushedFits DEF Within
    <3>3. page'[p] = [page[p] EXCEPT !.queue = q]
      BY <2>1, <2>3, <3>1
    <3>4. page'[p].queue = q /\ page'[p].read = page[p].read
      BY <2>2, <3>3
    <3>5. page[p].read <= sent + 1
      BY <1>1, <2>2 DEF Within
    <3> QED
      BY <2>1, <3>2, <3>4, <3>5 DEF Within
  <2>4. CASE ~page[p].open
    <3>1. page'[p] = page[p]
      BY <2>1, <2>4
    <3>2. PICK q \in Seq(Nat) : q = page[p].queue
      BY <2>2 DEF Queues
    <3>3. \A i \in 1..Len(q) : q[i] \in Nat
      BY <3>2
    <3>4. Len(q) <= QueueSize /\ page[p].read <= sent + 1 /\ \A i \in 1..Len(q) : q[i] <= sent + 1
      BY <1>1, <2>2, <3>2, <3>3 DEF Within
    <3> QED
      BY <2>1, <3>1, <3>2, <3>4 DEF Within
  <2> QED
    BY <2>3, <2>4
<1>4. ASSUME NEW p \in Pages, Bars!Open(p) \/ Bars!Read(p) \/ Bars!Close(p) PROVE PagesFit'
  <2>1. /\ page[p] \in [open : BOOLEAN, queue : Queues, read : Nat]
        /\ page[p].queue \in Queues /\ Within(page[p], sent)
    BY <1>1 DEF PagesFit
  <2>2. sent' = sent /\ QueueSize \in Nat /\ QueueSize >= 0
    BY <1>4, QueueAssumption DEF Bars!Open, Bars!Read, Bars!Close
  <2>3. \E r : page' = [page EXCEPT ![p] = r] /\ Within(r, sent)
    <3>1. CASE Bars!Open(p)
      <4>1. PICK r : r = [open |-> TRUE, queue |-> <<>>, read |-> sent]
        OBVIOUS
      <4>2. Within(r, sent)
        BY <1>1, <2>2, <4>1 DEF Within
      <4> QED
        BY <3>1, <4>1, <4>2 DEF Bars!Open
    <3>2. CASE Bars!Close(p)
      <4>1. PICK r : r = [open |-> FALSE, queue |-> <<>>, read |-> 0]
        OBVIOUS
      <4>2. Within(r, sent)
        BY <1>1, <2>2, <4>1 DEF Within
      <4> QED
        BY <3>2, <4>1, <4>2 DEF Bars!Close, Bars!NotOpen
    <3>3. CASE Bars!Read(p)
      <4>1. PICK q \in Seq(Nat) : q = page[p].queue /\ q # <<>>
        BY <2>1, <3>3 DEF Bars!Read, Queues
      <4>2. /\ Head(q) = q[1] /\ Tail(q) \in Seq(Nat) /\ Len(Tail(q)) = Len(q) - 1
            /\ \A i \in 1..Len(Tail(q)) : Tail(q)[i] = q[i + 1]
        BY <4>1, HeadTailProperties
      <4>3. PICK r : r = [page[p] EXCEPT !.read = Head(q), !.queue = Tail(q)]
        OBVIOUS
      <4>4. page' = [page EXCEPT ![p] = r]
        BY <1>1, <3>3, <4>1, <4>3 DEF Bars!Read
      <4>5. r.read = q[1] /\ r.queue = Tail(q)
        BY <2>1, <4>2, <4>3
      <4>6. Len(q) \in Nat /\ Len(q) # 0 /\ Len(q) <= QueueSize
            /\ \A i \in 1..Len(q) : q[i] <= sent
        BY <2>1, <4>1 DEF Within
      <4>7. 1 \in 1..Len(q) /\ \A i \in 1..Len(Tail(q)) : i + 1 \in 1..Len(q)
        BY <4>2, <4>6
      <4>8. /\ r.read <= sent /\ Len(r.queue) <= QueueSize
            /\ \A i \in 1..Len(r.queue) : r.queue[i] <= sent
        BY <2>2, <4>2, <4>5, <4>6, <4>7
      <4> QED
        BY <4>4, <4>8 DEF Within
    <3> QED
      BY <1>4, <3>1, <3>2, <3>3
  <2> QED
    BY <1>1, <2>2, <2>3 DEF PagesFit, Within
<1>5. \/ UNCHANGED <<page, sent>>
      \/ \E s \in Senders : Bars!Broadcast(s)
      \/ \E p \in Pages : Bars!Open(p) \/ Bars!Read(p) \/ Bars!Close(p)
  BY DEF Bars!vars, Bars!Next, Bars!Update, Bars!Write, Bars!Miss, Bars!NextPhase, Bars!Retry,
     Bars!Restarts
<1> QED
  BY <1>2, <1>3, <1>4, <1>5

LEMMA AttemptsLeftOn ==
  ASSUME BarsInv, AttemptsLeft, Bars!Next \/ UNCHANGED Bars!vars
  PROVE  AttemptsLeft'
<1>0. Attempts \in Nat \ {0} /\ Phases \in Nat \ {0}
  BY BoundsAssumption
<1>1. /\ thread \in [Senders -> [at : Stages, frame : Frames]]
      /\ bar \in [n : Nat, bytes : Nat, prior : Nat]
  BY DEF BarsInv, BarsShape
<1>2. ASSUME NEW s \in Senders, NEW r, thread' = [thread EXCEPT ![s] = r], r.at # "missed",
             bar'.n <= bar'.bytes, UNCHANGED <<attempt, phase>>
      PROVE  AttemptsLeft'
  BY <1>1, <1>2 DEF AttemptsLeft
<1>3. ASSUME NEW s \in Senders, Bars!Update(s) PROVE AttemptsLeft'
  <2>1. PICK size \in 1..2 : Bars!Counted(s, [bar EXCEPT !.n = @ + 1, !.bytes = @ + size], size)
    BY <1>3 DEF Bars!Update
  <2>2. bar' = [bar EXCEPT !.n = @ + 1, !.bytes = @ + size]
    BY <2>1 DEF Bars!Counted
  <2>3. bar'.n = bar.n + 1 /\ bar'.bytes = bar.bytes + size
    BY <1>1, <2>2
  <2>4. bar'.n <= bar'.bytes
    BY <1>1, <2>3 DEF AttemptsLeft
  <2>5. \E r : thread' = [thread EXCEPT ![s] = r] /\ r.at # "missed"
    <3>1. CASE thread' = [thread EXCEPT ![s].at = "over"]
      <4>1. PICK r : r = [thread[s] EXCEPT !.at = "over"]
        OBVIOUS
      <4>2. r.at = "over" /\ thread' = [thread EXCEPT ![s] = r]
        BY <1>1, <3>1, <4>1
      <4> QED
        BY <4>2
    <3>2. CASE \E f : thread' = [thread EXCEPT ![s] = [at |-> "writing", frame |-> f]]
      <4>1. PICK f, r : /\ thread' = [thread EXCEPT ![s] = r]
                        /\ r = [at |-> "writing", frame |-> f]
        BY <3>2
      <4>2. r.at # "missed"
        BY <4>1
      <4> QED
        BY <4>1, <4>2
    <3> QED
      BY <2>1, <3>1, <3>2 DEF Bars!Counted
  <2> QED
    BY <1>2, <1>3, <2>4, <2>5 DEF Bars!Update
<1>4. ASSUME NEW s \in Senders, Bars!Write(s) \/ Bars!Broadcast(s) PROVE AttemptsLeft'
  <2>1. /\ UNCHANGED <<attempt, phase, bar>>
        /\ \E stage \in {"sending", "over"} : thread' = [thread EXCEPT ![s].at = stage]
    BY <1>4 DEF Bars!Write, Bars!Broadcast
  <2>2. \E r : thread' = [thread EXCEPT ![s] = r] /\ r.at # "missed"
    <3>1. PICK stage \in {"sending", "over"} : thread' = [thread EXCEPT ![s].at = stage]
      BY <2>1
    <3>2. PICK r : r = [thread[s] EXCEPT !.at = stage]
      OBVIOUS
    <3>3. r.at = stage /\ thread' = [thread EXCEPT ![s] = r]
      BY <1>1, <3>1, <3>2
    <3> QED
      BY <3>3
  <2> QED
    BY <1>2, <2>1, <2>2 DEF AttemptsLeft
<1>5. ASSUME NEW s \in Senders, Bars!Miss(s) PROVE AttemptsLeft'
  BY <1>5 DEF AttemptsLeft, Bars!Miss
<1>6. CASE Bars!NextPhase
  <2>1. /\ phase < Phases /\ phase' = phase + 1 /\ attempt' = attempt
        /\ bar' = Bars!NewBar(Bars!BytesDone(bar))
        /\ thread' = [s \in Senders |-> Bars!Loading]
    BY <1>6 DEF Bars!NextPhase
  <2>2. bar'.n = 0 /\ bar'.bytes = 0 /\ \A s \in Senders : thread'[s].at # "missed"
    BY <2>1 DEF Bars!NewBar, Bars!Loading
  <2>3. phase' \in 1..Phases /\ bar'.n <= bar'.bytes
    BY <1>0, <2>1, <2>2 DEF AttemptsLeft
  <2> QED
    BY <2>1, <2>2, <2>3 DEF AttemptsLeft
<1>7. CASE Bars!Retry
  <2>1. /\ \E s \in Senders : thread[s].at = "missed"
        /\ attempt' = attempt + 1 /\ phase' = 1
        /\ bar' = Bars!NewBar(0)
        /\ thread' = [s \in Senders |-> Bars!Loading]
    BY <1>7 DEF Bars!Retry, Bars!Restarts
  <2>2. bar'.n = 0 /\ bar'.bytes = 0 /\ \A s \in Senders : thread'[s].at # "missed"
    BY <2>1 DEF Bars!NewBar, Bars!Loading
  <2>3. attempt' \in 1..Attempts /\ phase' \in 1..Phases /\ bar'.n <= bar'.bytes
    BY <1>0, <2>1, <2>2 DEF AttemptsLeft
  <2> QED
    BY <2>2, <2>3 DEF AttemptsLeft
<1>8. CASE UNCHANGED <<attempt, phase, bar, thread>>
  BY <1>8 DEF AttemptsLeft
<1>9. ASSUME NEW p \in Pages, Bars!Open(p) \/ Bars!Read(p) \/ Bars!Close(p)
      PROVE  UNCHANGED <<attempt, phase, bar, thread>>
  BY <1>9 DEF Bars!Open, Bars!Read, Bars!Close
<1> QED
  BY <1>3, <1>4, <1>5, <1>6, <1>7, <1>8, <1>9 DEF Bars!Next, Bars!vars

LEMMA BarsTyped == Spec => [](focus = "bars" => Bars!TypeOK)
<1> DEFINE I == focus = "bars" => BarsTypes
<1>1. ASSUME Bars!Init PROVE BarsTypes
  <2>1. /\ attempt = 1 /\ phase = 1 /\ bar = Bars!NewBar(0) /\ sent = 0
        /\ thread = [s \in Senders |-> Bars!Loading]
        /\ page = [p \in Pages |-> Bars!NotOpen]
    BY <1>1 DEF Bars!Init
  <2>2. bar.n = 0 /\ bar.bytes = 0 /\ \A s \in Senders : thread[s].at # "missed"
    BY <2>1 DEF Bars!NewBar, Bars!Loading
  <2>3. AttemptsLeft
    BY <2>1, <2>2, BoundsAssumption DEF AttemptsLeft
  <2>4. PagesFit
    BY <2>1, QueueAssumption DEF PagesFit, Within, Bars!NotOpen
  <2> QED
    BY <1>1, <2>3, <2>4, BarsInit DEF BarsTypes
<1>2. ASSUME BarsTypes, Bars!Next \/ UNCHANGED Bars!vars PROVE BarsTypes'
  BY <1>2, BarsNext, PagesFitOn, AttemptsLeftOn DEF BarsTypes
<1>3. ASSUME BarsTypes PROVE Bars!TypeOK
  <2>1. bar.n \in Nat /\ bar.bytes \in Nat /\ bar.n <= Bars!Total
    <3>1. bar.n = Cardinality(CountedNow) /\ bar.n \in Nat /\ bar.bytes \in Nat
      BY <1>3 DEF BarsTypes, BarsInv, BarsShape, SegmentsCount
    <3>2. CountedNow \subseteq Senders
      BY DEF CountedNow
    <3> QED
      BY <3>1, <3>2, TotalIs, SendersAssumption, FS_Subset
  <2>2. Bars!Total \in Nat
    BY TotalIs
  <2>3. bar.n \in 0..Bars!Total /\ bar.bytes >= bar.n
    BY <1>3, <2>1, <2>2 DEF BarsTypes, AttemptsLeft
  <2>4. \A s \in Senders : thread[s].at \in Stages
    BY <1>3 DEF BarsTypes, BarsInv, BarsShape
  <2> QED
    BY <1>3, <2>3, <2>4
       DEF BarsTypes, BarsInv, BarsShape, AttemptsLeft, PagesFit, Within, Stages, Bars!TypeOK
<1>4. Init => I
  BY <1>1 DEF Init
<1>5. I /\ [Next]_vars => I'
  BY <1>2 DEF Next, vars, Bars!vars
<1> QED
  BY <1>3, <1>4, <1>5, PTL DEF Spec

-----------------------------------------------------------------------------

(***************************************************************************)
(* Library: of every pair that was not decided on too late the row says    *)
(* what people last made of it.  That is inductive as it stands, with the  *)
(* shape of the rows and of the sweep: the sweep acts on rows read earlier *)
(* and by their id, so what it moves or forgets may have been decided      *)
(* meanwhile, and then it is among the late ones, or else it takes along   *)
(* what was decided; and a row is never moved onto itself, since the       *)
(* folder it was found in was there when its own was not.                  *)
(***************************************************************************)
shelfRow == v1
shelfDisk == v2
shelfMounted == v3
filing == v4
sweep == v5
mind == v6
late == v7
USE DEF shelfRow, shelfDisk, shelfMounted, filing, sweep, mind, late

Rows == [origin : Shelf!Origins, anchor : Titles \cup {Shelf!Unknown},
         missing : {"no", "recently", "long"}]
Missed == [title : Titles, folder : Folders, was : {"no", "recently", "long"},
           found : SUBSET Folders]
Minds == [Titles -> [Folders -> {"none", "manual", "rejected"}]]

ShelfShape ==
  /\ shelfRow \in [Titles -> [Folders -> Rows]]
  /\ shelfDisk \in [Folders -> {Shelf!Gone} \cup SUBSET Titles]
  /\ filing \in [Titles -> SUBSET Folders]
  /\ sweep \subseteq Missed /\ \A s \in sweep : s.folder \notin s.found
  /\ mind \in Minds /\ late \subseteq Titles \X Folders

ShelfSound == ShelfShape /\ Shelf!DecisionsStand

(* What a row says that people decided.                                    *)
Decided(r) == IF r.origin \in {"manual", "rejected"} THEN r.origin ELSE "none"

(* A row that may follow another when nobody decides.                      *)
Respects(old, r) == Decided(r) = Decided(old)


LEMMA ShelfInit == Shelf!Init => ShelfSound
<1> SUFFICES ASSUME Shelf!Init PROVE ShelfSound
  OBVIOUS
<1>1. ShelfShape
  BY DEF Shelf!Init, ShelfShape, Shelf!NoRow, Rows, Shelf!Origins, Minds
<1>2. Shelf!DecisionsStand
  BY DEF Shelf!Init, Shelf!DecisionsStand, Shelf!NoRow
<1> QED
  BY <1>1, <1>2 DEF ShelfSound

LEMMA RowIsTyped ==
  ASSUME ShelfShape, NEW t \in Titles, NEW f \in Folders
  PROVE  shelfRow[t][f] \in Rows
BY DEF ShelfShape

LEMMA AnchorsAreTyped ==
  ASSUME ShelfShape, NEW f \in Folders
  PROVE  Shelf!Anchors(f) \subseteq Titles \cup {Shelf!Unknown}
BY DEF ShelfShape, Shelf!Anchors

(* Nobody decides, and no row says that anybody did.                       *)
LEMMA NobodyDecides ==
  ASSUME Shelf!DecisionsStand, UNCHANGED <<mind, late>>,
         \A t \in Titles, f \in Folders : Respects(shelfRow[t][f], shelfRow'[t][f])
  PROVE  Shelf!DecisionsStand'
BY DEF Shelf!DecisionsStand, Respects, Decided

(* What setting one row does to the registry.                              *)
LEMMA SettingOne ==
  ASSUME ShelfShape, NEW t \in Titles, NEW f \in Folders, NEW r \in Rows, Shelf!Set(t, f, r)
  PROVE  /\ shelfRow' \in [Titles -> [Folders -> Rows]]
         /\ \A u \in Titles, g \in Folders :
              shelfRow'[u][g] = IF u = t /\ g = f THEN r ELSE shelfRow[u][g]
BY DEF ShelfShape, Shelf!Set

LEMMA SettingKeeps ==
  ASSUME ShelfSound, NEW t \in Titles, NEW f \in Folders, NEW r \in Rows, Shelf!Set(t, f, r),
         Respects(shelfRow[t][f], r), UNCHANGED <<mind, late>>
  PROVE  shelfRow' \in [Titles -> [Folders -> Rows]] /\ Shelf!DecisionsStand'
BY SettingOne, NobodyDecides DEF ShelfSound, Respects

LEMMA SettingNone ==
  ASSUME ShelfSound, UNCHANGED <<shelfRow, mind, late>>
  PROVE  Shelf!DecisionsStand'
BY DEF ShelfSound, Shelf!DecisionsStand

(* What is in a person's mind of one pair, and of no other.                *)
LEMMA MindingOne ==
  ASSUME ShelfShape, NEW t \in Titles, NEW f \in Folders, NEW d \in {"none", "manual", "rejected"},
         mind' = [mind EXCEPT ![t][f] = d]
  PROVE  /\ mind' \in Minds
         /\ \A u \in Titles, g \in Folders :
              mind'[u][g] = IF u = t /\ g = f THEN d ELSE mind[u][g]
BY DEF ShelfShape, Minds

(* A person decides, in time or late.                                      *)
LEMMA DecidingOne ==
  ASSUME ShelfSound, NEW t \in Titles, NEW f \in Folders, NEW r \in Rows, Shelf!Set(t, f, r),
         mind' = [mind EXCEPT ![t][f] = Decided(r)],
         late' \in {late \cup {<<t, f>>}, late \ {<<t, f>>}}
  PROVE  /\ shelfRow' \in [Titles -> [Folders -> Rows]] /\ Shelf!DecisionsStand'
         /\ mind' \in Minds /\ late' \subseteq Titles \X Folders
<1>1. Decided(r) \in {"none", "manual", "rejected"}
  BY DEF Decided
<1>2. \A u \in Titles, g \in Folders :
        /\ shelfRow'[u][g] = IF u = t /\ g = f THEN r ELSE shelfRow[u][g]
        /\ mind'[u][g] = IF u = t /\ g = f THEN Decided(r) ELSE mind[u][g]
  <2>1. \A u \in Titles, g \in Folders :
          shelfRow'[u][g] = IF u = t /\ g = f THEN r ELSE shelfRow[u][g]
    BY SettingOne DEF ShelfSound
  <2>2. ShelfShape
    BY DEF ShelfSound
  <2>3. \A u \in Titles, g \in Folders :
          mind'[u][g] = IF u = t /\ g = f THEN Decided(r) ELSE mind[u][g]
    <3>1. PICK d \in {"none", "manual", "rejected"} : d = Decided(r)
      BY <1>1
    <3>2. mind' = [mind EXCEPT ![t][f] = d]
      BY <3>1
    <3> QED
      BY <2>2, <3>1, <3>2 DEF ShelfShape, Minds
  <2> QED
    BY <2>1, <2>3
<1>3. \A u \in Titles, g \in Folders : <<u, g>> # <<t, f>> => (<<u, g>> \in late' <=> <<u, g>> \in late)
  OBVIOUS
<1>4. Shelf!DecisionsStand'
  <2> SUFFICES ASSUME NEW u \in Titles, NEW g \in Folders, <<u, g>> \notin late'
               PROVE  mind'[u][g] = Decided(shelfRow'[u][g])
    BY DEF Shelf!DecisionsStand, Decided
  <2>1. CASE u = t /\ g = f
    BY <1>2, <2>1
  <2>2. CASE ~(u = t /\ g = f)
    <3>1. <<u, g>> \notin late
      BY <1>3, <2>2
    <3>2. mind[u][g] = Decided(shelfRow[u][g])
      BY <3>1 DEF ShelfSound, Shelf!DecisionsStand, Decided
    <3> QED
      BY <1>2, <2>2, <3>2
  <2> QED
    BY <2>1, <2>2
<1> QED
  <2>1. ShelfShape
    BY DEF ShelfSound
  <2>2. shelfRow' \in [Titles -> [Folders -> Rows]]
    BY <2>1, SettingOne
  <2>3. mind' \in Minds
    BY <1>1, <2>1, MindingOne
  <2> QED
    BY <1>4, <2>1, <2>2, <2>3 DEF ShelfShape

(* record() keeps what a person decided.                                   *)
LEMMA RecordedRespects ==
  ASSUME NEW old \in Rows, NEW origin \in {"download", "matched"},
         NEW anchor \in Titles \cup {Shelf!Unknown}
  PROVE  Shelf!Recorded(old, origin, anchor) \in Rows
         /\ Respects(old, Shelf!Recorded(old, origin, anchor))
<1>1. CASE old = Shelf!NoRow
  <2>1. Shelf!Row(origin, anchor) \in Rows
    BY DEF Shelf!Row, Shelf!NoRow, Rows, Shelf!Origins
  <2> QED
    BY <1>1, <2>1 DEF Shelf!Recorded, Respects, Decided, Shelf!NoRow, Shelf!Row
<1>2. CASE old # Shelf!NoRow /\ old.origin = "rejected"
  BY <1>2 DEF Shelf!Recorded, Respects
<1>3. CASE old # Shelf!NoRow /\ old.origin # "rejected"
  <2>1. PICK o \in Shelf!Origins :
          o = IF old.origin = "matched" /\ origin = "download" THEN origin ELSE old.origin
    BY DEF Rows, Shelf!Origins
  <2>2. PICK a \in Titles \cup {Shelf!Unknown} : a = IF anchor = Shelf!Unknown THEN old.anchor ELSE anchor
    BY DEF Rows
  <2>3. Shelf!Recorded(old, origin, anchor) =
          [old EXCEPT !.origin = o, !.anchor = a, !.missing = "no"]
    BY <1>3, <2>1, <2>2 DEF Shelf!Recorded
  <2>4. [old EXCEPT !.origin = o, !.anchor = a, !.missing = "no"] \in Rows
        /\ [old EXCEPT !.origin = o, !.anchor = a, !.missing = "no"].origin = o
    BY DEF Rows
  <2> QED
    BY <2>1, <2>3, <2>4 DEF Respects, Decided
<1> QED
  BY <1>1, <1>2, <1>3

(* The steps: each keeps the shape and what was decided.                   *)

LEMMA DownloadKeeps ==
  ASSUME ShelfSound, NEW t \in Titles, Shelf!FileDownload(t) \/ Shelf!FileMatched(t)
  PROVE  ShelfSound'
<1>0. ShelfShape
  BY DEF ShelfSound
<1>1. CASE Shelf!FileDownload(t)
  <2>1. PICK f \in Folders, size \in {t, Shelf!Unknown} :
          /\ shelfDisk' = [shelfDisk EXCEPT ![f] = (@ \ Shelf!Gone) \cup {t}]
          /\ Shelf!Set(t, f, Shelf!Recorded(shelfRow[t][f], "download", size))
          /\ \E older \in SUBSET Folders : filing' = [filing EXCEPT ![t] = older]
    BY <1>1 DEF Shelf!FileDownload, Shelf!Destinations, Shelf!Chosen, Shelf!Present
  <2>2. UNCHANGED <<sweep, mind, late>>
    BY <1>1 DEF Shelf!FileDownload, Shelf!history
  <2>3. shelfDisk' \in [Folders -> {Shelf!Gone} \cup SUBSET Titles]
    <3>1. PICK n \in SUBSET Titles : n = (shelfDisk[f] \ Shelf!Gone) \cup {t}
      BY <1>0 DEF ShelfShape
    <3>2. shelfDisk' = [shelfDisk EXCEPT ![f] = n]
      BY <2>1, <3>1
    <3> QED
      BY <1>0, <3>2 DEF ShelfShape
  <2>4. shelfRow' \in [Titles -> [Folders -> Rows]] /\ Shelf!DecisionsStand'
    BY <1>0, <2>1, <2>2, RowIsTyped, RecordedRespects, SettingKeeps
  <2>5. filing' \in [Titles -> SUBSET Folders]
    <3>1. PICK older \in SUBSET Folders : filing' = [filing EXCEPT ![t] = older]
      BY <2>1
    <3> QED
      BY <1>0, <3>1 DEF ShelfShape
  <2> QED
    BY <1>0, <2>2, <2>3, <2>4, <2>5 DEF ShelfSound, ShelfShape
<1>2. CASE Shelf!FileMatched(t)
  <2>1. PICK f \in filing[t] :
          /\ filing' = [filing EXCEPT ![t] = @ \ {f}]
          /\ \E size \in Shelf!Anchors(f) : Shelf!Set(t, f, Shelf!Recorded(shelfRow[t][f], "matched", size))
    BY <1>2 DEF Shelf!FileMatched
  <2>2. UNCHANGED <<shelfDisk, sweep, mind, late>> /\ f \in Folders
    BY <1>0, <1>2 DEF Shelf!FileMatched, ShelfShape, Shelf!history
  <2>3. PICK size \in Titles \cup {Shelf!Unknown} :
          Shelf!Set(t, f, Shelf!Recorded(shelfRow[t][f], "matched", size))
    BY <1>0, <2>1, <2>2, AnchorsAreTyped
  <2>4. shelfRow' \in [Titles -> [Folders -> Rows]] /\ Shelf!DecisionsStand'
    BY <1>0, <2>2, <2>3, RowIsTyped, RecordedRespects, SettingKeeps
  <2> QED
    BY <1>0, <2>1, <2>2, <2>4 DEF ShelfSound, ShelfShape
<1> QED
  BY <1>1, <1>2

LEMMA AssociatedIsTyped ==
  ASSUME ShelfShape, NEW old \in Rows, NEW f \in Folders, NEW r \in Shelf!Associated(old, f)
  PROVE  r \in Rows /\ r.origin = "manual"
<1>1. PICK size \in Shelf!Anchors(f) :
        r = [origin |-> "manual", missing |-> "no",
             anchor |-> IF size = Shelf!Unknown THEN old.anchor ELSE size]
  BY DEF Shelf!Associated
<1>2. size \in Titles \cup {Shelf!Unknown} /\ old.anchor \in Titles \cup {Shelf!Unknown}
  BY AnchorsAreTyped DEF Rows
<1> QED
  BY <1>1, <1>2 DEF Rows, Shelf!Origins

(* A person decides about one pair, or time goes by.                       *)
LEMMA OnePairKeeps ==
  ASSUME ShelfSound, NEW t \in Titles, NEW f \in Folders,
         \/ Shelf!Associate(t, f) \/ Shelf!EditOffsets(t, f) \/ Shelf!Reject(t, f) \/ Shelf!Restore(t, f)
         \/ Shelf!MonthPasses(t, f)
  PROVE  ShelfSound'
<1>1. ShelfShape
  BY DEF ShelfSound
<1>2. UNCHANGED <<shelfDisk, filing>> /\ sweep' \subseteq sweep
  BY DEF Shelf!Associate, Shelf!EditOffsets, Shelf!Reject, Shelf!Restore, Shelf!MonthPasses
<1>3. PICK old \in Rows : old = shelfRow[t][f]
  BY <1>1, RowIsTyped
<1>4. ASSUME NEW d \in {"manual", "rejected"}, NEW r \in Rows, r.origin = d, Shelf!Set(t, f, r),
             Shelf!Decides(t, f, d)
      PROVE  ShelfSound'
  <2>1. /\ Decided(r) = d /\ mind' = [mind EXCEPT ![t][f] = d]
        /\ late' \in {late \cup {<<t, f>>}, late \ {<<t, f>>}}
    BY <1>4 DEF Decided, Shelf!Decides
  <2>2. /\ shelfRow' \in [Titles -> [Folders -> Rows]] /\ Shelf!DecisionsStand'
        /\ mind' \in Minds /\ late' \subseteq Titles \X Folders
    BY <1>4, <2>1, DecidingOne
  <2> QED
    BY <1>1, <1>2, <2>2 DEF ShelfSound, ShelfShape
<1>5. CASE Shelf!Associate(t, f)
  BY <1>1, <1>3, <1>4, <1>5, AssociatedIsTyped DEF Shelf!Associate
<1>6. CASE Shelf!EditOffsets(t, f)
  <2>1. [old EXCEPT !.origin = "manual"] \in Rows
        /\ [old EXCEPT !.origin = "manual"].origin = "manual"
    BY DEF Rows, Shelf!Origins
  <2> QED
    BY <1>3, <1>4, <1>6, <2>1 DEF Shelf!EditOffsets
<1>7. CASE Shelf!Reject(t, f)
  <2>1. [old EXCEPT !.origin = "rejected"] \in Rows
        /\ [old EXCEPT !.origin = "rejected"].origin = "rejected"
    BY DEF Rows, Shelf!Origins
  <2> QED
    BY <1>3, <1>4, <1>7, <2>1 DEF Shelf!Reject
<1>8. CASE Shelf!Restore(t, f)
  <2>1. Shelf!NoRow \in Rows /\ Decided(Shelf!NoRow) = "none"
    BY DEF Shelf!NoRow, Rows, Shelf!Origins, Decided
  <2>2. /\ Shelf!Set(t, f, Shelf!NoRow) /\ mind' = [mind EXCEPT ![t][f] = "none"]
        /\ late' = late \ {<<t, f>>}
    BY <1>8 DEF Shelf!Restore
  <2>3. /\ shelfRow' \in [Titles -> [Folders -> Rows]] /\ Shelf!DecisionsStand'
        /\ mind' \in Minds /\ late' \subseteq Titles \X Folders
    BY <2>1, <2>2, DecidingOne
  <2> QED
    BY <1>1, <1>2, <2>3 DEF ShelfSound, ShelfShape
<1>9. CASE Shelf!MonthPasses(t, f)
  <2>1. [old EXCEPT !.missing = "long"] \in Rows /\ Respects(old, [old EXCEPT !.missing = "long"])
    BY DEF Rows, Respects, Decided
  <2>2. Shelf!Set(t, f, [old EXCEPT !.missing = "long"]) /\ UNCHANGED <<mind, late>>
    BY <1>3, <1>9 DEF Shelf!MonthPasses, Shelf!history
  <2>3. shelfRow' \in [Titles -> [Folders -> Rows]] /\ Shelf!DecisionsStand'
    BY <1>3, <2>1, <2>2, SettingKeeps
  <2> QED
    BY <1>1, <1>2, <2>2, <2>3 DEF ShelfSound, ShelfShape
<1> QED
  BY <1>5, <1>6, <1>7, <1>8, <1>9

(* Two pairs at once: the old one is rejected, the new one is a person's.  *)
LEMMA EditPairKeeps ==
  ASSUME ShelfSound, NEW t \in Titles, NEW f \in Folders, NEW u \in Titles, NEW g \in Folders,
         Shelf!EditPair(t, f, u, g)
  PROVE  ShelfSound'
<1>1. ShelfShape /\ UNCHANGED <<shelfDisk, filing, sweep>> /\ <<t, f>> # <<u, g>>
  BY DEF Shelf!EditPair, ShelfSound
<1>2. PICK x \in Rows : x = [shelfRow[t][f] EXCEPT !.origin = "rejected"] /\ x.origin = "rejected"
  <2>1. PICK old \in Rows : old = shelfRow[t][f]
    BY <1>1, RowIsTyped
  <2>2. [old EXCEPT !.origin = "rejected"] \in Rows
        /\ [old EXCEPT !.origin = "rejected"].origin = "rejected"
    BY DEF Rows, Shelf!Origins
  <2> QED
    BY <2>1, <2>2
<1>3. PICK r \in Shelf!Associated(shelfRow[u][g], g) :
        shelfRow' = [shelfRow EXCEPT ![t][f].origin = "rejected", ![u][g] = r]
  BY DEF Shelf!EditPair
<1>4. r \in Rows /\ r.origin = "manual"
  BY <1>1, AssociatedIsTyped, RowIsTyped
<1>5. /\ shelfRow' \in [Titles -> [Folders -> Rows]]
      /\ \A v \in Titles, h \in Folders :
           shelfRow'[v][h] = IF v = u /\ h = g THEN r
                        ELSE IF v = t /\ h = f THEN x ELSE shelfRow[v][h]
  BY <1>1, <1>2, <1>3, <1>4 DEF ShelfShape
<1>6. /\ mind' \in Minds
      /\ \A v \in Titles, h \in Folders :
           mind'[v][h] = IF v = u /\ h = g THEN "manual"
                    ELSE IF v = t /\ h = f THEN "rejected" ELSE mind[v][h]
  <2>1. mind' = [mind EXCEPT ![t][f] = "rejected", ![u][g] = "manual"]
    BY DEF Shelf!EditPair
  <2> QED
    BY <1>1, <2>1 DEF ShelfShape, Minds
<1>7. /\ late' \subseteq Titles \X Folders
      /\ \A p \in Titles \X Folders : p \notin {<<t, f>>, <<u, g>>} => (p \in late' <=> p \in late)
  <2>1. PICK q \in SUBSET {<<t, f>>, <<u, g>>} : late' = (late \ {<<t, f>>, <<u, g>>}) \cup q
    BY DEF Shelf!EditPair
  <2> QED
    BY <1>1, <2>1 DEF ShelfShape
<1>8. Shelf!DecisionsStand'
  <2> SUFFICES ASSUME NEW v \in Titles, NEW h \in Folders, <<v, h>> \notin late'
               PROVE  mind'[v][h] = Decided(shelfRow'[v][h])
    BY DEF Shelf!DecisionsStand, Decided
  <2>1. CASE (v = u /\ h = g) \/ (v = t /\ h = f)
    BY <1>2, <1>4, <1>5, <1>6, <2>1 DEF Decided
  <2>2. CASE ~(v = u /\ h = g) /\ ~(v = t /\ h = f)
    <3>1. <<v, h>> \notin late
      BY <1>7, <2>2
    <3>2. mind[v][h] = Decided(shelfRow[v][h])
      BY <3>1 DEF ShelfSound, Shelf!DecisionsStand, Decided
    <3> QED
      BY <1>5, <1>6, <2>2, <3>2
  <2> QED
    BY <2>1, <2>2
<1> QED
  BY <1>1, <1>5, <1>6, <1>7, <1>8 DEF ShelfSound, ShelfShape

(* reconcile().                                                            *)

LEMMA ReconcileBeginsKeeps ==
  ASSUME ShelfSound, Shelf!ReconcileBegins
  PROVE  ShelfSound'
<1>0. ShelfShape
  BY DEF ShelfSound
<1>1. /\ UNCHANGED <<shelfDisk, filing, mind, late>>
      /\ shelfRow' = [t \in Titles |-> [f \in Folders |->
                   IF Shelf!Active(t, f) /\ f \in Shelf!Present
                   THEN [shelfRow[t][f] EXCEPT !.missing = "no"] ELSE shelfRow[t][f]]]
  BY DEF Shelf!ReconcileBegins, Shelf!history
<1>2. ASSUME NEW t \in Titles, NEW f \in Folders
      PROVE  shelfRow'[t][f] \in Rows /\ shelfRow'[t][f].origin = shelfRow[t][f].origin
  <2>1. PICK old \in Rows : old = shelfRow[t][f]
    BY <1>0, RowIsTyped
  <2>2. /\ [old EXCEPT !.missing = "no"] \in Rows
        /\ [old EXCEPT !.missing = "no"].origin = old.origin
    BY DEF Rows
  <2> QED
    BY <1>1, <2>1, <2>2
<1>3. shelfRow' \in [Titles -> [Folders -> Rows]]
  BY <1>1, <1>2
<1>4. sweep' \subseteq Missed /\ \A s \in sweep' : s.folder \notin s.found
  <2> SUFFICES ASSUME NEW p \in Titles \X Folders, p[2] \notin Shelf!Present
               PROVE  /\ [title |-> p[1], folder |-> p[2], was |-> shelfRow[p[1]][p[2]].missing,
                          found |-> Shelf!Holders(shelfRow[p[1]][p[2]].anchor, p[2])] \in Missed
                      /\ p[2] \notin Shelf!Holders(shelfRow[p[1]][p[2]].anchor, p[2])
    BY DEF Shelf!ReconcileBegins
  <2>1. shelfRow[p[1]][p[2]].missing \in {"no", "recently", "long"}
    BY <1>0, RowIsTyped DEF Rows
  <2>2. /\ Shelf!Holders(shelfRow[p[1]][p[2]].anchor, p[2]) \subseteq Folders
        /\ p[2] \notin Shelf!Holders(shelfRow[p[1]][p[2]].anchor, p[2])
    BY DEF Shelf!Holders, Shelf!Present
  <2> QED
    BY <2>1, <2>2 DEF Missed
<1>5. Shelf!DecisionsStand'
  BY <1>1, <1>2, NobodyDecides DEF Respects, Decided, ShelfSound
<1> QED
  BY <1>0, <1>1, <1>3, <1>4, <1>5 DEF ShelfSound, ShelfShape

(* A row that is moved goes where the title has none, and what was decided *)
(* about it goes with it, unless it was decided late.                      *)
LEMMA MovingKeeps ==
  ASSUME ShelfSound, NEW t \in Titles, NEW f \in Folders, NEW g \in Folders, f # g,
         Shelf!Move(t, f, g)
  PROVE  /\ shelfRow' \in [Titles -> [Folders -> Rows]] /\ Shelf!DecisionsStand'
         /\ mind' \in Minds /\ late' \subseteq Titles \X Folders
<1>1. ShelfShape /\ Shelf!NoRow \in Rows /\ Shelf!NoRow.origin = "none"
  BY DEF Shelf!NoRow, Rows, Shelf!Origins, ShelfSound
<1>2. PICK old \in Rows, x \in Rows :
        /\ old = shelfRow[t][f]
        /\ x = [old EXCEPT !.missing = "no"] /\ x.origin = old.origin
  <2>1. PICK o \in Rows : o = shelfRow[t][f]
    BY <1>1, RowIsTyped
  <2>2. [o EXCEPT !.missing = "no"] \in Rows /\ [o EXCEPT !.missing = "no"].origin = o.origin
    BY DEF Rows
  <2> QED
    BY <2>1, <2>2
<1>3. PICK y \in Rows : y = IF shelfRow[t][g] = Shelf!NoRow THEN x ELSE shelfRow[t][g]
  BY <1>1, RowIsTyped
<1>4. shelfRow' = [shelfRow EXCEPT ![t][f] = Shelf!NoRow, ![t][g] = y]
  BY <1>2, <1>3 DEF Shelf!Move
<1>5. /\ shelfRow' \in [Titles -> [Folders -> Rows]]
      /\ \A v \in Titles, h \in Folders :
           shelfRow'[v][h] = IF v = t /\ h = g THEN y
                        ELSE IF v = t /\ h = f THEN Shelf!NoRow ELSE shelfRow[v][h]
  BY <1>1, <1>4 DEF ShelfShape
<1>6. \A v \in Titles, h \in Folders :
        <<v, h>> \notin late => mind[v][h] = Decided(shelfRow[v][h])
  BY DEF ShelfSound, Shelf!DecisionsStand, Decided
<1>7. Decided(Shelf!NoRow) = "none" /\ Decided(x) = Decided(old)
  BY <1>1, <1>2 DEF Decided
<1>8. CASE <<t, f>> \in late
  <2>1. /\ mind' = mind
        /\ late' = IF shelfRow[t][g] = Shelf!NoRow THEN late \cup {<<t, g>>} ELSE late
    BY <1>8 DEF Shelf!Move
  <2>2. ASSUME NEW v \in Titles, NEW h \in Folders, <<v, h>> \notin late'
        PROVE  mind'[v][h] = Decided(shelfRow'[v][h])
    <3>1. <<v, h>> \notin late /\ ~(v = t /\ h = f)
      BY <1>8, <2>1, <2>2
    <3>2. v = t /\ h = g => y = shelfRow[t][g]
      BY <1>3, <2>1, <2>2
    <3> QED
      BY <1>5, <1>6, <2>1, <3>1, <3>2
  <2> QED
    BY <1>1, <1>5, <2>1, <2>2 DEF ShelfShape, Shelf!DecisionsStand, Decided
<1>9. CASE <<t, f>> \notin late
  <2>1. PICK m \in {"none", "manual", "rejected"} :
          m = IF shelfRow[t][g] = Shelf!NoRow THEN mind[t][f] ELSE mind[t][g]
    BY <1>1 DEF ShelfShape, Minds
  <2>2. PICK mid : mid = [mind EXCEPT ![t][f] = "none"]
    OBVIOUS
  <2>3. /\ mid \in Minds
        /\ \A v \in Titles, h \in Folders :
             mid[v][h] = IF v = t /\ h = f THEN "none" ELSE mind[v][h]
    BY <1>1, <2>2 DEF ShelfShape, Minds
  <2>4. mind' = [mid EXCEPT ![t][g] = m]
    <3>1. mind' = [mid EXCEPT ![t][g] = IF shelfRow[t][g] = Shelf!NoRow THEN mind[t][f] ELSE @]
      BY <1>9, <2>2 DEF Shelf!Move
    <3> QED
      BY <2>1, <2>3, <3>1
  <2>5. /\ mind' \in Minds
        /\ \A v \in Titles, h \in Folders :
             mind'[v][h] = IF v = t /\ h = g THEN m
                      ELSE IF v = t /\ h = f THEN "none" ELSE mind[v][h]
    BY <2>1, <2>4, <2>3 DEF Minds
  <2>6. late' = IF shelfRow[t][g] = Shelf!NoRow THEN late \ {<<t, g>>} ELSE late
    BY <1>9 DEF Shelf!Move
  <2>7. ASSUME NEW v \in Titles, NEW h \in Folders, <<v, h>> \notin late'
        PROVE  mind'[v][h] = Decided(shelfRow'[v][h])
    <3>1. CASE v = t /\ h = g
      <4>1. CASE shelfRow[t][g] = Shelf!NoRow
        BY <1>2, <1>3, <1>5, <1>6, <1>7, <1>9, <2>1, <2>5, <3>1, <4>1
      <4>2. CASE shelfRow[t][g] # Shelf!NoRow
        BY <1>3, <1>5, <1>6, <2>1, <2>5, <2>6, <2>7, <3>1, <4>2
      <4> QED
        BY <4>1, <4>2
    <3>2. CASE v = t /\ h = f
      BY <1>5, <1>7, <2>5, <3>2
    <3>3. CASE ~(v = t /\ h = g) /\ ~(v = t /\ h = f)
      <4>1. <<v, h>> \notin late
        BY <2>6, <2>7, <3>3
      <4> QED
        BY <1>5, <1>6, <2>5, <3>3, <4>1
    <3> QED
      BY <3>1, <3>2, <3>3
  <2> QED
    BY <1>1, <1>5, <2>5, <2>6, <2>7 DEF ShelfShape, Shelf!DecisionsStand, Decided
<1> QED
  BY <1>8, <1>9

LEMMA ForgettingKeeps ==
  ASSUME ShelfSound, NEW t \in Titles, NEW f \in Folders, Shelf!Forget(t, f)
  PROVE  /\ shelfRow' \in [Titles -> [Folders -> Rows]] /\ Shelf!DecisionsStand'
         /\ mind' \in Minds /\ late' \subseteq Titles \X Folders
<1>1. /\ ShelfShape /\ Shelf!NoRow \in Rows /\ Decided(Shelf!NoRow) = "none"
      /\ Shelf!Set(t, f, Shelf!NoRow) /\ late' = late
  BY DEF Shelf!NoRow, Rows, Shelf!Origins, ShelfSound, Decided, Shelf!Forget
<1>2. /\ shelfRow' \in [Titles -> [Folders -> Rows]]
      /\ \A v \in Titles, h \in Folders :
           shelfRow'[v][h] = IF v = t /\ h = f THEN Shelf!NoRow ELSE shelfRow[v][h]
  BY <1>1, SettingOne
<1>3. /\ mind' \in Minds
      /\ \A v \in Titles, h \in Folders :
           <<v, h>> \notin late => mind'[v][h] = IF v = t /\ h = f THEN "none" ELSE mind[v][h]
  <2>1. CASE <<t, f>> \in late
    BY <1>1, <2>1 DEF Shelf!Forget, ShelfShape
  <2>2. CASE <<t, f>> \notin late
    BY <1>1, <2>2, MindingOne DEF Shelf!Forget
  <2> QED
    BY <2>1, <2>2
<1> QED
  BY <1>1, <1>2, <1>3 DEF ShelfSound, ShelfShape, Shelf!DecisionsStand, Decided

LEMMA ReconcileKeeps ==
  ASSUME ShelfSound, Shelf!Reconcile
  PROVE  ShelfSound'
<1>0. ShelfShape
  BY DEF ShelfSound
<1>1. PICK s \in sweep :
        LET t == s.title
            f == s.folder IN
        /\ sweep' = sweep \ {s}
        /\ \/ \E g \in s.found : Shelf!Move(t, f, g)
           \/ /\ \/ Shelf!Set(t, f, [shelfRow[t][f] EXCEPT !.missing = "recently"])
                 \/ UNCHANGED shelfRow
              /\ UNCHANGED <<mind, late>>
           \/ Shelf!Forget(t, f)
        /\ UNCHANGED <<shelfDisk, shelfMounted, filing>>
  BY DEF Shelf!Reconcile, Shelf!history
<1>2. s \in Missed /\ s.folder \notin s.found
  BY <1>0 DEF ShelfShape
<1>3. PICK t \in Titles, f \in Folders : t = s.title /\ f = s.folder
  BY <1>2 DEF Missed
<1>4. UNCHANGED <<shelfDisk, filing>> /\ sweep' \subseteq sweep
  BY <1>1
<1>5. ASSUME /\ shelfRow' \in [Titles -> [Folders -> Rows]] /\ Shelf!DecisionsStand'
             /\ mind' \in Minds /\ late' \subseteq Titles \X Folders
      PROVE  ShelfSound'
  BY <1>0, <1>4, <1>5 DEF ShelfSound, ShelfShape
<1>6. ASSUME NEW g \in s.found, Shelf!Move(t, f, g) PROVE ShelfSound'
  <2>1. g \in Folders /\ f # g
    BY <1>2, <1>3 DEF Missed
  <2> QED
    BY <1>5, <1>6, <2>1, MovingKeeps
<1>7. CASE Shelf!Forget(t, f)
  BY <1>5, <1>7, ForgettingKeeps
<1>8. CASE /\ Shelf!Set(t, f, [shelfRow[t][f] EXCEPT !.missing = "recently"])
           /\ UNCHANGED <<mind, late>>
  <2>1. PICK old \in Rows : old = shelfRow[t][f]
    BY <1>0, RowIsTyped
  <2>2. PICK r \in Rows : r = [old EXCEPT !.missing = "recently"] /\ Respects(old, r)
    <3>1. [old EXCEPT !.missing = "recently"] \in Rows
          /\ [old EXCEPT !.missing = "recently"].origin = old.origin
      BY DEF Rows
    <3> QED
      BY <3>1 DEF Respects, Decided
  <2>3. shelfRow' \in [Titles -> [Folders -> Rows]] /\ Shelf!DecisionsStand'
    BY <1>8, <2>1, <2>2, SettingKeeps
  <2> QED
    BY <1>0, <1>5, <1>8, <2>3 DEF ShelfShape
<1>9. CASE UNCHANGED <<shelfRow, mind, late>>
  BY <1>0, <1>5, <1>9, SettingNone DEF ShelfShape
<1> QED
  BY <1>1, <1>3, <1>6, <1>7, <1>8, <1>9


(* What happens around the registry leaves it alone.                       *)
LEMMA OutsideKeeps ==
  ASSUME ShelfSound,
         \/ Shelf!Mount \/ UNCHANGED Shelf!vars
         \/ \E f, g \in Folders : Shelf!Rename(f, g)
         \/ \E f \in Folders : Shelf!Delete(f)
  PROVE  ShelfSound'
<1>1. UNCHANGED <<shelfRow, filing, sweep, mind, late>>
  BY DEF Shelf!Mount, Shelf!vars, Shelf!Rename, Shelf!Delete, Shelf!history
<1>2. shelfDisk' \in [Folders -> {Shelf!Gone} \cup SUBSET Titles]
  BY DEF ShelfSound, ShelfShape, Shelf!Mount, Shelf!vars, Shelf!Rename, Shelf!Delete
<1> QED
  BY <1>1, <1>2, SettingNone DEF ShelfSound, ShelfShape

LEMMA ShelfNext ==
  ASSUME ShelfSound, Shelf!Next \/ UNCHANGED Shelf!vars
  PROVE  ShelfSound'
<1>1. ASSUME NEW t \in Titles, Shelf!FileDownload(t) \/ Shelf!FileMatched(t)
      PROVE  ShelfSound'
  BY <1>1, DownloadKeeps
<1>2. ASSUME NEW t \in Titles, NEW f \in Folders,
             \/ Shelf!Associate(t, f) \/ Shelf!EditOffsets(t, f) \/ Shelf!Reject(t, f) \/ Shelf!Restore(t, f)
             \/ Shelf!MonthPasses(t, f)
             \/ \E u \in Titles, g \in Folders : Shelf!EditPair(t, f, u, g)
      PROVE  ShelfSound'
  BY <1>2, OnePairKeeps, EditPairKeeps
<1>3. CASE Shelf!ReconcileBegins \/ Shelf!Reconcile
  BY <1>3, ReconcileBeginsKeeps, ReconcileKeeps
<1>4. ASSUME \/ Shelf!Mount \/ UNCHANGED Shelf!vars
             \/ \E f, g \in Folders : Shelf!Rename(f, g)
             \/ \E f \in Folders : Shelf!Delete(f)
      PROVE  ShelfSound'
  BY <1>4, OutsideKeeps
<1> QED
  BY <1>1, <1>2, <1>3, <1>4 DEF Shelf!Next

\* library.py: a row is a person's choice, or a rejection, exactly when that is what people
\* last made of the pair, however many downloads, matches, renames and sweeps lie between.
\* Excepted is a pair that was decided on while reconcile() had its row in hand, until it is
\* decided on again: by its id, the sweep moves or deletes the row all the same.
THEOREM PanelNeverOverrides == Spec => []PersonDecides
<1> DEFINE I == focus = "shelf" => ShelfSound
<1>1. Init => I
  BY ShelfInit DEF Init
<1>2. I /\ [Next]_vars => I'
  BY ShelfNext DEF Next, vars, Shelf!vars
<1>3. I => PersonDecides
  BY DEF ShelfSound, PersonDecides
<1> QED
  BY <1>1, <1>2, <1>3, PTL DEF Spec

(* There is no row without an origin, and what the sweep has to deal with  *)
(* are rows, each once: restore() takes away the row and its id.           *)
Whole(r) == r.origin = "none" => r = Shelf!NoRow
WholeRows == \A t \in Titles, f \in Folders : Whole(shelfRow[t][f])
SweptOK ==
  /\ \A s \in sweep : shelfRow[s.title][s.folder].origin # "none"
  /\ \A r, s \in sweep : r.title = s.title /\ r.folder = s.folder => r = s

ShelfTypes ==
  ShelfShape /\ Shelf!DecisionsStand /\ WholeRows /\ SweptOK /\ shelfMounted \in BOOLEAN

LEMMA SettingKeepsWhole ==
  ASSUME ShelfShape, WholeRows, SweptOK, NEW t \in Titles, NEW f \in Folders, NEW r \in Rows,
         Shelf!Set(t, f, r), Whole(r), sweep' \subseteq sweep,
         r.origin = "none" => \A s \in sweep' : ~(s.title = t /\ s.folder = f)
  PROVE  WholeRows' /\ SweptOK'
<1>1. \A u \in Titles, g \in Folders :
        shelfRow'[u][g] = IF u = t /\ g = f THEN r ELSE shelfRow[u][g]
  BY DEF ShelfShape, Shelf!Set
<1>2. WholeRows'
  BY <1>1 DEF WholeRows, Whole
<1>3. \A s \in sweep' : s.title \in Titles /\ s.folder \in Folders
  BY DEF ShelfShape, Missed
<1>4. SweptOK'
  BY <1>1, <1>3 DEF SweptOK
<1> QED
  BY <1>2, <1>4

LEMMA RecordedIsThere ==
  ASSUME NEW old \in Rows, Whole(old), NEW origin \in {"download", "matched"}, NEW anchor
  PROVE  Shelf!Recorded(old, origin, anchor).origin # "none"
<1>1. CASE old = Shelf!NoRow
  BY <1>1 DEF Shelf!Recorded, Shelf!Row, Shelf!NoRow
<1>2. CASE old # Shelf!NoRow /\ old.origin = "rejected"
  BY <1>2 DEF Shelf!Recorded
<1>3. CASE old # Shelf!NoRow /\ old.origin # "rejected"
  <2>1. PICK o, a : /\ o = IF old.origin = "matched" /\ origin = "download" THEN origin
                           ELSE old.origin
                    /\ a = IF anchor = Shelf!Unknown THEN old.anchor ELSE anchor
    OBVIOUS
  <2>2. Shelf!Recorded(old, origin, anchor) = [old EXCEPT !.origin = o, !.anchor = a, !.missing = "no"]
    BY <1>3, <2>1 DEF Shelf!Recorded
  <2>3. Shelf!Recorded(old, origin, anchor).origin = o
    BY <2>2 DEF Rows
  <2> QED
    BY <1>3, <2>1, <2>3 DEF Whole
<1> QED
  BY <1>1, <1>2, <1>3

LEMMA DownloadKeepsWhole ==
  ASSUME ShelfTypes, NEW t \in Titles, Shelf!FileDownload(t) \/ Shelf!FileMatched(t)
  PROVE  WholeRows' /\ SweptOK'
<1>1. \E f \in Folders, origin \in {"download", "matched"}, size \in Titles \cup {Shelf!Unknown} :
        Shelf!Set(t, f, Shelf!Recorded(shelfRow[t][f], origin, size))
  <2>1. CASE Shelf!FileDownload(t)
    BY <2>1 DEF Shelf!FileDownload, Shelf!Destinations, Shelf!Chosen, Shelf!Present
  <2>2. CASE Shelf!FileMatched(t)
    BY <2>2, AnchorsAreTyped DEF Shelf!FileMatched, ShelfTypes, ShelfShape
  <2> QED
    BY <2>1, <2>2
<1>2. sweep' = sweep
  BY DEF Shelf!FileDownload, Shelf!FileMatched
<1>3. PICK f \in Folders, origin \in {"download", "matched"}, size \in Titles \cup {Shelf!Unknown} :
        Shelf!Set(t, f, Shelf!Recorded(shelfRow[t][f], origin, size))
  BY <1>1
<1>4. shelfRow[t][f] \in Rows /\ Whole(shelfRow[t][f])
  BY RowIsTyped DEF ShelfTypes, WholeRows
<1>5. PICK r : r = Shelf!Recorded(shelfRow[t][f], origin, size)
  OBVIOUS
<1>6. r \in Rows /\ r.origin # "none"
  BY <1>4, <1>5, RecordedRespects, RecordedIsThere
<1> QED
  BY <1>2, <1>3, <1>5, <1>6, SettingKeepsWhole DEF ShelfTypes, Whole

LEMMA OnePairKeepsWhole ==
  ASSUME ShelfTypes, NEW t \in Titles, NEW f \in Folders,
         \/ Shelf!Associate(t, f) \/ Shelf!EditOffsets(t, f) \/ Shelf!Reject(t, f) \/ Shelf!Restore(t, f)
         \/ Shelf!MonthPasses(t, f)
  PROVE  WholeRows' /\ SweptOK'
<1>1. PICK old \in Rows : old = shelfRow[t][f] /\ Whole(old)
  BY RowIsTyped DEF ShelfTypes, WholeRows
<1>2. ASSUME NEW r \in Rows, Shelf!Set(t, f, r), r.origin # "none", sweep' = sweep
      PROVE  WholeRows' /\ SweptOK'
  BY <1>2, SettingKeepsWhole DEF ShelfTypes, Whole
<1>3. CASE Shelf!Associate(t, f)
  BY <1>1, <1>2, <1>3, AssociatedIsTyped DEF Shelf!Associate, ShelfTypes
<1>4. CASE Shelf!EditOffsets(t, f) \/ Shelf!Reject(t, f)
  <2>1. \A o \in {"manual", "rejected"} :
          [old EXCEPT !.origin = o] \in Rows /\ [old EXCEPT !.origin = o].origin = o
    BY DEF Rows, Shelf!Origins
  <2> QED
    BY <1>1, <1>2, <1>4, <2>1 DEF Shelf!EditOffsets, Shelf!Reject
<1>5. CASE Shelf!MonthPasses(t, f)
  <2>1. [old EXCEPT !.missing = "long"] \in Rows
        /\ [old EXCEPT !.missing = "long"].origin = old.origin
    BY DEF Rows
  <2>2. old.origin # "none"
    BY <1>1, <1>5 DEF Shelf!MonthPasses, Whole, Shelf!NoRow
  <2> QED
    BY <1>1, <1>2, <1>5, <2>1, <2>2 DEF Shelf!MonthPasses
<1>6. CASE Shelf!Restore(t, f)
  <2>1. Shelf!NoRow \in Rows /\ Whole(Shelf!NoRow)
    BY DEF Shelf!NoRow, Rows, Shelf!Origins, Whole
  <2>2. /\ Shelf!Set(t, f, Shelf!NoRow) /\ sweep' \subseteq sweep
        /\ \A s \in sweep' : ~(s.title = t /\ s.folder = f)
    BY <1>6 DEF Shelf!Restore
  <2> QED
    BY <2>1, <2>2, SettingKeepsWhole DEF ShelfTypes
<1> QED
  BY <1>3, <1>4, <1>5, <1>6

LEMMA EditPairKeepsWhole ==
  ASSUME ShelfTypes, NEW t \in Titles, NEW f \in Folders, NEW u \in Titles, NEW g \in Folders,
         Shelf!EditPair(t, f, u, g)
  PROVE  WholeRows' /\ SweptOK'
<1>1. PICK x \in Rows : x = [shelfRow[t][f] EXCEPT !.origin = "rejected"] /\ x.origin = "rejected"
  <2>1. PICK old \in Rows : old = shelfRow[t][f]
    BY RowIsTyped DEF ShelfTypes
  <2>2. [old EXCEPT !.origin = "rejected"] \in Rows
        /\ [old EXCEPT !.origin = "rejected"].origin = "rejected"
    BY DEF Rows, Shelf!Origins
  <2> QED
    BY <2>1, <2>2
<1>2. sweep' = sweep
  BY DEF Shelf!EditPair
<1>3. ASSUME NEW r \in Shelf!Associated(shelfRow[u][g], g),
             shelfRow' = [shelfRow EXCEPT ![t][f].origin = "rejected", ![u][g] = r]
      PROVE  WholeRows' /\ SweptOK'
  <2>1. r \in Rows /\ r.origin = "manual"
    BY AssociatedIsTyped, RowIsTyped DEF ShelfTypes
  <2>2. \A v \in Titles, h \in Folders :
          shelfRow'[v][h] = IF v = u /\ h = g THEN r
                            ELSE IF v = t /\ h = f THEN x ELSE shelfRow[v][h]
    <3>1. <<t, f>> # <<u, g>>
      BY DEF Shelf!EditPair
    <3> QED
      BY <1>1, <1>3, <2>1, <3>1 DEF ShelfTypes, ShelfShape
  <2>3. ASSUME NEW v \in Titles, NEW h \in Folders
        PROVE  /\ Whole(shelfRow'[v][h])
               /\ \/ shelfRow'[v][h] = shelfRow[v][h]
                  \/ shelfRow'[v][h].origin \in {"manual", "rejected"}
    <3>1. Whole(shelfRow[v][h])
      BY DEF ShelfTypes, WholeRows
    <3>2. Whole(r) /\ Whole(x)
      BY <1>1, <2>1 DEF Whole
    <3> QED
      BY <1>1, <2>1, <2>2, <3>1, <3>2
  <2>4. WholeRows'
    BY <2>3 DEF WholeRows
  <2>5. ASSUME NEW s \in sweep'
        PROVE  shelfRow'[s.title][s.folder].origin # "none"
    <3>1. /\ s \in sweep /\ s.title \in Titles /\ s.folder \in Folders
          /\ shelfRow[s.title][s.folder].origin # "none"
      BY <1>2 DEF ShelfTypes, ShelfShape, SweptOK, Missed
    <3> QED
      BY <2>3, <3>1
  <2> QED
    BY <1>2, <2>4, <2>5 DEF ShelfTypes, SweptOK
<1> QED
  BY <1>3 DEF Shelf!EditPair

LEMMA ReconcileBeginsKeepsWhole ==
  ASSUME ShelfTypes, Shelf!ReconcileBegins
  PROVE  WholeRows' /\ SweptOK'
<1>1. shelfRow' = [t \in Titles |-> [f \in Folders |->
        IF Shelf!Active(t, f) /\ f \in Shelf!Present
        THEN [shelfRow[t][f] EXCEPT !.missing = "no"] ELSE shelfRow[t][f]]]
  BY DEF Shelf!ReconcileBegins
<1>2. ASSUME NEW t \in Titles, NEW f \in Folders
      PROVE  shelfRow'[t][f].origin = shelfRow[t][f].origin /\ Whole(shelfRow'[t][f])
  <2>1. PICK old \in Rows : old = shelfRow[t][f] /\ Whole(old)
    BY RowIsTyped DEF ShelfTypes, WholeRows
  <2>2. [old EXCEPT !.missing = "no"].origin = old.origin
    BY DEF Rows
  <2>3. Shelf!Active(t, f) => old.origin # "none"
    BY <2>1 DEF Shelf!Active
  <2> QED
    BY <1>1, <2>1, <2>2, <2>3 DEF Whole
<1>3. \A s \in sweep' : \E p \in Titles \X Folders :
        /\ Shelf!Active(p[1], p[2])
        /\ s = [title |-> p[1], folder |-> p[2], was |-> shelfRow[p[1]][p[2]].missing,
                found |-> Shelf!Holders(shelfRow[p[1]][p[2]].anchor, p[2])]
  BY DEF Shelf!ReconcileBegins
<1>4. \A s \in sweep' :
        /\ s.title \in Titles /\ s.folder \in Folders /\ Shelf!Active(s.title, s.folder)
        /\ s = [title |-> s.title, folder |-> s.folder,
                was |-> shelfRow[s.title][s.folder].missing,
                found |-> Shelf!Holders(shelfRow[s.title][s.folder].anchor, s.folder)]
  <2> SUFFICES ASSUME NEW s \in sweep'
               PROVE  /\ s.title \in Titles /\ s.folder \in Folders
                      /\ Shelf!Active(s.title, s.folder)
                      /\ s = [title |-> s.title, folder |-> s.folder,
                              was |-> shelfRow[s.title][s.folder].missing,
                              found |-> Shelf!Holders(shelfRow[s.title][s.folder].anchor, s.folder)]
    OBVIOUS
  <2>1. PICK p \in Titles \X Folders :
          /\ Shelf!Active(p[1], p[2])
          /\ s = [title |-> p[1], folder |-> p[2], was |-> shelfRow[p[1]][p[2]].missing,
                  found |-> Shelf!Holders(shelfRow[p[1]][p[2]].anchor, p[2])]
    BY <1>3
  <2>2. s.title = p[1] /\ s.folder = p[2]
    BY <2>1
  <2> QED
    BY <2>1, <2>2
<1>5. \A r, s \in sweep' : r.title = s.title /\ r.folder = s.folder => r = s
  BY <1>4, Zenon
<1> QED
  BY <1>2, <1>4, <1>5 DEF WholeRows, SweptOK, Shelf!Active

LEMMA ReconcileKeepsWhole ==
  ASSUME ShelfTypes, Shelf!Reconcile
  PROVE  WholeRows' /\ SweptOK'
<1>1. PICK s \in sweep :
        LET t == s.title
            f == s.folder IN
        /\ sweep' = sweep \ {s}
        /\ \/ \E g \in s.found :
                shelfRow' = [shelfRow EXCEPT ![t][f] = Shelf!NoRow,
                                      ![t][g] = IF shelfRow[t][g] = Shelf!NoRow
                                                THEN [shelfRow[t][f] EXCEPT !.missing = "no"]
                                                ELSE shelfRow[t][g]]
           \/ Shelf!Set(t, f, [shelfRow[t][f] EXCEPT !.missing = "recently"])
           \/ UNCHANGED shelfRow
           \/ Shelf!Set(t, f, Shelf!NoRow)
  BY DEF Shelf!Reconcile, Shelf!Move, Shelf!Forget
<1>2. s \in Missed
  BY DEF ShelfTypes, ShelfShape
<1>3. PICK t \in Titles, f \in Folders : t = s.title /\ f = s.folder
  BY <1>2 DEF Missed
<1>4. /\ sweep' \subseteq sweep
      /\ \A r \in sweep' : ~(r.title = t /\ r.folder = f)
  BY <1>1, <1>3 DEF ShelfTypes, SweptOK
<1>5. PICK old \in Rows : old = shelfRow[t][f] /\ Whole(old) /\ old.origin # "none"
  BY <1>3, RowIsTyped DEF ShelfTypes, WholeRows, SweptOK
<1>6. Shelf!NoRow \in Rows /\ Whole(Shelf!NoRow)
  BY DEF Shelf!NoRow, Rows, Shelf!Origins, Whole
<1>7. \A m \in {"no", "recently", "long"} :
        [old EXCEPT !.missing = m] \in Rows /\ [old EXCEPT !.missing = m].origin = old.origin
  BY DEF Rows
<1>8. ASSUME NEW g \in s.found,
             shelfRow' = [shelfRow EXCEPT ![t][f] = Shelf!NoRow,
                                ![t][g] = IF shelfRow[t][g] = Shelf!NoRow
                                          THEN [shelfRow[t][f] EXCEPT !.missing = "no"]
                                          ELSE shelfRow[t][g]]
      PROVE  WholeRows' /\ SweptOK'
  <2>1. g \in Folders
    BY <1>2 DEF Missed
  <2>2. PICK x \in Rows : x = [shelfRow[t][f] EXCEPT !.missing = "no"] /\ x.origin # "none"
    BY <1>5, <1>7
  <2>3. PICK y : y = (IF shelfRow[t][g] = Shelf!NoRow THEN x ELSE shelfRow[t][g])
    OBVIOUS
  <2>4. shelfRow[t][g] \in Rows /\ Whole(shelfRow[t][g])
    BY <2>1, RowIsTyped DEF ShelfTypes, WholeRows
  <2>5. y.origin # "none"
    BY <2>2, <2>3, <2>4 DEF Whole
  <2>6. PICK mid : mid = [shelfRow EXCEPT ![t][f] = Shelf!NoRow]
    OBVIOUS
  <2>7. shelfRow' = [mid EXCEPT ![t][g] = y]
    BY <1>8, <2>2, <2>3, <2>6
  <2>8. mid \in [Titles -> [Folders -> Rows]]
        /\ \A v \in Titles, h \in Folders :
             mid[v][h] = IF v = t /\ h = f THEN Shelf!NoRow ELSE shelfRow[v][h]
    BY <1>6, <2>6 DEF ShelfTypes, ShelfShape
  <2>9. \A v \in Titles, h \in Folders :
          shelfRow'[v][h] = IF v = t /\ h = g THEN y ELSE mid[v][h]
    BY <2>1, <2>7, <2>8
  <2>10. \A v \in Titles, h \in Folders :
           /\ v = t /\ h = g => shelfRow'[v][h].origin # "none"
           /\ ~(v = t /\ h = g) /\ v = t /\ h = f => shelfRow'[v][h] = Shelf!NoRow
           /\ ~(v = t /\ h = g) /\ ~(v = t /\ h = f) => shelfRow'[v][h] = shelfRow[v][h]
    BY <2>5, <2>8, <2>9
  <2>11. WholeRows'
    BY <2>10 DEF ShelfTypes, WholeRows, Whole
  <2>12. \A r \in sweep' : r.title \in Titles /\ r.folder \in Folders
    BY <1>4 DEF ShelfTypes, ShelfShape, Missed
  <2>13. SweptOK'
    BY <1>4, <2>10, <2>12 DEF ShelfTypes, SweptOK
  <2> QED
    BY <2>11, <2>13
<1>9. CASE Shelf!Set(t, f, [shelfRow[t][f] EXCEPT !.missing = "recently"])
  BY <1>4, <1>5, <1>7, <1>9, SettingKeepsWhole DEF ShelfTypes, Whole
<1>10. CASE UNCHANGED shelfRow
  BY <1>4, <1>10 DEF ShelfTypes, WholeRows, SweptOK
<1>11. CASE Shelf!Set(t, f, Shelf!NoRow)
  BY <1>4, <1>6, <1>11, SettingKeepsWhole DEF ShelfTypes
<1> QED
  BY <1>1, <1>3, <1>8, <1>9, <1>10, <1>11

LEMMA ShelfTyped == Spec => [](focus = "shelf" => Shelf!TypeOK)
<1> DEFINE I == focus = "shelf" => ShelfTypes
<1>1. ASSUME Shelf!Init PROVE ShelfTypes
  <2>1. WholeRows /\ SweptOK /\ shelfMounted \in BOOLEAN
    BY <1>1 DEF Shelf!Init, WholeRows, Whole, SweptOK
  <2> QED
    BY <1>1, <2>1, ShelfInit DEF ShelfTypes, ShelfSound
<1>2. ASSUME ShelfTypes, Shelf!Next \/ UNCHANGED Shelf!vars PROVE ShelfTypes'
  <2>1. ShelfShape' /\ Shelf!DecisionsStand'
    BY <1>2, ShelfNext DEF ShelfTypes, ShelfSound
  <2>3. WholeRows' /\ SweptOK'
    <3>1. \/ UNCHANGED <<shelfRow, sweep>> \/ Shelf!Reconcile \/ Shelf!ReconcileBegins
          \/ \E t \in Titles : Shelf!FileDownload(t) \/ Shelf!FileMatched(t)
          \/ \E t \in Titles, f \in Folders :
               \/ Shelf!Associate(t, f) \/ Shelf!EditOffsets(t, f) \/ Shelf!Reject(t, f)
               \/ Shelf!Restore(t, f) \/ Shelf!MonthPasses(t, f)
               \/ \E u \in Titles, g \in Folders : Shelf!EditPair(t, f, u, g)
      BY <1>2 DEF Shelf!Next, Shelf!vars, Shelf!Mount, Shelf!Rename, Shelf!Delete
    <3>2. CASE UNCHANGED <<shelfRow, sweep>>
      BY <1>2, <3>2 DEF ShelfTypes, WholeRows, SweptOK
    <3> QED
      BY <1>2, <3>1, <3>2, DownloadKeepsWhole, OnePairKeepsWhole, EditPairKeepsWhole,
         ReconcileBeginsKeepsWhole, ReconcileKeepsWhole
  <2>4. shelfMounted' \in BOOLEAN
    <3>1. \/ UNCHANGED shelfMounted
          \/ Shelf!Mount
      <4>1. \A t \in Titles : Shelf!FileDownload(t) \/ Shelf!FileMatched(t) => UNCHANGED shelfMounted
        BY DEF Shelf!FileDownload, Shelf!FileMatched
      <4>2. \A t \in Titles, f \in Folders :
              (\/ Shelf!Associate(t, f) \/ Shelf!EditOffsets(t, f) \/ Shelf!Reject(t, f)
               \/ Shelf!Restore(t, f) \/ Shelf!MonthPasses(t, f))
              => UNCHANGED shelfMounted
        BY DEF Shelf!Associate, Shelf!EditOffsets, Shelf!Reject, Shelf!Restore, Shelf!MonthPasses
      <4>3. \A t, u \in Titles, f, g \in Folders :
              Shelf!EditPair(t, f, u, g) => UNCHANGED shelfMounted
        BY DEF Shelf!EditPair
      <4>4. Shelf!ReconcileBegins \/ Shelf!Reconcile => UNCHANGED shelfMounted
        BY DEF Shelf!ReconcileBegins, Shelf!Reconcile
      <4>5. \A f, g \in Folders : Shelf!Rename(f, g) \/ Shelf!Delete(f) => UNCHANGED shelfMounted
        BY DEF Shelf!Rename, Shelf!Delete
      <4> QED
        BY <1>2, <4>1, <4>2, <4>3, <4>4, <4>5 DEF Shelf!Next, Shelf!vars
    <3>2. Shelf!Mount => shelfMounted' \in BOOLEAN
      BY DEF Shelf!Mount
    <3> QED
      BY <1>2, <3>1, <3>2 DEF ShelfTypes
  <2> QED
    BY <2>1, <2>3, <2>4 DEF ShelfTypes
<1>3. ASSUME ShelfTypes PROVE Shelf!TypeOK
  <2>1. ASSUME NEW t \in Titles, NEW f \in Folders
        PROVE  /\ shelfRow[t][f].origin \in Shelf!Origins
               /\ shelfRow[t][f].missing \in {"no", "recently", "long"}
               /\ shelfRow[t][f].anchor \in Titles \cup {Shelf!Unknown}
               /\ shelfRow[t][f].origin = "none" => shelfRow[t][f] = Shelf!NoRow
    BY <1>3, RowIsTyped DEF ShelfTypes, Rows, WholeRows, Whole
  <2>2. \A f \in Folders : shelfDisk[f] = Shelf!Gone \/ shelfDisk[f] \subseteq Titles
    BY <1>3 DEF ShelfTypes, ShelfShape
  <2> QED
    BY <1>3, <2>1, <2>2 DEF ShelfTypes, ShelfShape, Shelf!TypeOK
<1>4. Init => I
  BY <1>1 DEF Init
<1>5. I /\ [Next]_vars => I'
  BY <1>2 DEF Next, vars, Shelf!vars
<1> QED
  BY <1>3, <1>4, <1>5, PTL DEF Spec

-----------------------------------------------------------------------------

(***************************************************************************)
(* Accounts: until the panel is connected nobody is imported, so nobody is *)
(* signed in and the only requests in progress are those of the wizard;    *)
(* once it is, somebody stays imported.                                    *)
(***************************************************************************)
authMode == v1
jellyfin == v2
users == v3
sessions == v4
openDoor == v5
calls == v6
USE DEF authMode, jellyfin, users, sessions, openDoor, calls

Accounts == [enabled : BOOLEAN, manages : BOOLEAN, imported : BOOLEAN]
Wizard ==
  [op : {"setup", "connect"}, stage : {"jellyfin", "known"}, who : Persons, server : Servers,
   first : BOOLEAN]
SignIn == [op : {"signin"}, stage : {"jellyfin", "known"}, who : Persons]
Entry == [op : {"enter"}, who : Persons]
Update ==
  [op : {"update"}, target : Persons, manages : {People!Keep, "yes", "no"},
   enabled : {People!Keep, "yes", "no"}]
Import == [op : {"import"}, manages : BOOLEAN]

PeopleShape ==
  /\ users \in [Persons -> Accounts]
  /\ DOMAIN sessions = Persons
  /\ calls \in [Calls -> {People!Idle} \cup Wizard \cup SignIn \cup Entry \cup Update \cup Import]

NobodyIn ==
  /\ People!Imported = {} /\ jellyfin = People!Unset
  /\ \A p \in Persons : sessions[p] = 0
  /\ \A c \in Calls : calls[c].op \in {"none", "setup", "connect"}

PeopleInv ==
  /\ PeopleShape
  /\ authMode # "jellyfin" => NobodyIn
  /\ authMode = "jellyfin" => People!Imported # {}


LEMMA PeopleInit == People!Init => PeopleInv
BY DEF People!Init, PeopleInv, PeopleShape, NobodyIn, People!Imported, People!NoUser, Accounts,
       People!Idle

(* What a request may be replaced by.                                      *)
LEMMA CallIs ==
  ASSUME PeopleShape, NEW c \in Calls
  PROVE  /\ calls[c].op \in {"setup", "connect"} => calls[c] \in Wizard
         /\ calls[c].op = "signin" => calls[c] \in SignIn
         /\ calls[c].op = "enter" => calls[c] \in Entry
         /\ calls[c].op = "update" => calls[c] \in Update
         /\ calls[c].op = "import" => calls[c] \in Import
BY DEF PeopleShape, People!Idle, Wizard, SignIn, Entry, Update, Import

(* A request goes on, or ends: the accounts stay as they are.              *)
LEMMA CallKeeps ==
  ASSUME PeopleInv, NEW c \in Calls,
         NEW r \in {People!Idle} \cup Wizard \cup SignIn \cup Entry \cup Update \cup Import,
         calls' = [calls EXCEPT ![c] = r],
         UNCHANGED <<authMode, jellyfin, users, sessions>>,
         authMode = "jellyfin" \/ r.op \in {"none", "setup", "connect"}
  PROVE  PeopleInv' /\ People!ChoiceStands
BY DEF PeopleInv, PeopleShape, NobodyIn, People!Imported, People!ChoiceStands

(* The accounts change in a connected panel, and nobody leaves it.         *)
LEMMA AccountsKeep ==
  ASSUME PeopleInv, authMode = "jellyfin", PeopleShape',
         UNCHANGED <<authMode, jellyfin>>,
         \A p \in Persons : users[p].imported => users'[p].imported
  PROVE  PeopleInv' /\ People!ChoiceStands
BY DEF PeopleInv, NobodyIn, People!Imported, People!ChoiceStands

(* Nothing can be done by who is signed in while nobody is.                *)
LEMMA InMeansConnected ==
  ASSUME PeopleInv
  PROVE  /\ \A p \in Persons : sessions[p] > 0 => authMode = "jellyfin"
         /\ \A p \in Persons : People!MayManage(p) => authMode = "jellyfin"
         /\ jellyfin # People!Unset => authMode = "jellyfin"
         /\ \A c \in Calls : calls[c].op \notin {"none", "setup", "connect"}
                               => authMode = "jellyfin"
         /\ \A p \in Persons : users[p].imported => authMode = "jellyfin"
<1>1. CASE authMode = "jellyfin"
  BY <1>1
<1>2. CASE authMode # "jellyfin"
  <2>1. NobodyIn
    BY <1>2 DEF PeopleInv
  <2> QED
    BY <2>1 DEF NobodyIn, People!MayManage, People!SignedIn, People!Imported
<1> QED
  BY <1>1, <1>2

(* The wizard begins, or asks Jellyfin.                                    *)
LEMMA BeginningKeeps ==
  ASSUME PeopleInv, NEW c \in Calls,
         \/ People!SetupBegins(c) \/ People!ConnectBegins(c) \/ People!SignInBegins(c)
         \/ \E p \in Persons : People!UpdateBegins(c, p) \/ People!ImportBegins(c, p)
  PROVE  PeopleInv' /\ People!ChoiceStands
<1>1. CASE People!SetupBegins(c) \/ People!ConnectBegins(c)
  <2>1. UNCHANGED <<authMode, jellyfin, users, sessions>>
    BY <1>1 DEF People!SetupBegins, People!ConnectBegins, People!settings
  <2>2. PICK r \in Wizard : calls' = [calls EXCEPT ![c] = r]
    BY <1>1 DEF People!SetupBegins, People!ConnectBegins, People!Begins, Wizard
  <2>3. r.op \in {"none", "setup", "connect"}
    BY DEF Wizard
  <2> QED
    BY <2>1, <2>2, <2>3, CallKeeps
<1>2. CASE People!SignInBegins(c)
  <2>1. UNCHANGED <<authMode, jellyfin, users, sessions>> /\ jellyfin # People!Unset
    BY <1>2 DEF People!SignInBegins, People!settings
  <2>2. PICK r \in SignIn : calls' = [calls EXCEPT ![c] = r]
    BY <1>2 DEF People!SignInBegins, People!Begins, SignIn
  <2> QED
    BY <2>1, <2>2, CallKeeps, InMeansConnected
<1>3. ASSUME NEW p \in Persons, People!UpdateBegins(c, p) PROVE PeopleInv' /\ People!ChoiceStands
  <2>1. UNCHANGED <<authMode, jellyfin, users, sessions>> /\ People!MayManage(p)
    BY <1>3 DEF People!UpdateBegins, People!settings
  <2>2. PICK r \in Update : calls' = [calls EXCEPT ![c] = r]
    BY <1>3 DEF People!UpdateBegins, People!Begins, People!Imported, Update
  <2> QED
    BY <2>1, <2>2, CallKeeps, InMeansConnected
<1>4. ASSUME NEW p \in Persons, People!ImportBegins(c, p) PROVE PeopleInv' /\ People!ChoiceStands
  <2>1. UNCHANGED <<authMode, jellyfin, users, sessions>> /\ People!MayManage(p)
    BY <1>4 DEF People!ImportBegins, People!settings
  <2>2. PICK r \in Import : calls' = [calls EXCEPT ![c] = r]
    BY <1>4 DEF People!ImportBegins, People!Begins, Import
  <2> QED
    BY <2>1, <2>2, CallKeeps, InMeansConnected
<1> QED
  BY <1>1, <1>2, <1>3, <1>4

LEMMA AnswerKeeps ==
  ASSUME PeopleInv, NEW c \in Calls, People!JellyfinAnswers(c)
  PROVE  PeopleInv' /\ People!ChoiceStands
<1>1. UNCHANGED <<authMode, jellyfin, users, sessions>> /\ PeopleShape
  BY DEF People!JellyfinAnswers, People!settings, PeopleInv
<1>2. CASE People!Ends(c)
  BY <1>1, <1>2, CallKeeps DEF People!Ends, People!Idle
<1>3. CASE calls' = [calls EXCEPT ![c].stage = "known"]
  <2>1. calls[c] \in Wizard \/ calls[c] \in SignIn
    BY <1>1, CallIs DEF People!JellyfinAnswers
  <2>2. PICK r \in Wizard \cup SignIn : /\ r = [calls[c] EXCEPT !.stage = "known"]
                                       /\ r.op = calls[c].op
    <3>1. \A w \in Wizard : [w EXCEPT !.stage = "known"] \in Wizard
                            /\ [w EXCEPT !.stage = "known"].op = w.op
      BY DEF Wizard
    <3>2. \A w \in SignIn : [w EXCEPT !.stage = "known"] \in SignIn
                            /\ [w EXCEPT !.stage = "known"].op = w.op
      BY DEF SignIn
    <3> QED
      BY <2>1, <3>1, <3>2
  <2>3. calls' = [calls EXCEPT ![c] = r]
    BY <1>3, <2>2
  <2>4. authMode = "jellyfin" \/ r.op \in {"none", "setup", "connect"}
    BY <2>2 DEF PeopleInv, NobodyIn
  <2> QED
    BY <1>1, <2>2, <2>3, <2>4, CallKeeps
<1> QED
  BY <1>2, <1>3 DEF People!JellyfinAnswers

(* The panel is connected, by a request of c.                              *)
LEMMA ConnectedKeeps ==
  ASSUME PeopleInv, NEW c \in Calls, calls[c] \in Wizard,
         NEW account \in Accounts, account.imported, People!Connected(c, account),
         authMode = "jellyfin" => calls[c].op = "connect" /\ ~calls[c].first
  PROVE  PeopleInv' /\ People!ChoiceStands
<1>1. PICK p \in Persons : p = calls[c].who
  BY DEF Wizard
<1>2. /\ authMode' = "jellyfin" /\ users' = [users EXCEPT ![p] = account]
      /\ sessions' = sessions
  BY <1>1 DEF People!Connected
<1>3. PICK r \in Entry : r.op = "enter" /\ calls' = [calls EXCEPT ![c] = r]
  BY <1>1 DEF People!Connected, People!Enters, Entry
<1>4. PeopleShape'
  BY <1>2, <1>3 DEF PeopleInv, PeopleShape
<1>5. p \in People!Imported'
  BY <1>2 DEF People!Imported, PeopleInv, PeopleShape
<1>6. calls'[c].op = "enter"
  BY <1>3 DEF PeopleInv, PeopleShape
<1> QED
  BY <1>2, <1>4, <1>5, <1>6 DEF PeopleInv, People!ChoiceStands

LEMMA CommitKeeps ==
  ASSUME PeopleInv, NEW c \in Calls, People!SetupCommits(c) \/ People!ConnectCommits(c)
  PROVE  PeopleInv' /\ People!ChoiceStands
<1>1. calls[c] \in Wizard /\ PeopleShape
  BY CallIs DEF People!SetupCommits, People!ConnectCommits, PeopleInv
<1>2. People!User(TRUE, TRUE) \in Accounts /\ People!User(TRUE, TRUE).imported
  BY DEF People!User, Accounts
<1>3. ASSUME People!Ends(c), UNCHANGED <<People!settings, users, sessions>>
      PROVE  PeopleInv' /\ People!ChoiceStands
  BY <1>3, CallKeeps DEF People!Ends, People!settings, People!Idle
<1>4. CASE People!SetupCommits(c)
  <2>1. CASE People!Imported # {}
    BY <1>3, <1>4, <2>1 DEF People!SetupCommits
  <2>2. CASE People!Imported = {}
    BY <1>1, <1>2, <1>4, <2>2, ConnectedKeeps DEF People!SetupCommits, PeopleInv
  <2> QED
    BY <2>1, <2>2
<1>5. CASE People!ConnectCommits(c)
  <2>1. CASE calls[c].first /\ authMode = "jellyfin"
    BY <1>3, <1>5, <2>1 DEF People!ConnectCommits
  <2>2. CASE ~(calls[c].first /\ authMode = "jellyfin")
    <3>1. PICK p \in Persons : p = calls[c].who
      BY <1>1 DEF Wizard
    <3>2. People!KnownRow(p) \in Accounts /\ People!KnownRow(p).imported
      BY <1>1, <1>2 DEF People!KnownRow, PeopleShape
    <3> QED
      BY <1>1, <1>5, <2>2, <3>1, <3>2, ConnectedKeeps DEF People!ConnectCommits
  <2> QED
    BY <2>1, <2>2
<1> QED
  BY <1>4, <1>5

LEMMA SkipKeeps ==
  ASSUME PeopleInv, People!Skip
  PROVE  PeopleInv' /\ People!ChoiceStands
<1>1. /\ authMode = "none" /\ authMode' = "open"
      /\ UNCHANGED <<jellyfin, users, sessions, openDoor, calls>>
  BY DEF People!Skip
<1> QED
  BY <1>1 DEF PeopleInv, PeopleShape, NobodyIn, People!Imported, People!ChoiceStands

(* Somebody is let in.                                                     *)
LEMMA EntryKeeps ==
  ASSUME PeopleInv, NEW c \in Calls, People!Match(c) \/ People!Enter(c)
  PROVE  PeopleInv' /\ People!ChoiceStands
<1>1. /\ UNCHANGED <<authMode, jellyfin>> /\ PeopleShape /\ authMode = "jellyfin"
      /\ calls[c].op \in {"signin", "enter"}
  BY InMeansConnected DEF People!Match, People!Enter, People!settings, PeopleInv
<1>2. PICK p \in Persons : p = calls[c].who
  BY <1>1, CallIs DEF SignIn, Entry
<1>3. \/ People!Enters(c)
      \/ People!Ends(c)
  BY DEF People!Match, People!Enter
<1>4. calls' \in [Calls -> {People!Idle} \cup Wizard \cup SignIn \cup Entry \cup Update \cup Import]
  <2>1. PICK r \in {People!Idle} \cup Entry : calls' = [calls EXCEPT ![c] = r]
    BY <1>2, <1>3 DEF People!Enters, People!Ends, Entry
  <2> QED
    BY <1>1, <2>1 DEF PeopleShape
<1>5. /\ users' \in [Persons -> Accounts]
      /\ \A q \in Persons : users[q].imported => users'[q].imported
  <2>1. \A m \in BOOLEAN : People!User(TRUE, m) \in Accounts /\ People!User(TRUE, m).imported
    BY DEF People!User, Accounts
  <2>2. \/ \E m \in BOOLEAN : users' = [users EXCEPT ![p] = People!User(TRUE, m)]
        \/ users' = users
    BY <1>2 DEF People!Match, People!Enter
  <2> QED
    BY <1>1, <2>1, <2>2 DEF PeopleShape
<1>6. DOMAIN sessions' = Persons
  BY <1>1 DEF People!Match, People!Enter, PeopleShape
<1>7. PeopleShape'
  BY <1>4, <1>5, <1>6 DEF PeopleShape
<1> QED
  BY <1>1, <1>5, <1>7, AccountsKeep

(* An administrator changes an account, or imports some.                   *)
LEMMA AdministrationKeeps ==
  ASSUME PeopleInv, NEW c \in Calls,
         People!SetPermissions(c) \/ People!SetEnabled(c) \/ People!Import(c)
  PROVE  PeopleInv' /\ People!ChoiceStands
<1>1. /\ UNCHANGED <<authMode, jellyfin>> /\ PeopleShape /\ authMode = "jellyfin"
      /\ calls[c].op \in {"update", "import"}
  BY InMeansConnected DEF People!SetPermissions, People!SetEnabled, People!Import,
                          People!settings, PeopleInv
<1>2. CASE People!SetPermissions(c)
  <2>1. calls[c] \in Update /\ UNCHANGED sessions
    BY <1>1, <1>2, CallIs DEF People!SetPermissions
  <2>2. PICK q \in Persons, m \in BOOLEAN :
          q = calls[c].target /\ users' = [users EXCEPT ![q].manages = m]
    BY <1>2, <2>1 DEF People!SetPermissions, Update
  <2>3. PICK r \in Update : calls' = [calls EXCEPT ![c] = r]
    BY <1>2, <2>1 DEF People!SetPermissions, Update
  <2>4. PeopleShape' /\ \A p \in Persons : users[p].imported => users'[p].imported
    BY <1>1, <2>1, <2>2, <2>3 DEF PeopleShape, Accounts
  <2> QED
    BY <1>1, <2>4, AccountsKeep
<1>3. CASE People!SetEnabled(c)
  <2>1. calls[c] \in Update /\ calls' = [calls EXCEPT ![c] = People!Idle]
    BY <1>1, <1>3, CallIs DEF People!SetEnabled, People!Ends
  <2>2. DOMAIN sessions' = Persons
    BY <1>1, <1>3 DEF People!SetEnabled, PeopleShape
  <2>3. \/ users' = users
        \/ \E q \in Persons, m \in BOOLEAN : users' = [users EXCEPT ![q].enabled = m]
    BY <1>3, <2>1 DEF People!SetEnabled, Update
  <2>4. PeopleShape' /\ \A p \in Persons : users[p].imported => users'[p].imported
    BY <1>1, <2>1, <2>2, <2>3 DEF PeopleShape, Accounts
  <2> QED
    BY <1>1, <2>4, AccountsKeep
<1>4. CASE People!Import(c)
  <2>1. calls[c] \in Import /\ calls' = [calls EXCEPT ![c] = People!Idle] /\ UNCHANGED sessions
    BY <1>1, <1>4, CallIs DEF People!Import, People!Ends
  <2>2. People!User(TRUE, calls[c].manages) \in Accounts
    BY <2>1 DEF People!User, Accounts, Import
  <2>3. PICK new \in SUBSET Persons :
          users' = [p \in Persons |-> IF p \in new \ People!Imported
                                      THEN People!User(TRUE, calls[c].manages) ELSE users[p]]
    BY <1>4 DEF People!Import
  <2>4. PeopleShape' /\ \A p \in Persons : users[p].imported => users'[p].imported
    BY <1>1, <2>1, <2>2, <2>3 DEF PeopleShape, People!Imported
  <2> QED
    BY <1>1, <2>4, AccountsKeep
<1> QED
  BY <1>2, <1>3, <1>4

(* Sessions end, or the door is opened and closed.                         *)
LEMMA LeavingKeepsPeople ==
  ASSUME PeopleInv,
         \/ \E p \in Persons : People!LeaveOne(p) \/ People!SetDoor(p)
         \/ \E p, t \in Persons : People!RevokeSessions(p, t)
  PROVE  PeopleInv' /\ People!ChoiceStands
<1>1. UNCHANGED <<authMode, jellyfin, users, calls>>
  BY DEF People!LeaveOne, People!SetDoor, People!RevokeSessions, People!settings
<1>2. authMode = "jellyfin"
  BY InMeansConnected DEF People!LeaveOne, People!SetDoor, People!RevokeSessions
<1>3. DOMAIN sessions' = Persons
  BY DEF People!LeaveOne, People!SetDoor, People!RevokeSessions, PeopleInv, PeopleShape
<1>4. PeopleShape'
  BY <1>1, <1>3 DEF PeopleInv, PeopleShape
<1> QED
  BY <1>1, <1>2, <1>4, AccountsKeep

LEMMA PeopleNext ==
  ASSUME PeopleInv, People!Next \/ UNCHANGED People!vars
  PROVE  PeopleInv' /\ People!ChoiceStands
<1>1. ASSUME NEW c \in Calls,
             \/ People!SetupBegins(c) \/ People!ConnectBegins(c) \/ People!SignInBegins(c)
             \/ People!JellyfinAnswers(c) \/ People!SetupCommits(c) \/ People!ConnectCommits(c)
             \/ People!Match(c) \/ People!Enter(c) \/ People!SetPermissions(c)
             \/ People!SetEnabled(c) \/ People!Import(c)
             \/ \E p \in Persons : People!UpdateBegins(c, p) \/ People!ImportBegins(c, p)
      PROVE  PeopleInv' /\ People!ChoiceStands
  BY <1>1, BeginningKeeps, AnswerKeeps, CommitKeeps, EntryKeeps, AdministrationKeeps
<1>2. CASE UNCHANGED People!vars
  BY <1>2 DEF People!vars, PeopleInv, PeopleShape, NobodyIn, People!Imported,
              People!ChoiceStands
<1> QED
  BY <1>1, <1>2, SkipKeeps, LeavingKeepsPeople DEF People!Next

(* Of the setups, skips and first connections that race one stands, and as *)
(* long as the panel is open it has no accounts and no sessions (setup(),  *)
(* skip() and connect_jellyfin() of app/auth): FirstSetupStands.           *)
THEOREM OneFirstSetupStands == Spec => FirstSetupStands
<1> DEFINE I == focus = "people" => PeopleInv
           O == focus = "people" => People!OpenHasNoAccounts
           A == focus = "people" => People!ChoiceStands
<1>1. Init => I
  BY PeopleInit DEF Init
<1>2. I /\ [Next]_vars => I' /\ [A]_vars
  BY PeopleNext DEF Next, vars, People!vars
<1>3. I => O
  BY DEF PeopleInv, NobodyIn, People!OpenHasNoAccounts
<1> QED
  BY <1>1, <1>2, <1>3, PTL DEF Spec, FirstSetupStands

(***************************************************************************)
(* The types of the accounts: the rest of PeopleShape.                     *)
(***************************************************************************)
PeopleTypes ==
  /\ authMode \in {"none", "open", "jellyfin"} /\ jellyfin \in Servers \cup {People!Unset}
  /\ sessions \in [Persons -> 0..MaxSessions] /\ openDoor \in BOOLEAN

LEMMA PeopleTypesKept ==
  ASSUME PeopleInv, PeopleTypes, People!Next \/ UNCHANGED People!vars
  PROVE  PeopleTypes'
<1>1. MaxSessions \in Nat
  BY BoundsAssumption
<1>2. ASSUME NEW c \in Calls,
             \/ People!SetupBegins(c) \/ People!ConnectBegins(c) \/ People!SignInBegins(c)
             \/ People!JellyfinAnswers(c) \/ People!SetPermissions(c) \/ People!Import(c)
             \/ People!Match(c)
             \/ \E p \in Persons : People!UpdateBegins(c, p) \/ People!ImportBegins(c, p)
      PROVE  PeopleTypes'
  <2>1. UNCHANGED <<People!settings, sessions>>
    BY <1>2 DEF People!SetupBegins, People!ConnectBegins, People!SignInBegins,
         People!JellyfinAnswers, People!SetPermissions, People!Import, People!Match,
         People!UpdateBegins, People!ImportBegins
  <2> QED
    BY <2>1 DEF PeopleTypes, People!settings
<1>3. ASSUME NEW c \in Calls, People!SetupCommits(c) \/ People!ConnectCommits(c)
      PROVE  PeopleTypes'
  <2>1. calls[c].server \in Servers
    BY <1>3, CallIs DEF People!SetupCommits, People!ConnectCommits, PeopleInv, Wizard
  <2>2. \/ UNCHANGED <<People!settings, sessions>>
        \/ /\ authMode' = "jellyfin" /\ jellyfin' = calls[c].server
           /\ UNCHANGED <<sessions, openDoor>>
    BY <1>3 DEF People!SetupCommits, People!ConnectCommits, People!Connected
  <2> QED
    BY <2>1, <2>2 DEF PeopleTypes, People!settings
<1>4. ASSUME NEW c \in Calls, People!Enter(c) \/ People!SetEnabled(c)
      PROVE  PeopleTypes'
  <2>1. UNCHANGED People!settings
    BY <1>4 DEF People!Enter, People!SetEnabled
  <2>2. sessions' \in [Persons -> 0..MaxSessions]
    BY <1>1, <1>4 DEF People!Enter, People!SetEnabled, PeopleTypes
  <2> QED
    BY <2>1, <2>2 DEF PeopleTypes, People!settings
<1>5. ASSUME NEW p \in Persons, People!LeaveOne(p) \/ People!SetDoor(p)
      PROVE  PeopleTypes'
  <2>1. CASE People!LeaveOne(p)
    <3>1. UNCHANGED People!settings /\ sessions[p] \in 1..MaxSessions
      BY <1>1, <2>1 DEF People!LeaveOne, PeopleTypes
    <3>2. sessions' \in [Persons -> 0..MaxSessions]
      BY <1>1, <2>1, <3>1 DEF People!LeaveOne, PeopleTypes
    <3> QED
      BY <3>1, <3>2 DEF PeopleTypes, People!settings
  <2>2. CASE People!SetDoor(p)
    BY <2>2 DEF People!SetDoor, PeopleTypes
  <2> QED
    BY <1>5, <2>1, <2>2
<1>6. ASSUME NEW p \in Persons, NEW t \in Persons, People!RevokeSessions(p, t)
      PROVE  PeopleTypes'
  BY <1>1, <1>6 DEF People!RevokeSessions, PeopleTypes, People!settings
<1>7. CASE People!Skip \/ UNCHANGED People!vars
  BY <1>7 DEF People!Skip, People!vars, PeopleTypes
<1> QED
  BY <1>2, <1>3, <1>4, <1>5, <1>6, <1>7 DEF People!Next

LEMMA PeopleTyped == Spec => [](focus = "people" => People!TypeOK)
<1> DEFINE I == focus = "people" => PeopleInv /\ PeopleTypes
           O == focus = "people" => People!TypeOK
<1>1. Init => I
  <2>1. People!Init => PeopleTypes
    <3>1. 0 \in 0..MaxSessions
      BY BoundsAssumption
    <3>2. People!Init => sessions \in [Persons -> 0..MaxSessions]
      BY <3>1 DEF People!Init
    <3> QED
      BY <3>2 DEF People!Init, PeopleTypes
  <2> QED
    BY <2>1, PeopleInit DEF Init
<1>2. I /\ [Next]_vars => I'
  BY PeopleNext, PeopleTypesKept DEF Next, vars, People!vars
<1>3. I => O
  BY DEF PeopleInv, PeopleShape, PeopleTypes, People!TypeOK, Accounts, People!Idle, Wizard,
         SignIn, Entry, Update, Import
<1> QED
  BY <1>1, <1>2, <1>3, PTL DEF Spec

-----------------------------------------------------------------------------

(***************************************************************************)
(* SourceDomain: a file that is not torn is the one last completed, unless *)
(* a crash has emptied it; who dumps holds the lock, and what he dumps is  *)
(* that file but for the key he changes.  A save of settings that is not   *)
(* stale has read that file, and no other save was written since.  And as  *)
(* long as nobody has asked for the domain to be adopted, nothing that is  *)
(* read, under way or about to be written says it may be, nor names a      *)
(* domain that nobody has chosen.                                          *)
(***************************************************************************)
dataFile == v1
fileLock == v2
candidate == v3
throttled == v4
calling == v5
crashes == v6
whole == v7
lost == v8
stale == v9
asked == v10
chosen == v11
USE DEF dataFile, fileLock, candidate, throttled, calling, crashes, whole, lost, stale, asked,
        chosen

Domains == Hosts \cup {Domain!None}
SettingValues == [Domain!Settings -> BOOLEAN]
DataFiles ==
  [state : {"complete"}, domain : Domains, libraries : {"unset", "set"},
   settings : SettingValues]
Writes ==
  [op : {"write"}, key : {"settings"}, sent : Domain!Settings, value : SettingValues,
   next : {"none"}]
    \cup [op : {"write"}, key : {"libraries"}, value : {"set"}, next : {"none", "forget"}]
    \cup [op : {"write"}, key : {"domain"}, value : Domains, next : {"none", "forget"}]
Dumps == [op : {"dump"}, of : Writes, data : DataFiles]
Checks ==
  [op : {"mark", "check"}, current : Domains, force : BOOLEAN]
    \cup [op : {"decide", "adopt"}, host : Domains]
Ends == [op : {"none", "forget"}]

DomainShape ==
  /\ dataFile \in DataFiles \cup {Domain!Torn} /\ whole \in DataFiles
  /\ fileLock \in Calls \cup {Domain!None} /\ candidate \in Domains
  /\ calling \in [Calls -> Ends \cup Checks \cup Writes \cup Dumps]
  /\ lost \in BOOLEAN /\ asked \in BOOLEAN /\ stale \subseteq Calls

ButForKey(key, data) == \A other \in Domain!Keys \ {key} : data[other] = whole[other]

DataFileOK ==
  /\ dataFile # Domain!Torn /\ ~lost => dataFile = whole
  /\ dataFile = Domain!Torn => lost \/ fileLock # Domain!None
  /\ lost => dataFile = Domain!Torn
  /\ \A c \in Calls : calling[c].op = "dump" =>
       fileLock = c /\ (~lost => ButForKey(calling[c].of.key, calling[c].data))

(* What a save of settings writes for the ones it was not sent.            *)
Kept(setting, value) ==
  \A s \in Domain!Settings \ {setting} : value[s] = whole.settings[s]

SavesOK ==
  \A c \in Calls :
    /\ calling[c].op = "write" /\ calling[c].key = "settings" /\ c \notin stale =>
         ~lost /\ Kept(calling[c].sent, calling[c].value)
    /\ calling[c].op = "dump" /\ calling[c].of.key = "settings" =>
         /\ calling[c].data.settings = calling[c].of.value
         /\ c \notin stale => Kept(calling[c].of.sent, calling[c].of.value)

ChosenOnly ==
  /\ Domain!None \in chosen
  /\ dataFile # Domain!Torn => dataFile.domain \in chosen /\ ~dataFile.settings["auto"]
  /\ \A c \in Calls :
       /\ calling[c].op = "dump" =>
            calling[c].data.domain \in chosen /\ ~calling[c].data.settings["auto"]
       /\ calling[c].op = "write" /\ calling[c].key = "settings" => ~calling[c].value["auto"]
       /\ calling[c].op = "write" /\ calling[c].key = "domain" => calling[c].value \in chosen
       /\ calling[c].op = "adopt" => calling[c].host \in chosen

DomainInv == DomainShape /\ DataFileOK /\ SavesOK /\ (~asked => ChosenOnly)


LEMMA DomainInit == Domain!Init => DomainInv
<1> SUFFICES ASSUME Domain!Init PROVE DomainInv
  OBVIOUS
<1>1. /\ dataFile = Domain!Empty /\ whole = Domain!Empty /\ lost = FALSE /\ asked = FALSE
      /\ stale = {} /\ fileLock = Domain!None /\ candidate = Domain!None /\ chosen = {Domain!None}
      /\ calling = [c \in Calls |-> Domain!Idle]
  BY DEF Domain!Init
<1>2. /\ Domain!Empty \in DataFiles /\ Domain!Empty.domain = Domain!None
      /\ ~Domain!Empty.settings["auto"] /\ Domain!Empty # Domain!Torn
  BY DEF Domain!Empty, Domain!Defaults, Domain!Settings, SettingValues, DataFiles, Domains,
         Domain!Torn
<1>3. Domain!Idle \in Ends /\ Domain!Idle.op = "none"
  BY DEF Domain!Idle, Ends
<1>4. DomainShape
  BY <1>1, <1>2, <1>3 DEF DomainShape, Domains
<1>5. DataFileOK /\ SavesOK /\ ChosenOnly
  BY <1>1, <1>2, <1>3 DEF DataFileOK, SavesOK, ChosenOnly
<1> QED
  BY <1>4, <1>5 DEF DomainInv

(* What a reader without the lock takes the file for.                      *)
LEMMA ReadingIsTyped ==
  ASSUME DomainInv
  PROVE  /\ Domain!ReadData \in DataFiles /\ Domain!ReadData # Domain!Torn
         /\ ~asked => ~Domain!ReadData.settings["auto"] /\ Domain!ReadData.domain \in chosen
         /\ dataFile # Domain!Torn => Domain!ReadData = dataFile
<1>1. /\ Domain!Empty \in DataFiles /\ Domain!Empty.domain = Domain!None
      /\ ~Domain!Empty.settings["auto"] /\ Domain!Empty # Domain!Torn
  BY DEF Domain!Empty, Domain!Defaults, Domain!Settings, SettingValues, DataFiles, Domains,
         Domain!Torn
<1> QED
  BY <1>1 DEF DomainInv, DomainShape, ChosenOnly, Domain!ReadData

(* A step of one call that only that call and what is asked, chosen and    *)
(* proposed may differ by.                                                 *)
LEMMA CallMoves ==
  ASSUME DomainInv, NEW c \in Calls, NEW r \in Ends \cup Checks \cup Writes,
         calling[c].op # "dump", calling' = [calling EXCEPT ![c] = r],
         UNCHANGED <<dataFile, fileLock, whole, lost>>,
         candidate' \in Domains, asked' \in BOOLEAN, asked => asked', chosen \subseteq chosen',
         stale' \subseteq Calls, stale \ {c} \subseteq stale',
         r.op = "write" /\ r.key = "settings" => c \in stale' \/ (~lost /\ Kept(r.sent, r.value)),
         ~asked' => /\ r.op = "write" /\ r.key = "settings" => ~r.value["auto"]
                    /\ r.op = "write" /\ r.key = "domain" => r.value \in chosen'
                    /\ r.op = "adopt" => r.host \in chosen'
  PROVE  DomainInv'
<1>1. calling'[c] = r /\ \A b \in Calls \ {c} : calling'[b] = calling[b]
  BY DEF DomainInv, DomainShape
<1>2. r.op # "dump"
  BY DEF Ends, Checks, Writes
<1>3. DomainShape'
  BY DEF DomainInv, DomainShape
<1>4. DataFileOK'
  BY <1>1, <1>2 DEF DomainInv, DataFileOK, ButForKey
<1>5. ~asked' => ChosenOnly'
  BY <1>1, <1>2 DEF DomainInv, ChosenOnly
<1>6. SavesOK'
  BY <1>1, <1>2 DEF DomainInv, SavesOK, Kept
<1> QED
  BY <1>3, <1>4, <1>5, <1>6 DEF DomainInv

LEMMA LockTaken ==
  ASSUME DomainInv, NEW c \in Calls, Domain!Lock(c)
  PROVE  DomainInv'
<1>1. PICK w \in Writes : w = calling[c]
  BY DEF Domain!Lock, DomainInv, DomainShape, Ends, Checks, Dumps
<1>2. /\ fileLock = Domain!None /\ fileLock' = c /\ dataFile' = Domain!Torn
      /\ UNCHANGED <<candidate, whole, lost, stale, asked, chosen>>
  BY DEF Domain!Lock, Domain!history
<1>3. PICK data : data = [Domain!ReadData EXCEPT ![w.key] = w.value]
  OBVIOUS
<1>4. calling' = [calling EXCEPT ![c] = [op |-> "dump", of |-> w, data |-> data]]
  BY <1>1, <1>3 DEF Domain!Lock, Domain!Does
<1>5. /\ data \in DataFiles
      /\ \A key \in Domain!Keys \ {w.key} : data[key] = Domain!ReadData[key]
      /\ w.key \in Domain!Keys
      /\ data.domain = IF w.key = "domain" THEN w.value ELSE Domain!ReadData.domain
      /\ data.settings = IF w.key = "settings" THEN w.value ELSE Domain!ReadData.settings
  BY <1>3, ReadingIsTyped DEF DataFiles, Writes, Domain!Keys
<1>6. PICK r \in Dumps : r = [op |-> "dump", of |-> w, data |-> data]
  BY <1>5 DEF Dumps, Writes
<1>7. r.op = "dump" /\ r.data = data /\ r.of = w /\ calling' = [calling EXCEPT ![c] = r]
  BY <1>4, <1>6
<1>8. calling'[c] = r /\ \A b \in Calls \ {c} : calling'[b] = calling[b]
  BY <1>7 DEF DomainInv, DomainShape
<1>9. DomainShape'
  BY <1>2, <1>6, <1>7 DEF DomainInv, DomainShape
<1>10. c # Domain!None
  BY CallsAssumption DEF Domain!None
<1>11. \A b \in Calls : calling[b].op # "dump"
  BY <1>2, CallsAssumption DEF DomainInv, DataFileOK, Domain!None
<1>12. ~lost => dataFile = whole /\ dataFile # Domain!Torn
  BY <1>2 DEF DomainInv, DomainShape, DataFileOK
<1>13. ~lost => ButForKey(w.key, data)'
  BY <1>2, <1>5, <1>12, ReadingIsTyped DEF ButForKey
<1>14. DataFileOK'
  <2>1. ASSUME NEW b \in Calls, calling'[b].op = "dump"
        PROVE  fileLock' = b /\ (~lost' => ButForKey(calling[b].of.key, calling[b].data)')
    <3>1. b = c
      BY <1>8, <1>11, <2>1
    <3>2. calling'[b].data = data /\ calling'[b].of.key = w.key
      BY <1>7, <1>8, <3>1
    <3> QED
      BY <1>2, <1>13, <3>1, <3>2 DEF ButForKey
  <2> QED
    BY <1>2, <1>10, <2>1 DEF DataFileOK
<1>15. ~asked' => ChosenOnly'
  <2> SUFFICES ASSUME ~asked' PROVE ChosenOnly'
    OBVIOUS
  <2>1. ~asked /\ ChosenOnly
    BY <1>2 DEF DomainInv
  <2>2. data.domain \in chosen /\ ~data.settings["auto"]
    BY <1>1, <1>5, <2>1, ReadingIsTyped DEF ChosenOnly, Writes
  <2> QED
    BY <1>2, <1>7, <1>8, <2>1, <2>2 DEF ChosenOnly
<1>16. SavesOK'
  <2>1. c \notin stale /\ w.key = "settings" => Kept(w.sent, w.value)
    BY <1>1 DEF Domain!Lock, DomainInv, SavesOK
  <2>2. w.key = "settings" => data.settings = w.value
    BY <1>5
  <2> QED
    BY <1>2, <1>7, <1>8, <2>1, <2>2 DEF DomainInv, SavesOK, Kept
<1> QED
  BY <1>9, <1>14, <1>15, <1>16 DEF DomainInv

LEMMA Dumped ==
  ASSUME DomainInv, NEW c \in Calls, Domain!Dump(c)
  PROVE  DomainInv' /\ Domain!OtherKeysAreKept
<1>1. PICK r \in Dumps : r = calling[c] /\ r.op = "dump"
  BY DEF Domain!Dump, DomainInv, DomainShape, Ends, Checks, Writes
<1>2. /\ dataFile' = r.data /\ whole' = r.data /\ lost' = FALSE /\ fileLock' = Domain!None
      /\ UNCHANGED <<candidate, asked, chosen>>
  BY <1>1 DEF Domain!Dump
<1>3. PICK e \in Ends : e = [op |-> r.of.next]
  BY <1>1 DEF Dumps, Writes, Ends
<1>4. e.op # "dump" /\ e.op # "write" /\ e.op # "adopt"
  BY <1>3 DEF Ends
<1>5. calling' = [calling EXCEPT ![c] = e]
  BY <1>1, <1>3 DEF Domain!Dump, Domain!Does
<1>6. calling'[c] = e /\ \A b \in Calls \ {c} : calling'[b] = calling[b]
  BY <1>5 DEF DomainInv, DomainShape
<1>7. r.data \in DataFiles /\ r.data # Domain!Torn /\ r.of.key \in Domain!Keys
  BY <1>1 DEF Dumps, DataFiles, Writes, Domain!Torn, Domain!Keys
<1>8. fileLock = c /\ (~lost => ButForKey(r.of.key, r.data))
  BY <1>1 DEF DomainInv, DataFileOK
<1>9. DomainShape'
  <2>1. stale' \subseteq Calls
    BY DEF Domain!Dump, DomainInv, DomainShape
  <2> QED
    BY <1>2, <1>3, <1>5, <1>7, <2>1 DEF DomainInv, DomainShape
<1>10. \A b \in Calls : calling'[b].op # "dump"
  BY <1>1, <1>4, <1>6, <1>8 DEF DomainInv, DataFileOK
<1>11. DataFileOK'
  BY <1>2, <1>7, <1>10 DEF DataFileOK
<1>12. ~asked' => ChosenOnly'
  <2> SUFFICES ASSUME ~asked' PROVE ChosenOnly'
    OBVIOUS
  <2>1. ~asked /\ ChosenOnly
    BY <1>2 DEF DomainInv
  <2>2. r.data.domain \in chosen /\ ~r.data.settings["auto"]
    BY <1>1, <2>1 DEF ChosenOnly
  <2> QED
    BY <1>2, <1>4, <1>6, <1>10, <2>1, <2>2 DEF ChosenOnly
<1>13. Domain!OtherKeysAreKept
  BY <1>2, <1>7, <1>8 DEF Domain!OtherKeysAreKept, ButForKey
<1>14. SavesOK'
  <2>1. stale' = IF r.of.key = "settings"
                 THEN {d \in Calls \ {c} : Domain!SavesSettings(d)} ELSE stale
    BY <1>1 DEF Domain!Dump
  <2> SUFFICES ASSUME NEW b \in Calls, calling'[b].op = "write", calling'[b].key = "settings",
                      b \notin stale'
               PROVE  ~lost' /\ Kept(calling[b].sent, calling[b].value)'
    BY <1>10 DEF SavesOK
  <2>2. b # c /\ calling'[b] = calling[b]
    BY <1>4, <1>6
  <2>3. r.of.key # "settings" /\ b \notin stale
    BY <2>1, <2>2 DEF Domain!SavesSettings
  <2>4. ~lost /\ Kept(calling[b].sent, calling[b].value)
    BY <2>2, <2>3 DEF DomainInv, SavesOK
  <2>5. r.data.settings = whole.settings
    BY <1>8, <2>3, <2>4 DEF ButForKey, Domain!Keys
  <2> QED
    BY <1>2, <2>2, <2>4, <2>5 DEF Kept
<1> QED
  BY <1>9, <1>11, <1>12, <1>13, <1>14 DEF DomainInv

(* The requests of the administrator and the steps of a check.             *)
LEMMA CallSteps ==
  ASSUME DomainInv, NEW c \in Calls,
         \/ Domain!SaveSettings(c) \/ Domain!SaveLibraries(c) \/ Domain!SetDomain(c)
         \/ Domain!Confirm(c) \/ Domain!CheckBegins(c) \/ Domain!Mark(c) \/ Domain!Check(c)
         \/ Domain!Decide(c) \/ Domain!Adopt(c) \/ Domain!Forget(c)
  PROVE  DomainInv' /\ dataFile' = dataFile
<1> DEFINE Moves(r) == calling[c].op # "dump" /\ calling' = [calling EXCEPT ![c] = r]
           Same == UNCHANGED <<dataFile, fileLock, whole, lost>>
<1>1. Domain!Idle \in Ends /\ Domain!Idle.op = "none"
  BY DEF Domain!Idle, Ends
<1>2. /\ Domain!ReadData \in DataFiles
      /\ ~asked => ~Domain!ReadData.settings["auto"] /\ Domain!ReadData.domain \in chosen
  BY ReadingIsTyped
<1>3. ASSUME NEW r, Domain!Starts(c, r) PROVE Moves(r)
  BY <1>1, <1>3 DEF Domain!Starts, Domain!Does
<1>4. candidate \in Domains /\ asked \in BOOLEAN /\ stale \subseteq Calls
  BY DEF DomainInv, DomainShape
<1>5. CASE Domain!SaveSettings(c)
  <2>1. PICK setting \in Domain!Settings, on \in BOOLEAN :
          /\ Domain!Starts(c, Domain!WriteSettings(setting, Domain!Merged(setting, on)))
          /\ asked' = (asked \/ (setting = "auto" /\ on))
    BY <1>5 DEF Domain!SaveSettings
  <2>2. PICK value : value = Domain!Merged(setting, on)
    OBVIOUS
  <2>3. /\ value \in SettingValues
        /\ \A s \in Domain!Settings \ {setting} : value[s] = Domain!ReadData.settings[s]
        /\ ~asked' => ~value["auto"]
    <3>1. Domain!ReadData.settings \in SettingValues
      BY <1>2 DEF DataFiles
    <3>2. value = [Domain!ReadData.settings EXCEPT ![setting] = on]
      BY <2>2 DEF Domain!Merged
    <3> QED
      BY <1>2, <1>4, <2>1, <3>1, <3>2 DEF SettingValues, Domain!Settings
  <2>4. PICK r \in Writes : r = Domain!WriteSettings(setting, value)
    BY <2>3 DEF Domain!WriteSettings, Writes
  <2>5. r.op = "write" /\ r.key = "settings" /\ r.sent = setting /\ r.value = value
    BY <2>4 DEF Domain!WriteSettings
  <2>6. Same /\ UNCHANGED <<candidate, chosen>>
    BY <1>5 DEF Domain!SaveSettings
  <2>7. Moves(r)
    BY <1>3, <2>1, <2>2, <2>4
  <2>8. stale' = IF dataFile = Domain!Torn THEN stale \cup {c} ELSE stale \ {c}
    BY <1>5 DEF Domain!SaveSettings
  <2>9. dataFile # Domain!Torn => ~lost /\ Kept(setting, value)
    <3>1. dataFile # Domain!Torn => ~lost /\ Domain!ReadData = whole
      BY ReadingIsTyped DEF DomainInv, DomainShape, DataFileOK
    <3> QED
      BY <2>3, <3>1 DEF Kept
  <2>10. /\ stale' \subseteq Calls /\ stale \ {c} \subseteq stale'
         /\ asked' \in BOOLEAN /\ (asked => asked')
    BY <1>4, <2>1, <2>8
  <2> QED
    BY <1>4, <2>3, <2>5, <2>6, <2>7, <2>8, <2>9, <2>10, CallMoves
<1>6. CASE Domain!SaveLibraries(c)
  <2>1. Domain!Starts(c, Domain!Write("libraries", "set", "none"))
    BY <1>6 DEF Domain!SaveLibraries
  <2>2. PICK r \in Writes : r = Domain!Write("libraries", "set", "none")
    BY DEF Domain!Write, Writes
  <2>3. r.op = "write" /\ r.key = "libraries"
    BY <2>2 DEF Domain!Write
  <2>4. Same /\ UNCHANGED <<candidate, stale, asked, chosen>>
    BY <1>6 DEF Domain!SaveLibraries, Domain!history
  <2>5. Moves(r)
    BY <1>3, <2>1, <2>2
  <2> QED
    BY <1>4, <2>3, <2>4, <2>5, CallMoves
<1>7. CASE Domain!SetDomain(c)
  <2>1. PICK h \in Hosts : /\ Domain!Starts(c, Domain!Write("domain", h, "none"))
                           /\ chosen' = chosen \cup {h}
    BY <1>7 DEF Domain!SetDomain
  <2>2. PICK r \in Writes : r = Domain!Write("domain", h, "none")
    BY DEF Domain!Write, Writes, Domains
  <2>3. r.op = "write" /\ r.key = "domain" /\ r.value = h
    BY <2>2 DEF Domain!Write
  <2>4. Same /\ UNCHANGED <<candidate, stale, asked>>
    BY <1>7 DEF Domain!SetDomain
  <2>5. Moves(r)
    BY <1>3, <2>1, <2>2
  <2> QED
    BY <1>4, <2>1, <2>3, <2>4, <2>5, CallMoves
<1>8. CASE Domain!Confirm(c)
  <2>1. /\ Domain!Starts(c, [op |-> "adopt", host |-> candidate])
        /\ chosen' = chosen \cup {candidate}
    BY <1>8 DEF Domain!Confirm
  <2>2. PICK r \in Checks : r = [op |-> "adopt", host |-> candidate]
    BY <1>4 DEF Checks
  <2>3. r.op = "adopt" /\ r.host = candidate
    BY <2>2
  <2>4. Same /\ UNCHANGED <<candidate, stale, asked>>
    BY <1>8 DEF Domain!Confirm
  <2>5. Moves(r)
    BY <1>3, <2>1, <2>2
  <2> QED
    BY <1>4, <2>1, <2>3, <2>4, <2>5, CallMoves
<1>9. CASE Domain!CheckBegins(c)
  <2>1. PICK f \in BOOLEAN :
          Domain!Starts(c, [op |-> "mark", current |-> Domain!ReadData.domain, force |-> f])
    BY <1>9 DEF Domain!CheckBegins
  <2>2. PICK r \in Checks : r = [op |-> "mark", current |-> Domain!ReadData.domain, force |-> f]
    BY <1>2 DEF Checks, DataFiles
  <2>3. r.op = "mark"
    BY <2>2
  <2>4. Same /\ UNCHANGED <<candidate, stale, asked, chosen>>
    BY <1>9 DEF Domain!CheckBegins, Domain!history
  <2>5. Moves(r)
    BY <1>3, <2>1, <2>2
  <2> QED
    BY <1>4, <2>3, <2>4, <2>5, CallMoves
<1>10. CASE Domain!Mark(c)
  <2>1. PICK k \in Checks : k = calling[c] /\ k.op = "mark"
    BY <1>10 DEF Domain!Mark, DomainInv, DomainShape, Ends, Writes, Dumps
  <2>2. PICK r \in Checks : r = [k EXCEPT !.op = "check"] /\ r.op = "check"
    <3>1. k \in [op : {"mark", "check"}, current : Domains, force : BOOLEAN]
      BY <2>1 DEF Checks
    <3>2. PICK r : r = [k EXCEPT !.op = "check"]
      OBVIOUS
    <3>3. r \in [op : {"mark", "check"}, current : Domains, force : BOOLEAN] /\ r.op = "check"
      BY <3>1, <3>2
    <3> QED
      BY <3>2, <3>3 DEF Checks
  <2>3. calling' = [calling EXCEPT ![c] = r]
    BY <1>10, <2>1, <2>2 DEF Domain!Mark, DomainInv, DomainShape
  <2>4. Same /\ UNCHANGED <<candidate, stale, asked, chosen>>
    BY <1>10 DEF Domain!Mark, Domain!history
  <2> QED
    BY <1>4, <2>1, <2>2, <2>3, <2>4, CallMoves
<1>11. CASE Domain!Check(c)
  <2>1. calling[c].op = "check" /\ Same /\ UNCHANGED <<stale, asked, chosen>>
    BY <1>11 DEF Domain!Check, Domain!history
  <2>2. candidate' \in Domains
    BY <1>4, <1>11 DEF Domain!Check, Domains
  <2>3. PICK r \in Ends \cup Checks : /\ calling' = [calling EXCEPT ![c] = r]
                                      /\ r.op = "none" \/ r.op = "decide"
    <3>1. CASE calling' = [calling EXCEPT ![c] = Domain!Idle]
      BY <1>1, <3>1
    <3>2. CASE \E h \in Hosts : calling' = [calling EXCEPT ![c] = [op |-> "decide", host |-> h]]
      <4>1. PICK h \in Hosts : calling' = [calling EXCEPT ![c] = [op |-> "decide", host |-> h]]
        BY <3>2
      <4>2. PICK r \in Checks : r = [op |-> "decide", host |-> h]
        BY DEF Checks, Domains
      <4>3. r.op = "decide"
        BY <4>2
      <4> QED
        BY <4>1, <4>2, <4>3
    <3> QED
      BY <1>11, <3>1, <3>2 DEF Domain!Check, Domain!Does, Domain!Candidates
  <2> QED
    BY <1>4, <2>1, <2>2, <2>3, CallMoves
<1>12. CASE Domain!Decide(c)
  <2>1. PICK k \in Checks : k = calling[c] /\ k.op = "decide" /\ k.host \in Domains
    BY <1>12 DEF Domain!Decide, DomainInv, DomainShape, Ends, Writes, Dumps, Checks
  <2>2. Same /\ UNCHANGED <<stale, asked, chosen>>
    BY <1>12 DEF Domain!Decide, Domain!history
  <2>3. CASE Domain!ReadData.settings["auto"]
    <3>1. asked
      BY <1>2, <2>3
    <3>2. PICK r \in Checks : r = [op |-> "adopt", host |-> k.host]
      BY <2>1 DEF Checks
    <3>3. calling' = [calling EXCEPT ![c] = r] /\ UNCHANGED candidate
      BY <1>12, <2>1, <2>3, <3>2 DEF Domain!Decide, Domain!Does
    <3>4. r.op = "adopt"
      BY <3>2
    <3> QED
      BY <1>4, <2>1, <2>2, <3>1, <3>3, <3>4, CallMoves
  <2>4. CASE ~Domain!ReadData.settings["auto"]
    <3>1. calling' = [calling EXCEPT ![c] = Domain!Idle] /\ candidate' = k.host
      BY <1>12, <2>1, <2>4 DEF Domain!Decide, Domain!Does
    <3> QED
      BY <1>1, <1>4, <2>1, <2>2, <3>1, CallMoves
  <2> QED
    BY <2>3, <2>4
<1>13. CASE Domain!Adopt(c)
  <2>1. PICK k \in Checks : k = calling[c] /\ k.op = "adopt" /\ k.host \in Domains
    BY <1>13 DEF Domain!Adopt, DomainInv, DomainShape, Ends, Writes, Dumps, Checks
  <2>2. Same /\ UNCHANGED <<candidate, stale, asked, chosen>>
    BY <1>13 DEF Domain!Adopt, Domain!history
  <2>3. ~asked => k.host \in chosen
    BY <2>1 DEF DomainInv, ChosenOnly
  <2>4. CASE calling' = [calling EXCEPT ![c] = Domain!Idle]
    BY <1>1, <1>4, <2>1, <2>2, <2>4, CallMoves
  <2>5. CASE calling' = [calling EXCEPT ![c] = Domain!Write("domain", k.host, "forget")]
    <3>1. PICK r \in Writes : r = Domain!Write("domain", k.host, "forget")
      BY <2>1 DEF Domain!Write, Writes
    <3>2. r.op = "write" /\ r.key = "domain" /\ r.value = k.host
      BY <3>1 DEF Domain!Write
    <3> QED
      BY <1>4, <2>1, <2>2, <2>3, <2>5, <3>1, <3>2, CallMoves
  <2> QED
    BY <1>13, <2>1, <2>4, <2>5 DEF Domain!Adopt, Domain!Does
<1>14. CASE Domain!Forget(c)
  <2>1. /\ calling[c].op = "forget" /\ calling' = [calling EXCEPT ![c] = Domain!Idle]
        /\ candidate' = Domain!None /\ Same /\ UNCHANGED <<stale, asked, chosen>>
    BY <1>14 DEF Domain!Forget, Domain!Does, Domain!history
  <2> QED
    BY <1>1, <1>4, <2>1, CallMoves DEF Domains
<1> QED
  BY <1>5, <1>6, <1>7, <1>8, <1>9, <1>10, <1>11, <1>12, <1>13, <1>14

(* A crash empties no file that was whole, but leaves a torn one torn.     *)
LEMMA Crashed == ASSUME DomainInv, Domain!Crash PROVE DomainInv' /\ dataFile' = dataFile
<1>1. /\ calling' = [c \in Calls |-> Domain!Idle] /\ fileLock' = Domain!None
      /\ candidate' = Domain!None /\ lost' = (lost \/ dataFile = Domain!Torn)
      /\ stale' = {}
      /\ UNCHANGED <<dataFile, whole, asked, chosen>>
  BY DEF Domain!Crash
<1>2. Domain!Idle \in Ends /\ Domain!Idle.op = "none"
  BY DEF Domain!Idle, Ends
<1>3. DomainShape'
  BY <1>1, <1>2 DEF DomainInv, DomainShape, Domains
<1>4. \A c \in Calls : calling'[c].op = "none"
  BY <1>1, <1>2
<1>5. DataFileOK'
  BY <1>1, <1>4 DEF DomainInv, DataFileOK
<1>6. ~asked' => ChosenOnly'
  BY <1>1, <1>4 DEF DomainInv, ChosenOnly
<1>7. SavesOK'
  BY <1>4 DEF SavesOK
<1> QED
  BY <1>1, <1>3, <1>5, <1>6, <1>7 DEF DomainInv

LEMMA DomainNext ==
  ASSUME DomainInv, Domain!Next \/ UNCHANGED Domain!vars
  PROVE  DomainInv' /\ Domain!OtherKeysAreKept
<1>1. dataFile' = dataFile => Domain!OtherKeysAreKept
  BY DEF Domain!OtherKeysAreKept
<1>2. ASSUME NEW c \in Calls, Domain!Lock(c)
      PROVE  DomainInv' /\ Domain!OtherKeysAreKept
  <2>1. dataFile' = Domain!Torn
    BY <1>2 DEF Domain!Lock
  <2> QED
    BY <1>2, <2>1, LockTaken DEF Domain!OtherKeysAreKept
<1>3. ASSUME UNCHANGED <<dataFile, fileLock, calling, whole, lost, stale, asked, chosen>>,
             candidate' \in Domains
      PROVE  DomainInv'
  BY <1>3 DEF DomainInv, DomainShape, DataFileOK, ButForKey, SavesOK, Kept, ChosenOnly
<1>4. CASE Domain!Dismiss \/ Domain!IntervalEnds \/ UNCHANGED Domain!vars
  <2>1. UNCHANGED <<dataFile, fileLock, calling, whole, lost, stale, asked, chosen>>
    BY <1>4 DEF Domain!Dismiss, Domain!IntervalEnds, Domain!vars, Domain!history
  <2>2. candidate' \in Domains
    BY <1>4 DEF DomainInv, DomainShape, Domains, Domain!Dismiss, Domain!IntervalEnds, Domain!vars
  <2> QED
    BY <1>1, <1>3, <2>1, <2>2
<1> QED
  BY <1>1, <1>2, <1>4, Dumped, CallSteps, Crashed DEF Domain!Next

\* As long as no administrator has switched domain_auto_apply on, the domain of data.json is
\* one they typed in or confirmed, whatever app/core/domain_recovery.py finds and whatever
\* a reader makes of a torn file.  Of the updates of app/config.py that race none takes back
\* the key of another, unless a crash emptied the file; and PUT /settings writes every
\* setting it was not sent as the file held it, unless another PUT was written since it
\* read, or the file it read was empty for the moment or for good.
THEOREM OnlyWhatWasAskedFor == Spec => SettingsStand
<1> DEFINE I == focus = "domain" => DomainInv
           A == focus = "domain" => Domain!OtherKeysAreKept
           P == focus = "domain" => Domain!AdoptedOnRequest
           Q == focus = "domain" => Domain!UnsentSettingsAreKept
<1>1. Init => I
  BY DomainInit DEF Init
<1>2. I /\ [Next]_vars => I' /\ [A]_vars
  BY DomainNext DEF Next, vars, Domain!vars
<1>3. I => P
  BY DEF DomainInv, ChosenOnly, Domain!AdoptedOnRequest
<1>4. I => Q
  BY DEF DomainInv, SavesOK, Kept, Domain!UnsentSettingsAreKept
<1> QED
  BY <1>1, <1>2, <1>3, <1>4, PTL DEF Spec, SettingsStand

(***************************************************************************)
(* The types of the settings: the rest of DomainShape, and that whoever    *)
(* holds the lock is writing the file, which is torn until he is done.     *)
(***************************************************************************)
DomainTypes ==
  /\ throttled \in BOOLEAN /\ crashes \in 0..MaxCrashes
  /\ fileLock # Domain!None => dataFile = Domain!Torn /\ calling[fileLock].op = "dump"

LEMMA DomainTypesKept ==
  ASSUME DomainInv, DomainTypes, Domain!Next \/ UNCHANGED Domain!vars
  PROVE  DomainTypes'
<1>1. MaxCrashes \in Nat
  BY BoundsAssumption
<1>2. ASSUME NEW c \in Calls, Domain!Lock(c) PROVE DomainTypes'
  <2>1. UNCHANGED <<throttled, crashes>> /\ fileLock' = c /\ dataFile' = Domain!Torn
    BY <1>2 DEF Domain!Lock
  <2>2. calling'[c].op = "dump"
    BY <1>2 DEF Domain!Lock, Domain!Does, DomainInv, DomainShape
  <2> QED
    BY <2>1, <2>2 DEF DomainTypes
<1>3. ASSUME NEW c \in Calls, Domain!Dump(c) PROVE DomainTypes'
  BY <1>3 DEF Domain!Dump, DomainTypes
<1>4. ASSUME NEW c \in Calls,
             \/ Domain!SaveSettings(c) \/ Domain!SaveLibraries(c) \/ Domain!SetDomain(c)
             \/ Domain!Confirm(c) \/ Domain!CheckBegins(c) \/ Domain!Mark(c) \/ Domain!Check(c)
             \/ Domain!Decide(c) \/ Domain!Adopt(c) \/ Domain!Forget(c)
      PROVE  DomainTypes'
  <2>1. /\ UNCHANGED <<dataFile, fileLock, crashes>> /\ throttled' \in BOOLEAN
        /\ calling[c].op # "dump"
        /\ \A b \in Calls \ {c} : calling'[b] = calling[b]
    <3>1. /\ UNCHANGED <<dataFile, fileLock, crashes>>
          /\ throttled' = throttled \/ throttled' = TRUE
      BY <1>4 DEF Domain!SaveSettings, Domain!SaveLibraries, Domain!SetDomain, Domain!Confirm,
           Domain!CheckBegins, Domain!Mark, Domain!Check, Domain!Decide, Domain!Adopt,
           Domain!Forget
    <3>2. calling[c].op # "dump"
      <4>1. CASE \/ Domain!SaveSettings(c) \/ Domain!SaveLibraries(c) \/ Domain!SetDomain(c)
                 \/ Domain!Confirm(c) \/ Domain!CheckBegins(c)
        <5>1. calling[c] = Domain!Idle
          BY <4>1 DEF Domain!SaveSettings, Domain!SaveLibraries, Domain!SetDomain,
               Domain!Confirm, Domain!CheckBegins, Domain!Starts
        <5> QED
          BY <5>1 DEF Domain!Idle
      <4>2. CASE \/ Domain!Mark(c) \/ Domain!Check(c) \/ Domain!Decide(c) \/ Domain!Adopt(c)
                 \/ Domain!Forget(c)
        BY <4>2 DEF Domain!Mark, Domain!Check, Domain!Decide, Domain!Adopt, Domain!Forget
      <4> QED
        BY <1>4, <4>1, <4>2
    <3>3. \E r : calling' = [calling EXCEPT ![c] = r]
      BY <1>4 DEF Domain!SaveSettings, Domain!SaveLibraries, Domain!SetDomain, Domain!Confirm,
           Domain!CheckBegins, Domain!Mark, Domain!Check, Domain!Decide, Domain!Adopt,
           Domain!Forget, Domain!Starts, Domain!Does
    <3> QED
      BY <3>1, <3>2, <3>3 DEF DomainTypes, DomainInv, DomainShape
  <2>2. fileLock # Domain!None => fileLock \in Calls \ {c}
    BY <2>1 DEF DomainTypes, DomainInv, DomainShape
  <2> QED
    BY <2>1, <2>2 DEF DomainTypes
<1>5. CASE Domain!Dismiss \/ Domain!IntervalEnds \/ UNCHANGED Domain!vars
  BY <1>5 DEF Domain!Dismiss, Domain!IntervalEnds, Domain!vars, DomainTypes
<1>6. CASE Domain!Crash
  <2>1. throttled' = FALSE /\ fileLock' = Domain!None
    BY <1>6 DEF Domain!Crash
  <2>2. crashes' \in 0..MaxCrashes
    BY <1>1, <1>6 DEF Domain!Crash, DomainTypes
  <2> QED
    BY <2>1, <2>2 DEF DomainTypes
<1> QED
  BY <1>2, <1>3, <1>4, <1>5, <1>6 DEF Domain!Next

LEMMA DomainTyped == Spec => [](focus = "domain" => Domain!TypeOK)
<1> DEFINE I == focus = "domain" => DomainInv /\ DomainTypes
           O == focus = "domain" => Domain!TypeOK
<1>1. Init => I
  <2>1. 0 \in 0..MaxCrashes
    BY BoundsAssumption
  <2>2. Domain!Init => DomainTypes
    BY <2>1, Zenon DEF Domain!Init, DomainTypes
  <2> QED
    BY <2>2, DomainInit DEF Init
<1>2. I /\ [Next]_vars => I'
  BY DomainNext, DomainTypesKept DEF Next, vars, Domain!vars
<1>3. I => O
  BY DEF DomainInv, DomainShape, DomainTypes, Domain!TypeOK, DataFiles, Domains
<1> QED
  BY <1>1, <1>2, <1>3, PTL DEF Spec

-----------------------------------------------------------------------------

(***************************************************************************)
(* Database: a migration that has run k of its statements has copied some  *)
(* tables and dropped some, and what it has dropped it has copied, so that *)
(* at its end the rows are those it found (WorkOK).  Nothing of that is    *)
(* committed before the end, and then with the version.                    *)
(***************************************************************************)
dbFile == v1
process == v2
fresh == v3
work == v4
left == v5
authEnv == v6
old == v7
USE DEF dbFile, process, fresh, work, left, authEnv, old

TableNames == {"watch", "subscriber", "seen", "bell"}
SomeWatches == SUBSET Watches
Notices == SUBSET {"a notice"}
Links == [Requests -> Watches \cup {Schema!NoWatch}]
TableRows ==
  [watch : SomeWatches, subscriber : SomeWatches, seen : SomeWatches, bell : Notices]
DatabaseFiles ==
  [version : 0..10, live : TableRows, copy : TableRows,
   link : Links, users : BOOLEAN, mode : {"none", "open"},
   applied : [1..10 -> Int]]

(* A statement.                                                            *)
St(verb, table) == <<verb, table>>
AllStatements == {"copy", "drop", "rename", "carry over"} \X (TableNames \cup {""})

(* What the first k statements of a migration have dropped and copied.     *)
DroppedBy(m, k) ==
  IF m = 5 THEN IF k = 4 THEN {"subscriber"} ELSE IF k = 5 THEN {"subscriber", "seen"}
                ELSE IF k = 6 THEN {"watch", "subscriber", "seen"} ELSE {}
  ELSE IF m = 6 /\ k = 2 THEN {"bell"} ELSE {}
CopiedBy(m, k) ==
  IF m = 5 THEN IF k = 1 THEN {"watch"} ELSE IF k = 2 THEN {"watch", "subscriber"}
                ELSE IF k \in 3..6 THEN {"watch", "subscriber", "seen"} ELSE {}
  ELSE IF m = 6 /\ k \in 1..2 THEN {"bell"} ELSE {}

(* work and left after k statements of migration m.                        *)
WorkOK(m, k) ==
  /\ work \in DatabaseFiles /\ work.version = m - 1 /\ work.applied = dbFile.applied
  /\ \A n \in TableNames :
       /\ work.live[n] = IF n \in DroppedBy(m, k) THEN {} ELSE dbFile.live[n]
       /\ work.copy[n] = IF n \in CopiedBy(m, k) THEN dbFile.live[n] ELSE {}
  /\ left \in Seq(AllStatements)
  /\ Len(left) = Len(Schema!Statements(m)) - k
  /\ \A i \in 1..Len(left) : left[i] = Schema!Statements(m)[k + i]

SchemaInv ==
  /\ dbFile \in DatabaseFiles /\ dbFile.copy = Schema!Nothing
  /\ old \in DatabaseFiles /\ old.version <= dbFile.version
  /\ Schema!MigratedOnceAndWhole
  /\ process \in {"down", "between", "in", "ready"} /\ fresh \in BOOLEAN
  /\ process = "in" =>
       dbFile.version < 10 /\ \E k \in 0..7 : WorkOK(dbFile.version + 1, k)


LEMMA SchemaInit == Schema!Init => SchemaInv
<1> SUFFICES ASSUME Schema!Init PROVE SchemaInv
  OBVIOUS
<1>1. PICK v \in 0..9 : dbFile \in Schema!Files(v)
  BY DEF Schema!Init, Schema!LastMigration
<1>2. PICK w \in SomeWatches, s \in SomeWatches, e \in SomeWatches, b \in Notices, l \in Links,
           u \in BOOLEAN, m \in {"none", "open"} :
        dbFile = [version |-> v, live |-> [watch |-> w, subscriber |-> s, seen |-> e, bell |-> b],
                  copy |-> Schema!Nothing, link |-> l, users |-> u, mode |-> m,
                  applied |-> [i \in 1..Schema!LastMigration |-> IF i <= v THEN 1 ELSE 0]]
  <2>1. Schema!Files(v) =
          {[version |-> v, live |-> [watch |-> w, subscriber |-> s, seen |-> e, bell |-> b],
            copy |-> Schema!Nothing, link |-> l, users |-> u, mode |-> m,
            applied |-> [i \in 1..Schema!LastMigration |-> IF i <= v THEN 1 ELSE 0]] :
             w \in SomeWatches, s \in SomeWatches, e \in SomeWatches, b \in Notices, l \in Links,
             u \in BOOLEAN, m \in {"none", "open"}}
    BY DEF Schema!Files, SomeWatches, Notices, Links
  <2> QED
    BY <1>1, <2>1
<1>3. Schema!Nothing \in TableRows
  BY DEF Schema!Nothing, TableRows, SomeWatches, Notices
<1>4. dbFile \in DatabaseFiles
  <2>1. [watch |-> w, subscriber |-> s, seen |-> e, bell |-> b] \in TableRows
    BY DEF TableRows
  <2>2. [i \in 1..Schema!LastMigration |-> IF i <= v THEN 1 ELSE 0] \in [1..10 -> Int]
    BY DEF Schema!LastMigration
  <2> QED
    BY <1>2, <1>3, <2>1, <2>2 DEF DatabaseFiles
<1>5. old = dbFile /\ process = "down" /\ fresh = FALSE
  BY DEF Schema!Init
<1>6. /\ dbFile.version = v /\ dbFile.copy = Schema!Nothing
      /\ dbFile.applied = [i \in 1..10 |-> IF i <= v THEN 1 ELSE 0]
  BY <1>2 DEF Schema!LastMigration
<1>7. Schema!MigratedOnceAndWhole
  BY <1>5, <1>6 DEF Schema!MigratedOnceAndWhole, Schema!LastMigration
<1>8. dbFile.version <= old.version
  BY <1>5, <1>6
<1> QED
  BY <1>4, <1>5, <1>6, <1>7, <1>8 DEF SchemaInv

(* The rows of two files are the same if they are in every table.          *)
LEMMA SameRows ==
  ASSUME NEW r \in TableRows, NEW s \in TableRows, \A n \in TableNames : r[n] = s[n]
  PROVE  r = s
<1>1. r.watch = s.watch /\ r.subscriber = s.subscriber /\ r.seen = s.seen /\ r.bell = s.bell
  BY DEF TableNames
<1> QED
  BY <1>1 DEF TableRows

(* The statements of each migration, one by one.                           *)
LEMMA StatementsOf ==
  /\ Schema!Statements(5) =
       <<St("copy", "watch"), St("copy", "subscriber"), St("copy", "seen"),
         St("drop", "subscriber"), St("drop", "seen"), St("drop", "watch"), St("rename", "")>>
  /\ Schema!Statements(6) = <<St("copy", "bell"), St("drop", "bell"), St("rename", "")>>
  /\ Schema!Statements(8) = <<St("carry over", "")>>
  /\ \A m \in Int : m \notin {5, 6, 8} => Schema!Statements(m) = <<>>
<1>1. 6 # 5 /\ 8 # 5 /\ 8 # 6
  OBVIOUS
<1> QED
  BY <1>1, Zenon DEF Schema!Statements, St

LEMMA FifthIs ==
  ASSUME NEW s, s = <<St("copy", "watch"), St("copy", "subscriber"), St("copy", "seen"),
                      St("drop", "subscriber"), St("drop", "seen"), St("drop", "watch"),
                      St("rename", "")>>
  PROVE  /\ Len(s) = 7
         /\ s[1] = St("copy", "watch") /\ s[2] = St("copy", "subscriber")
         /\ s[3] = St("copy", "seen") /\ s[4] = St("drop", "subscriber")
         /\ s[5] = St("drop", "seen") /\ s[6] = St("drop", "watch") /\ s[7] = St("rename", "")
  OBVIOUS

LEMMA SixthIs ==
  ASSUME NEW s, s = <<St("copy", "bell"), St("drop", "bell"), St("rename", "")>>
  PROVE  /\ Len(s) = 3
         /\ s[1] = St("copy", "bell") /\ s[2] = St("drop", "bell") /\ s[3] = St("rename", "")
  OBVIOUS

LEMMA EighthIs ==
  ASSUME NEW s, s = <<St("carry over", "")>>
  PROVE  Len(s) = 1 /\ s[1] = St("carry over", "")
  OBVIOUS

LEMMA StatementsAre ==
  ASSUME NEW m \in Int, NEW s, s = Schema!Statements(m)
  PROVE  /\ m = 5 => /\ Len(s) = 7
                     /\ s[1] = St("copy", "watch") /\ s[2] = St("copy", "subscriber")
                     /\ s[3] = St("copy", "seen") /\ s[4] = St("drop", "subscriber")
                     /\ s[5] = St("drop", "seen") /\ s[6] = St("drop", "watch")
                     /\ s[7] = St("rename", "")
         /\ m = 6 => /\ Len(s) = 3
                     /\ s[1] = St("copy", "bell") /\ s[2] = St("drop", "bell")
                     /\ s[3] = St("rename", "")
         /\ m = 8 => Len(s) = 1 /\ s[1] = St("carry over", "")
         /\ m \notin {5, 6, 8} => Len(s) = 0
<1>1. m = 5 => s = <<St("copy", "watch"), St("copy", "subscriber"), St("copy", "seen"),
                    St("drop", "subscriber"), St("drop", "seen"), St("drop", "watch"),
                    St("rename", "")>>
  BY StatementsOf, Zenon
<1>2. m = 6 => s = <<St("copy", "bell"), St("drop", "bell"), St("rename", "")>>
  BY StatementsOf, Zenon
<1>3. m = 8 => s = <<St("carry over", "")>>
  BY StatementsOf, Zenon
<1>4. m \notin {5, 6, 8} => s = <<>>
  BY StatementsOf, Zenon
<1>5. Len(<<>>) = 0
  OBVIOUS
<1>6. m = 5 => /\ Len(s) = 7
               /\ s[1] = St("copy", "watch") /\ s[2] = St("copy", "subscriber")
               /\ s[3] = St("copy", "seen") /\ s[4] = St("drop", "subscriber")
               /\ s[5] = St("drop", "seen") /\ s[6] = St("drop", "watch")
               /\ s[7] = St("rename", "")
  BY <1>1, FifthIs, Zenon
<1>7. m = 6 => /\ Len(s) = 3
               /\ s[1] = St("copy", "bell") /\ s[2] = St("drop", "bell")
               /\ s[3] = St("rename", "")
  BY <1>2, SixthIs, Zenon
<1>8. m = 8 => Len(s) = 1 /\ s[1] = St("carry over", "")
  BY <1>3, EighthIs, Zenon
<1> QED
  BY <1>4, <1>5, <1>6, <1>7, <1>8, Zenon

LEMMA StatementsAreTyped ==
  ASSUME NEW m \in Int
  PROVE  Schema!Statements(m) \in Seq(AllStatements)
<1>1. /\ St("copy", "watch") \in AllStatements /\ St("copy", "subscriber") \in AllStatements
      /\ St("copy", "seen") \in AllStatements /\ St("copy", "bell") \in AllStatements
      /\ St("drop", "watch") \in AllStatements /\ St("drop", "subscriber") \in AllStatements
      /\ St("drop", "seen") \in AllStatements /\ St("drop", "bell") \in AllStatements
      /\ St("rename", "") \in AllStatements /\ St("carry over", "") \in AllStatements
  BY DEF St, AllStatements, TableNames
<1> DEFINE V == AllStatements
<1> HIDE DEF V
<1>2. ASSUME NEW a \in V, NEW b \in V, NEW c \in V, NEW d \in V, NEW e \in V, NEW f \in V, NEW g \in V,
             NEW s, s = <<a, b, c, d, e, f, g>>
      PROVE  s \in Seq(V)
  BY <1>2
<1>3. ASSUME NEW a \in V, NEW b \in V, NEW c \in V, NEW s, s = <<a, b, c>>
      PROVE  s \in Seq(V)
  BY <1>3
<1>4. ASSUME NEW a \in V, NEW s, s = <<a>>
      PROVE  s \in Seq(V)
  BY <1>4
<1>5. <<>> \in Seq(V)
  OBVIOUS
<1>6. Schema!Statements(5) \in Seq(V)
  BY <1>1, <1>2, StatementsOf, Zenon DEF V
<1>7. Schema!Statements(6) \in Seq(V)
  BY <1>1, <1>3, StatementsOf, Zenon DEF V
<1>8. Schema!Statements(8) \in Seq(V)
  BY <1>1, <1>4, StatementsOf, Zenon DEF V
<1>9. m \notin {5, 6, 8} => Schema!Statements(m) \in Seq(V)
  BY <1>5, StatementsOf, Zenon
<1> QED
  BY <1>6, <1>7, <1>8, <1>9 DEF V

(* What the statements do.                                                 *)
Rest(u, t) == u \in DatabaseFiles /\ u.version = t.version /\ u.applied = t.applied

LEMMA CopyDoes ==
  ASSUME NEW t \in DatabaseFiles, NEW n \in TableNames,
         NEW u, u = Schema!Effect(St("copy", n), t)
  PROVE  /\ Rest(u, t) /\ u.live = t.live
         /\ \A k \in TableNames : u.copy[k] = IF k = n THEN t.live[n] ELSE t.copy[k]
<1>1. u = [t EXCEPT !.copy[n] = t.live[n]]
  BY DEF Schema!Effect, St
<1>2. PICK c : c = [t.copy EXCEPT ![n] = t.live[n]]
  OBVIOUS
<1>3. /\ c \in TableRows
      /\ \A k \in TableNames : c[k] = IF k = n THEN t.live[n] ELSE t.copy[k]
  <2>1. t.live \in TableRows /\ t.copy \in TableRows
    BY DEF DatabaseFiles
  <2> QED
    BY <1>2, <2>1 DEF TableRows, TableNames
<1>4. u = [t EXCEPT !.copy = c]
  BY <1>1, <1>2 DEF DatabaseFiles
<1> QED
  BY <1>3, <1>4 DEF Rest, DatabaseFiles

LEMMA DropDoes ==
  ASSUME NEW t \in DatabaseFiles, NEW n \in TableNames,
         NEW u, u = Schema!Effect(St("drop", n), t)
  PROVE  /\ Rest(u, t) /\ u.copy = t.copy
         /\ \A k \in TableNames :
              u.live[k] = IF k = n \/ (n = "watch" /\ k # "bell") THEN {} ELSE t.live[k]
<1>1. u = Schema!Dropped(t, n) /\ t.live \in TableRows
  BY DEF Schema!Effect, St, DatabaseFiles
<1>2. {} \in SomeWatches /\ {} \in Notices
  BY DEF SomeWatches, Notices
<1>3. CASE n # "watch"
  <2>1. PICK c : c = [t.live EXCEPT ![n] = {}]
    OBVIOUS
  <2>2. c \in TableRows /\ \A k \in TableNames : c[k] = IF k = n THEN {} ELSE t.live[k]
    BY <1>1, <1>2, <2>1 DEF TableRows, TableNames
  <2>3. u = [t EXCEPT !.live = c]
    BY <1>1, <1>3, <2>1 DEF DatabaseFiles, Schema!Dropped
  <2> QED
    BY <1>3, <2>2, <2>3 DEF Rest, DatabaseFiles
<1>4. CASE n = "watch"
  <2>1. PICK c : c = [t.live EXCEPT !.watch = {}, !.subscriber = {}, !.seen = {}]
    OBVIOUS
  <2>2. c \in TableRows /\ \A k \in TableNames : c[k] = IF k # "bell" THEN {} ELSE t.live[k]
    BY <1>1, <1>2, <2>1 DEF TableRows, TableNames
  <2>3. PICK l \in Links : l = [r \in Requests |-> Schema!NoWatch]
    BY DEF Links
  <2>4. u = [t EXCEPT !.live = c, !.link = l]
    BY <1>1, <1>4, <2>1, <2>3 DEF Schema!Dropped
  <2> QED
    BY <1>4, <2>2, <2>4 DEF Rest, DatabaseFiles
<1> QED
  BY <1>3, <1>4

LEMMA RenameDoes ==
  ASSUME NEW t \in DatabaseFiles, NEW u, u = Schema!Effect(St("rename", ""), t)
  PROVE  /\ Rest(u, t)
         /\ \A k \in TableNames :
              /\ u.live[k] = IF k \in Schema!Tables(t.version + 1) THEN t.copy[k] ELSE t.live[k]
              /\ u.copy[k] = {}
<1>1. /\ u = Schema!Renamed(t, t.version + 1)
      /\ t.live \in TableRows /\ t.copy \in TableRows
  BY DEF Schema!Effect, St, DatabaseFiles
<1>2. PICK c : c = [n \in DOMAIN t.live |->
                     IF n \in Schema!Tables(t.version + 1) THEN t.copy[n] ELSE t.live[n]]
  OBVIOUS
<1>3. /\ c \in TableRows
      /\ \A k \in TableNames :
           c[k] = IF k \in Schema!Tables(t.version + 1) THEN t.copy[k] ELSE t.live[k]
  BY <1>1, <1>2 DEF TableRows, TableNames
<1>4. /\ Schema!Nothing \in TableRows
      /\ \A k \in TableNames : Schema!Nothing[k] = {}
  <2>1. {} \in SomeWatches /\ {} \in Notices
    BY DEF SomeWatches, Notices
  <2>2. Schema!Nothing \in TableRows
    BY <2>1 DEF Schema!Nothing, TableRows
  <2>3. /\ Schema!Nothing["watch"] = {} /\ Schema!Nothing["subscriber"] = {}
        /\ Schema!Nothing["seen"] = {} /\ Schema!Nothing["bell"] = {}
    BY DEF Schema!Nothing
  <2> QED
    BY <2>2, <2>3 DEF TableNames
<1>5. u = [t EXCEPT !.live = c, !.copy = Schema!Nothing]
  BY <1>1, <1>2 DEF Schema!Renamed
<1> QED
  BY <1>3, <1>4, <1>5 DEF Rest, DatabaseFiles

LEMMA CarryingDoes ==
  ASSUME NEW t \in DatabaseFiles, NEW u, u = Schema!Effect(St("carry over", ""), t)
  PROVE  Rest(u, t) /\ u.live = t.live /\ u.copy = t.copy
<1>1. u = Schema!CarriedOver(t)
  BY DEF Schema!Effect, St
<1> QED
  BY <1>1 DEF Schema!CarriedOver, Rest, DatabaseFiles

(* One statement less.                                                     *)
LEMMA LeftAdvances ==
  ASSUME NEW m \in Int, NEW k \in Nat, WorkOK(m, k), left # <<>>, left' = Tail(left)
  PROVE  /\ k < Len(Schema!Statements(m)) /\ Head(left) = Schema!Statements(m)[k + 1]
         /\ left' \in Seq(AllStatements)
         /\ Len(left') = Len(Schema!Statements(m)) - (k + 1)
         /\ \A i \in 1..Len(left') : left'[i] = Schema!Statements(m)[(k + 1) + i]
<1>1. /\ left \in Seq(AllStatements) /\ Len(left) = Len(Schema!Statements(m)) - k
      /\ \A i \in 1..Len(left) : left[i] = Schema!Statements(m)[k + i]
  BY DEF WorkOK
<1>2. Len(Schema!Statements(m)) \in Nat
  BY StatementsAreTyped
<1>3. Len(left) \in Nat \ {0}
  BY <1>1
<1>4. Head(left) = left[1]
  BY <1>1
<1>5. /\ left' \in Seq(AllStatements) /\ Len(left') = Len(left) - 1
      /\ \A i \in 1..Len(left') : left'[i] = left[i + 1]
  BY <1>1, HeadTailProperties
<1> DEFINE N == Len(Schema!Statements(m))
<1>6. N \in Nat /\ Len(left) = N - k /\ Len(left) \in Nat \ {0} /\ Len(left') = Len(left) - 1
  BY <1>1, <1>2, <1>3, <1>5
<1>7. Head(left) = Schema!Statements(m)[k + 1]
  BY <1>1, <1>3, <1>4
<1>8. ASSUME NEW i \in 1..Len(left') PROVE left'[i] = Schema!Statements(m)[(k + 1) + i]
  <2>1. i + 1 \in 1..Len(left) /\ k + (i + 1) = (k + 1) + i
    BY <1>6
  <2> QED
    BY <1>1, <1>5, <2>1
<1> HIDE DEF N
<1>9. k < N /\ Len(left') = N - (k + 1)
  BY <1>6
<1> QED
  BY <1>5, <1>7, <1>8, <1>9 DEF N

(* A statement brings a migration one on.                                  *)
Runs(m, k) ==
  /\ m \in Int /\ k \in Nat /\ WorkOK(m, k) /\ left # <<>>
  /\ work' = Schema!Effect(Head(left), work) /\ left' = Tail(left) /\ dbFile' = dbFile

(* What a statement c, the (k+1)-st of migration m, must be for that.        *)
Copies(c, m, k, n) ==
  /\ c = St("copy", n) /\ n \in TableNames /\ n \notin DroppedBy(m, k)
  /\ DroppedBy(m, k + 1) = DroppedBy(m, k) /\ CopiedBy(m, k + 1) = CopiedBy(m, k) \cup {n}
Drops(c, m, k, n) ==
  /\ c = St("drop", n) /\ n \in TableNames /\ CopiedBy(m, k + 1) = CopiedBy(m, k)
  /\ \A x \in TableNames : x \in DroppedBy(m, k + 1) <=>
        x \in DroppedBy(m, k) \/ x = n \/ (n = "watch" /\ x # "bell")
Renames(c, m, k) ==
  /\ c = St("rename", "")
  /\ CopiedBy(m, k) = Schema!Tables(m) /\ DroppedBy(m, k) \subseteq CopiedBy(m, k)
  /\ DroppedBy(m, k + 1) = {} /\ CopiedBy(m, k + 1) = {}

LEMMA CopyRuns ==
  ASSUME NEW m, NEW k, Runs(m, k), NEW n, Copies(Schema!Statements(m)[k + 1], m, k, n)
  PROVE  WorkOK(m, k + 1)'
<1>1. /\ work \in DatabaseFiles /\ work' = Schema!Effect(St("copy", n), work)
      /\ left' \in Seq(AllStatements)
      /\ Len(left') = Len(Schema!Statements(m)) - (k + 1)
      /\ \A i \in 1..Len(left') : left'[i] = Schema!Statements(m)[(k + 1) + i]
  BY LeftAdvances DEF Runs, WorkOK, Copies
<1>2. /\ Rest(work', work) /\ work'.live = work.live
      /\ \A x \in TableNames : work'.copy[x] = IF x = n THEN work.live[n] ELSE work.copy[x]
  BY <1>1, CopyDoes DEF Copies
<1> QED
  BY <1>1, <1>2 DEF Runs, WorkOK, Rest, Copies

LEMMA DropRuns ==
  ASSUME NEW m, NEW k, Runs(m, k), NEW n, Drops(Schema!Statements(m)[k + 1], m, k, n)
  PROVE  WorkOK(m, k + 1)'
<1>1. /\ work \in DatabaseFiles /\ work' = Schema!Effect(St("drop", n), work)
      /\ left' \in Seq(AllStatements)
      /\ Len(left') = Len(Schema!Statements(m)) - (k + 1)
      /\ \A i \in 1..Len(left') : left'[i] = Schema!Statements(m)[(k + 1) + i]
  BY LeftAdvances DEF Runs, WorkOK, Drops
<1>2. /\ Rest(work', work) /\ work'.copy = work.copy
      /\ \A x \in TableNames :
           work'.live[x] = IF x = n \/ (n = "watch" /\ x # "bell") THEN {} ELSE work.live[x]
  BY <1>1, DropDoes DEF Drops
<1> QED
  BY <1>1, <1>2 DEF Runs, WorkOK, Rest, Drops

LEMMA RenameRuns ==
  ASSUME NEW m, NEW k, Runs(m, k), Renames(Schema!Statements(m)[k + 1], m, k)
  PROVE  WorkOK(m, k + 1)'
<1>0. m = work.version + 1 /\ work \in DatabaseFiles
  <2>1. work.version = m - 1 /\ work \in DatabaseFiles /\ m \in Int
    BY DEF Runs, WorkOK
  <2>2. work.version \in Int
    BY <2>1 DEF DatabaseFiles
  <2> QED
    BY <2>1, <2>2
<1>1. /\ work \in DatabaseFiles /\ work' = Schema!Effect(St("rename", ""), work)
      /\ left' \in Seq(AllStatements)
      /\ Len(left') = Len(Schema!Statements(m)) - (k + 1)
      /\ \A i \in 1..Len(left') : left'[i] = Schema!Statements(m)[(k + 1) + i]
  BY LeftAdvances DEF Runs, WorkOK, Renames
<1>2. /\ Rest(work', work)
      /\ \A x \in TableNames :
           /\ work'.live[x] = IF x \in Schema!Tables(m) THEN work.copy[x] ELSE work.live[x]
           /\ work'.copy[x] = {}
  BY <1>0, <1>1, RenameDoes
<1> QED
  BY <1>1, <1>2 DEF Runs, WorkOK, Rest, Renames

LEMMA NothingRebuilt ==
  ASSUME NEW m, m = 8, NEW k
  PROVE  DroppedBy(m, k) = {} /\ CopiedBy(m, k) = {}
<1>1. m # 5 /\ m # 6
  OBVIOUS
<1> QED
  BY <1>1, Zenon DEF DroppedBy, CopiedBy

LEMMA CarryRuns ==
  ASSUME NEW m, NEW k, Runs(m, k), m = 8, Schema!Statements(m)[k + 1] = St("carry over", "")
  PROVE  WorkOK(m, k + 1)'
<1>1. /\ work \in DatabaseFiles /\ left # <<>> /\ work' = Schema!Effect(Head(left), work)
      /\ left' = Tail(left) /\ m \in Int /\ k \in Nat /\ WorkOK(m, k) /\ dbFile' = dbFile
  BY DEF Runs, WorkOK
<1>2. /\ Head(left) = St("carry over", "") /\ left' \in Seq(AllStatements)
      /\ Len(left') = Len(Schema!Statements(m)) - (k + 1)
      /\ \A i \in 1..Len(left') : left'[i] = Schema!Statements(m)[(k + 1) + i]
  BY <1>1, LeftAdvances
<1>3. Rest(work', work) /\ work'.live = work.live /\ work'.copy = work.copy
  BY <1>1, <1>2, CarryingDoes
<1>4. /\ DroppedBy(m, k) = {} /\ CopiedBy(m, k) = {}
      /\ DroppedBy(m, k + 1) = {} /\ CopiedBy(m, k + 1) = {}
  BY NothingRebuilt, Zenon
<1> QED
  BY <1>1, <1>2, <1>3, <1>4 DEF WorkOK, Rest

(* The ten statements of the migrations that rebuild tables.               *)
LEMMA FifthCopies ==
  ASSUME NEW m \in Int, m = 5, NEW k \in Nat, NEW c
  PROVE  /\ k = 0 /\ c = St("copy", "watch") => Copies(c, m, k, "watch")
         /\ k = 1 /\ c = St("copy", "subscriber") => Copies(c, m, k, "subscriber")
         /\ k = 2 /\ c = St("copy", "seen") => Copies(c, m, k, "seen")
  BY DEF Copies, DroppedBy, CopiedBy, TableNames

LEMMA FifthDrops ==
  ASSUME NEW m \in Int, m = 5, NEW k \in Nat, NEW c
  PROVE  /\ k = 3 /\ c = St("drop", "subscriber") => Drops(c, m, k, "subscriber")
         /\ k = 4 /\ c = St("drop", "seen") => Drops(c, m, k, "seen")
         /\ k = 5 /\ c = St("drop", "watch") => Drops(c, m, k, "watch")
  BY DEF Drops, DroppedBy, CopiedBy, TableNames

LEMMA AtSix ==
  ASSUME NEW k \in Nat, k = 6
  PROVE  /\ k # 1 /\ k # 2 /\ k # 4 /\ k # 5 /\ k \in 3..6
         /\ k + 1 # 1 /\ k + 1 # 2 /\ k + 1 # 4 /\ k + 1 # 5 /\ k + 1 # 6
         /\ k + 1 \notin 3..6
  OBVIOUS

LEMMA AtTwo ==
  ASSUME NEW m \in Int, m = 6, NEW k \in Nat, k = 2
  PROVE  m # 5 /\ k \in 1..2 /\ k + 1 # 2 /\ k + 1 \notin 1..2
  OBVIOUS

LEMMA FifthRenames ==
  ASSUME NEW m \in Int, m = 5, NEW k \in Nat, k = 6, NEW c, c = St("rename", "")
  PROVE  Renames(c, m, k)
<1>1. /\ k # 1 /\ k # 2 /\ k # 4 /\ k # 5 /\ k \in 3..6
      /\ k + 1 # 1 /\ k + 1 # 2 /\ k + 1 # 4 /\ k + 1 # 5 /\ k + 1 # 6 /\ k + 1 \notin 3..6
  BY AtSix, Zenon
<1>2. Schema!Tables(m) = {"watch", "subscriber", "seen"}
  BY Zenon DEF Schema!Tables
<1>3. CopiedBy(m, k) = {"watch", "subscriber", "seen"} /\ CopiedBy(m, k + 1) = {}
  BY <1>1, Zenon DEF CopiedBy
<1>4. DroppedBy(m, k) = {"watch", "subscriber", "seen"} /\ DroppedBy(m, k + 1) = {}
  BY <1>1, Zenon DEF DroppedBy
<1> QED
  BY <1>2, <1>3, <1>4, Zenon DEF Renames

LEMMA SixthRebuilds ==
  ASSUME NEW m \in Int, m = 6, NEW k \in Nat, NEW c
  PROVE  /\ k = 0 /\ c = St("copy", "bell") => Copies(c, m, k, "bell")
         /\ k = 1 /\ c = St("drop", "bell") => Drops(c, m, k, "bell")
  BY DEF Copies, Drops, DroppedBy, CopiedBy, TableNames

LEMMA SixthRenames ==
  ASSUME NEW m \in Int, m = 6, NEW k \in Nat, k = 2, NEW c, c = St("rename", "")
  PROVE  Renames(c, m, k)
<1>1. m # 5 /\ k \in 1..2 /\ k + 1 # 2 /\ k + 1 \notin 1..2
  BY AtTwo, Zenon
<1>2. Schema!Tables(m) = {"bell"}
  BY <1>1, Zenon DEF Schema!Tables
<1>3. CopiedBy(m, k) = {"bell"} /\ CopiedBy(m, k + 1) = {}
  BY <1>1, Zenon DEF CopiedBy
<1>4. DroppedBy(m, k) = {"bell"} /\ DroppedBy(m, k + 1) = {}
  BY <1>1, Zenon DEF DroppedBy
<1> QED
  BY <1>2, <1>3, <1>4, Zenon DEF Renames

(* Which place a statement has.                                            *)
LEMMA Places ==
  ASSUME NEW k \in Nat, NEW n, k < n
  PROVE  /\ n = 7 => k < 7 /\ (k = 0 \/ k = 1 \/ k = 2 \/ k = 3 \/ k = 4 \/ k = 5 \/ k = 6)
         /\ n = 3 => k < 7 /\ (k = 0 \/ k = 1 \/ k = 2)
         /\ n = 1 => k < 7 /\ k = 0
         /\ n # 0
  OBVIOUS

LEMMA EveryStatement ==
  ASSUME NEW m \in Int, NEW s, s = Schema!Statements(m), NEW k \in Nat, k < Len(s)
  PROVE  /\ k < 7
         /\ \/ \E n : Copies(s[k + 1], m, k, n)
            \/ \E n : Drops(s[k + 1], m, k, n)
            \/ Renames(s[k + 1], m, k)
            \/ m = 8 /\ s[k + 1] = St("carry over", "")
<1>1. CASE m = 5
  <2>1. /\ Len(s) = 7
        /\ s[1] = St("copy", "watch") /\ s[2] = St("copy", "subscriber")
        /\ s[3] = St("copy", "seen") /\ s[4] = St("drop", "subscriber")
        /\ s[5] = St("drop", "seen") /\ s[6] = St("drop", "watch")
        /\ s[7] = St("rename", "")
    BY <1>1, StatementsAre, Zenon
  <2>2. k < 7 /\ (k = 0 \/ k = 1 \/ k = 2 \/ k = 3 \/ k = 4 \/ k = 5 \/ k = 6)
    BY <2>1, Places, Zenon
  <2>3. /\ k = 0 => k + 1 = 1
        /\ k = 1 => k + 1 = 2
        /\ k = 2 => k + 1 = 3
        /\ k = 3 => k + 1 = 4
        /\ k = 4 => k + 1 = 5
        /\ k = 5 => k + 1 = 6
        /\ k = 6 => k + 1 = 7
    OBVIOUS
  <2>4. /\ k = 0 => s[k + 1] = St("copy", "watch")
        /\ k = 1 => s[k + 1] = St("copy", "subscriber")
        /\ k = 2 => s[k + 1] = St("copy", "seen")
        /\ k = 3 => s[k + 1] = St("drop", "subscriber")
        /\ k = 4 => s[k + 1] = St("drop", "seen")
        /\ k = 5 => s[k + 1] = St("drop", "watch")
        /\ k = 6 => s[k + 1] = St("rename", "")
    BY <2>1, <2>3, Zenon
  <2> QED
    BY <1>1, <2>2, <2>4, FifthCopies, FifthDrops, FifthRenames, Zenon
<1>2. CASE m = 6
  <2>1. /\ Len(s) = 3
        /\ s[1] = St("copy", "bell") /\ s[2] = St("drop", "bell") /\ s[3] = St("rename", "")
    BY <1>2, StatementsAre, Zenon
  <2>2. k < 7 /\ (k = 0 \/ k = 1 \/ k = 2)
    BY <2>1, Places, Zenon
  <2>3. /\ k = 0 => k + 1 = 1
        /\ k = 1 => k + 1 = 2
        /\ k = 2 => k + 1 = 3
    OBVIOUS
  <2>4. /\ k = 0 => s[k + 1] = St("copy", "bell")
        /\ k = 1 => s[k + 1] = St("drop", "bell")
        /\ k = 2 => s[k + 1] = St("rename", "")
    BY <2>1, <2>3, Zenon
  <2> QED
    BY <1>2, <2>2, <2>4, SixthRebuilds, SixthRenames, Zenon
<1>3. CASE m = 8
  <2>1. Len(s) = 1 /\ s[1] = St("carry over", "")
    BY <1>3, StatementsAre, Zenon
  <2>2. k < 7 /\ k = 0
    BY <2>1, Places, Zenon
  <2>3. k = 0 => k + 1 = 1
    OBVIOUS
  <2> QED
    BY <1>3, <2>1, <2>2, <2>3, Zenon
<1>4. CASE m \notin {5, 6, 8}
  <2>1. Len(s) = 0
    BY <1>4, StatementsAre, Zenon
  <2> QED
    BY <2>1, Places, Zenon
<1> QED
  BY <1>1, <1>2, <1>3, <1>4, Zenon

LEMMA StatementRuns ==
  ASSUME NEW m, NEW k, Runs(m, k)
  PROVE  WorkOK(m, k + 1)' /\ k < 7
<1>1. m \in Int /\ k \in Nat /\ WorkOK(m, k) /\ left # <<>> /\ left' = Tail(left)
  BY DEF Runs
<1>2. k < Len(Schema!Statements(m))
  BY <1>1, LeftAdvances
<1>3. k < 7
  BY <1>1, <1>2, EveryStatement
<1>4. WorkOK(m, k + 1)'
  BY <1>1, <1>2, EveryStatement, CopyRuns, DropRuns, RenameRuns, CarryRuns
<1> QED
  BY <1>3, <1>4

(* Before its first statement and after its last one a migration holds no  *)
(* table dropped and no copy.                                              *)
LEMMA AtZero ==
  ASSUME NEW m \in Int, NEW k \in Nat, k = 0
  PROVE  k # 1 /\ k # 2 /\ k # 4 /\ k # 5 /\ k # 6 /\ k \notin 3..6 /\ k \notin 1..2
  OBVIOUS

LEMMA AtSeven ==
  ASSUME NEW k \in Nat, k = 7
  PROVE  k # 1 /\ k # 2 /\ k # 4 /\ k # 5 /\ k # 6 /\ k \notin 3..6 /\ k \notin 1..2
  OBVIOUS

LEMMA AtThree ==
  ASSUME NEW m \in Int, m = 6, NEW k \in Nat, k = 3
  PROVE  m # 5 /\ k # 2 /\ k \notin 1..2
  OBVIOUS

LEMMA AtRest ==
  ASSUME NEW m \in Int, NEW k \in Nat, k = 0 \/ k = Len(Schema!Statements(m))
  PROVE  DroppedBy(m, k) = {} /\ CopiedBy(m, k) = {}
<1>1. CASE k = 0
  BY <1>1, AtZero, Zenon DEF DroppedBy, CopiedBy
<1>2. CASE k = Len(Schema!Statements(m))
  <2>1. CASE m = 5
    <3>1. k = 7
      BY <1>2, <2>1, StatementsAre, Zenon
    <3> QED
      BY <2>1, <3>1, AtSeven, Zenon DEF DroppedBy, CopiedBy
  <2>2. CASE m = 6
    <3>1. k = 3
      BY <1>2, <2>2, StatementsAre, Zenon
    <3> QED
      BY <2>2, <3>1, AtThree, Zenon DEF DroppedBy, CopiedBy
  <2>3. CASE m # 5 /\ m # 6
    BY <2>3, Zenon DEF DroppedBy, CopiedBy
  <2> QED
    BY <2>1, <2>2, <2>3, Zenon
<1> QED
  BY <1>1, <1>2

LEMMA BeginKeeps ==
  ASSUME SchemaInv, Schema!Begin
  PROVE  SchemaInv'
<1>1. PICK m : m = dbFile.version + 1
  OBVIOUS
<1>2. /\ dbFile \in DatabaseFiles /\ dbFile.copy = Schema!Nothing /\ dbFile.version < 10
      /\ work' = dbFile /\ left' = Schema!Statements(m) /\ process' = "in"
      /\ UNCHANGED <<dbFile, fresh, old>>
  BY <1>1 DEF SchemaInv, Schema!Begin, Schema!LastMigration
<1>3. m \in Int /\ dbFile.version = m - 1 /\ dbFile.version \in Int
  BY <1>1, <1>2 DEF DatabaseFiles
<1>4. PICK k \in 0..7 : k = 0
  OBVIOUS
<1>5. DroppedBy(m, k) = {} /\ CopiedBy(m, k) = {}
  BY <1>3, <1>4, AtRest
<1>6. \A n \in TableNames : Schema!Nothing[n] = {}
  BY DEF TableNames, Schema!Nothing
<1>7. PICK s \in Seq(AllStatements) : s = Schema!Statements(m)
  BY <1>3, StatementsAreTyped
<1>8. /\ left' = s /\ Len(s) = Len(Schema!Statements(m)) - k
      /\ \A i \in 1..Len(s) : s[i] = Schema!Statements(m)[k + i]
  <2>1. Len(s) = Len(s) - k /\ \A i \in 1..Len(s) : s[i] = s[k + i]
    BY <1>4
  <2> QED
    BY <1>2, <1>7, <2>1
<1>9. WorkOK(m, k)'
  BY <1>2, <1>3, <1>5, <1>6, <1>7, <1>8 DEF WorkOK
<1>10. \E j \in 0..7 : WorkOK(dbFile.version + 1, j)'
  BY <1>1, <1>2, <1>9
<1>11. Schema!MigratedOnceAndWhole'
  BY <1>2 DEF SchemaInv, Schema!MigratedOnceAndWhole
<1> QED
  BY <1>2, <1>10, <1>11 DEF SchemaInv

LEMMA StatementKeeps ==
  ASSUME SchemaInv, Schema!Statement
  PROVE  SchemaInv'
<1>1. /\ process = "in" /\ left # <<>> /\ work' = Schema!Effect(Head(left), work)
      /\ left' = Tail(left) /\ UNCHANGED <<dbFile, process, fresh, old>>
  BY DEF Schema!Statement
<1>2. PICK m : m = dbFile.version + 1
  OBVIOUS
<1>3. PICK k \in 0..7 : WorkOK(m, k)
  BY <1>1, <1>2 DEF SchemaInv
<1>4. m \in Int /\ k \in Nat
  BY <1>2 DEF SchemaInv, DatabaseFiles
<1>5. WorkOK(m, k + 1)' /\ k < 7
  BY <1>1, <1>3, <1>4, StatementRuns DEF Runs
<1>6. \E j \in 0..7 : WorkOK(dbFile.version + 1, j)'
  BY <1>1, <1>2, <1>4, <1>5
<1>7. Schema!MigratedOnceAndWhole'
  BY <1>1 DEF SchemaInv, Schema!MigratedOnceAndWhole
<1> QED
  BY <1>1, <1>6, <1>7 DEF SchemaInv

LEMMA MigrationCommitKeeps ==
  ASSUME SchemaInv, Schema!Commit
  PROVE  SchemaInv'
<1>1. /\ process = "in" /\ left = <<>> /\ dbFile' = Schema!Bumped(work) /\ process' = "between"
      /\ UNCHANGED <<fresh, old>>
  BY DEF Schema!Commit
<1>2. PICK m : m = dbFile.version + 1
  OBVIOUS
<1>3. PICK k \in 0..7 : WorkOK(m, k)
  BY <1>1, <1>2 DEF SchemaInv
<1>4. m \in Int /\ k \in Nat /\ dbFile.version < 10
  <2>1. dbFile.version \in Int
    BY DEF SchemaInv, DatabaseFiles
  <2> QED
    BY <1>1, <1>2, <2>1 DEF SchemaInv
<1>5. DroppedBy(m, k) = {} /\ CopiedBy(m, k) = {}
  <2>1. PICK l \in Nat : l = Len(Schema!Statements(m))
    BY <1>4, StatementsAreTyped
  <2>2. 0 = l - k
    BY <1>1, <1>3, <2>1 DEF WorkOK
  <2>3. k = l
    BY <1>4, <2>2
  <2> QED
    BY <1>4, <2>1, <2>3, AtRest
<1>6. /\ work \in DatabaseFiles /\ work.version = dbFile.version
      /\ work.applied = dbFile.applied
  <2>1. dbFile.version \in Int
    BY DEF SchemaInv, DatabaseFiles
  <2> QED
    BY <1>2, <1>3, <2>1 DEF WorkOK
<1>7. work.live = dbFile.live
  <2>1. work.live \in TableRows /\ dbFile.live \in TableRows
    BY <1>6 DEF SchemaInv, DatabaseFiles
  <2>2. \A n \in TableNames : work.live[n] = dbFile.live[n]
    BY <1>3, <1>5 DEF WorkOK
  <2> QED
    BY <2>1, <2>2, SameRows
<1>8. work.copy = dbFile.copy
  <2>1. work.copy \in TableRows /\ dbFile.copy \in TableRows
    BY <1>6 DEF SchemaInv, DatabaseFiles
  <2>2. \A n \in TableNames : work.copy[n] = {}
    BY <1>3, <1>5 DEF WorkOK
  <2>3. \A n \in TableNames : dbFile.copy[n] = {}
    BY DEF SchemaInv, TableNames, Schema!Nothing
  <2>4. \A n \in TableNames : work.copy[n] = dbFile.copy[n]
    BY <2>2, <2>3
  <2> QED
    BY <2>1, <2>4, SameRows
<1>9. PICK a : a = [dbFile.applied EXCEPT ![dbFile.version + 1] = @ + 1]
  OBVIOUS
<1>10. /\ dbFile.applied \in [1..10 -> Int] /\ dbFile.version \in 0..9
       /\ \A i \in 1..10 : dbFile.applied[i] = IF i <= dbFile.version THEN 1 ELSE 0
  BY <1>4 DEF SchemaInv, DatabaseFiles, Schema!MigratedOnceAndWhole, Schema!LastMigration
<1>11. /\ a \in [1..10 -> Int]
       /\ \A i \in 1..10 : a[i] = IF i <= dbFile.version + 1 THEN 1 ELSE 0
  BY <1>9, <1>10
<1>12. dbFile' = [work EXCEPT !.version = dbFile.version + 1, !.applied = a]
  BY <1>1, <1>6, <1>9 DEF Schema!Bumped, DatabaseFiles
<1>13. /\ dbFile' \in DatabaseFiles /\ dbFile'.version = dbFile.version + 1
       /\ dbFile'.applied = a /\ dbFile'.live = dbFile.live /\ dbFile'.copy = dbFile.copy
  <2>1. PICK v \in 0..10 : v = dbFile.version + 1
    BY <1>10
  <2>2. dbFile' = [work EXCEPT !.version = v, !.applied = a]
    BY <1>12, <2>1
  <2>3. /\ dbFile' \in DatabaseFiles /\ dbFile'.version = v /\ dbFile'.applied = a
        /\ dbFile'.live = work.live /\ dbFile'.copy = work.copy
    BY <1>6, <1>11, <2>2 DEF DatabaseFiles
  <2> QED
    BY <1>7, <1>8, <2>1, <2>3
<1>14. Schema!MigratedOnceAndWhole'
  BY <1>1, <1>11, <1>13 DEF SchemaInv, Schema!MigratedOnceAndWhole, Schema!LastMigration
<1>15. old \in DatabaseFiles /\ old.version <= dbFile.version + 1
  BY <1>10 DEF SchemaInv, DatabaseFiles
<1> QED
  BY <1>1, <1>13, <1>14, <1>15 DEF SchemaInv

LEMMA SchemaNext ==
  ASSUME SchemaInv, Schema!Next \/ UNCHANGED Schema!vars
  PROVE  SchemaInv'
<1>1. ASSUME UNCHANGED <<dbFile, old>>, process' \in {"down", "between", "ready"},
             fresh' \in BOOLEAN
      PROVE  SchemaInv'
  BY <1>1 DEF SchemaInv, Schema!MigratedOnceAndWhole
<1>2. CASE Schema!Start
  BY <1>1, <1>2 DEF Schema!Start
<1>3. CASE Schema!Ready \/ Schema!Stop
  BY <1>1, <1>3 DEF Schema!Ready, Schema!Stop, SchemaInv
<1>4. CASE UNCHANGED Schema!vars
  BY <1>4 DEF Schema!vars, SchemaInv, Schema!MigratedOnceAndWhole, WorkOK
<1> QED
  BY <1>2, <1>3, <1>4, BeginKeeps, StatementKeeps, MigrationCommitKeeps DEF Schema!Next

\* Each migration has been applied exactly once if the file says it has and not at all
\* otherwise, and the rows are those the release found: wherever run_migrations() of
\* app/db.py is stopped, and however often it starts again.
THEOREM MigrationsAreWhole == Spec => []MigratedOnceAndWhole
<1> DEFINE I == focus = "schema" => SchemaInv
<1>1. Init => I
  BY SchemaInit DEF Init
<1>2. I /\ [Next]_vars => I'
  BY SchemaNext DEF Next, vars, Schema!vars
<1>3. I => MigratedOnceAndWhole
  BY DEF MigratedOnceAndWhole, SchemaInv
<1> QED
  BY <1>1, <1>2, <1>3, PTL DEF Spec

LEMMA SchemaTyped == Spec => [](focus = "schema" => Schema!TypeOK)
<1> DEFINE I == focus = "schema" => SchemaInv
           O == focus = "schema" => Schema!TypeOK
<1>1. Init => I
  BY SchemaInit DEF Init
<1>2. I /\ [Next]_vars => I'
  BY SchemaNext DEF Next, vars, Schema!vars
<1>3. SchemaInv => Schema!TypeOK
  <2> SUFFICES ASSUME SchemaInv PROVE Schema!TypeOK
    OBVIOUS
  <2>1. dbFile.version \in old.version..Schema!LastMigration
    BY DEF SchemaInv, DatabaseFiles, Schema!LastMigration
  <2>2. \A n \in {"watch", "subscriber", "seen"} :
          dbFile.live[n] \subseteq Watches /\ dbFile.copy[n] = {}
    BY DEF SchemaInv, DatabaseFiles, TableRows, SomeWatches, Schema!Nothing
  <2>3. dbFile.link \in Links /\ dbFile.mode \in {"none", "open"} /\ dbFile.users \in BOOLEAN
    BY DEF SchemaInv, DatabaseFiles
  <2> QED
    BY <2>1, <2>2, <2>3 DEF SchemaInv, Schema!TypeOK, Links
<1> QED
  BY <1>1, <1>2, <1>3, PTL DEF Spec

-----------------------------------------------------------------------------

(***************************************************************************)
(* SeriesFolders: the folder of what was filed is held by the series       *)
(* unless somebody rejected it (FiledOK), and who rejects is remembered    *)
(* (RejectedOK).  A download during which nothing changed is on its way to *)
(* a file that the check will find: in a folder a person chose, or under a *)
(* name and in a year that the check tries (SettledOK) - since what other  *)
(* downloads file meanwhile rejects nothing.                               *)
(***************************************************************************)
layout == v1
extension == v2
yearGiven == v3
videos == v4
origin == v5
fetch == v6
filed == v8
disowned == v9
unsettled == v10
USE DEF layout, extension, yearGiven, videos, origin, fetch, filed, disowned, unsettled

Origins == {"none", "download", "matched", "manual", "rejected"}
Streams == [step : {"stream"}, year : Series!AnyYear, episode : Episodes]
Fetches == [step : {"fetch", "written"}, year : Series!AnyYear, file : Series!Files]

SeriesShape ==
  /\ layout \in Series!Layouts /\ extension \in Series!Extensions
  /\ yearGiven \in Series!AnyYear
  /\ videos \subseteq Series!Files /\ filed \subseteq videos
  /\ origin \in [Series!AllFolders -> Origins]
  /\ fetch \in [Downloads -> {Series!Idle} \cup Streams \cup Fetches]

RejectedOK == \A g \in Series!AllFolders : origin[g] = "rejected" => g \in disowned
FiledOK ==
  \A f \in filed : f.folder \notin disowned => origin[f.folder] \in {"download", "matched", "manual"}

(* A year that the check tries, if its folder is there.                    *)
Tried(y, y0) ==
  \/ y = y0
  \/ /\ y = Series!NoYear \/ y0 = Series!NoYear \/ y >= y0
     /\ \E g \in Series!Renders(y) : origin[g] # "rejected"

(* A path at which the check will find the file that was asked for with y0. *)
WayOK(f, y0) ==
  \/ origin[f.folder] = "manual" /\ f = Series!Placed(f.folder, f.episode, f.container)
  \/ \E y \in Series!AnyYear, l \in {layout, "default"} :
       Tried(y, y0) /\ f = Series!Named(l, y, f.episode, f.container)
SettledOK ==
  \A d \in Downloads \ unsettled :
    fetch[d].step \in {"fetch", "written"} => WayOK(fetch[d].file, fetch[d].year)

SeriesInv == SeriesShape /\ RejectedOK /\ FiledOK /\ SettledOK


LEMMA YearIs == ASSUME NEW y \in Series!AnyYear PROVE y \in 0..9999 /\ (y # 0 => y \in Years)
  BY YearsAssumption DEF Series!AnyYear, Series!NoYear

LEMMA FolderIs ==
  ASSUME NEW l \in Series!Layouts, NEW y \in Series!AnyYear
  PROVE  /\ Series!FolderOf(l, y) \in Series!AllFolders
         /\ Series!FolderOf(l, y).year = y
         /\ Series!FolderOf(l, y).template = IF l = "own" THEN "own" ELSE "usual"
  BY DEF Series!FolderOf, Series!AllFolders

LEMMA FileIs ==
  ASSUME NEW g \in Series!AllFolders, NEW l \in Series!Layouts,
         NEW title \in {"series", "folder"}, NEW e \in Episodes, NEW c \in Series!Extensions
  PROVE  LET f == Series!File(g, l, title, e, c)
         IN /\ f \in Series!Files /\ f.folder = g /\ f.layout = l /\ f.title = title
            /\ f.episode = e /\ f.container = c
  BY DEF Series!File, Series!Files

LEMMA NamedIs ==
  ASSUME NEW l \in Series!Layouts, NEW y \in Series!AnyYear, NEW e \in Episodes,
         NEW c \in Series!Extensions
  PROVE  LET f == Series!Named(l, y, e, c)
         IN /\ f \in Series!Files /\ f.folder = Series!FolderOf(l, y) /\ f.layout = l
            /\ f.episode = e /\ f.container = c
<1>1. "series" \in {"series", "folder"}
  OBVIOUS
<1> QED
  BY <1>1, FolderIs, FileIs DEF Series!Named

LEMMA PlacedIs ==
  ASSUME SeriesShape, NEW g \in Series!AllFolders, NEW e \in Episodes,
         NEW c \in Series!Extensions
  PROVE  LET f == Series!Placed(g, e, c)
         IN /\ f \in Series!Files /\ f.folder = g /\ f.layout = layout
            /\ f.episode = e /\ f.container = c
<1>1. Series!TitleIn(g) \in {"series", "folder"}
  BY DEF Series!TitleIn
<1> QED
  BY <1>1, FileIs DEF Series!Placed, SeriesShape

LEMMA VideoIsTyped ==
  ASSUME NEW f \in Series!Files
  PROVE  /\ f.folder \in Series!AllFolders /\ f.layout \in Series!Layouts
         /\ f.title \in {"series", "folder"} /\ f.episode \in Episodes
         /\ f.container \in Series!Extensions /\ f.folder.year \in Series!AnyYear
<1>1. f.folder \in Series!AllFolders /\ f.layout \in Series!Layouts /\ f.title \in {"series", "folder"}
      /\ f.episode \in Episodes /\ f.container \in Series!Extensions
  BY DEF Series!Files
<1> QED
  BY <1>1 DEF Series!AllFolders, Series!AnyYear, Series!Shared

(***************************************************************************)
(* The folder with the most episodes is one of the candidates.             *)
(***************************************************************************)
LEMMA LeastOf ==
  ASSUME NEW T, T \subseteq Nat, T # {}
  PROVE  \E x \in T : \A y \in T : x <= y
<1> DEFINE R == OpToRel(<, Nat)
<1>1. IsWellFoundedOn(R, Nat)
  BY NatLessThanWellFounded
<1>2. \A x, y \in Nat : y < x => <<y, x>> \in R
  BY DEF OpToRel
<1> HIDE DEF R
<1>3. PICK x \in T : \A y \in T : ~(<<y, x>> \in R)
  BY <1>1, WFMin
<1>4. x \in Nat /\ \A y \in T : y \in Nat /\ ~(y < x)
  BY <1>2, <1>3, Zenon
<1> QED
  BY <1>4

LEMMA ScoreIs ==
  ASSUME SeriesShape, NEW y
  PROVE  /\ Series!Score(y) \in Nat /\ Cardinality(Episodes) \in Nat
         /\ Series!Score(y) <= Cardinality(Episodes)
         /\ \A f \in videos : f.folder = Series!HomeAt(y) /\ Series!Numbered(f) => Series!Score(y) > 0
<1> DEFINE S == {f.episode : f \in {x \in videos : x.folder = Series!HomeAt(y) /\ Series!Numbered(x)}}
<1>1. S \subseteq Episodes
  BY VideoIsTyped DEF SeriesShape
<1>2. /\ IsFiniteSet(S) /\ Cardinality(S) <= Cardinality(Episodes)
      /\ Cardinality(S) \in Nat /\ Cardinality(Episodes) \in Nat
  BY <1>1, EpisodesAssumption, FS_Subset, FS_CardinalityType
<1>3. Series!Score(y) = Cardinality(S)
  <2>1. Series!Score(y) = Series!Cardinality(S)
    BY Zenon DEF Series!Score
  <2> HIDE DEF S
  <2>2. Series!Cardinality(S) = Cardinality(S)
    BY DEF Series!Cardinality, Cardinality
  <2> QED
    BY <2>1, <2>2
<1>4. S # {} => Cardinality(S) # 0
  BY <1>2, FS_EmptySet
<1>5. \A f \in videos : f.folder = Series!HomeAt(y) /\ Series!Numbered(f) => f.episode \in S
  OBVIOUS
<1> HIDE DEF S
<1> QED
  BY <1>2, <1>3, <1>4, <1>5

(* r is the rank of y under w.                                             *)
Ranked(y, w, r) == (y = w /\ r = -2) \/ (y = 0 /\ r = -1) \/ r = 10000 - y
FourDigits(y) == y \in 0..9999

LEMMA RankBounds ==
  ASSUME NEW y, NEW w, NEW r, FourDigits(y), Ranked(y, w, r)
  PROVE  r \in Int /\ r >= -2
<1>1. y \in Int /\ y >= 0 /\ y <= 9999
  BY DEF FourDigits
<1>2. r = -2 \/ r = -1 \/ r = 10000 - y
  BY DEF Ranked
<1> QED
  BY <1>1, <1>2

LEMMA ThreeCases ==
  ASSUME NEW w, NEW y, NEW z, NEW r, NEW a, NEW b, NEW o, NEW p, NEW q, a # b,
         (y = w /\ r = a) \/ (y = o /\ r = b) \/ r = p, r = p => r # a /\ r # b,
         (z = w /\ r = a) \/ (z = o /\ r = b) \/ r = q, r = q => r # a /\ r # b,
         r = p /\ r = q => y = z
  PROVE  y = z
  OBVIOUS

LEMMA RankTells ==
  ASSUME NEW w, NEW y, NEW z, NEW r, FourDigits(y), FourDigits(z), Ranked(y, w, r),
         Ranked(z, w, r)
  PROVE  y = z
<1>1. y \in Int /\ y >= 0 /\ y <= 9999 /\ z \in Int /\ z >= 0 /\ z <= 9999
  BY DEF FourDigits
<1>2. (r = 10000 - y) => r # -2 /\ r # -1
  BY <1>1
<1>3. (r = 10000 - z) => r # -2 /\ r # -1
  BY <1>1
<1>4. -1 # -2
  OBVIOUS
<1>5. (r = 10000 - y) /\ (r = 10000 - z) => y = z
  BY <1>1
<1> QED
  BY <1>2, <1>3, <1>4, <1>5, ThreeCases DEF Ranked

LEMMA RankCases ==
  ASSUME NEW y, NEW w, NEW r, r = IF y = w THEN -2 ELSE IF y = 0 THEN -1 ELSE 10000 - y
  PROVE  Ranked(y, w, r)
<1>1. CASE y = w
  BY <1>1 DEF Ranked
<1>2. CASE y # w /\ y = 0
  <2>1. r = -1
    BY <1>2
  <2> QED
    BY <1>2, <2>1 DEF Ranked
<1>3. CASE y # w /\ y # 0
  <2>1. r = 10000 - y
    BY <1>3
  <2> QED
    BY <2>1 DEF Ranked
<1> QED
  BY <1>1, <1>2, <1>3

LEMMA RankIs ==
  ASSUME NEW y0 \in Series!AnyYear
  PROVE  /\ \A y \in Series!AnyYear : Series!Rank(y0, y) \in Int /\ Series!Rank(y0, y) >= -2
         /\ \A y, z \in Series!AnyYear : Series!Rank(y0, y) = Series!Rank(y0, z) => y = z
<1>1. ASSUME NEW y \in Series!AnyYear
      PROVE  Ranked(y, y0, Series!Rank(y0, y)) /\ FourDigits(y)
  <2>1. PICK r : r = Series!Rank(y0, y)
    OBVIOUS
  <2>2. r = IF y = y0 THEN -2 ELSE IF y = 0 THEN -1 ELSE 10000 - y
    BY <2>1 DEF Series!Rank, Series!NoYear
  <2>3. Ranked(y, y0, r)
    BY <2>2, RankCases
  <2>4. FourDigits(y)
    BY YearIs DEF FourDigits
  <2> QED
    BY <2>1, <2>3, <2>4
<1>2. \A y \in Series!AnyYear : Series!Rank(y0, y) \in Int /\ Series!Rank(y0, y) >= -2
  BY <1>1, RankBounds
<1>3. \A y, z \in Series!AnyYear : Series!Rank(y0, y) = Series!Rank(y0, z) => y = z
  BY <1>1, RankTells
<1> QED
  BY <1>2, <1>3

(* Of some years one has the best folder.                                  *)
LEMMA BestThereIs ==
  ASSUME SeriesShape, NEW y0 \in Series!AnyYear, NEW H, H \subseteq Series!AnyYear, H # {}
  PROVE  \E y \in H : \A z \in H \ {y} :
           \/ Series!Score(z) < Series!Score(y)
           \/ Series!Score(z) = Series!Score(y) /\ Series!Rank(y0, y) < Series!Rank(y0, z)
<1> DEFINE N == Cardinality(Episodes)
           Lack(y) == N - Series!Score(y)
           T == {Lack(y) : y \in H}
<1>1. \A y : Lack(y) \in Nat /\ Series!Score(y) \in Nat /\ N \in Nat
  BY ScoreIs
<1>2. T \subseteq Nat /\ T # {}
  BY <1>1
<1>3. PICK y1 \in H : \A z \in H : Lack(y1) <= Lack(z)
  <2>1. \E x \in T : \A y \in T : x <= y
    BY <1>2, LeastOf
  <2> QED
    BY <2>1
<1>4. \A z \in H : Series!Score(z) <= Series!Score(y1)
  BY <1>1, <1>3
<1> DEFINE B == {y \in H : Series!Score(y) = Series!Score(y1)}
           Place(y) == Series!Rank(y0, y) + 2
           U == {Place(y) : y \in B}
<1>5. \A y \in H : Place(y) \in Nat
  BY RankIs
<1>6. U \subseteq Nat /\ U # {}
  BY <1>5
<1>7. PICK y2 \in B : \A z \in B : Place(y2) <= Place(z)
  <2>1. \E x \in U : \A y \in U : x <= y
    BY <1>6, LeastOf
  <2> QED
    BY <2>1
<1>8. ASSUME NEW z \in H \ {y2}
      PROVE  \/ Series!Score(z) < Series!Score(y2)
             \/ Series!Score(z) = Series!Score(y2) /\ Series!Rank(y0, y2) < Series!Rank(y0, z)
  <2>1. Series!Score(y2) = Series!Score(y1) /\ Series!Score(z) <= Series!Score(y2)
    BY <1>4
  <2>2. CASE Series!Score(z) # Series!Score(y2)
    BY <1>1, <2>1, <2>2
  <2>3. CASE Series!Score(z) = Series!Score(y2)
    <3>1. z \in B
      BY <2>1, <2>3
    <3>2. Series!Rank(y0, y2) + 2 <= Series!Rank(y0, z) + 2
      BY <1>7, <3>1
    <3>3. /\ Series!Rank(y0, z) \in Int /\ Series!Rank(y0, y2) \in Int
          /\ Series!Rank(y0, y2) # Series!Rank(y0, z)
      BY RankIs
    <3> QED
      BY <2>3, <3>2, <3>3
  <2> QED
    BY <2>2, <2>3
<1> QED
  BY <1>8

(* series_home(): the folder of the year asked for, or that of a candidate. *)
LEMMA HomeIs ==
  ASSUME SeriesShape, NEW y0 \in Series!AnyYear
  PROVE  \/ /\ Series!Home(y0) = <<layout, y0>>
            /\ Series!SeriesYears(y0) = {y0} \/ Series!Homes(y0) = {}
         \/ \E y \in Series!Homes(y0) : Series!Home(y0) = <<Series!LayoutAt(y), y>>
<1> DEFINE H == Series!Homes(y0)
           P(y) == \A z \in H \ {y} :
             \/ Series!Score(z) < Series!Score(y)
             \/ Series!Score(z) = Series!Score(y) /\ Series!Rank(y0, y) < Series!Rank(y0, z)
           best == CHOOSE y \in H : P(y)
<1>1. Series!Home(y0) = IF Series!SeriesYears(y0) = {y0} \/ H = {} THEN <<layout, y0>>
                        ELSE <<Series!LayoutAt(best), best>>
  BY Zenon DEF Series!Home
<1>2. H \subseteq Series!AnyYear
  BY DEF Series!Homes, Series!SeriesYears
<1>3. H # {} => \E y \in H : P(y)
  BY <1>2, BestThereIs
<1>4. H # {} => best \in H
  BY <1>3, Zenon
<1> QED
  BY <1>1, <1>4, Zenon

(***************************************************************************)
(* What the check finds and where a new episode goes, in one state.        *)
(***************************************************************************)
LEMMA RendersAre ==
  ASSUME SeriesShape, NEW y \in Series!AnyYear
  PROVE  /\ Series!Renders(y) \subseteq Series!AllFolders
         /\ \A l \in {layout, "default"} :
              l \in Series!Layouts /\ Series!FolderOf(l, y) \in Series!Renders(y)
<1>1. layout \in Series!Layouts /\ "default" \in Series!Layouts
  BY DEF SeriesShape, Series!Layouts
<1> QED
  BY <1>1, FolderIs DEF Series!Renders

(* The years of the check are those it tries and whose folder is there.    *)
LEMMA YearsAre ==
  ASSUME SeriesShape, NEW y0 \in Series!AnyYear, NEW y \in Series!AnyYear
  PROVE  /\ y \in Series!SeriesYears(y0) => Tried(y, y0)
         /\ Tried(y, y0) /\ Series!Renders(y) \cap Series!Dirs # {} =>
              y \in Series!SeriesYears(y0)
<1>1. Series!Renders(y) \subseteq Series!AllFolders
  BY RendersAre
<1>2. ~(Series!Renders(y) \subseteq Series!Rejected) <=>
        \E g \in Series!Renders(y) : origin[g] # "rejected"
  BY <1>1 DEF Series!Rejected
<1> QED
  BY <1>2 DEF Series!SeriesYears, Tried

LEMMA NameIsTried ==
  ASSUME SeriesShape, NEW y0 \in Series!AnyYear, NEW y \in Series!AnyYear, NEW f \in videos,
         NEW l \in {layout, "default"}, Tried(y, y0),
         f = Series!Named(l, y, f.episode, f.container)
  PROVE  f \in Series!ByName(y0, f.episode)
<1>1. f \in Series!Files /\ f.container \in Series!Extensions /\ f.episode \in Episodes
  BY VideoIsTyped DEF SeriesShape
<1>2. l \in Series!Layouts /\ Series!FolderOf(l, y) \in Series!Renders(y)
  BY RendersAre
<1>3. f.folder = Series!FolderOf(l, y)
  BY <1>1, <1>2, NamedIs
<1>4. f.folder \in Series!Dirs
  BY DEF Series!Dirs
<1>5. y \in Series!SeriesYears(y0)
  BY <1>2, <1>3, <1>4, YearsAre
<1> QED
  BY <1>1, <1>5 DEF Series!ByName

(* A candidate is a year of the check, and its folder is there.            *)
LEMMA CandidateIs ==
  ASSUME SeriesShape, NEW y0 \in Series!AnyYear, NEW y \in Series!Homes(y0)
  PROVE  /\ y \in Series!AnyYear /\ Tried(y, y0) /\ Series!LayoutAt(y) \in {layout, "default"}
         /\ Series!FolderOf(Series!LayoutAt(y), y) = Series!HomeAt(y)
         /\ Series!HomeAt(y) \in Series!Dirs /\ origin[Series!HomeAt(y)] # "rejected"
<1>1. y \in Series!SeriesYears(y0) /\ Series!HomeAt(y) \in Series!Dirs \ Series!Rejected
  BY DEF Series!Homes
<1>2. y \in Series!AnyYear
  BY <1>1 DEF Series!SeriesYears
<1>3. Series!LayoutAt(y) \in {layout, "default"}
  BY DEF Series!LayoutAt
<1>4. Series!FolderOf(Series!LayoutAt(y), y) = Series!HomeAt(y)
  BY DEF Series!HomeAt
<1>5. Series!HomeAt(y) \in Series!AllFolders
  BY <1>2, <1>3, <1>4, RendersAre
<1>6. origin[Series!HomeAt(y)] # "rejected"
  BY <1>1, <1>5 DEF Series!Rejected
<1> QED
  BY <1>1, <1>2, <1>3, <1>4, <1>6, YearsAre

(* Where an episode goes the check will look, and not in a folder that was *)
(* rejected - or it is the folder of the year asked for.                   *)
LEMMA DestinationIs ==
  ASSUME SeriesShape, NEW y0 \in Series!AnyYear, NEW e \in Episodes,
         NEW f \in Series!Destinations(y0, e)
  PROVE  /\ f \in Series!Files /\ WayOK(f, y0)
         /\ \/ f.folder = Series!FolderOf(layout, y0)
            \/ f.folder \in Series!Dirs /\ origin[f.folder] # "rejected"
<1>1. CASE Series!Manual # {}
  <2>1. PICK g \in Series!Manual : f = Series!Placed(g, e, extension)
    BY <1>1 DEF Series!Destinations
  <2>2. g \in Series!Dirs /\ origin[g] = "manual"
    BY <2>1 DEF Series!Manual
  <2>3. g \in Series!AllFolders
    BY <2>2, VideoIsTyped DEF Series!Dirs, SeriesShape, Series!AllFolders
  <2>4. /\ f \in Series!Files /\ f.folder = g /\ f.episode = e /\ f.container = extension
    BY <2>1, <2>3, PlacedIs DEF SeriesShape
  <2> QED
    BY <2>1, <2>2, <2>4 DEF WayOK
<1>2. CASE Series!Manual = {}
  <2>1. f = Series!Named(Series!Home(y0)[1], Series!Home(y0)[2], e, extension)
    BY <1>2 DEF Series!Destinations
  <2>2. CASE Series!Home(y0) = <<layout, y0>>
    <3>1. f = Series!Named(layout, y0, e, extension)
      BY <2>1, <2>2
    <3>2. /\ f \in Series!Files /\ f.folder = Series!FolderOf(layout, y0)
          /\ f.episode = e /\ f.container = extension
      BY <3>1, NamedIs DEF SeriesShape
    <3> QED
      BY <3>1, <3>2 DEF WayOK, Tried
  <2>3. CASE \E y \in Series!Homes(y0) : Series!Home(y0) = <<Series!LayoutAt(y), y>>
    <3>1. PICK y \in Series!Homes(y0) : Series!Home(y0) = <<Series!LayoutAt(y), y>>
      BY <2>3
    <3>2. PICK l \in {layout, "default"} : l = Series!LayoutAt(y)
      BY CandidateIs
    <3>3. f = Series!Named(l, y, e, extension)
      BY <2>1, <3>1, <3>2
    <3>4. y \in Series!AnyYear /\ l \in Series!Layouts
      BY CandidateIs, RendersAre
    <3>5. /\ f \in Series!Files /\ f.folder = Series!FolderOf(l, y)
          /\ f.episode = e /\ f.container = extension
      BY <3>3, <3>4, NamedIs DEF SeriesShape
    <3>6. f.folder \in Series!Dirs /\ origin[f.folder] # "rejected" /\ Tried(y, y0)
      BY <3>2, <3>5, CandidateIs
    <3> QED
      BY <3>3, <3>4, <3>5, <3>6 DEF WayOK
  <2> QED
    BY <2>2, <2>3, HomeIs
<1> QED
  BY <1>1, <1>2

LEMMA AgreementHolds == SeriesInv => Series!DownloadAndCheckAgree
<1> SUFFICES ASSUME SeriesInv, NEW d \in Downloads \ unsettled, fetch[d].step = "written",
                    fetch[d].file \in videos
             PROVE  fetch[d].file \in Series!Existing(fetch[d].year, fetch[d].file.episode)
  BY DEF Series!DownloadAndCheckAgree
<1>1. PICK f \in videos : f = fetch[d].file
  OBVIOUS
<1>2. PICK y0 \in Series!AnyYear : y0 = fetch[d].year
  BY DEF SeriesInv, SeriesShape, Series!Idle, Streams, Fetches
<1>3. WayOK(f, y0) /\ SeriesShape
  BY <1>1, <1>2 DEF SeriesInv, SettledOK
<1>4. CASE \E y \in Series!AnyYear, l \in {layout, "default"} :
             Tried(y, y0) /\ f = Series!Named(l, y, f.episode, f.container)
  BY <1>1, <1>2, <1>3, <1>4, NameIsTried DEF Series!Existing
<1>5. CASE origin[f.folder] = "manual" /\ f = Series!Placed(f.folder, f.episode, f.container)
  <2>1. f.folder \in Series!Held
    BY <1>5 DEF Series!Held, Series!Dirs
  <2>2. f.container \in Series!Extensions
    BY <1>3, VideoIsTyped DEF SeriesShape
  <2>3. f \in Series!ByRegistry(f.episode)
    BY <1>5, <2>1, <2>2 DEF Series!ByRegistry
  <2> QED
    BY <1>1, <1>2, <2>3 DEF Series!Existing
<1> QED
  BY <1>3, <1>4, <1>5 DEF WayOK

LEMMA FiledIsFoundHolds == SeriesInv => Series!FiledIsFound
<1> SUFFICES ASSUME SeriesInv, NEW f \in videos, f.folder \notin disowned
             PROVE  /\ f \in filed /\ Series!Numbered(f) =>
                         Series!Existing(yearGiven, f.episode) # {}
                    /\ (/\ f = Series!Named("default", f.folder.year, f.episode, f.container)
                        /\ f.folder.year = Series!NoYear \/ f.folder.year >= yearGiven)
                       => f \in Series!ByName(yearGiven, f.episode)
  BY DEF Series!FiledIsFound
<1>1. SeriesShape /\ f \in Series!Files /\ yearGiven \in Series!AnyYear
  BY DEF SeriesInv, SeriesShape
<1>2. f.folder \in Series!AllFolders /\ f.folder.year \in Series!AnyYear
  BY <1>1, VideoIsTyped
<1>3. ASSUME f \in filed, Series!Numbered(f)
      PROVE  Series!Existing(yearGiven, f.episode) # {}
  <2>1. f.folder \in Series!Held
    BY <1>3 DEF SeriesInv, FiledOK, Series!Held, Series!Dirs
  <2>2. f \in Series!ByRegistry(f.episode)
    BY <1>3, <2>1 DEF Series!ByRegistry
  <2> QED
    BY <2>2 DEF Series!Existing
<1>4. ASSUME f = Series!Named("default", f.folder.year, f.episode, f.container),
             f.folder.year = Series!NoYear \/ f.folder.year >= yearGiven
      PROVE  f \in Series!ByName(yearGiven, f.episode)
  <2>1. PICK y \in Series!AnyYear : y = f.folder.year
    BY <1>2
  <2>2. f.folder = Series!FolderOf("default", y)
    BY <1>1, <1>4, <2>1, VideoIsTyped, NamedIs, RendersAre
  <2>3. f.folder \in Series!Renders(y) /\ origin[f.folder] # "rejected"
    BY <1>1, <1>2, <2>2, RendersAre DEF SeriesInv, RejectedOK
  <2>4. Tried(y, yearGiven)
    BY <1>4, <2>1, <2>3 DEF Tried
  <2> QED
    BY <1>1, <1>4, <2>1, <2>4, NameIsTried
<1> QED
  BY <1>3, <1>4

LEMMA RejectionHolds == SeriesInv => Series!RejectedIsLeftOut
<1> SUFFICES ASSUME SeriesInv, layout = "default", NEW g \in Series!Rejected,
                    g # Series!FolderOf(layout, yearGiven), NEW e \in Episodes
             PROVE  /\ \A f \in Series!Existing(yearGiven, e) : f.folder # g
                    /\ \A f \in Series!Destinations(yearGiven, e) : f.folder # g
  BY DEF Series!RejectedIsLeftOut
<1>1. SeriesShape /\ yearGiven \in Series!AnyYear
  BY DEF SeriesInv, SeriesShape
<1>2. g \in Series!AllFolders /\ origin[g] = "rejected"
  BY DEF Series!Rejected
<1>3. ASSUME NEW f \in Series!ByName(yearGiven, e) PROVE f.folder # g
  <2>1. PICK y \in Series!SeriesYears(yearGiven), c \in Series!Extensions :
           f = Series!Named("default", y, e, c)
    BY <1>3 DEF Series!ByName
  <2>2. y \in Series!AnyYear
    BY <1>1, <2>1 DEF Series!SeriesYears
  <2>3. f.folder = Series!FolderOf("default", y)
    BY <1>1, <2>1, <2>2, NamedIs, RendersAre
  <2>4. CASE y = yearGiven
    BY <2>3, <2>4
  <2>5. CASE y # yearGiven
    <3>1. Tried(y, yearGiven)
      BY <1>1, <2>1, <2>2, YearsAre
    <3>2. Series!Renders(y) = {f.folder}
      BY <2>3 DEF Series!Renders
    <3> QED
      BY <1>2, <2>5, <3>1, <3>2 DEF Tried
  <2> QED
    BY <2>4, <2>5
<1>4. ASSUME NEW f \in Series!ByRegistry(e) PROVE f.folder # g
  BY <1>2, <1>4 DEF Series!ByRegistry, Series!Held
<1>5. ASSUME NEW f \in Series!Destinations(yearGiven, e) PROVE f.folder # g
  BY <1>1, <1>2, <1>5, DestinationIs
<1> QED
  BY <1>3, <1>4, <1>5 DEF Series!Existing

LEMMA TogethernessHolds == SeriesInv => Series!SeriesStaysTogether
<1> SUFFICES ASSUME SeriesInv, NEW f \in videos, Series!Numbered(f),
                    f.folder \notin Series!Rejected,
                    f.folder.year \in Series!SeriesYears(yearGiven) \ {yearGiven},
                    f.folder = Series!HomeAt(f.folder.year),
                    NEW e \in Episodes, NEW g \in Series!Destinations(yearGiven, e)
             PROVE  g.folder \in Series!Dirs
  BY DEF Series!SeriesStaysTogether
<1>1. SeriesShape /\ yearGiven \in Series!AnyYear
  BY DEF SeriesInv, SeriesShape
<1>2. PICK y : y = f.folder.year
  OBVIOUS
<1>3. f.folder \in Series!Dirs
  BY DEF Series!Dirs
<1>4. Series!Score(y) > 0
  BY <1>1, <1>2, ScoreIs
<1>5. y \in Series!Homes(yearGiven) /\ Series!SeriesYears(yearGiven) # {yearGiven}
  BY <1>2, <1>3, <1>4 DEF Series!Homes
<1>6. CASE Series!Manual # {}
  <2>1. PICK h \in Series!Manual : g = Series!Placed(h, e, extension)
    BY <1>6 DEF Series!Destinations
  <2>2. h \in Series!Dirs
    BY <2>1 DEF Series!Manual
  <2>3. h \in Series!AllFolders
    BY <1>1, <2>2, VideoIsTyped DEF Series!Dirs, SeriesShape, Series!AllFolders
  <2> QED
    BY <1>1, <2>1, <2>2, <2>3, PlacedIs DEF SeriesShape
<1>7. CASE Series!Manual = {}
  <2>1. PICK z \in Series!Homes(yearGiven) :
           Series!Home(yearGiven) = <<Series!LayoutAt(z), z>>
    BY <1>1, <1>5, HomeIs
  <2>2. g = Series!Named(Series!LayoutAt(z), z, e, extension)
    BY <1>7, <2>1 DEF Series!Destinations
  <2>3. z \in Series!AnyYear /\ Series!LayoutAt(z) \in Series!Layouts
    BY <1>1, CandidateIs, RendersAre
  <2>4. g.folder = Series!HomeAt(z)
    BY <1>1, <2>2, <2>3, NamedIs, CandidateIs DEF SeriesShape
  <2> QED
    BY <1>1, <2>4, CandidateIs
<1> QED
  BY <1>6, <1>7


(***************************************************************************)
(* The steps.                                                              *)
(***************************************************************************)
LEMMA SeriesInit == Series!Init => SeriesInv
BY DEF Series!Init, SeriesInv, SeriesShape, RejectedOK, FiledOK, SettledOK, Series!Extensions,
       Series!Idle, Origins

LEMMA FetchIs ==
  ASSUME SeriesShape, NEW d \in Downloads
  PROVE  /\ fetch[d] \in {Series!Idle} \cup Streams \cup Fetches
         /\ fetch[d].step = "stream" => fetch[d] \in Streams
         /\ fetch[d].step \in {"fetch", "written"} => fetch[d] \in Fetches
  BY DEF SeriesShape, Series!Idle, Streams, Fetches

(* A way depends on the layout and the registry only.                      *)
LEMMA WayStays ==
  ASSUME NEW f, NEW y0, UNCHANGED <<layout, origin>>, WayOK(f, y0)
  PROVE  WayOK(f, y0)'
<1>1. \A y : Tried(y, y0) => Tried(y, y0)'
  BY DEF Tried, Series!Renders
<1>2. \A g, e, c : Series!Placed(g, e, c)' = Series!Placed(g, e, c)
  BY DEF Series!Placed
<1> QED
  BY <1>1, <1>2 DEF WayOK

LEMMA AStream ==
  ASSUME NEW y \in Series!AnyYear, NEW e \in Episodes
  PROVE  LET r == [step |-> "stream", year |-> y, episode |-> e]
         IN r \in Streams /\ r.step = "stream"
  BY DEF Streams

LEMMA AFetch ==
  ASSUME NEW step \in {"fetch", "written"}, NEW y \in Series!AnyYear, NEW f \in Series!Files
  PROVE  LET r == [step |-> step, year |-> y, file |-> f]
         IN r \in Fetches /\ r.step = step /\ r.file = f /\ r.year = y
  BY DEF Fetches

(* A download moves on to r, and no folder of the series is disturbed.     *)
LEMMA FetchMoves ==
  ASSUME SeriesInv, NEW d \in Downloads, NEW r \in {Series!Idle} \cup Streams \cup Fetches,
         fetch' = [fetch EXCEPT ![d] = r],
         r.step \in {"fetch", "written"} /\ d \notin unsettled' => WayOK(r.file, r.year),
         unsettled \subseteq unsettled' \cup {d},
         UNCHANGED <<layout, origin>>
  PROVE  SettledOK' /\ fetch' \in [Downloads -> {Series!Idle} \cup Streams \cup Fetches]
<1>1. fetch' \in [Downloads -> {Series!Idle} \cup Streams \cup Fetches]
  BY DEF SeriesInv, SeriesShape
<1>2. \A x \in Downloads : fetch'[x] = IF x = d THEN r ELSE fetch[x]
  BY DEF SeriesInv, SeriesShape
<1>3. ASSUME NEW x \in Downloads \ unsettled', fetch'[x].step \in {"fetch", "written"}
      PROVE  WayOK(fetch[x].file, fetch[x].year)'
  <2>1. PICK f, y0 : f = fetch'[x].file /\ y0 = fetch'[x].year
    OBVIOUS
  <2>2. WayOK(f, y0)
    BY <1>2, <1>3, <2>1 DEF SeriesInv, SettledOK
  <2> QED
    BY <2>1, <2>2, WayStays
<1> QED
  BY <1>1, <1>3 DEF SettledOK

LEMMA BeginKeepsSeries ==
  ASSUME SeriesInv, NEW d \in Downloads, Series!Begin(d)
  PROVE  SeriesInv'
<1>1. PICK e \in Episodes :
         fetch' = [fetch EXCEPT ![d] = [step |-> "stream", year |-> yearGiven, episode |-> e]]
  BY DEF Series!Begin
<1>2. PICK r \in Streams : /\ r = [step |-> "stream", year |-> yearGiven, episode |-> e]
                           /\ r.step = "stream"
  BY AStream DEF SeriesInv, SeriesShape
<1>3. UNCHANGED <<layout, extension, yearGiven, videos, origin, filed, disowned>>
      /\ unsettled' = unsettled \ {d}
  BY DEF Series!Begin
<1>4. SettledOK' /\ fetch' \in [Downloads -> {Series!Idle} \cup Streams \cup Fetches]
  BY <1>1, <1>2, <1>3, FetchMoves
<1> QED
  BY <1>3, <1>4 DEF SeriesInv, SeriesShape, RejectedOK, FiledOK

LEMMA PlaceKeeps ==
  ASSUME SeriesInv, NEW d \in Downloads, Series!Place(d)
  PROVE  SeriesInv'
<1>1. fetch[d] \in Streams /\ SeriesShape
  BY FetchIs DEF Series!Place, SeriesInv
<1>2. PICK y0 \in Series!AnyYear, e \in Episodes : y0 = fetch[d].year /\ e = fetch[d].episode
  BY <1>1 DEF Streams
<1>3. PICK f \in Series!Destinations(y0, e) :
         fetch' = [fetch EXCEPT ![d] = [step |-> "fetch", year |-> y0, file |-> f]]
  BY <1>2 DEF Series!Place
<1>4. f \in Series!Files /\ WayOK(f, y0)
  BY <1>1, DestinationIs
<1>5. PICK r \in Fetches : /\ r = [step |-> "fetch", year |-> y0, file |-> f]
                           /\ r.file = f /\ r.year = y0
  <2>1. PICK s \in {"fetch", "written"} : s = "fetch"
    OBVIOUS
  <2>2. PICK r : r = [step |-> s, year |-> y0, file |-> f]
    OBVIOUS
  <2>3. r \in Fetches /\ r.file = f /\ r.year = y0
    BY <1>4, <2>2, AFetch
  <2> QED
    BY <2>1, <2>2, <2>3
<1>6. UNCHANGED <<layout, extension, yearGiven, videos, origin, filed, disowned>>
      /\ unsettled' = unsettled \ {d}
  BY DEF Series!Place
<1>7. SettledOK' /\ fetch' \in [Downloads -> {Series!Idle} \cup Streams \cup Fetches]
  BY <1>3, <1>4, <1>5, <1>6, FetchMoves
<1> QED
  BY <1>6, <1>7 DEF SeriesInv, SeriesShape, RejectedOK, FiledOK

LEMMA WriteKeepsSeries ==
  ASSUME SeriesInv, NEW d \in Downloads, Series!Write(d)
  PROVE  SeriesInv'
<1>1. fetch[d] \in Fetches /\ SeriesShape
  BY FetchIs DEF Series!Write, SeriesInv
<1>2. PICK f \in Series!Files, y0 \in Series!AnyYear : f = fetch[d].file /\ y0 = fetch[d].year
  BY <1>1 DEF Fetches
<1>3. /\ fetch' = [fetch EXCEPT ![d].step = "written"]
      /\ videos' = {x \in videos : [x EXCEPT !.container = f.container] # f} \cup {f}
      /\ filed' = filed \ {[f EXCEPT !.container = c] : c \in Series!Extensions}
      /\ UNCHANGED <<layout, extension, yearGiven, origin, disowned, unsettled>>
  BY <1>2 DEF Series!Write
<1>4. PICK r \in Fetches : /\ r = [fetch[d] EXCEPT !.step = "written"]
                           /\ r.file = f /\ r.year = y0
  <2>1. [fetch[d] EXCEPT !.step = "written"] = [step |-> "written", year |-> y0, file |-> f]
    BY <1>1, <1>2 DEF Fetches
  <2> QED
    BY <2>1, AFetch
<1>5. fetch' = [fetch EXCEPT ![d] = r]
  BY <1>1, <1>3, <1>4 DEF SeriesShape
<1>6. d \notin unsettled => WayOK(f, y0)
  BY <1>2 DEF SeriesInv, SettledOK, Series!Write
<1>7. SettledOK' /\ fetch' \in [Downloads -> {Series!Idle} \cup Streams \cup Fetches]
  BY <1>3, <1>4, <1>5, <1>6, FetchMoves
<1>8. videos' \subseteq Series!Files
  BY <1>1, <1>3 DEF SeriesShape
<1>9. ASSUME NEW x \in filed' PROVE x \in videos'
  <2>1. x \in filed /\ x \in videos /\ x \in Series!Files
    BY <1>1, <1>3 DEF SeriesShape
  <2>2. CASE [x EXCEPT !.container = f.container] = f
    <3>1. x = [f EXCEPT !.container = x.container] /\ x.container \in Series!Extensions
      BY <2>1, <2>2 DEF Series!Files
    <3> QED
      BY <1>3, <3>1
  <2> QED
    BY <1>3, <2>1, <2>2
<1>10. filed' \subseteq filed
  BY <1>3
<1> QED
  BY <1>1, <1>3, <1>7, <1>8, <1>9, <1>10 DEF SeriesInv, SeriesShape, RejectedOK, FiledOK

LEMMA FailKeepsSeries ==
  ASSUME SeriesInv, NEW d \in Downloads, Series!Fail(d)
  PROVE  SeriesInv'
<1>1. /\ fetch' = [fetch EXCEPT ![d] = Series!Idle]
      /\ UNCHANGED <<layout, extension, yearGiven, videos, origin, filed, disowned, unsettled>>
  BY DEF Series!Fail
<1>2. Series!Idle.step \notin {"fetch", "written"}
  BY DEF Series!Idle
<1>3. SettledOK' /\ fetch' \in [Downloads -> {Series!Idle} \cup Streams \cup Fetches]
  BY <1>1, <1>2, FetchMoves
<1> QED
  BY <1>1, <1>3 DEF SeriesInv, SeriesShape, RejectedOK, FiledOK


LEMMA FileDownloadKeeps ==
  ASSUME SeriesInv, NEW d \in Downloads, Series!FileDownload(d)
  PROVE  SeriesInv'
<1>1. fetch[d] \in Fetches /\ SeriesShape
  BY FetchIs DEF Series!FileDownload, SeriesInv
<1>2. PICK written \in Series!Files : written = fetch[d].file
  BY <1>1 DEF Fetches
<1>3. written.folder \in Series!AllFolders
  BY VideoIsTyped
<1>4. /\ UNCHANGED <<layout, extension, yearGiven, videos, disowned, unsettled>>
      /\ fetch' = [fetch EXCEPT ![d] = Series!Idle]
      /\ filed' = filed \cup ({written} \cap videos)
  BY <1>2 DEF Series!FileDownload
<1>5. /\ origin' \in [Series!AllFolders -> Origins]
      /\ \A g \in Series!AllFolders :
           /\ origin'[g] \in {"download", "matched", origin[g]}
           /\ origin[g] \in {"manual", "rejected", "download"} => origin'[g] = origin[g]
           /\ origin[g] = "matched" => origin'[g] \in {"matched", "download"}
      /\ origin[written.folder] # "rejected" =>
           origin'[written.folder] \in {"download", "manual"}
  <2>1. PICK older :
          origin' = [g \in Series!AllFolders |->
            IF g = written.folder /\ origin[g] \in {"none", "matched"} THEN "download"
            ELSE IF g \in older /\ origin[g] = "none" THEN "matched"
            ELSE origin[g]]
    BY <1>2 DEF Series!FileDownload
  <2>2. \A g \in Series!AllFolders : origin[g] \in Origins
    BY <1>1 DEF SeriesShape
  <2> QED
    BY <1>3, <2>1, <2>2 DEF Origins
<1>6. ASSUME NEW x \in Downloads \ unsettled', fetch'[x].step \in {"fetch", "written"}
      PROVE  WayOK(fetch[x].file, fetch[x].year)'
  <2>1. x # d /\ fetch'[x] = fetch[x] /\ x \notin unsettled
    BY <1>1, <1>4, <1>6 DEF SeriesShape, Series!Idle
  <2>2. PICK f \in Series!Files, y0 \in Series!AnyYear :
          f = fetch'[x].file /\ y0 = fetch'[x].year
    BY <1>1, <1>6, <2>1, FetchIs DEF Fetches
  <2>3. WayOK(f, y0)
    BY <1>6, <2>1, <2>2 DEF SeriesInv, SettledOK
  <2>4. f.folder \in Series!AllFolders
    BY VideoIsTyped
  <2>5. ASSUME NEW y \in Series!AnyYear, Tried(y, y0)
        PROVE  Tried(y, y0)'
    <3>1. Series!Renders(y)' = Series!Renders(y) /\ Series!Renders(y) \subseteq Series!AllFolders
      BY <1>1, <1>4, RendersAre DEF Series!Renders
    <3>2. \A g \in Series!AllFolders : origin[g] # "rejected" => origin'[g] # "rejected"
      BY <1>5
    <3> QED
      BY <2>5, <3>1, <3>2 DEF Tried
  <2>6. CASE origin[f.folder] = "manual" /\ f = Series!Placed(f.folder, f.episode, f.container)
    <3>1. \A g, e, c : Series!Placed(g, e, c)' = Series!Placed(g, e, c)
      BY <1>4 DEF Series!Placed
    <3>2. origin'[f.folder] = "manual"
      BY <1>5, <2>4, <2>6
    <3> QED
      BY <2>2, <2>6, <3>1, <3>2 DEF WayOK
  <2>7. CASE \E y \in Series!AnyYear, l \in {layout, "default"} :
               Tried(y, y0) /\ f = Series!Named(l, y, f.episode, f.container)
    BY <1>4, <2>2, <2>5, <2>7 DEF WayOK
  <2> QED
    BY <2>3, <2>6, <2>7 DEF WayOK
<1>7. SettledOK'
  BY <1>6 DEF SettledOK
<1>8. fetch' \in [Downloads -> {Series!Idle} \cup Streams \cup Fetches]
  BY <1>1, <1>4 DEF SeriesShape
<1>9. RejectedOK'
  BY <1>4, <1>5 DEF SeriesInv, RejectedOK
<1>10. ASSUME NEW f \in filed', f.folder \notin disowned'
       PROVE  origin'[f.folder] \in {"download", "matched", "manual"}
  <2>1. f.folder \in Series!AllFolders
    BY <1>1, <1>3, <1>4, <1>10, VideoIsTyped DEF SeriesShape
  <2>2. CASE f = written
    BY <1>3, <1>4, <1>5, <1>10, <2>2 DEF SeriesInv, RejectedOK
  <2>3. CASE f \in filed
    BY <1>4, <1>5, <1>10, <2>1, <2>3 DEF SeriesInv, FiledOK
  <2> QED
    BY <1>4, <2>2, <2>3
<1> QED
  BY <1>1, <1>4, <1>5, <1>7, <1>8, <1>9, <1>10 DEF SeriesInv, SeriesShape, FiledOK

(* What is changed unsettles every download.                               *)
LEMMA ChangeKeeps ==
  ASSUME SeriesInv, Series!Settings \/ Series!Decide \/ Series!Delete
  PROVE  SeriesInv'
<1>1. unsettled' = Downloads /\ fetch' = fetch
  BY DEF Series!Settings, Series!Decide, Series!Delete, Series!Change
<1>2. SettledOK'
  BY <1>1 DEF SettledOK
<1>3. CASE Series!Settings
  <2>1. UNCHANGED <<videos, origin, filed, disowned>>
    BY <1>3 DEF Series!Settings
  <2>2. /\ layout' \in Series!Layouts /\ extension' \in Series!Extensions
        /\ yearGiven' \in Series!AnyYear
    BY <1>3 DEF Series!Settings, SeriesInv, SeriesShape
  <2> QED
    BY <1>1, <1>2, <2>1, <2>2 DEF SeriesInv, SeriesShape, RejectedOK, FiledOK
<1>4. CASE Series!Delete
  <2>1. /\ UNCHANGED <<layout, extension, yearGiven, origin, disowned>>
        /\ \E f \in videos : videos' = videos \ {f} /\ filed' = filed \ {f}
    BY <1>4 DEF Series!Delete
  <2> QED
    BY <1>1, <1>2, <2>1 DEF SeriesInv, SeriesShape, RejectedOK, FiledOK
<1>5. CASE Series!Decide
  <2>1. UNCHANGED <<layout, extension, yearGiven, videos, filed>>
    BY <1>5 DEF Series!Decide
  <2>2. ASSUME NEW g \in Series!AllFolders, NEW o \in {"manual", "none"},
               origin' = [origin EXCEPT ![g] = o], disowned' = disowned,
               o = "none" => origin[g] = "rejected"
        PROVE  SeriesInv'
    <3>1. origin' \in [Series!AllFolders -> Origins]
      BY <2>2 DEF SeriesInv, SeriesShape, Origins
    <3>2. RejectedOK'
      BY <2>2 DEF SeriesInv, SeriesShape, RejectedOK
    <3>3. FiledOK'
      BY <2>1, <2>2, VideoIsTyped DEF SeriesInv, SeriesShape, RejectedOK, FiledOK
    <3> QED
      BY <1>1, <1>2, <2>1, <3>1, <3>2, <3>3 DEF SeriesInv, SeriesShape
  <2>3. ASSUME NEW g \in Series!AllFolders, origin' = [origin EXCEPT ![g] = "rejected"],
               disowned' = disowned \cup {g}
        PROVE  SeriesInv'
    <3>1. origin' \in [Series!AllFolders -> Origins]
      BY <2>3 DEF SeriesInv, SeriesShape, Origins
    <3>2. RejectedOK'
      BY <2>3 DEF SeriesInv, SeriesShape, RejectedOK
    <3>3. FiledOK'
      BY <2>1, <2>3, VideoIsTyped DEF SeriesInv, SeriesShape, FiledOK
    <3> QED
      BY <1>1, <1>2, <2>1, <3>1, <3>2, <3>3 DEF SeriesInv, SeriesShape
  <2>4. Series!Dirs \subseteq Series!AllFolders
    BY VideoIsTyped DEF Series!Dirs, SeriesInv, SeriesShape, Series!AllFolders
  <2> QED
    BY <1>5, <2>2, <2>3, <2>4 DEF Series!Decide, Series!Rejected
<1> QED
  BY <1>3, <1>4, <1>5

LEMMA SeriesNext == SeriesInv /\ (Series!Next \/ UNCHANGED Series!vars) => SeriesInv'
<1>1. SeriesInv /\ UNCHANGED Series!vars => SeriesInv'
  BY DEF Series!vars, SeriesInv, SeriesShape, RejectedOK, FiledOK, SettledOK, WayOK, Tried,
         Series!Renders, Series!Placed
<1> QED
  BY <1>1, BeginKeepsSeries, PlaceKeeps, WriteKeepsSeries, FailKeepsSeries, FileDownloadKeeps,
     ChangeKeeps DEF Series!Next

\* Of app/requests/resolver.py, for any episodes, years and downloads, as far as each promise
\* goes: the check finds what a download wrote if nothing changed while it was under way;
\* what was filed it finds whatever templates, container and year become, if its name has a
\* number and nobody ever rejected its folder; with the default templates it leaves out the
\* rejected folders, but for that of the very year; and a new episode joins the folder that
\* counts for another year.  A series of one year may get a second folder when the template
\* of folders changes, and a file without a number in its name may be found by nobody.
THEOREM TheSeriesIsFound == Spec => []EpisodesAreFound
<1> DEFINE I == focus = "series" => SeriesInv
<1>1. Init => I
  BY SeriesInit DEF Init
<1>2. I /\ [Next]_vars => I'
  BY SeriesNext DEF Next, vars, Series!vars
<1>3. I => EpisodesAreFound
  BY AgreementHolds, FiledIsFoundHolds, RejectionHolds, TogethernessHolds
     DEF EpisodesAreFound, Series!EpisodesAreFound
<1> QED
  BY <1>1, <1>2, <1>3, PTL DEF Spec

(***************************************************************************)
(* The types of the rest: the bound and the histories.                     *)
(***************************************************************************)
seriesChanges == v7
USE DEF seriesChanges

SeriesTypes ==
  /\ seriesChanges \in 0..MaxChanges
  /\ disowned \subseteq Series!AllFolders /\ unsettled \subseteq Downloads

LEMMA SeriesTypesKept ==
  ASSUME SeriesInv, SeriesTypes, Series!Next \/ UNCHANGED Series!vars
  PROVE  SeriesTypes'
<1>1. ASSUME NEW d \in Downloads,
             \/ Series!Begin(d) \/ Series!Place(d) \/ Series!Write(d) \/ Series!Fail(d)
             \/ Series!FileDownload(d)
      PROVE  SeriesTypes'
  <2>1. UNCHANGED <<seriesChanges, disowned>> /\ unsettled' \subseteq unsettled
    BY <1>1 DEF Series!Begin, Series!Place, Series!Write, Series!Fail, Series!FileDownload
  <2> QED
    BY <2>1 DEF SeriesTypes
<1>2. CASE Series!Settings \/ Series!Decide \/ Series!Delete
  <2>1. Series!Change
    BY <1>2 DEF Series!Settings, Series!Decide, Series!Delete
  <2>2. seriesChanges' \in 0..MaxChanges
    BY <2>1, BoundsAssumption DEF Series!Change, SeriesTypes
  <2>3. unsettled' \subseteq Downloads
    BY <2>1 DEF Series!Change
  <2>4. disowned' \subseteq Series!AllFolders
    BY <1>2 DEF Series!Settings, Series!Decide, Series!Delete, SeriesTypes
  <2> QED
    BY <2>2, <2>3, <2>4 DEF SeriesTypes
<1>3. CASE UNCHANGED Series!vars
  BY <1>3 DEF Series!vars, SeriesTypes
<1> QED
  BY <1>1, <1>2, <1>3 DEF Series!Next

LEMMA SeriesTyped == Spec => [](focus = "series" => Series!TypeOK)
<1> DEFINE I == focus = "series" => SeriesInv /\ SeriesTypes
           O == focus = "series" => Series!TypeOK
<1>1. Init => I
  <2>1. 0 \in 0..MaxChanges
    BY BoundsAssumption
  <2>2. Series!Init => SeriesTypes
    BY <2>1, Zenon DEF Series!Init, SeriesTypes
  <2> QED
    BY <2>2, SeriesInit DEF Init
<1>2. I /\ [Next]_vars => I'
  BY SeriesNext, SeriesTypesKept DEF Next, vars, Series!vars
<1>3. I => O
  BY DEF SeriesInv, SeriesShape, SeriesTypes, Series!TypeOK, Origins, Streams, Fetches
<1> QED
  BY <1>1, <1>2, <1>3, PTL DEF Spec

-----------------------------------------------------------------------------

(***************************************************************************)
(* Updates: a thread that works is that of the last update, and the state  *)
(* the pages read is its own (WorkIsShown), so that no later page reads    *)
(* what an earlier update came to (PollsOK).  And once a request has made  *)
(* its copy of the database there is one for good, of a version not later  *)
(* than the one that runs (CopyOK).                                        *)
(***************************************************************************)
published == v1
version == v2
known == v3
recent == v4
downloading == v5
backup == v6
client == v7
image == v8
state == v9
shown == v10
runs == v11
pulling == v12
USE DEF published, version, known, recent, downloading, backup, client, image, state, shown,
        runs, pulling

ClientSteps == {"idle", "checking", "answered", "installing", "backed up", "polling"}
Versions == 0..MaxVersion
RunNumbers == 0..MaxRuns
Clients == [at : ClientSteps, answer : Versions, of : RunNumbers]
AtWork == {"pulling", "recreating", "recreated"}

UpdatesShape ==
  /\ published \in Nat /\ published >= 1 /\ published <= MaxVersion
  /\ image \in Nat /\ image >= 1 /\ image <= published
  /\ version \in Nat /\ version >= 1 /\ version <= image
  /\ known \in Versions /\ recent \in BOOLEAN /\ downloading \in BOOLEAN
  /\ backup \in Nat /\ backup <= version
  /\ client \in [Calls -> Clients]
  /\ state \in {"idle", "pulling", "recreating", "unchanged", "done", "failed"}
  /\ runs \in Nat /\ runs <= MaxRuns /\ shown \in Nat /\ shown <= runs
  /\ pulling \in [Upgrade!Runs -> {"none", "ended"} \cup AtWork]

CopyOK ==
  /\ \A c \in Calls : client[c].at = "backed up" => backup >= 1
  /\ runs >= 1 => backup >= 1
WorkIsShown ==
  \A r \in Upgrade!Runs : pulling[r] \in AtWork =>
    /\ r = runs /\ shown = r
    /\ state = IF pulling[r] = "pulling" THEN "pulling" ELSE "recreating"
PollsOK ==
  \A c \in Calls : client[c].at = "polling" =>
    client[c].of <= runs /\ ~(1 <= shown /\ shown < client[c].of)

UpdatesInv == UpdatesShape /\ CopyOK /\ WorkIsShown /\ PollsOK


LEMMA IdleIs == Upgrade!Idle \in Clients /\ Upgrade!Idle.at = "idle"
<1>1. 0 \in Versions /\ 0 \in RunNumbers /\ "idle" \in ClientSteps
  BY UpdatesAssumption DEF Versions, RunNumbers, ClientSteps
<1> QED
  BY <1>1 DEF Upgrade!Idle, Clients

LEMMA UpdatesInit == Upgrade!Init => UpdatesInv
<1> SUFFICES ASSUME Upgrade!Init PROVE UpdatesInv
  OBVIOUS
<1>1. UpdatesShape
  <2>1. MaxVersion \in Nat /\ MaxVersion >= 1 /\ MaxRuns \in Nat
    BY UpdatesAssumption
  <2>2. /\ published = 1 /\ image = 1 /\ version = 1 /\ known = 0 /\ backup = 0
        /\ runs = 0 /\ shown = 0
    BY DEF Upgrade!Init
  <2>3. 0 \in Versions
    BY <2>1 DEF Versions
  <2>4. /\ published \in Nat /\ published >= 1 /\ published <= MaxVersion
        /\ image \in Nat /\ image >= 1 /\ image <= published
        /\ version \in Nat /\ version >= 1 /\ version <= image
        /\ backup \in Nat /\ backup <= version
        /\ runs \in Nat /\ runs <= MaxRuns /\ shown \in Nat /\ shown <= runs
    BY <2>1, <2>2
  <2>5. /\ recent \in BOOLEAN /\ downloading \in BOOLEAN /\ state = "idle"
        /\ client \in [Calls -> Clients]
        /\ pulling \in [Upgrade!Runs -> {"none", "ended"} \cup AtWork]
    BY IdleIs DEF Upgrade!Init
  <2>6. known \in Versions
    BY <2>2, <2>3
  <2> QED
    BY <2>4, <2>5, <2>6 DEF UpdatesShape
<1>2. \A r \in Upgrade!Runs : pulling[r] = "none"
  BY DEF Upgrade!Init
<1>3. \A c \in Calls : client[c].at = "idle"
  BY IdleIs DEF Upgrade!Init
<1> QED
  BY <1>1, <1>2, <1>3 DEF Upgrade!Init, UpdatesInv, CopyOK, WorkIsShown, PollsOK, AtWork

LEMMA NumbersAre ==
  ASSUME UpdatesShape
  PROVE  /\ published \in Nat /\ published >= 1 /\ published <= MaxVersion
         /\ image \in Nat /\ image >= 1 /\ image <= published
         /\ version \in Nat /\ version >= 1 /\ version <= image
         /\ backup \in Nat /\ backup <= version /\ known \in Versions
         /\ runs \in Nat /\ runs <= MaxRuns /\ shown \in Nat /\ shown <= runs
         /\ MaxVersion \in Nat /\ MaxRuns \in Nat
  BY UpdatesAssumption DEF UpdatesShape

LEMMA CopyIsLater ==
  ASSUME NEW v \in Nat, NEW b \in Nat, b <= v, NEW n, n = b \/ n = v
  PROVE  n \in Nat /\ n <= v /\ n >= b
  OBVIOUS

LEMMA SameIsNotLater == ASSUME NEW v \in Nat PROVE ~(v > v)
  OBVIOUS

(* A step of a request or a page that starts no update.                    *)
LEMMA ClientMoves ==
  ASSUME UpdatesInv, NEW c \in Calls, NEW r \in Clients, client' = [client EXCEPT ![c] = r],
         r.at = "polling" => client[c].at = "polling" /\ r.of = client[c].of,
         r.at = "backed up" => backup' >= 1,
         backup' = backup \/ backup' = version,
         known' \in Versions, recent' \in BOOLEAN,
         UNCHANGED <<published, version, downloading, image, state, shown, runs, pulling>>
  PROVE  UpdatesInv' /\ Upgrade!WayBackIsThere
<1>1. \A x \in Calls : client'[x] = IF x = c THEN r ELSE client[x]
  BY DEF UpdatesInv, UpdatesShape
<1>0. version \in Nat /\ backup \in Nat /\ backup <= version /\ version' = version
  BY NumbersAre DEF UpdatesInv
<1>2. backup' \in Nat /\ backup' <= version /\ backup' >= backup
  BY <1>0, CopyIsLater, Zenon
<1>3. UpdatesShape'
  BY <1>2 DEF UpdatesInv, UpdatesShape
<1>4. CopyOK'
  BY <1>1, <1>2 DEF UpdatesInv, UpdatesShape, CopyOK
<1>5. WorkIsShown'
  BY DEF UpdatesInv, WorkIsShown, Upgrade!Busy
<1>6. PollsOK'
  BY <1>1 DEF UpdatesInv, PollsOK
<1>7. Upgrade!WayBackIsThere
  BY <1>0, SameIsNotLater, Zenon DEF Upgrade!WayBackIsThere
<1> QED
  BY <1>3, <1>4, <1>5, <1>6, <1>7 DEF UpdatesInv

(* A step of the thread of an update: it works on, in state s, or ends.    *)
LEMMA ThreadMoves ==
  ASSUME UpdatesInv, NEW r \in Upgrade!Runs, pulling[r] \in AtWork,
         NEW step \in {"ended", "recreating", "recreated"},
         pulling' = [pulling EXCEPT ![r] = step], shown' = r, runs' = runs,
         state' \in {"recreating", "unchanged", "done", "failed"},
         step # "ended" => state' = "recreating",
         client' \in [Calls -> Clients],
         \A c \in Calls : client'[c].at \in {"idle", client[c].at} /\
                          (client'[c].at # "idle" => client'[c] = client[c]),
         image' \in Nat, image' >= 1, image' <= published,
         version' \in Nat, version' >= version, version' <= image',
         known' \in Versions, recent' \in BOOLEAN, downloading' \in BOOLEAN,
         UNCHANGED <<published, backup>>
  PROVE  UpdatesInv' /\ Upgrade!WayBackIsThere
<1>1. r = runs /\ shown = r /\ r >= 1 /\ r \in Nat
  BY DEF UpdatesInv, WorkIsShown, Upgrade!Runs
<1>2. /\ backup' \in Nat /\ backup' <= version' /\ version' >= 1
      /\ shown' \in Nat /\ shown' <= runs' /\ runs' \in Nat /\ runs' <= MaxRuns
      /\ published' \in Nat /\ published' >= 1 /\ published' <= MaxVersion
      /\ image' <= published'
  BY <1>1, NumbersAre DEF UpdatesInv
<1>3. pulling' \in [Upgrade!Runs -> {"none", "ended"} \cup AtWork]
  BY DEF UpdatesInv, UpdatesShape, AtWork
<1>4. UpdatesShape'
  BY <1>2, <1>3 DEF UpdatesShape
<1>5. CopyOK'
  BY DEF UpdatesInv, CopyOK
<1>6. WorkIsShown'
  <2>1. ASSUME NEW x \in Upgrade!Runs, pulling'[x] \in AtWork
        PROVE  /\ x = runs' /\ shown' = x /\ state' = "recreating"
               /\ pulling'[x] # "pulling"
    <3>1. x = r
      BY <1>1, <2>1 DEF UpdatesInv, UpdatesShape, WorkIsShown
    <3>2. step # "ended"
      BY <2>1, <3>1 DEF UpdatesInv, UpdatesShape, AtWork
    <3>3. pulling'[x] = step
      BY <3>1 DEF UpdatesInv, UpdatesShape
    <3>4. step # "pulling"
      OBVIOUS
    <3>5. state' = "recreating"
      BY <3>2
    <3> QED
      BY <1>1, <3>1, <3>3, <3>4, <3>5
  <2> QED
    BY <2>1 DEF WorkIsShown
<1>7. PollsOK'
  <2>1. ASSUME NEW c \in Calls, client'[c].at = "polling"
        PROVE  client'[c].of <= runs' /\ ~(1 <= shown' /\ shown' < client'[c].of)
    <3>1. client'[c] = client[c] /\ client[c].of <= runs
      BY <2>1 DEF UpdatesInv, PollsOK
    <3>2. client[c].of \in Nat
      BY DEF UpdatesInv, UpdatesShape, Clients, RunNumbers
    <3> QED
      BY <1>1, <3>1, <3>2
  <2> QED
    BY <2>1 DEF PollsOK
<1>8. Upgrade!WayBackIsThere
  <2>1. backup >= 1
    BY <1>1 DEF UpdatesInv, CopyOK
  <2> QED
    BY <2>1, NumbersAre DEF Upgrade!WayBackIsThere, UpdatesInv
<1> QED
  BY <1>4, <1>5, <1>6, <1>7, <1>8 DEF UpdatesInv

LEMMA ClientIs ==
  ASSUME UpdatesShape, NEW c \in Calls
  PROVE  client[c] \in Clients
  BY DEF UpdatesShape

(* The checks, and a request up to its copy.                               *)
LEMMA ClientsKeep ==
  ASSUME UpdatesInv, NEW c \in Calls,
         \/ Upgrade!CheckNow(c) \/ Upgrade!CheckDue(c) \/ Upgrade!Ask(c) \/ Upgrade!CheckFails(c)
         \/ Upgrade!Keep(c) \/ Upgrade!Install(c) \/ Upgrade!BackUp(c)
         \/ Upgrade!Unreachable(c)
  PROVE  UpdatesInv' /\ Upgrade!WayBackIsThere
<1>1. client[c] \in Clients /\ UpdatesShape
  BY ClientIs DEF UpdatesInv
<1>2. /\ known \in Versions /\ recent \in BOOLEAN /\ client[c].answer \in Versions
      /\ TRUE \in BOOLEAN
  BY <1>1 DEF UpdatesShape, Clients
<1>3. ASSUME NEW step \in ClientSteps \ {"polling", "backed up"},
             client' = [client EXCEPT ![c].at = step], known' = known, recent' \in BOOLEAN,
             UNCHANGED <<published, version, downloading, backup, image, state, shown, runs,
                         pulling>>
      PROVE  UpdatesInv' /\ Upgrade!WayBackIsThere
  <2>1. PICK r : r = [client[c] EXCEPT !.at = step]
    OBVIOUS
  <2>2. r \in Clients /\ r.at = step
    BY <1>1, <2>1 DEF Clients
  <2>3. client' = [client EXCEPT ![c] = r]
    BY <1>1, <1>3, <2>1 DEF UpdatesShape
  <2> QED
    BY <1>2, <1>3, <2>2, <2>3, ClientMoves
<1>4. ASSUME client' = [client EXCEPT ![c] = Upgrade!Idle], known' \in Versions,
             recent' \in BOOLEAN,
             UNCHANGED <<published, version, downloading, backup, image, state, shown, runs,
                         pulling>>
      PROVE  UpdatesInv' /\ Upgrade!WayBackIsThere
  BY <1>4, IdleIs, ClientMoves
<1>5. CASE Upgrade!CheckNow(c) \/ Upgrade!CheckDue(c)
  <2>1. "checking" \in ClientSteps \ {"polling", "backed up"}
    BY DEF ClientSteps
  <2> QED
    BY <1>2, <1>3, <1>5, <2>1
       DEF Upgrade!CheckNow, Upgrade!CheckDue, Upgrade!Goes, Upgrade!updater
<1>6. CASE Upgrade!Ask(c)
  <2>1. PICK v \in Versions :
           client' = [client EXCEPT ![c].at = "answered", ![c].answer = v]
    <3>1. published \in Versions /\ 0 \in Versions
      BY <1>1, NumbersAre DEF Versions
    <3> QED
      BY <1>6, <3>1 DEF Upgrade!Ask
  <2>2. PICK r : r = [client[c] EXCEPT !.at = "answered", !.answer = v]
    OBVIOUS
  <2>3. "answered" \in ClientSteps
    BY DEF ClientSteps
  <2>4. r \in Clients /\ r.at = "answered"
    BY <1>1, <2>2, <2>3 DEF Clients
  <2>5. client' = [client EXCEPT ![c] = r]
    BY <1>1, <2>1, <2>2 DEF UpdatesShape
  <2> QED
    BY <1>2, <1>6, <2>4, <2>5, ClientMoves DEF Upgrade!Ask, Upgrade!updater
<1>7. CASE Upgrade!CheckFails(c)
  BY <1>2, <1>4, <1>7 DEF Upgrade!CheckFails, Upgrade!Ends, Upgrade!updater
<1>8. CASE Upgrade!Keep(c)
  BY <1>2, <1>4, <1>8 DEF Upgrade!Keep, Upgrade!Ends, Upgrade!updater
<1>9. CASE Upgrade!Install(c)
  <2>1. "installing" \in ClientSteps \ {"polling", "backed up"}
    BY DEF ClientSteps
  <2> QED
    BY <1>2, <1>3, <1>9, <2>1 DEF Upgrade!Install, Upgrade!Goes, Upgrade!updater
<1>10. CASE Upgrade!BackUp(c)
  <2>1. CASE backup' = version /\ Upgrade!Goes(c, "backed up")
    <3>1. PICK r : r = [client[c] EXCEPT !.at = "backed up"]
      OBVIOUS
    <3>2. "backed up" \in ClientSteps
      BY DEF ClientSteps
    <3>3. r \in Clients /\ r.at = "backed up"
      BY <1>1, <3>1, <3>2 DEF Clients
    <3>4. client' = [client EXCEPT ![c] = r]
      BY <1>1, <2>1, <3>1 DEF UpdatesShape, Upgrade!Goes
    <3>5. backup' >= 1
      BY <1>1, <2>1, NumbersAre
    <3> QED
      BY <1>2, <1>10, <2>1, <3>3, <3>4, <3>5, ClientMoves
         DEF Upgrade!BackUp, Upgrade!updater
  <2>2. CASE Upgrade!Ends(c) /\ UNCHANGED backup
    BY <1>2, <1>4, <1>10, <2>2 DEF Upgrade!BackUp, Upgrade!Ends, Upgrade!updater
  <2> QED
    BY <1>10, <2>1, <2>2 DEF Upgrade!BackUp
<1>11. CASE Upgrade!Unreachable(c)
  BY <1>2, <1>4, <1>11 DEF Upgrade!Unreachable, Upgrade!Ends, Upgrade!updater
<1> QED
  BY <1>5, <1>6, <1>7, <1>8, <1>9, <1>10, <1>11

LEMMA NextRun ==
  ASSUME NEW k \in Nat, NEW m \in Nat, k < m, NEW n, n = k + 1
  PROVE  n <= m /\ n >= 1 /\ k < n
  OBVIOUS

(* The updater takes the request, unless one is running.                   *)
LEMMA StartKeeps ==
  ASSUME UpdatesInv, NEW c \in Calls, Upgrade!Start(c)
  PROVE  UpdatesInv' /\ Upgrade!WayBackIsThere
<1>1. /\ client[c] \in Clients /\ UpdatesShape /\ client[c].at = "backed up"
      /\ UNCHANGED <<published, version, known, recent, downloading, backup>>
  BY ClientIs DEF UpdatesInv, Upgrade!Start, Upgrade!At
<1>2. /\ runs \in Nat /\ version \in Nat /\ MaxRuns \in Nat /\ known \in Versions
      /\ recent \in BOOLEAN /\ shown \in Nat /\ shown <= runs
  BY <1>1, NumbersAre DEF UpdatesShape
<1>3. CASE Upgrade!Busy
  <2>1. Upgrade!Ends(c) /\ UNCHANGED Upgrade!updater
    BY <1>3 DEF Upgrade!Start
  <2> QED
    BY <1>1, <1>2, <2>1, IdleIs, ClientMoves DEF Upgrade!Ends, Upgrade!updater
<1>4. CASE ~Upgrade!Busy
  <2>1. PICK n \in Nat : n = runs + 1
    BY <1>2
  <2>2. /\ runs' = n /\ state' = "pulling" /\ shown' = n /\ image' = image
        /\ pulling' = [pulling EXCEPT ![n] = "pulling"]
        /\ client' = [client EXCEPT ![c].at = "polling", ![c].of = n]
    BY <1>4, <2>1 DEF Upgrade!Start
  <2>3. n <= MaxRuns /\ n >= 1 /\ runs < n
    <3>1. runs < MaxRuns
      BY DEF Upgrade!Start
    <3> QED
      BY <1>2, <2>1, <3>1, NextRun, Zenon
  <2>4. n \in RunNumbers /\ n \in Upgrade!Runs
    BY <1>2, <2>3 DEF RunNumbers, Upgrade!Runs
  <2>5. PICK r : r = [client[c] EXCEPT !.at = "polling", !.of = n]
    OBVIOUS
  <2>6. r \in Clients /\ r.at = "polling" /\ r.of = n
    <3>1. "polling" \in ClientSteps
      BY DEF ClientSteps
    <3> QED
      BY <1>1, <2>4, <2>5, <3>1 DEF Clients
  <2>7. client' = [client EXCEPT ![c] = r]
    BY <1>1, <2>2, <2>5 DEF UpdatesShape
  <2>8. /\ client' \in [Calls -> Clients]
        /\ \A x \in Calls : client'[x] = IF x = c THEN r ELSE client[x]
    BY <1>1, <2>6, <2>7 DEF UpdatesShape
  <2>9. pulling' \in [Upgrade!Runs -> {"none", "ended"} \cup AtWork]
    BY <1>1, <2>2, <2>4 DEF UpdatesShape, AtWork
  <2>10. runs' <= MaxRuns /\ runs' \in Nat /\ shown' \in Nat /\ shown' <= runs'
    BY <2>2, <2>3
  <2>11. UpdatesShape'
    BY <1>1, <2>2, <2>8, <2>9, <2>10 DEF UpdatesShape
  <2>12. CopyOK'
    <3>1. backup >= 1
      BY <1>1 DEF UpdatesInv, CopyOK
    <3> QED
      BY <1>1, <3>1 DEF CopyOK
  <2>13. WorkIsShown'
    <3>1. ASSUME NEW x \in Upgrade!Runs, pulling'[x] \in AtWork
          PROVE  x = n
      <4>1. \A y \in Upgrade!Runs : pulling[y] \notin AtWork
        BY <1>4 DEF UpdatesInv, WorkIsShown, Upgrade!Busy
      <4>2. x # n => pulling'[x] = pulling[x]
        BY <1>1, <2>2 DEF UpdatesShape
      <4> QED
        BY <3>1, <4>1, <4>2
    <3>2. pulling'[n] = "pulling"
      BY <1>1, <2>2, <2>4 DEF UpdatesShape
    <3> QED
      BY <2>2, <3>1, <3>2, Zenon DEF WorkIsShown
  <2>14. PollsOK'
    <3>1. ASSUME NEW x \in Calls, client'[x].at = "polling"
          PROVE  client'[x].of <= n /\ ~(n < client'[x].of)
      <4>1. CASE x = c
        BY <2>3, <2>6, <2>8, <4>1
      <4>2. CASE x # c
        <5>1. client'[x] = client[x] /\ client[x].of <= runs
          BY <2>8, <3>1, <4>2 DEF UpdatesInv, PollsOK
        <5>2. client[x].of \in Nat
          <6>1. client[x].of \in RunNumbers
            BY <1>1, ClientIs, Zenon DEF Clients
          <6> QED
            BY <6>1 DEF RunNumbers
        <5> QED
          BY <1>2, <2>3, <5>1, <5>2
      <4> QED
        BY <4>1, <4>2
    <3> QED
      BY <2>2, <3>1 DEF PollsOK
  <2>15. Upgrade!WayBackIsThere
    BY <1>1, <1>2, SameIsNotLater, Zenon DEF Upgrade!WayBackIsThere
  <2> QED
    BY <2>11, <2>12, <2>13, <2>14, <2>15 DEF UpdatesInv
<1> QED
  BY <1>3, <1>4

LEMMA RunKeeps ==
  ASSUME UpdatesInv, NEW r \in Upgrade!Runs, Upgrade!Run(r)
  PROVE  UpdatesInv' /\ Upgrade!WayBackIsThere
<1>1. /\ UpdatesShape /\ client \in [Calls -> Clients]
      /\ known \in Versions /\ recent \in BOOLEAN /\ downloading \in BOOLEAN
  BY DEF UpdatesInv, UpdatesShape
<1>2. /\ published \in Nat /\ published >= 1 /\ image \in Nat /\ image >= 1
      /\ image <= published /\ version \in Nat /\ version >= 1 /\ version <= image
      /\ version <= published /\ version <= version /\ published <= published
      /\ image >= version
  BY <1>1, NumbersAre
<1>3. pulling[r] \in AtWork
  BY DEF Upgrade!Run, Upgrade!Pull, Upgrade!Up, Upgrade!Done, Upgrade!Fail, AtWork
<1>4. shown = r
  BY <1>3 DEF UpdatesInv, WorkIsShown
<1>5. CASE Upgrade!Pull(r)
  <2>1. image' = published /\ UNCHANGED <<published, version, known, recent, downloading, backup, client>>
    BY <1>5 DEF Upgrade!Pull, Upgrade!panel
  <2>2. CASE Upgrade!Sets(r, "unchanged") /\ Upgrade!Moves(r, "ended")
    BY <1>1, <1>2, <1>3, <2>1, <2>2, ThreadMoves DEF Upgrade!Sets, Upgrade!Moves
  <2>3. CASE Upgrade!Sets(r, "recreating") /\ Upgrade!Moves(r, "recreating")
    BY <1>1, <1>2, <1>3, <2>1, <2>3, ThreadMoves DEF Upgrade!Sets, Upgrade!Moves
  <2> QED
    BY <1>5, <2>2, <2>3 DEF Upgrade!Pull
<1>6. CASE Upgrade!Up(r)
  <2>1. /\ version' = image /\ known' = 0 /\ recent' = FALSE /\ downloading' = FALSE
        /\ client' = [c \in Calls |-> IF client[c].at = "polling" THEN client[c] ELSE Upgrade!Idle]
        /\ pulling' = [pulling EXCEPT ![r] = "recreated"]
        /\ UNCHANGED <<published, backup, image, state, shown, runs>>
    BY <1>6 DEF Upgrade!Up, Upgrade!Boot, Upgrade!Moves, Upgrade!At
  <2>2. /\ client' \in [Calls -> Clients]
        /\ \A c \in Calls : client'[c].at \in {"idle", client[c].at} /\
                            (client'[c].at # "idle" => client'[c] = client[c])
    BY <1>1, <2>1, IdleIs
  <2>3. 0 \in Versions
    BY <1>1, NumbersAre DEF Versions
  <2>4. known' \in Versions
    BY <2>1, <2>3
  <2>5. state = "recreating"
    BY <1>6 DEF Upgrade!Up, UpdatesInv, WorkIsShown, AtWork
  <2>6. /\ image' \in Nat /\ image' >= 1 /\ image' <= published
        /\ version' \in Nat /\ version' >= version /\ version' <= image'
    BY <1>2, <2>1
  <2>7. shown' = r /\ runs' = runs /\ state' = "recreating"
    BY <1>4, <2>1, <2>5
  <2>8. recent' \in BOOLEAN /\ downloading' \in BOOLEAN /\ UNCHANGED <<published, backup>>
    BY <2>1
  <2>9. PICK step \in {"ended", "recreating", "recreated"} : step = "recreated"
    OBVIOUS
  <2>10. pulling' = [pulling EXCEPT ![r] = step]
    BY <2>1, <2>9
  <2> QED
    BY <1>3, <2>2, <2>4, <2>6, <2>7, <2>8, <2>9, <2>10, ThreadMoves
<1>7. CASE Upgrade!Done(r)
  BY <1>1, <1>2, <1>3, <1>7, ThreadMoves DEF Upgrade!Done, Upgrade!Sets, Upgrade!Moves, Upgrade!panel
<1>8. CASE Upgrade!Fail(r)
  BY <1>1, <1>2, <1>3, <1>8, ThreadMoves DEF Upgrade!Fail, Upgrade!Sets, Upgrade!Moves, Upgrade!panel
<1> QED
  BY <1>5, <1>6, <1>7, <1>8 DEF Upgrade!Run

LEMMA AroundKeeps ==
  ASSUME UpdatesInv,
         \/ Upgrade!ThrottleEnds \/ Upgrade!Publish \/ Upgrade!Download
         \/ Upgrade!UpdaterRestarts \/ UNCHANGED Upgrade!vars
  PROVE  UpdatesInv' /\ Upgrade!WayBackIsThere
<1>1. /\ version \in Nat /\ published \in Nat /\ MaxVersion \in Nat /\ runs \in Nat
      /\ image \in Nat /\ image <= published /\ published >= 1
  BY NumbersAre DEF UpdatesInv
<1>2. ASSUME version' = version PROVE Upgrade!WayBackIsThere
  BY <1>1, <1>2, SameIsNotLater, Zenon DEF Upgrade!WayBackIsThere
<1>3. CASE \/ Upgrade!ThrottleEnds \/ Upgrade!Download \/ UNCHANGED Upgrade!vars
  <2>1. /\ UNCHANGED <<published, version, known, backup, client, image, state, shown, runs, pulling>>
        /\ recent' \in BOOLEAN /\ downloading' \in BOOLEAN
    BY <1>3 DEF Upgrade!ThrottleEnds, Upgrade!Download, Upgrade!vars, Upgrade!panel,
                Upgrade!updater, UpdatesInv, UpdatesShape
  <2>2. UpdatesShape'
    BY <2>1 DEF UpdatesInv, UpdatesShape
  <2> QED
    BY <1>2, <2>1, <2>2 DEF UpdatesInv, CopyOK, WorkIsShown, PollsOK, Upgrade!Busy
<1>4. CASE Upgrade!Publish
  <2>1. UNCHANGED <<version, known, recent, downloading, backup, client, image, state, shown, runs, pulling>>
    BY <1>4 DEF Upgrade!Publish, Upgrade!panel, Upgrade!updater
  <2>2. published' \in Nat /\ published' >= 1 /\ published' <= MaxVersion /\ image <= published'
    BY <1>1, <1>4 DEF Upgrade!Publish
  <2>3. UpdatesShape'
    BY <2>1, <2>2 DEF UpdatesInv, UpdatesShape
  <2> QED
    BY <1>2, <2>1, <2>3 DEF UpdatesInv, CopyOK, WorkIsShown, PollsOK, Upgrade!Busy
<1>5. CASE Upgrade!UpdaterRestarts
  <2>1. /\ state' = "idle" /\ shown' = 0
        /\ UNCHANGED <<published, version, known, recent, downloading, backup, client, image, runs>>
        /\ pulling' = [r \in Upgrade!Runs |-> IF r <= runs THEN "ended" ELSE "none"]
    BY <1>5 DEF Upgrade!UpdaterRestarts, Upgrade!panel
  <2>2. /\ pulling' \in [Upgrade!Runs -> {"none", "ended"} \cup AtWork]
        /\ \A r \in Upgrade!Runs : pulling'[r] \notin AtWork
    BY <2>1 DEF AtWork
  <2>3. shown' \in Nat /\ shown' <= runs
    BY <1>1, <2>1
  <2>4. UpdatesShape'
    BY <2>1, <2>2, <2>3 DEF UpdatesInv, UpdatesShape
  <2>5. ~(1 <= shown')
    BY <2>1
  <2>6. PollsOK'
    BY <2>1, <2>5 DEF UpdatesInv, PollsOK
  <2> QED
    BY <1>2, <2>1, <2>2, <2>4, <2>6 DEF UpdatesInv, CopyOK, WorkIsShown
<1> QED
  BY <1>3, <1>4, <1>5

LEMMA UpdatesNext ==
  ASSUME UpdatesInv, Upgrade!Next \/ UNCHANGED Upgrade!vars
  PROVE  UpdatesInv' /\ Upgrade!WayBackIsThere
  BY ClientsKeep, StartKeeps, RunKeeps, AroundKeeps DEF Upgrade!Next

LEMMA PollsAreTheirOwn == UpdatesInv => Upgrade!PollIsOfThisUpdate
<1> SUFFICES ASSUME UpdatesInv, NEW c \in Calls, client[c].at = "polling"
             PROVE  shown \notin 1..(client[c].of - 1)
  BY DEF Upgrade!PollIsOfThisUpdate, Upgrade!At
<1>1. client[c].of \in Nat /\ shown \in Nat
  BY DEF UpdatesInv, UpdatesShape, Clients, RunNumbers
<1>2. ~(1 <= shown /\ shown < client[c].of)
  BY DEF UpdatesInv, PollsOK
<1> QED
  BY <1>1, <1>2

\* No page reads the outcome of an earlier update for its own, and the panel is replaced
\* only when there is a copy of a database that the new version has not migrated: whatever
\* docker does, whoever else asks, and whenever the updater of updater/updater.py starts
\* again.
THEOREM UpdatesHaveAWayBack == Spec => UpdatesAreSafe
<1> DEFINE I == focus = "upgrade" => UpdatesInv
           P == focus = "upgrade" => Upgrade!PollIsOfThisUpdate
           A == focus = "upgrade" => Upgrade!WayBackIsThere
<1>1. Init => I
  BY UpdatesInit DEF Init
<1>2. I /\ [Next]_vars => I' /\ [A]_vars
  BY UpdatesNext DEF Next, vars, Upgrade!vars, Upgrade!panel, Upgrade!updater
<1>3. I => P
  BY PollsAreTheirOwn
<1> QED
  BY <1>1, <1>2, <1>3, PTL DEF Spec, UpdatesAreSafe

LEMMA UpdatesTyped == Spec => [](focus = "upgrade" => Upgrade!TypeOK)
<1> DEFINE I == focus = "upgrade" => UpdatesInv
           O == focus = "upgrade" => Upgrade!TypeOK
<1>1. Init => I
  BY UpdatesInit DEF Init
<1>2. I /\ [Next]_vars => I'
  BY UpdatesNext DEF Next, vars, Upgrade!vars, Upgrade!panel, Upgrade!updater
<1>3. UpdatesInv => Upgrade!TypeOK
  <2> SUFFICES ASSUME UpdatesInv PROVE Upgrade!TypeOK
    OBVIOUS
  <2>1. MaxVersion \in Nat /\ MaxRuns \in Nat
    BY UpdatesAssumption
  <2>2. /\ published \in 1..MaxVersion /\ image \in 1..published /\ version \in 1..image
        /\ backup \in 0..version /\ runs \in 0..MaxRuns /\ shown \in 0..runs
    BY <2>1 DEF UpdatesInv, UpdatesShape
  <2> QED
    BY <2>2 DEF UpdatesInv, UpdatesShape, Upgrade!TypeOK, Versions, RunNumbers, Clients,
                ClientSteps, AtWork
<1> QED
  BY <1>1, <1>2, <1>3, PTL DEF Spec

-----------------------------------------------------------------------------

(***************************************************************************)
(* The component that moves stays the one it is, and has its type.         *)
(***************************************************************************)
Components ==
  {"files", "tracks", "news", "bars", "people", "domain", "shelf", "upgrade", "schema", "series"}

LEMMA FocusStays == Spec => [](focus \in Components)
<1>1. Init => focus \in Components
  BY DEF Init, Components
<1>2. focus \in Components /\ [Next]_vars => (focus \in Components)'
  BY DEF Next, vars
<1> QED
  BY <1>1, <1>2, PTL DEF Spec

\* Every reachable state of the panel's components is of its type.
THEOREM TypeCorrect == Spec => []TypeOK
<1>1. ASSUME focus \in Components,
             focus = "files" => Files!TypeOK, focus = "tracks" => Tracked!TypeOK,
             focus = "news" => News!TypeOK, focus = "bars" => Bars!TypeOK,
             focus = "people" => People!TypeOK, focus = "domain" => Domain!TypeOK,
             focus = "shelf" => Shelf!TypeOK, focus = "upgrade" => Upgrade!TypeOK,
             focus = "schema" => Schema!TypeOK, focus = "series" => Series!TypeOK
      PROVE  TypeOK
  <2>1. CASE focus = "files"
    BY <1>1, <2>1 DEF TypeOK
  <2>2. CASE focus = "tracks"
    BY <1>1, <2>2 DEF TypeOK
  <2>3. CASE focus = "news"
    BY <1>1, <2>3 DEF TypeOK
  <2>4. CASE focus = "bars"
    BY <1>1, <2>4 DEF TypeOK
  <2>5. CASE focus = "people"
    BY <1>1, <2>5 DEF TypeOK
  <2>6. CASE focus = "domain"
    BY <1>1, <2>6 DEF TypeOK
  <2>7. CASE focus = "shelf"
    BY <1>1, <2>7 DEF TypeOK
  <2>8. CASE focus = "upgrade"
    BY <1>1, <2>8 DEF TypeOK
  <2>9. CASE focus = "schema"
    BY <1>1, <2>9 DEF TypeOK
  <2>10. CASE focus = "series"
    BY <1>1, <2>10 DEF TypeOK
  <2> QED
    BY <1>1, <2>1, <2>2, <2>3, <2>4, <2>5, <2>6, <2>7, <2>8, <2>9, <2>10 DEF Components
<1> QED
  BY <1>1, FocusStays, FilesTyped, TracksTyped, NewsTyped, BarsTyped, PeopleTyped,
     DomainTyped, ShelfTyped, UpdatesTyped, SchemaTyped, SeriesTyped, PTL

=============================================================================
