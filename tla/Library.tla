------------------------------- MODULE Library --------------------------------
(***************************************************************************)
(* Which folders of the library hold which title: the registry of          *)
(* app/library.py, as finished downloads, administrators and the periodic  *)
(* reconcile() change it while folders are renamed and removed around it.  *)
(*                                                                         *)
(* A row is filed under its title and its folder.  A folder's files are    *)
(* abstracted to the titles whose files lie in it, and the size of a file  *)
(* to the title it belongs to, since a size is as good as unique.          *)
(*                                                                         *)
(* reconcile() reads the rows and the folders once and then deals with one *)
(* row after the other, by its id, whatever people did to it meanwhile:    *)
(* what they decide so late it may undo.                                   *)
(*                                                                         *)
(* Left out: names and paths, offsets, the reading of episode numbers, and *)
(* a second reconcile() beside the first.  A download chooses its folder   *)
(* as it starts and is filed as it ends; here it is both in one step.      *)
(***************************************************************************)
EXTENDS FiniteSets, Integers

CONSTANTS Titles, Folders

VARIABLES
  row,       \* library_folder
  disk,      \* the titles with a file in each folder, or Gone
  mounted,   \* whether the library can be read
  filing,    \* the older folders file_download() has still to record, per title
  sweep,     \* the rows reconcile() found missing and has still to deal with
  mind,      \* history: what people last made of each pair: "manual", "rejected" or "none"
  late       \* history: the pairs decided on while a sweep had their row in hand

vars == <<row, disk, mounted, filing, sweep, mind, late>>
history == <<mind, late>>

Gone == {"gone"}
Unknown == "unknown"
NoRow == [origin |-> "none", anchor |-> Unknown, missing |-> "no"]
Row(origin, anchor) == [NoRow EXCEPT !.origin = origin, !.anchor = anchor]

Present == {f \in Folders : disk[f] # Gone}
Set(t, f, r) == row' = [row EXCEPT ![t][f] = r]
Anchors(f) == IF disk[f] \in {Gone, {}} THEN {Unknown} ELSE disk[f]

\* folders() and rejected_folders().
Active(t, f) == row[t][f].origin \in {"download", "matched", "manual"}
Rejected(t) == {f \in Folders : row[t][f].origin = "rejected"}

Init ==
  /\ row = [t \in Titles |-> [f \in Folders |-> NoRow]]
  /\ disk = [f \in Folders |-> Gone]
  /\ mounted = TRUE
  /\ filing = [t \in Titles |-> {}]
  /\ sweep = {}
  /\ mind = [t \in Titles |-> [f \in Folders |-> "none"]] /\ late = {}

-----------------------------------------------------------------------------
(* Finished downloads *)

\* Mutant of Recorded: the upsert without its last WHERE.
RecordedAnyway(old, origin, anchor) ==
  IF old = NoRow THEN Row(origin, anchor)
  ELSE [old EXCEPT
         !.origin = IF @ \in {"matched", "rejected"} THEN origin ELSE @,
         !.anchor = IF anchor = Unknown THEN @ ELSE anchor,
         !.missing = "no"]

\* record(): what a person decided keeps its origin, and a rejection everything.
Recorded(old, origin, anchor) ==
  IF old = NoRow THEN Row(origin, anchor)
  ELSE IF old.origin = "rejected" THEN old
  ELSE [old EXCEPT
         !.origin = IF @ = "matched" /\ origin = "download" THEN origin ELSE @,
         !.anchor = IF anchor = Unknown THEN @ ELSE anchor,
         !.missing = "no"]

\* destination(): a person's association that is there decides, the name otherwise.
Chosen(t) == {f \in Present : row[t][f].origin = "manual"}
Destinations(t) == IF Chosen(t) # {} THEN Chosen(t) ELSE Folders

\* file_download(): the folder the file was written to, and - known by name, and read
\* before the rows are written - the older folders of a series that nobody rejected.
FileDownload(t) ==
  /\ mounted /\ filing[t] = {}
  /\ \E f \in Destinations(t) :
       /\ disk' = [disk EXCEPT ![f] = (@ \ Gone) \cup {t}]
       /\ \E size \in {t, Unknown} : Set(t, f, Recorded(row[t][f], "download", size))
       /\ \E older \in SUBSET (Present \ (Rejected(t) \cup {f})) :
            filing' = [filing EXCEPT ![t] = older]
  /\ UNCHANGED <<mounted, sweep, history>>

FileMatched(t) ==
  /\ \E f \in filing[t] :
       /\ filing' = [filing EXCEPT ![t] = @ \ {f}]
       /\ \E size \in Anchors(f) : Set(t, f, Recorded(row[t][f], "matched", size))
  /\ UNCHANGED <<disk, mounted, sweep, history>>

-----------------------------------------------------------------------------
(* A person's decisions *)

InHand(t, f) == \E s \in sweep : s.title = t /\ s.folder = f

\* What people think of one pair from now on, and whether the sweep has read another thing.
Decides(t, f, decision) ==
  /\ mind' = [mind EXCEPT ![t][f] = decision]
  /\ late' = IF InHand(t, f) THEN late \cup {<<t, f>>} ELSE late \ {<<t, f>>}

Associated(old, f) ==
  {[origin |-> "manual", missing |-> "no",
    anchor |-> IF size = Unknown THEN old.anchor ELSE size] : size \in Anchors(f)}

\* associate(), after validate_folder().
Associate(t, f) ==
  /\ mounted /\ f \in Present
  /\ \E r \in Associated(row[t][f], f) : Set(t, f, r)
  /\ Decides(t, f, "manual")
  /\ UNCHANGED <<disk, mounted, filing, sweep>>

\* edit() to other offsets: the pair becomes a person's.
EditOffsets(t, f) ==
  /\ Active(t, f)
  /\ Set(t, f, [row[t][f] EXCEPT !.origin = "manual"])
  /\ Decides(t, f, "manual")
  /\ UNCHANGED <<disk, mounted, filing, sweep>>

\* remove_association(): a pair that is removed is rejected.  edit() to another pair begins
\* so, and ends here when the folder has gone after it was validated.
Reject(t, f) ==
  /\ row[t][f] # NoRow
  /\ Set(t, f, [row[t][f] EXCEPT !.origin = "rejected"])
  /\ Decides(t, f, "rejected")
  /\ UNCHANGED <<disk, mounted, filing, sweep>>

\* edit() to another pair: the old one is rejected, and the new one is a person's.
EditPair(t, f, u, g) ==
  /\ Active(t, f) /\ <<t, f>> # <<u, g>> /\ mounted /\ g \in Present
  /\ \E r \in Associated(row[u][g], g) :
       row' = [row EXCEPT ![t][f].origin = "rejected", ![u][g] = r]
  /\ mind' = [mind EXCEPT ![t][f] = "rejected", ![u][g] = "manual"]
  /\ LET both == {<<t, f>>, <<u, g>>} IN
     late' = (late \ both) \cup {p \in both : InHand(p[1], p[2])}
  /\ UNCHANGED <<disk, mounted, filing, sweep>>

\* restore(): the row goes, and its id with it.
Restore(t, f) ==
  /\ row[t][f].origin = "rejected"
  /\ Set(t, f, NoRow)
  /\ sweep' = {s \in sweep : <<s.title, s.folder>> # <<t, f>>}
  /\ mind' = [mind EXCEPT ![t][f] = "none"]
  /\ late' = late \ {<<t, f>>}
  /\ UNCHANGED <<disk, mounted, filing>>

-----------------------------------------------------------------------------
(* reconcile() *)

Holders(anchor, f) ==
  {g \in Present : anchor \in disk[g] /\ \A t \in Titles : ~Active(t, g)}

\* The rows and the folders are read once.  Of a library that cannot be read or reads
\* empty nothing is concluded; a row whose folder is there is not missing.
ReconcileBegins ==
  /\ sweep = {}
  /\ mounted /\ Present # {}
  /\ row' = [t \in Titles |-> [f \in Folders |->
               IF Active(t, f) /\ f \in Present
               THEN [row[t][f] EXCEPT !.missing = "no"] ELSE row[t][f]]]
  /\ sweep' = {[title |-> p[1], folder |-> p[2], was |-> row[p[1]][p[2]].missing,
                found |-> Holders(row[p[1]][p[2]].anchor, p[2])] :
                 p \in {q \in Titles \X Folders : Active(q[1], q[2]) /\ q[2] \notin Present}}
  /\ UNCHANGED <<disk, mounted, filing, history>>

\* _move(): the row goes to the folder that holds its file, or is dropped when the title has
\* a row of that folder.  What people decided goes with it, if it was decided in time.
Move(t, f, g) ==
  /\ row' = [row EXCEPT ![t][f] = NoRow,
                        ![t][g] = IF row[t][g] = NoRow
                                  THEN [row[t][f] EXCEPT !.missing = "no"] ELSE row[t][g]]
  /\ IF <<t, f>> \in late
     THEN /\ UNCHANGED mind
          /\ late' = IF row[t][g] = NoRow THEN late \cup {<<t, g>>} ELSE late
     ELSE /\ mind' = [mind EXCEPT ![t][f] = "none",
                                  ![t][g] = IF row[t][g] = NoRow THEN mind[t][f] ELSE @]
          /\ late' = IF row[t][g] = NoRow THEN late \ {<<t, g>>} ELSE late

\* A folder that is gone for a month takes what people decided about it along.
Forget(t, f) ==
  /\ Set(t, f, NoRow)
  /\ IF <<t, f>> \in late THEN UNCHANGED mind ELSE mind' = [mind EXCEPT ![t][f] = "none"]
  /\ UNCHANGED late

\* Each row that was missing, by its id: moved to the one folder that holds its file, or
\* marked, or forgotten.
Reconcile ==
  \E s \in sweep :
    LET t == s.title
        f == s.folder IN
    /\ sweep' = sweep \ {s}
    /\ \/ \E g \in s.found : s.found = {g} /\ Move(t, f, g)
       \/ /\ Cardinality(s.found) # 1
          /\ \/ /\ s.was = "no"
                /\ Set(t, f, [row[t][f] EXCEPT !.missing = "recently"])
                /\ UNCHANGED history
             \/ s.was = "recently" /\ UNCHANGED <<row, history>>
             \/ s.was = "long" /\ Forget(t, f)
    /\ UNCHANGED <<disk, mounted, filing>>

-----------------------------------------------------------------------------
(* Around the registry *)

\* More than MISSING_GRACE goes by since a row was found missing.
MonthPasses(t, f) ==
  /\ row[t][f].missing = "recently"
  /\ Set(t, f, [row[t][f] EXCEPT !.missing = "long"])
  /\ UNCHANGED <<disk, mounted, filing, sweep, history>>

\* rename_path() of the file manager, or anyone outside the panel.
Rename(f, g) ==
  /\ mounted /\ f \in Present /\ g \notin Present
  /\ disk' = [disk EXCEPT ![g] = disk[f], ![f] = Gone]
  /\ UNCHANGED <<row, mounted, filing, sweep, history>>

\* delete_path().
Delete(f) ==
  /\ mounted /\ f \in Present
  /\ disk' = [disk EXCEPT ![f] = Gone]
  /\ UNCHANGED <<row, mounted, filing, sweep, history>>

Mount == mounted' = ~mounted /\ UNCHANGED <<row, disk, filing, sweep, history>>

Next ==
  \/ \E t \in Titles : FileDownload(t) \/ FileMatched(t)
  \/ \E t \in Titles, f \in Folders :
       \/ Associate(t, f) \/ EditOffsets(t, f) \/ Reject(t, f) \/ Restore(t, f)
       \/ MonthPasses(t, f)
       \/ \E u \in Titles, g \in Folders : EditPair(t, f, u, g)
  \/ ReconcileBegins \/ Reconcile \/ Mount
  \/ \E f, g \in Folders : Rename(f, g)
  \/ \E f \in Folders : Delete(f)

Spec == Init /\ [][Next]_vars
-----------------------------------------------------------------------------

Origins == {"none", "download", "matched", "manual", "rejected"}

TypeOK ==
  /\ \A t \in Titles, f \in Folders :
       /\ row[t][f].origin \in Origins /\ row[t][f].missing \in {"no", "recently", "long"}
       /\ row[t][f].anchor \in Titles \cup {Unknown}
       /\ row[t][f].origin = "none" => row[t][f] = NoRow
  /\ \A f \in Folders : disk[f] = Gone \/ disk[f] \subseteq Titles
  /\ mounted \in BOOLEAN /\ filing \in [Titles -> SUBSET Folders]
  /\ late \subseteq Titles \X Folders

\* "The panel never overrides a person", and what is rejected is "kept, not deleted, so the
\* panel cannot guess it back": a row is a person's choice, or a rejection, exactly when
\* that is what people last made of the pair, whatever downloads end, folders move and
\* sweeps run meanwhile.  A choice follows its folder to a new name and goes with a row that
\* is redundant there or missing for a month; and of a pair that was decided on while a sweep
\* had its row in hand nothing is promised.
DecisionsStand ==
  \A t \in Titles, f \in Folders :
    <<t, f>> \notin late =>
      mind[t][f] = IF row[t][f].origin \in {"manual", "rejected"}
                   THEN row[t][f].origin ELSE "none"
=============================================================================
