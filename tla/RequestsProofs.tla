---------------------------- MODULE RequestsProofs ---------------------------
(***************************************************************************)
(* Proofs about Requests, for any requests, any contents and any bounds.   *)
(*                                                                         *)
(* The type invariant comes first, part by part.  ApprovedIsInHand is then *)
(* inductive; NoStrayDownload needs it, to know in Submit that the row     *)
(* whose job starts is still approved.                                     *)
(***************************************************************************)
EXTENDS Requests, TLAPS

(* sources_for(), for each state that can be entered.                      *)
LEMMA SourcesOf ==
  /\ Sources("approved") = {"pending", "needs_attention"}
  /\ Sources("denied") = {"pending", "needs_attention"}
  /\ Sources("needs_attention") = {"pending", "approved"}
  /\ Sources("cancelled") = {"pending", "downloading", "needs_attention"}
  /\ Sources("available") = {"pending"}
  /\ Sources("downloading") = {"approved"}
  /\ Sources("completed") = {"approved", "downloading"}
  /\ Sources("failed") = {"approved", "downloading"}
BY DEF Sources, Allowed, Open

(* A row that exists and only changes its status keeps its type.           *)
LEMMA MovedRow ==
  ASSUME RowsOK, NEW r \in Rows, NEW target \in Open \cup Closed,
         row[r].status # "unborn", row' = Moved(r, target)
  PROVE  RowsOK'
BY DEF RowsOK, RowRecords, Moved, Open, Closed

(* What the listener writes is a step along ALLOWED_TRANSITIONS: from      *)
(* downloading to one of the three states it may end in, or nowhere.       *)
LEMMA HeardRow ==
  ASSUME NEW r \in Rows
  PROVE  \/ Heard(r) = row
         \/ /\ row[r].status = "downloading"
            /\ \E target \in {"completed", "failed", "cancelled"} :
                 Heard(r) = Moved(r, target)
<1>1. Outcome(r) \in {"completed", "failed", "cancelled"}
  BY DEF Outcome
<1> QED
  BY <1>1 DEF Heard

(* A job that exists and changes one of its flags keeps its type.          *)
LEMMA FlaggedJob ==
  ASSUME JobsOK, NEW r \in Rows, job[r].state # "none",
         \/ job' = [job EXCEPT ![r].stop = TRUE]
         \/ job' = [job EXCEPT ![r].told = TRUE]
         \/ job' = [job EXCEPT ![r].listed = FALSE]
         \/ \E end \in Terminal : job' = [job EXCEPT ![r].state = end]
  PROVE  JobsOK'
<1>1. job[r] \in JobRecords
  BY DEF JobsOK, NoJob
<1>2. \A x \in JobRecords : \A b \in BOOLEAN :
        /\ [x EXCEPT !.stop = b] \in JobRecords
        /\ [x EXCEPT !.told = b] \in JobRecords
        /\ [x EXCEPT !.listed = b] \in JobRecords
  BY DEF JobRecords
<1>3. \A x \in JobRecords : \A end \in Terminal : [x EXCEPT !.state = end] \in JobRecords
  BY DEF JobRecords
<1>4. \E x \in JobRecords : job' = [job EXCEPT ![r] = x]
  BY <1>1, <1>2, <1>3
<1> QED
  BY <1>4 DEF JobsOK

-----------------------------------------------------------------------------
(* The type invariant *)

LEMMA InitTypeOK == Init => TypeOK
<1> SUFFICES ASSUME Init PROVE TypeOK
  OBVIOUS
<1>1. RowsOK
  BY DEF Init, RowsOK, RowRecords
<1>2. WorkersOK /\ JobsOK /\ EditOK
  BY DEF Init, WorkersOK, JobsOK, EditOK
<1>3. SetsOK
  <2>1. 0 \in 0..MaxAsks /\ 0 \in 0..MaxRestarts
    BY BoundsAssumption
  <2> QED
    BY <2>1 DEF Init, SetsOK
<1> QED
  BY <1>1, <1>2, <1>3 DEF TypeOK

LEMMA RowsStep == TypeOK /\ [Next]_vars => RowsOK'
<1> SUFFICES ASSUME TypeOK, [Next]_vars PROVE RowsOK'
  OBVIOUS
<1>0. RowsOK /\ WorkersOK /\ EditOK
  BY DEF TypeOK
<1> DEFINE Step(r) == \E target \in Open \cup Closed :
                        row[r].status # "unborn" /\ row' = Moved(r, target)
<1>1. ASSUME NEW r \in Rows, Step(r) PROVE RowsOK'
  BY <1>0, <1>1, MovedRow
<1>2. CASE row' = row
  BY <1>0, <1>2 DEF RowsOK
<1>3. ASSUME NEW r \in Rows,
             \/ CheckLibrary(r) \/ Approve(r) \/ Park(r) \/ AlreadyThere(r)
             \/ Deny(r) \/ Cancel(r)
      PROVE  Step(r) \/ row' = row
  BY <1>3, SourcesOf
     DEF CheckLibrary, Approve, Park, AlreadyThere, Deny, Cancel, May, Open, Closed
<1>4. ASSUME NEW r \in Rows, Recheck(r) \/ JobTells(r)
      PROVE  Step(r) \/ row' = row
  BY <1>4, HeardRow DEF Recheck, JobTells, Open, Closed
<1>5. ASSUME NEW r \in Rows, Claim(r) PROVE RowsOK'
  <2>1. CASE row' = row
    BY <1>2, <2>1
  <2>2. CASE /\ row[r].status = "approved"
             /\ row' = [row EXCEPT ![r].status = "downloading", ![r].linked = TRUE]
    <3>1. row[r] \in RowRecords
      BY <1>0 DEF RowsOK
    <3>2. [row[r] EXCEPT !.status = "downloading", !.linked = TRUE] \in RowRecords
      BY <3>1 DEF RowRecords, Open
    <3> QED
      BY <1>0, <2>2, <3>1, <3>2 DEF RowsOK, RowRecords
  <2> QED
    BY <1>5, <2>1, <2>2, SourcesOf DEF Claim, May
<1>6. ASSUME NEW r \in Rows, NEW c \in Contents, Create(r, c) PROVE RowsOK'
  <2>1. row[r] \in RowRecords
    BY <1>0 DEF RowsOK
  <2>2. [row[r] EXCEPT !.status = "pending", !.content = c, !.key = c] \in RowRecords
    BY <2>1 DEF RowRecords, Open
  <2>3. row' = [row EXCEPT ![r].status = "pending", ![r].content = c, ![r].key = c]
    BY <1>6 DEF Create
  <2> QED
    BY <1>0, <2>1, <2>2, <2>3 DEF RowsOK, RowRecords
<1>7. CASE Update
  BY <1>0, <1>7 DEF Update, RowsOK, RowRecords, EditOK, NoEdit
<1>8. CASE Rekey
  BY <1>0, <1>8 DEF Rekey, RowsOK, RowRecords, EditOK, NoEdit
<1>9. CASE Restart
  BY <1>0, <1>9 DEF Restart, Recovered, RowsOK, RowRecords, Open, Closed
<1>10. ASSUME NEW r \in Rows,
              \/ Begin(r) \/ Submit(r) \/ JobEnds(r) \/ StopJob(r) \/ DismissJob(r)
              \/ CancelJob(r) \/ \E c \in Contents : Edit(r, c)
       PROVE  row' = row
  BY <1>10 DEF Begin, Submit, JobEnds, StopJob, DismissJob, CancelJob, Edit
<1>11. ASSUME NEW c \in Contents, LeaveLibrary(c) PROVE row' = row
  BY <1>11 DEF LeaveLibrary
<1>12. CASE UNCHANGED vars
  BY <1>2, <1>12 DEF vars
<1> HIDE DEF Step
<1> QED
  BY <1>1, <1>2, <1>3, <1>4, <1>5, <1>6, <1>7, <1>8, <1>9, <1>10, <1>11, <1>12 DEF Next, Work

LEMMA WorkersStep == TypeOK /\ [Next]_vars => WorkersOK'
<1> SUFFICES ASSUME TypeOK, [Next]_vars PROVE WorkersOK'
  OBVIOUS
<1>0. RowsOK /\ WorkersOK
  BY DEF TypeOK
<1>1. ASSUME NEW r \in Rows, Approve(r) \/ Park(r) \/ AlreadyThere(r) \/ Recheck(r)
      PROVE  WorkersOK'
  BY <1>0, <1>1 DEF Approve, Park, AlreadyThere, Recheck, WorkersOK
<1>2. ASSUME NEW r \in Rows, Begin(r) PROVE WorkersOK'
  BY <1>0, <1>2 DEF Begin, WorkersOK, RowsOK
<1>3. ASSUME NEW r \in Rows, Submit(r) \/ Claim(r) PROVE WorkersOK'
  BY <1>0, <1>3 DEF Submit, Claim, WorkersOK, Resting
<1>4. CASE Restart
  BY <1>4 DEF Restart, WorkersOK
<1>5. CASE worker' = worker
  BY <1>0, <1>5 DEF WorkersOK
<1>6. ASSUME NEW r \in Rows,
             \/ CheckLibrary(r) \/ JobEnds(r) \/ JobTells(r) \/ StopJob(r) \/ DismissJob(r)
             \/ Deny(r) \/ Cancel(r) \/ CancelJob(r)
             \/ \E c \in Contents : Create(r, c) \/ Edit(r, c)
      PROVE  worker' = worker
  BY <1>6 DEF CheckLibrary, JobEnds, JobTells, StopJob, DismissJob, Deny, Cancel, CancelJob,
              Create, Edit
<1>7. CASE Update \/ Rekey \/ (\E c \in Contents : LeaveLibrary(c)) \/ UNCHANGED vars
  BY <1>5, <1>7 DEF Update, Rekey, LeaveLibrary, vars
<1> QED
  BY <1>1, <1>2, <1>3, <1>4, <1>5, <1>6, <1>7 DEF Next, Work

LEMMA JobsStep == TypeOK /\ [Next]_vars => JobsOK'
<1> SUFFICES ASSUME TypeOK, [Next]_vars PROVE JobsOK'
  OBVIOUS
<1>0. JobsOK /\ WorkersOK
  BY DEF TypeOK
<1>1. CASE job' = job
  BY <1>0, <1>1 DEF JobsOK
<1>2. ASSUME NEW r \in Rows, Submit(r) PROVE JobsOK'
  <2>1. worker[r].content \in Contents
    BY <1>0, <1>2 DEF Submit, WorkersOK, Resting
  <2> QED
    BY <1>0, <1>2, <2>1 DEF Submit, JobsOK, JobRecords
<1>3. ASSUME NEW r \in Rows, JobEnds(r) PROVE JobsOK'
  <2>1. job[r].state # "none"
    BY <1>3 DEF JobEnds
  <2>2. \E end \in Terminal : job' = [job EXCEPT ![r].state = end]
    BY <1>3 DEF JobEnds, Terminal
  <2> QED
    BY <1>0, <2>1, <2>2, FlaggedJob
<1>4. ASSUME NEW r \in Rows, JobTells(r) \/ StopJob(r) \/ DismissJob(r) PROVE JobsOK'
  <2>1. job[r].state # "none"
    BY <1>4 DEF JobTells, StopJob, DismissJob, JobIsOver, Terminal
  <2> QED
    BY <1>0, <1>4, <2>1, FlaggedJob DEF JobTells, StopJob, DismissJob
<1>5. ASSUME NEW r \in Rows, CancelJob(r) PROVE JobsOK'
  BY <1>0, <1>1, <1>5, FlaggedJob DEF CancelJob
<1>6. CASE Restart
  BY <1>6 DEF Restart, JobsOK
<1>7. ASSUME NEW r \in Rows,
             \/ CheckLibrary(r) \/ Approve(r) \/ Begin(r) \/ Park(r) \/ AlreadyThere(r)
             \/ Claim(r) \/ Recheck(r) \/ Deny(r) \/ Cancel(r)
             \/ \E c \in Contents : Create(r, c) \/ Edit(r, c)
      PROVE  job' = job
  BY <1>7 DEF CheckLibrary, Approve, Begin, Park, AlreadyThere, Claim, Recheck, Deny, Cancel,
              Create, Edit
<1>8. CASE Update \/ Rekey \/ (\E c \in Contents : LeaveLibrary(c)) \/ UNCHANGED vars
  BY <1>1, <1>8 DEF Update, Rekey, LeaveLibrary, vars
<1> QED
  BY <1>1, <1>2, <1>3, <1>4, <1>5, <1>6, <1>7, <1>8 DEF Next, Work

LEMMA EditStep == TypeOK /\ [Next]_vars => EditOK'
<1> SUFFICES ASSUME TypeOK, [Next]_vars PROVE EditOK'
  OBVIOUS
<1>0. EditOK
  BY DEF TypeOK
<1>1. CASE editing' = editing
  BY <1>0, <1>1 DEF EditOK
<1>2. ASSUME NEW r \in Rows, NEW c \in Contents, Edit(r, c) PROVE EditOK'
  BY <1>2 DEF Edit, EditOK
<1>3. CASE Update
  BY <1>0, <1>3 DEF Update, EditOK, NoEdit
<1>4. CASE Rekey \/ Restart
  BY <1>4 DEF Rekey, Restart, EditOK
<1>5. ASSUME NEW r \in Rows,
             \/ CheckLibrary(r) \/ Approve(r) \/ Work(r)
             \/ JobEnds(r) \/ JobTells(r) \/ StopJob(r) \/ DismissJob(r)
             \/ Deny(r) \/ Cancel(r) \/ CancelJob(r)
             \/ \E c \in Contents : Create(r, c)
      PROVE  editing' = editing
  BY <1>5 DEF CheckLibrary, Approve, Work, Begin, Park, AlreadyThere, Submit, Claim, Recheck,
              JobEnds, JobTells, StopJob, DismissJob, Deny, Cancel, CancelJob, Create
<1>6. CASE (\E c \in Contents : LeaveLibrary(c)) \/ UNCHANGED vars
  BY <1>1, <1>6 DEF LeaveLibrary, vars
<1> QED
  BY <1>1, <1>2, <1>3, <1>4, <1>5, <1>6 DEF Next

LEMMA SetsStep == TypeOK /\ [Next]_vars => SetsOK'
<1> SUFFICES ASSUME TypeOK, [Next]_vars PROVE SetsOK'
  OBVIOUS
<1>0. SetsOK /\ JobsOK
  BY DEF TypeOK
<1>1. CASE UNCHANGED vars
  BY <1>0, <1>1 DEF SetsOK, vars
<1>2. ASSUME Ask PROVE asks' \in 0..MaxAsks
  BY <1>0, <1>2, BoundsAssumption DEF Ask, SetsOK
<1>3. ASSUME NEW r \in Rows,
             \/ Approve(r) \/ StopJob(r) \/ DismissJob(r) \/ Deny(r) \/ Cancel(r)
             \/ \E c \in Contents : Edit(r, c)
      PROVE  SetsOK'
  BY <1>0, <1>2, <1>3
     DEF Approve, StopJob, DismissJob, Deny, Cancel, Edit, SetsOK
<1>4. ASSUME NEW r \in Rows, JobEnds(r) PROVE SetsOK'
  <2>1. job[r].content \in Contents
    BY <1>0, <1>4 DEF JobEnds, JobsOK, JobRecords, NoJob
  <2> QED
    BY <1>0, <1>4, <2>1 DEF JobEnds, SetsOK
<1>5. ASSUME NEW r \in Rows,
             \/ CheckLibrary(r) \/ Work(r) \/ JobTells(r) \/ CancelJob(r)
             \/ \E c \in Contents : Create(r, c)
      PROVE  SetsOK'
  BY <1>0, <1>5 DEF CheckLibrary, Work, Begin, Park, AlreadyThere, Submit, Claim, Recheck,
                    JobTells, CancelJob, Create, SetsOK
<1>6. ASSUME NEW c \in Contents, LeaveLibrary(c) PROVE SetsOK'
  BY <1>0, <1>2, <1>6 DEF LeaveLibrary, SetsOK
<1>7. CASE Update \/ Rekey
  BY <1>0, <1>7 DEF Update, Rekey, SetsOK
<1>8. CASE Restart
  BY <1>0, <1>8, BoundsAssumption DEF Restart, SetsOK
<1> QED
  BY <1>1, <1>3, <1>4, <1>5, <1>6, <1>7, <1>8 DEF Next

LEMMA StepTypeOK == TypeOK /\ [Next]_vars => TypeOK'
BY RowsStep, WorkersStep, JobsStep, EditStep, SetsStep DEF TypeOK

(* Every row, worker, job and correction keeps its type, for any requests. *)
THEOREM TypeCorrect == Spec => []TypeOK
<1>1. Init => TypeOK
  BY InitTypeOK
<1>2. TypeOK /\ [Next]_vars => TypeOK'
  BY StepTypeOK
<1> QED
  BY <1>1, <1>2, PTL DEF Spec

-----------------------------------------------------------------------------
(* The request and those who work on it *)

LEMMA HandStep == TypeOK /\ ApprovedIsInHand /\ [Next]_vars => ApprovedIsInHand'
<1> SUFFICES ASSUME TypeOK, ApprovedIsInHand, [Next]_vars PROVE ApprovedIsInHand'
  OBVIOUS
<1>0. RowsOK /\ WorkersOK /\ EditOK
  BY DEF TypeOK
<1>1. ASSUME NEW r \in Rows, Approve(r) \/ Begin(r) \/ Park(r) \/ AlreadyThere(r)
      PROVE  ApprovedIsInHand'
  BY <1>0, <1>1, SourcesOf
     DEF Approve, Begin, Park, AlreadyThere, May, Moved, ApprovedIsInHand, RowsOK, RowRecords,
         WorkersOK, Resting
<1>2. ASSUME NEW r \in Rows, Submit(r) \/ Claim(r) PROVE ApprovedIsInHand'
  BY <1>0, <1>2, SourcesOf
     DEF Submit, Claim, May, ApprovedIsInHand, RowsOK, RowRecords, WorkersOK, Resting
<1>3. ASSUME NEW r \in Rows, Recheck(r) \/ JobTells(r) PROVE ApprovedIsInHand'
  BY <1>0, <1>3, HeardRow
     DEF Recheck, JobTells, Moved, ApprovedIsInHand, RowsOK, RowRecords, WorkersOK, Resting
<1>4. ASSUME NEW r \in Rows, CheckLibrary(r) \/ Deny(r) \/ Cancel(r)
      PROVE  ApprovedIsInHand'
  BY <1>0, <1>4, SourcesOf
     DEF CheckLibrary, Deny, Cancel, May, Moved, ApprovedIsInHand, RowsOK, RowRecords
<1>5. ASSUME NEW r \in Rows, NEW c \in Contents, Create(r, c) PROVE ApprovedIsInHand'
  BY <1>0, <1>5 DEF Create, ApprovedIsInHand, RowsOK, RowRecords
<1>6. CASE Update \/ Rekey
  BY <1>0, <1>6 DEF Update, Rekey, ApprovedIsInHand, RowsOK, RowRecords
<1>7. CASE Restart
  BY <1>0, <1>7 DEF Restart, Recovered, Resting, ApprovedIsInHand, RowsOK, RowRecords
<1>8. CASE row' = row /\ worker' = worker
  BY <1>8 DEF ApprovedIsInHand
<1>9. ASSUME NEW r \in Rows,
             \/ JobEnds(r) \/ StopJob(r) \/ DismissJob(r) \/ CancelJob(r)
             \/ \E c \in Contents : Edit(r, c)
      PROVE  ApprovedIsInHand'
  BY <1>8, <1>9 DEF JobEnds, StopJob, DismissJob, CancelJob, Edit
<1>10. CASE (\E c \in Contents : LeaveLibrary(c)) \/ UNCHANGED vars
  BY <1>8, <1>10 DEF LeaveLibrary, vars
<1> QED
  BY <1>1, <1>2, <1>3, <1>4, <1>5, <1>6, <1>7, <1>9, <1>10 DEF Next, Work

(* No request is approved with nobody to take it on, and the pool works on *)
(* no other: approve() and the recovery at startup leave no gap.           *)
THEOREM ApprovedHasAWorker == Spec => []ApprovedIsInHand
<1>1. Init => ApprovedIsInHand
  BY DEF Init, ApprovedIsInHand, Resting
<1>2. TypeOK /\ ApprovedIsInHand /\ [Next]_vars => ApprovedIsInHand'
  BY HandStep
<1> QED
  BY <1>1, <1>2, TypeCorrect, PTL DEF Spec

LEMMA StrayStep ==
  TypeOK /\ ApprovedIsInHand /\ NoStrayDownload /\ [Next]_vars => NoStrayDownload'
<1> SUFFICES ASSUME TypeOK, ApprovedIsInHand, NoStrayDownload, [Next]_vars
             PROVE  NoStrayDownload'
  OBVIOUS
<1>0. RowsOK /\ WorkersOK /\ JobsOK /\ EditOK
  BY DEF TypeOK
<1>1. ASSUME NEW r \in Rows, Approve(r) \/ Begin(r) \/ Park(r) \/ AlreadyThere(r)
      PROVE  NoStrayDownload'
  BY <1>0, <1>1, SourcesOf, SMTT(20)
     DEF Approve, Begin, Park, AlreadyThere, May, Moved, ApprovedIsInHand, NoStrayDownload,
         RowsOK, RowRecords, WorkersOK, Resting
<1>2. ASSUME NEW r \in Rows, Submit(r) PROVE NoStrayDownload'
  BY <1>0, <1>2
     DEF Submit, ApprovedIsInHand, NoStrayDownload, RowsOK, WorkersOK, JobsOK, Resting
<1>3. ASSUME NEW r \in Rows, Claim(r) PROVE NoStrayDownload'
  BY <1>0, <1>3, SourcesOf
     DEF Claim, May, NoStrayDownload, RowsOK, RowRecords, WorkersOK, Resting
<1>4. ASSUME NEW r \in Rows, Recheck(r) \/ JobTells(r) PROVE NoStrayDownload'
  <2>1. row' = row \/ ~(job'[r].state = "live" /\ ~job'[r].stop)
    <3>1. CASE Recheck(r)
      BY <3>1 DEF Recheck, JobIsOver, Terminal
    <3>2. CASE JobTells(r)
      BY <1>0, <3>2 DEF JobTells, JobsOK, JobRecords, Terminal, NoJob
    <3> QED
      BY <1>4, <3>1, <3>2
  <2>2. \A q \in Rows : q # r => row'[q] = row[q] /\ job'[q] = job[q] /\ worker'[q] = worker[q]
    BY <1>0, <1>4, HeardRow DEF Recheck, JobTells, Moved, RowsOK, WorkersOK, JobsOK
  <2>3. row' = row => NoStrayDownload'
    BY <1>0, <1>4
       DEF Recheck, JobTells, NoStrayDownload, WorkersOK, JobsOK, JobRecords, Terminal, NoJob,
           Resting
  <2>4. stopping' = stopping
    BY <1>4 DEF Recheck, JobTells
  <2> QED
    BY <2>1, <2>2, <2>3, <2>4 DEF NoStrayDownload
<1>5. ASSUME NEW r \in Rows, CheckLibrary(r) \/ Deny(r) \/ Cancel(r)
      PROVE  NoStrayDownload'
  BY <1>0, <1>5, SourcesOf
     DEF CheckLibrary, Deny, Cancel, May, Moved, NoStrayDownload, RowsOK, RowRecords
<1>6. ASSUME NEW r \in Rows, NEW c \in Contents, Create(r, c) PROVE NoStrayDownload'
  BY <1>0, <1>6 DEF Create, NoStrayDownload, RowsOK, RowRecords
<1>7. ASSUME NEW r \in Rows,
             JobEnds(r) \/ StopJob(r) \/ DismissJob(r) \/ CancelJob(r)
      PROVE  NoStrayDownload'
  BY <1>0, <1>7
     DEF JobEnds, StopJob, DismissJob, CancelJob, JobIsOver, NoStrayDownload, JobsOK, JobRecords,
         Terminal, NoJob
<1>8. CASE Update \/ Rekey
  BY <1>0, <1>8 DEF Update, Rekey, NoStrayDownload, RowsOK, RowRecords
<1>9. CASE Restart
  BY <1>9 DEF Restart, NoJob, NoStrayDownload
<1>10. CASE UNCHANGED <<row, worker, job, stopping>>
  BY <1>10 DEF NoStrayDownload
<1>11. CASE (\E r \in Rows, c \in Contents : Edit(r, c))
            \/ (\E c \in Contents : LeaveLibrary(c)) \/ UNCHANGED vars
  BY <1>10, <1>11 DEF Edit, LeaveLibrary, vars
<1> QED
  BY <1>1, <1>2, <1>3, <1>4, <1>5, <1>6, <1>7, <1>8, <1>9, <1>11 DEF Next, Work

(* No download runs for a request that does not want it: one withdrawn at  *)
(* any moment has its job stopped, or is about to.                         *)
THEOREM NoDownloadIsStray == Spec => []NoStrayDownload
<1>1. Init => NoStrayDownload
  BY DEF Init, NoJob, NoStrayDownload
<1>2. TypeOK /\ ApprovedIsInHand /\ NoStrayDownload /\ [Next]_vars => NoStrayDownload'
  BY StrayStep
<1> QED
  BY <1>1, <1>2, TypeCorrect, ApprovedHasAWorker, PTL DEF Spec

(* A closed request stays as it was closed, whoever comes late: an         *)
(* approver, the worker, the job's listener or the recovery at startup.    *)
THEOREM ClosedRowsStay == Spec => ClosedStaysClosed
<1> DEFINE Kept == \A r \in Rows : row[r].status \in Closed => row'[r].status = row[r].status
<1>1. TypeOK /\ [Next]_vars => Kept
  <2> SUFFICES ASSUME TypeOK, [Next]_vars PROVE Kept
    OBVIOUS
  <2>0. RowsOK /\ EditOK
    BY DEF TypeOK
  <2>1. ASSUME NEW r \in Rows,
               \/ CheckLibrary(r) \/ Approve(r) \/ Park(r) \/ AlreadyThere(r)
               \/ Claim(r) \/ Deny(r) \/ Cancel(r)
        PROVE  Kept
    BY <2>0, <2>1, SourcesOf
       DEF CheckLibrary, Approve, Park, AlreadyThere, Claim, Deny, Cancel, May, Moved, Closed,
           RowsOK, RowRecords
  <2>2. ASSUME NEW r \in Rows, Recheck(r) \/ JobTells(r) PROVE Kept
    BY <2>0, <2>2, HeardRow DEF Recheck, JobTells, Moved, Closed, RowsOK, RowRecords
  <2>3. ASSUME NEW r \in Rows, NEW c \in Contents, Create(r, c) PROVE Kept
    BY <2>0, <2>3 DEF Create, Closed, RowsOK, RowRecords
  <2>4. CASE Update \/ Rekey
    BY <2>0, <2>4 DEF Update, Rekey, RowsOK, RowRecords
  <2>5. CASE Restart
    BY <2>0, <2>5 DEF Restart, Recovered, Closed, RowsOK, RowRecords
  <2>6. CASE row' = row
    BY <2>6
  <2>7. ASSUME NEW r \in Rows,
               \/ Begin(r) \/ Submit(r) \/ JobEnds(r) \/ StopJob(r) \/ DismissJob(r)
               \/ CancelJob(r) \/ \E c \in Contents : Edit(r, c)
        PROVE  Kept
    BY <2>6, <2>7 DEF Begin, Submit, JobEnds, StopJob, DismissJob, CancelJob, Edit
  <2>8. CASE (\E c \in Contents : LeaveLibrary(c)) \/ UNCHANGED vars
    BY <2>6, <2>8 DEF LeaveLibrary, vars
  <2> HIDE DEF Kept
  <2> QED
    BY <2>1, <2>2, <2>3, <2>4, <2>5, <2>7, <2>8 DEF Next, Work
<1>2. TypeOK /\ [Next]_vars => [Kept]_vars
  BY <1>1
<1> QED
  BY <1>2, TypeCorrect, PTL DEF Spec, ClosedStaysClosed
=============================================================================
