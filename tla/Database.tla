------------------------------- MODULE Database -------------------------------
(***************************************************************************)
(* The panel's database across an update: run_migrations() of app/db.py,   *)
(* which brings the file of any older release to the schema of this one,   *)
(* one transaction per migration, and may be stopped between any two       *)
(* statements and start again.                                             *)
(*                                                                         *)
(* Kept of the schema are the tables that a migration rebuilds and what    *)
(* refers to them.  A row of jf_series_watch_subscriber, of                *)
(* jf_watch_seen_episode or the watch_id of a request is abstracted to the *)
(* watch it names; jf_notification is a set of rows.  A migration that     *)
(* only creates tables is a step that bumps the version.                   *)
(***************************************************************************)
EXTENDS Integers, Sequences, FiniteSets

CONSTANTS Watches, Requests

VARIABLES
  file,      \* what is committed
  process,   \* run_migrations(): "down", "between" two migrations, "in" one, or "ready"
  fresh,     \* its local variable
  work,      \* the tables as the open transaction sees them
  left,      \* the statements of the migration that are still to run
  authEnv,   \* whether the environment says AUTH_ENABLED=1
  old        \* history: the file as this release found it

vars == <<file, process, fresh, work, left, authEnv, old>>

LastMigration == 10
NoWatch == "null"
Nothing == [watch |-> {}, subscriber |-> {}, seen |-> {}, bell |-> {}]

\* The files that a release with v migrations leaves.  Before the fifth every watch has an
\* owner; what was open then is open by the environment and stores no mode.
Files(v) ==
  {[version |-> v, live |-> [watch |-> w, subscriber |-> s, seen |-> e, bell |-> b],
    copy |-> Nothing, link |-> l, users |-> u, mode |-> m,
    applied |-> [i \in 1..LastMigration |-> IF i <= v THEN 1 ELSE 0]] :
     w \in SUBSET Watches, s \in SUBSET Watches, e \in SUBSET Watches, b \in SUBSET {"a notice"},
     l \in [Requests -> Watches \cup {NoWatch}], u \in BOOLEAN, m \in {"none", "open"}}

Possible(f) ==
  /\ f.live.subscriber \cup f.live.seen \subseteq f.live.watch
  /\ \A r \in Requests : f.link[r] \in f.live.watch \cup {NoWatch}
  /\ f.version < 4 => f.live.watch = {}
  /\ f.version = 4 /\ f.live.watch # {} => f.users
  /\ f.version < 8 \/ f.users => f.mode = "none"
  /\ f.version < 2 => f.live.bell = {}
  /\ f.version = 0 => ~f.users

Init ==
  /\ \E v \in 0..(LastMigration - 1) : file \in {f \in Files(v) : Possible(f)}
  /\ old = file
  /\ process = "down" /\ fresh = FALSE
  /\ work = file /\ left = <<>>
  /\ authEnv \in BOOLEAN

-----------------------------------------------------------------------------
(* Statements *)

Tables(migration) ==
  IF migration = 5 THEN {"watch", "subscriber", "seen"}
  ELSE IF migration = 6 THEN {"bell"} ELSE {}

\* Mutant of Statements: each table is replaced as soon as it has been copied.
StatementsTableByTable(migration) ==
  IF migration = 5
  THEN <<<<"copy", "watch">>, <<"drop", "watch">>, <<"copy", "subscriber">>,
         <<"drop", "subscriber">>, <<"copy", "seen">>, <<"drop", "seen">>, <<"rename", "">>>>
  ELSE IF migration = 6 THEN <<<<"copy", "bell">>, <<"drop", "bell">>, <<"rename", "">>>>
  ELSE IF migration = 8 THEN <<<<"carry over", "">>>> ELSE <<>>

\* _V5_WATCHES_WITHOUT_ACCOUNTS, _V6_PANEL_NOTIFICATIONS and _v8_carry_over_open_mode.
Statements(migration) ==
  IF migration = 5
  THEN <<<<"copy", "watch">>, <<"copy", "subscriber">>, <<"copy", "seen">>,
         <<"drop", "subscriber">>, <<"drop", "seen">>, <<"drop", "watch">>, <<"rename", "">>>>
  ELSE IF migration = 6 THEN <<<<"copy", "bell">>, <<"drop", "bell">>, <<"rename", "">>>>
  ELSE IF migration = 8 THEN <<<<"carry over", "">>>> ELSE <<>>

\* Foreign keys are on, so a dropped table takes its rows away one by one: what refers to
\* them goes as well, or - the watch_id of a request - is set to null.
Dropped(t, table) ==
  IF table # "watch" THEN [t EXCEPT !.live[table] = {}]
  ELSE [t EXCEPT !.live = [t.live EXCEPT !.watch = {}, !.subscriber = {}, !.seen = {}],
                 !.link = [r \in Requests |-> NoWatch]]

Renamed(t, migration) ==
  [t EXCEPT !.live = [n \in DOMAIN t.live |->
                        IF n \in Tables(migration) THEN t.copy[n] ELSE t.live[n]],
            !.copy = Nothing]

\* Only a file that was there before, that shows no sign of having been set up and that was
\* deployed open is carried over.
CarriedOver(t) ==
  IF fresh \/ t.users \/ t.mode # "none" \/ authEnv THEN t ELSE [t EXCEPT !.mode = "open"]

Effect(statement, t) ==
  LET verb == statement[1]
      table == statement[2] IN
  CASE verb = "copy" -> [t EXCEPT !.copy[table] = t.live[table]]
    [] verb = "drop" -> Dropped(t, table)
    [] verb = "rename" -> Renamed(t, t.version + 1)
    [] verb = "carry over" -> CarriedOver(t)

-----------------------------------------------------------------------------
(* run_migrations() *)

Start ==
  /\ process = "down"
  /\ process' = IF file.version >= LastMigration THEN "ready" ELSE "between"
  /\ fresh' = (file.version = 0)
  /\ UNCHANGED <<file, work, left, authEnv, old>>

Begin ==
  /\ process = "between" /\ file.version < LastMigration
  /\ process' = "in"
  /\ work' = file /\ left' = Statements(file.version + 1)
  /\ UNCHANGED <<file, fresh, authEnv, old>>

Statement ==
  /\ process = "in" /\ left # <<>>
  /\ work' = Effect(Head(left), work) /\ left' = Tail(left)
  /\ UNCHANGED <<file, process, fresh, authEnv, old>>

Bumped(t) == [t EXCEPT !.version = @ + 1, !.applied[t.version + 1] = @ + 1]

\* Mutant of Commit: the version is written after the transaction, as executescript() would.
CommitThenBump ==
  /\ process = "in" /\ left = <<>>
  /\ \/ file' = Bumped(work) /\ process' = "between"
     \/ file' = [Bumped(work) EXCEPT !.version = work.version] /\ process' = "down"
  /\ \A i \in 1..LastMigration : file'.applied[i] <= 2
  /\ UNCHANGED <<fresh, work, left, authEnv, old>>

\* The statements and the version are committed together.
Commit ==
  /\ process = "in" /\ left = <<>>
  /\ file' = Bumped(work) /\ process' = "between"
  /\ UNCHANGED <<fresh, work, left, authEnv, old>>

Ready ==
  /\ process = "between" /\ file.version = LastMigration
  /\ process' = "ready"
  /\ UNCHANGED <<file, fresh, work, left, authEnv, old>>

\* A statement fails and is rolled back, or the process is killed: the transaction is gone.
Stop ==
  /\ process # "down" /\ process' = "down"
  /\ UNCHANGED <<file, fresh, work, left, authEnv, old>>

Next == Start \/ Begin \/ Statement \/ Commit \/ Ready \/ Stop

Spec == Init /\ [][Next]_vars
-----------------------------------------------------------------------------

TypeOK ==
  /\ file.version \in old.version..LastMigration
  /\ \A n \in {"watch", "subscriber", "seen"} :
       file.live[n] \subseteq Watches /\ file.copy[n] = {}
  /\ file.link \in [Requests -> Watches \cup {NoWatch}]
  /\ file.mode \in {"none", "open"} /\ file.users \in BOOLEAN
  /\ process \in {"down", "between", "in", "ready"} /\ fresh \in BOOLEAN

\* "Every migration runs exactly once, in order, inside a transaction", and the tables that
\* are rebuilt keep their rows: wherever it is stopped and however often it starts again.
MigratedOnceAndWhole ==
  /\ \A i \in 1..LastMigration : file.applied[i] = IF i <= file.version THEN 1 ELSE 0
  /\ file.live = old.live

\* "Links a request back to the watch that spawned it": the rebuild of the watches copies
\* their child tables for the references not to be lost when the old table is dropped.
MigrationKeepsLinks == file.link = old.link
=============================================================================
