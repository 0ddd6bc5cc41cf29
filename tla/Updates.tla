------------------------------- MODULE Updates --------------------------------
(***************************************************************************)
(* Updating the panel: the check for a newer release (app/updates.py), the *)
(* install request (app/routers/updates.py) and the updater service, which *)
(* pulls the image and recreates the panel's container while the panel's   *)
(* pages poll it (updater/updater.py, app/updater_client.py).              *)
(*                                                                         *)
(* A version is a number; the image and the release of a version are       *)
(* published together.  The panel's database is the version whose          *)
(* migrations it has been through.  Left out: release notes, the compose   *)
(* labels by which the container is found, and the socket.                 *)
(***************************************************************************)
EXTENDS Integers

CONSTANTS Calls, MaxVersion, MaxRuns

VARIABLES
  published,  \* the newest version there is
  version,    \* the version the panel runs
  known,      \* _releases of app/updates.py: the newest of them, 0 for none
  recent,     \* _attempted_at is less than MANUAL_CHECK_THROTTLE ago
  downloads,  \* whether a job is running, queued or paused
  backup,     \* the version of the database in the .pre-update copy, 0 for none
  call,       \* the requests and checks of the panel, and the pages that poll
  image,      \* the version of the image on the host
  state,      \* Updater.state
  shown,      \* history: the run that set it, 0 for none
  runs,       \* history: how many updates were started
  thread      \* how far the thread of each of them is

panel == <<version, known, recent, downloads, backup, call>>
updater == <<image, state, shown, runs, thread>>
vars == <<published, panel, updater>>

Runs == 1..MaxRuns
Idle == [at |-> "idle", answer |-> 0, of |-> 0]
Busy == state \in {"pulling", "recreating"}

Init ==
  /\ published = 1 /\ version = 1
  /\ known = 0 /\ recent = FALSE /\ downloads = FALSE /\ backup = 0
  /\ call = [c \in Calls |-> Idle]
  /\ image = 1 /\ state = "idle" /\ shown = 0 /\ runs = 0
  /\ thread = [r \in Runs |-> "none"]

At(c, step) == call[c].at = step
Goes(c, step) == call' = [call EXCEPT ![c].at = step]
Ends(c) == call' = [call EXCEPT ![c] = Idle]

-----------------------------------------------------------------------------
(* The check *)

\* check_now() asks unless somebody has just asked, update_check_loop() when it is time.
CheckNow(c) ==
  /\ At(c, "idle") /\ ~recent
  /\ Goes(c, "checking")
  /\ UNCHANGED <<published, version, known, recent, downloads, backup, updater>>

CheckDue(c) ==
  /\ At(c, "idle")
  /\ Goes(c, "checking")
  /\ UNCHANGED <<published, version, known, recent, downloads, backup, updater>>

\* The attempt is noted, and GitHub answers with what is newer than this version.
Ask(c) ==
  /\ At(c, "checking")
  /\ recent' = TRUE
  /\ call' = [call EXCEPT ![c].at = "answered",
                          ![c].answer = IF published > version THEN published ELSE 0]
  /\ UNCHANGED <<published, version, known, downloads, backup, updater>>

\* A failure keeps what was known.
CheckFails(c) ==
  /\ At(c, "checking")
  /\ recent' = TRUE
  /\ Ends(c)
  /\ UNCHANGED <<published, version, known, downloads, backup, updater>>

Keep(c) ==
  /\ At(c, "answered")
  /\ known' = call[c].answer
  /\ Ends(c)
  /\ UNCHANGED <<published, version, recent, downloads, backup, updater>>

ThrottleEnds ==
  /\ recent /\ recent' = FALSE
  /\ UNCHANGED <<published, version, known, downloads, backup, call, updater>>

-----------------------------------------------------------------------------
(* install() *)

\* Mutant of Install: the copy is left for later.
InstallFirst(c) ==
  /\ At(c, "idle") /\ known > 0 /\ ~downloads
  /\ Goes(c, "backed up")
  /\ UNCHANGED <<published, version, known, recent, downloads, backup, updater>>

\* There is something new, no job that a restart would lose, and an updater that says it
\* is ready - which one that is busy does as well.
Install(c) ==
  /\ At(c, "idle") /\ known > 0 /\ ~downloads
  /\ Goes(c, "installing")
  /\ UNCHANGED <<published, version, known, recent, downloads, backup, updater>>

\* _backup_database(): a copy that fails ends the request.
BackUp(c) ==
  /\ At(c, "installing")
  /\ \/ backup' = version /\ Goes(c, "backed up")
     \/ Ends(c) /\ UNCHANGED backup
  /\ UNCHANGED <<published, version, known, recent, downloads, updater>>

\* Updater.start(): False, and a 409, when an update is running; else the state changes
\* before the thread is started and before the 202.
Start(c) ==
  /\ At(c, "backed up") /\ runs < MaxRuns
  /\ IF Busy THEN Ends(c) /\ UNCHANGED updater
     ELSE /\ runs' = runs + 1
          /\ state' = "pulling" /\ shown' = runs + 1
          /\ thread' = [thread EXCEPT ![runs + 1] = "pulling"]
          /\ call' = [call EXCEPT ![c].at = "polling", ![c].of = runs + 1]
          /\ UNCHANGED image
  /\ UNCHANGED <<published, version, known, recent, downloads, backup>>

\* The service cannot be reached, or the page that polled it is closed.
Unreachable(c) ==
  /\ call[c].at \in {"backed up", "polling"}
  /\ Ends(c)
  /\ UNCHANGED <<published, version, known, recent, downloads, backup, updater>>

-----------------------------------------------------------------------------
(* Updater.run(), in its thread *)

Sets(r, s) == state' = s /\ shown' = r /\ UNCHANGED runs
Moves(r, step) == thread' = [thread EXCEPT ![r] = step]

\* locate() and the pull: what is pulled is what the panel runs already, or newer.
Pull(r) ==
  /\ thread[r] = "pulling"
  /\ image' = published
  /\ IF published = version THEN Sets(r, "unchanged") /\ Moves(r, "ended")
     ELSE Sets(r, "recreating") /\ Moves(r, "recreating")
  /\ UNCHANGED <<published, panel>>

\* The new panel starts with nothing in memory, on the database it migrates; the requests
\* of the old one are gone, the pages that poll are not.
Boot ==
  /\ version' = image
  /\ known' = 0 /\ recent' = FALSE /\ downloads' = FALSE
  /\ call' = [c \in Calls |-> IF At(c, "polling") THEN call[c] ELSE Idle]
  /\ UNCHANGED <<published, backup>>

\* docker compose up -d recreates the panel before it returns, or before it fails.
Up(r) ==
  /\ thread[r] = "recreating"
  /\ Boot
  /\ Moves(r, "recreated")
  /\ UNCHANGED <<image, state, shown, runs>>

Done(r) ==
  /\ thread[r] = "recreated"
  /\ Sets(r, "done") /\ Moves(r, "ended")
  /\ UNCHANGED <<published, panel, image>>

\* A command that fails or does not end in its time, or anything unexpected.
Fail(r) ==
  /\ thread[r] \in {"pulling", "recreating", "recreated"}
  /\ Sets(r, "failed") /\ Moves(r, "ended")
  /\ UNCHANGED <<published, panel, image>>

Run(r) == Pull(r) \/ Up(r) \/ Done(r) \/ Fail(r)

\* The service's container is restarted; its state is in memory.
UpdaterRestarts ==
  /\ state' = "idle" /\ shown' = 0
  /\ thread' = [r \in Runs |-> IF r <= runs THEN "ended" ELSE "none"]
  /\ UNCHANGED <<published, panel, image, runs>>

-----------------------------------------------------------------------------
(* Around them *)

Publish ==
  /\ published < MaxVersion /\ published' = published + 1
  /\ UNCHANGED <<panel, updater>>

\* A job is submitted, or the last one ends.
Download ==
  /\ downloads' = ~downloads
  /\ UNCHANGED <<published, version, known, recent, backup, call, updater>>

Next ==
  \/ \E c \in Calls :
       \/ CheckNow(c) \/ CheckDue(c) \/ Ask(c) \/ CheckFails(c) \/ Keep(c)
       \/ Install(c) \/ BackUp(c) \/ Start(c) \/ Unreachable(c)
  \/ \E r \in Runs : Run(r)
  \/ ThrottleEnds \/ UpdaterRestarts \/ Publish \/ Download

\* Every docker command has a timeout, so the thread of an update always goes on.
Fairness == \A r \in Runs : WF_vars(Run(r))

Spec == Init /\ [][Next]_vars /\ Fairness
-----------------------------------------------------------------------------

TypeOK ==
  /\ published \in 1..MaxVersion /\ image \in 1..published /\ version \in 1..image
  /\ known \in 0..MaxVersion /\ backup \in 0..version
  /\ recent \in BOOLEAN /\ downloads \in BOOLEAN
  /\ call \in [Calls -> [at : {"idle", "checking", "answered", "installing", "backed up",
                               "polling"},
                         answer : 0..MaxVersion, of : 0..MaxRuns]]
  /\ state \in {"idle", "pulling", "recreating", "unchanged", "done", "failed"}
  /\ runs \in 0..MaxRuns /\ shown \in 0..runs
  /\ thread \in [Runs -> {"none", "pulling", "recreating", "recreated", "ended"}]

\* "Migrations only go forward": whichever of several requests an update comes of and
\* however far they had come when it replaced them, the panel is only replaced when a copy
\* of a database that the new version has not migrated is there.
WayBackIsThere == version' > version => backup \in 1..version

UpdateLeavesAWayBack == [][WayBackIsThere]_vars

\* A page told 202 never reads the outcome of an update before the one it asked for, and
\* one that still works is shown as the latest: "a poll straight after never reads the
\* previous outcome".
PollIsOfThisUpdate ==
  \A c \in Calls : At(c, "polling") => shown \notin 1..(call[c].of - 1)

\* Whatever docker does and whoever asks meanwhile, an update ends and another may start.
UpdateEnds == Busy ~> ~Busy
=============================================================================
