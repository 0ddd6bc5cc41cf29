------------------------------ MODULE MCPanel -------------------------------
(***************************************************************************)
(* The components beside the jobs and the requests, checked in one run.    *)
(* None of them shares a variable with another, so one set of variables    *)
(* serves them all: focus says whose they are, and the ones its component  *)
(* has no use for are Unused.                                              *)
(***************************************************************************)
EXTENDS FiniteSets, Integers, Sequences

CONSTANTS
  Downloads, Containers,
  Tasks, Languages, MaxChanges, AutoRetries,
  Channels, Hooks, MaxEdits,
  Senders, Pages, Phases, Attempts, QueueSize,
  Persons, Admins, Servers, MaxSessions,
  Hosts, MaxCrashes,
  Titles, Folders,
  MaxVersion, MaxRuns,
  Watches, Requests,
  Calls,
  Episodes, Years

\* Nobody holds no file, and none the lock of the settings: see Destinations, SourceDomain.
ASSUME DownloadsAssumption == "nobody" \notin Downloads
ASSUME CallsAssumption == "none" \notin Calls
\* A phase of a download has segments, and a page has a queue: see Progress.
ASSUME SendersAssumption == IsFiniteSet(Senders) /\ Senders # {}
ASSUME QueueAssumption == QueueSize \in Nat \ {0}
\* A series has finitely many episodes, and a year has four digits: see SeriesFolders.
ASSUME EpisodesAssumption == IsFiniteSet(Episodes)
ASSUME YearsAssumption == Years \subseteq 1..9999
\* The lock of a film has a holder or nobody: see Tracks.
ASSUME TasksAssumption == "nobody" \notin Tasks
\* Retries, sessions and the rest are counted, and a download has a phase and an attempt.
ASSUME BoundsAssumption ==
  /\ {MaxChanges, AutoRetries, MaxEdits, MaxSessions, MaxCrashes} \subseteq Nat
  /\ {Phases, Attempts} \subseteq Nat \ {0}
\* There is a version to run, and updates are counted: see Updates.
ASSUME UpdatesAssumption == MaxVersion \in Nat \ {0} /\ MaxRuns \in Nat

VARIABLES focus, v1, v2, v3, v4, v5, v6, v7, v8, v9, v10, v11, v12

vars == <<focus, v1, v2, v3, v4, v5, v6, v7, v8, v9, v10, v11, v12>>
Unused == "unused"

Files == INSTANCE Destinations WITH at <- v1, box <- v2, subs <- v3, disk <- v4,
  staged <- v5, beside <- v6, holder <- v7
Tracked == INSTANCE Tracks WITH task <- v1, film <- v2, writer <- v3, offered <- v4,
  changes <- v5, ffprobe <- v6
News == INSTANCE Announcements WITH job <- v1, row <- v2, thread <- v3, target <- v4,
  edits <- v5, told <- v6, steady <- v7, broken <- v8, refused <- v9
Bars == INSTANCE Progress WITH Threads <- Senders, attempt <- v1, phase <- v2, bar <- v3,
  thread <- v4, progress <- v5, sent <- v6, page <- v7, wire <- v8, full <- v9
People == INSTANCE Accounts WITH mode <- v1, server <- v2, users <- v3, sessions <- v4,
  openDoor <- v5, call <- v6
Domain == INSTANCE SourceDomain WITH file <- v1, lock <- v2, pending <- v3, throttled <- v4,
  call <- v5, crashes <- v6, whole <- v7, lost <- v8, stale <- v9, asked <- v10, chosen <- v11
Shelf == INSTANCE Library WITH row <- v1, disk <- v2, mounted <- v3, filing <- v4,
  sweep <- v5, mind <- v6, late <- v7
Upgrade == INSTANCE Updates WITH published <- v1, version <- v2, known <- v3, recent <- v4,
  downloads <- v5, backup <- v6, call <- v7, image <- v8, state <- v9, shown <- v10,
  runs <- v11, thread <- v12
Schema == INSTANCE Database WITH file <- v1, process <- v2, fresh <- v3, work <- v4,
  left <- v5, authEnv <- v6, old <- v7
Series == INSTANCE SeriesFolders WITH layout <- v1, container <- v2, year <- v3, disk <- v4,
  row <- v5, job <- v6, changes <- v7, filed <- v8, disowned <- v9, unsettled <- v10

Init ==
  \/ focus = "files" /\ Files!Init
     /\ v8 = Unused /\ v9 = Unused /\ v10 = Unused /\ v11 = Unused /\ v12 = Unused
  \/ focus = "tracks" /\ Tracked!Init
     /\ v7 = Unused /\ v8 = Unused /\ v9 = Unused /\ v10 = Unused /\ v11 = Unused
     /\ v12 = Unused
  \/ focus = "news" /\ News!Init
     /\ v10 = Unused /\ v11 = Unused /\ v12 = Unused
  \/ focus = "bars" /\ Bars!Init
     /\ v10 = Unused /\ v11 = Unused /\ v12 = Unused
  \/ focus = "people" /\ People!Init
     /\ v7 = Unused /\ v8 = Unused /\ v9 = Unused /\ v10 = Unused /\ v11 = Unused
     /\ v12 = Unused
  \/ focus = "domain" /\ Domain!Init
     /\ v12 = Unused
  \/ focus = "shelf" /\ Shelf!Init
     /\ v8 = Unused /\ v9 = Unused /\ v10 = Unused
     /\ v11 = Unused /\ v12 = Unused
  \/ focus = "upgrade" /\ Upgrade!Init
  \/ focus = "schema" /\ Schema!Init
     /\ v8 = Unused /\ v9 = Unused /\ v10 = Unused /\ v11 = Unused /\ v12 = Unused
  \/ focus = "series" /\ Series!Init
     /\ v11 = Unused /\ v12 = Unused

\* The component in focus moves.
Next ==
  /\ UNCHANGED focus
  /\ \/ focus = "files" /\ Files!Next /\ UNCHANGED <<v8, v9, v10, v11, v12>>
     \/ focus = "tracks" /\ Tracked!Next /\ UNCHANGED <<v7, v8, v9, v10, v11, v12>>
     \/ focus = "news" /\ News!Next /\ UNCHANGED <<v10, v11, v12>>
     \/ focus = "bars" /\ Bars!Next /\ UNCHANGED <<v10, v11, v12>>
     \/ focus = "people" /\ People!Next /\ UNCHANGED <<v7, v8, v9, v10, v11, v12>>
     \/ focus = "domain" /\ Domain!Next /\ UNCHANGED <<v12>>
     \/ focus = "shelf" /\ Shelf!Next /\ UNCHANGED <<v8, v9, v10, v11, v12>>
     \/ focus = "upgrade" /\ Upgrade!Next
     \/ focus = "schema" /\ Schema!Next /\ UNCHANGED <<v8, v9, v10, v11, v12>>
     \/ focus = "series" /\ Series!Next /\ UNCHANGED <<v11, v12>>

\* The fairness of Updates, while it is in focus.
Fairness ==
  \A r \in 1..MaxRuns : WF_vars(focus = "upgrade" /\ Upgrade!Run(r) /\ UNCHANGED focus)

Spec == Init /\ [][Next]_vars /\ Fairness
-----------------------------------------------------------------------------

\* Every state of the component that moves is of its type.
TypeOK ==
  CASE focus = "files" -> Files!TypeOK
    [] focus = "tracks" -> Tracked!TypeOK
    [] focus = "news" -> News!TypeOK
    [] focus = "bars" -> Bars!TypeOK
    [] focus = "people" -> People!TypeOK
    [] focus = "domain" -> Domain!TypeOK
    [] focus = "shelf" -> Shelf!TypeOK
    [] focus = "upgrade" -> Upgrade!TypeOK
    [] focus = "schema" -> Schema!TypeOK
    [] focus = "series" -> Series!TypeOK

\* No download of a title leaves a half made file behind: see Destinations.
RestIsWhole == focus = "files" => Files!RestIsWhole

\* The file that is left has what was asked for when its last writer was planned: see Tracks.
SatisfiesWhomItKnew == focus = "tracks" => Tracked!SatisfiesWhomItKnew

\* Whom a download concerns is told of its end, however it ends: see Announcements.
EveryoneIsTold == focus = "news" => News!EveryoneIsTold

\* Bytes are counted once and in their attempt, the end of a phase is shown, and a page that
\* has nothing to read has missed nothing: see Progress.
ProgressIsTrue ==
  focus = "bars" =>
    Bars!BytesAreOfThisAttempt /\ Bars!PhaseShowsItsEnd /\ Bars!QuietPageIsUpToDate

\* Of several first setups at once one stands, and an open panel has no accounts: see
\* Accounts.
FirstSetupStands ==
  /\ [](focus = "people" => People!OpenHasNoAccounts)
  /\ [][focus = "people" => People!ChoiceStands]_vars

\* The domain is changed by request only, an update of one part of data.json loses no other,
\* and a save of settings that nothing overtook keeps those it does not name: see
\* SourceDomain.
SettingsStand ==
  /\ [](focus = "domain" => Domain!AdoptedOnRequest)
  /\ [](focus = "domain" => Domain!UnsentSettingsAreKept)
  /\ [][focus = "domain" => Domain!OtherKeysAreKept]_vars

\* What people decided about a folder stands, unless a sweep had it in hand: see Library.
PersonDecides == focus = "shelf" => Shelf!DecisionsStand

\* No outcome of an update is taken for another's, and the panel is replaced only when there
\* is a copy of the database to go back to: see Updates.
UpdatesAreSafe ==
  /\ [](focus = "upgrade" => Upgrade!PollIsOfThisUpdate)
  /\ [][focus = "upgrade" => Upgrade!WayBackIsThere]_vars

\* And every update ends, whatever docker does.
UpdatesAreSound ==
  /\ UpdatesAreSafe
  /\ focus = "upgrade" /\ Upgrade!Busy ~> focus = "upgrade" /\ ~Upgrade!Busy

\* Every migration is applied once and loses no row: see Database.
MigratedOnceAndWhole == focus = "schema" => Schema!MigratedOnceAndWhole

\* An episode that is there is found, whatever its name was made of, and one that is not goes
\* where its series is: see SeriesFolders.
EpisodesAreFound == focus = "series" => Series!EpisodesAreFound
=============================================================================
