------------------------------- MODULE Accounts -------------------------------
(***************************************************************************)
(* Who may use the panel: the setup wizard, the connection to Jellyfin,    *)
(* signing in, and the administration of accounts (app/auth).              *)
(*                                                                         *)
(* The coroutines run on one event loop and give way only where they await *)
(* Jellyfin; the administration of users runs in threads, between any two  *)
(* statements of the others.  A row of jf_user is a person's record, its   *)
(* sessions are counted.  Left out: names, cookies and CSRF tokens, the    *)
(* backoff after failed passwords, and every permission that decides       *)
(* nothing here.                                                           *)
(***************************************************************************)
EXTENDS FiniteSets, Integers

CONSTANTS
  Persons,       \* accounts on Jellyfin
  Admins,        \* those that are administrators there
  Servers,       \* Jellyfin URLs
  Calls,         \* requests in progress at a time
  MaxSessions    \* bound on the open sessions of a user

VARIABLES
  mode,       \* the auth_mode setting: none, open or jellyfin
  server,     \* the jellyfin_url setting
  users,      \* jf_user
  sessions,   \* how many rows of jf_session each user has
  openDoor,   \* the allow_new_jellyfin_login setting
  call        \* what each request is doing

vars == <<mode, server, users, sessions, openDoor, call>>
settings == <<mode, server, openDoor>>

NoUser == [enabled |-> FALSE, manages |-> FALSE, imported |-> FALSE]
User(enabled, manages) == [enabled |-> enabled, manages |-> manages, imported |-> TRUE]
Imported == {p \in Persons : users[p].imported}
Idle == [op |-> "none"]
Unset == "unset"

Init ==
  /\ mode = "none" /\ server = Unset
  /\ users = [p \in Persons |-> NoUser]
  /\ sessions = [p \in Persons |-> 0]
  /\ openDoor = FALSE
  /\ call = [c \in Calls |-> Idle]

SetupDone == mode = "open" \/ (Imported # {} /\ server # Unset)

\* AuthMiddleware: outside open mode, a session whose user is enabled.
SignedIn(p) == mode # "open" /\ sessions[p] > 0 /\ users[p].enabled

\* require(MANAGE_USERS): the permission as the row has it now.
MayManage(p) == SignedIn(p) /\ users[p].manages

Managers == {p \in Persons : users[p].enabled /\ users[p].manages}

Ends(c) == call' = [call EXCEPT ![c] = Idle]
Begins(c, r) == call[c] = Idle /\ call' = [call EXCEPT ![c] = r]

\* A coroutine that has written its user and not yet opened the session still has the loop.
LoopIsFree == \A c \in Calls : call[c].op # "enter"

-----------------------------------------------------------------------------
(* The setup wizard and the connection to Jellyfin *)

SetupBegins(c) ==
  /\ LoopIsFree /\ ~SetupDone
  /\ \E p \in Persons, s \in Servers :
       Begins(c, [op |-> "setup", stage |-> "jellyfin", who |-> p, server |-> s, first |-> TRUE])
  /\ UNCHANGED <<settings, users, sessions>>

\* In open mode everyone may; once connected, whoever manages users.
ConnectBegins(c) ==
  /\ LoopIsFree
  /\ mode = "open" \/ \E u \in Persons : MayManage(u)
  /\ \E p \in Persons, s \in Servers :
       Begins(c, [op |-> "connect", stage |-> "jellyfin", who |-> p, server |-> s,
                  first |-> mode # "jellyfin"])
  /\ UNCHANGED <<settings, users, sessions>>

SignInBegins(c) ==
  /\ LoopIsFree /\ server # Unset /\ SetupDone
  /\ \E p \in Persons :
       Begins(c, [op |-> "signin", stage |-> "jellyfin", who |-> p])
  /\ UNCHANGED <<settings, users, sessions>>

\* The awaits: the server is not there, the password is wrong, or the account is who it
\* says; the first two requests want an administrator.
JellyfinAnswers(c) ==
  /\ LoopIsFree
  /\ call[c].op \in {"setup", "connect", "signin"} /\ call[c].stage = "jellyfin"
  /\ \/ Ends(c)
     \/ /\ call[c].op = "signin" \/ call[c].who \in Admins
        /\ call' = [call EXCEPT ![c].stage = "known"]
  /\ UNCHANGED <<settings, users, sessions>>

Enters(c) == call' = [call EXCEPT ![c] = [op |-> "enter", who |-> @.who]]

Connected(c, row) ==
  /\ mode' = "jellyfin" /\ server' = call[c].server
  /\ users' = [users EXCEPT ![call[c].who] = row]
  /\ Enters(c)
  /\ UNCHANGED <<sessions, openDoor>>

\* The transaction of /setup looks for users again.
SetupCommits(c) ==
  /\ LoopIsFree
  /\ call[c].op = "setup" /\ call[c].stage = "known"
  /\ IF Imported # {}
     THEN Ends(c) /\ UNCHANGED <<settings, users, sessions>>
     ELSE Connected(c, User(TRUE, TRUE))

KnownRow(p) == IF users[p].imported THEN users[p] ELSE User(TRUE, TRUE)

\* Mutant of ConnectCommits: the transaction does not look at the mode again.
ConnectCommitsBlindly(c) ==
  /\ LoopIsFree
  /\ call[c].op = "connect" /\ call[c].stage = "known"
  /\ Connected(c, KnownRow(call[c].who))

\* The transaction of /jellyfin-connect: of the first connections one wins.
ConnectCommits(c) ==
  /\ LoopIsFree
  /\ call[c].op = "connect" /\ call[c].stage = "known"
  /\ IF call[c].first /\ mode = "jellyfin"
     THEN Ends(c) /\ UNCHANGED <<settings, users, sessions>>
     ELSE Connected(c, KnownRow(call[c].who))

\* /skip awaits nothing.
Skip ==
  /\ LoopIsFree /\ ~SetupDone
  /\ Imported = {} /\ mode = "none"
  /\ mode' = "open"
  /\ UNCHANGED <<server, users, sessions, openDoor, call>>

-----------------------------------------------------------------------------
(* Signing in and out *)

\* _complete_login() up to the session: newcomers are let in or not, the disabled are not.
Match(c) ==
  LET p == call[c].who IN
  /\ LoopIsFree
  /\ call[c].op = "signin" /\ call[c].stage = "known"
  /\ \/ /\ ~users[p].imported /\ openDoor
        /\ \E manages \in BOOLEAN : users' = [users EXCEPT ![p] = User(TRUE, manages)]
        /\ Enters(c)
     \/ users[p].enabled /\ Enters(c) /\ UNCHANGED users
     \/ /\ ~users[p].enabled /\ (users[p].imported \/ ~openDoor)
        /\ Ends(c) /\ UNCHANGED users
  /\ UNCHANGED <<settings, sessions>>

\* create_session(), for whoever was enabled when that was looked at.
Enter(c) ==
  LET p == call[c].who IN
  /\ call[c].op = "enter"
  /\ sessions' = [sessions EXCEPT ![p] = IF @ < MaxSessions THEN @ + 1 ELSE @]
  /\ Ends(c)
  /\ UNCHANGED <<settings, users>>

\* Signing out, a session found expired, or one found to be of a disabled user.
LeaveOne(p) ==
  /\ sessions[p] > 0
  /\ sessions' = [sessions EXCEPT ![p] = @ - 1]
  /\ UNCHANGED <<settings, users, call>>

-----------------------------------------------------------------------------
(* The administration of users, by p *)

Keep == "keep"

\* _guard_last_administrator() reads the rows ...
UpdateBegins(c, p) ==
  /\ MayManage(p)
  /\ \E t \in Imported, m, e \in {Keep, "yes", "no"} :
       /\ t \in Managers /\ "no" \in {m, e} => Cardinality(Managers) > 1
       /\ Begins(c, [op |-> "update", target |-> t, manages |-> m, enabled |-> e])
  /\ UNCHANGED <<settings, users, sessions>>

\* ... and set_permissions() ...
SetPermissions(c) ==
  LET r == call[c] IN
  /\ r.op = "update" /\ r.manages # Keep
  /\ users' = [users EXCEPT ![r.target].manages = (r.manages = "yes")]
  /\ call' = [call EXCEPT ![c].manages = Keep]
  /\ UNCHANGED <<settings, sessions>>

\* ... and set_enabled(), with the sessions, write them later.
SetEnabled(c) ==
  LET r == call[c] IN
  /\ r.op = "update" /\ r.manages = Keep
  /\ IF r.enabled = Keep THEN UNCHANGED <<users, sessions>>
     ELSE /\ users' = [users EXCEPT ![r.target].enabled = (r.enabled = "yes")]
          /\ sessions' = IF r.enabled = "yes" THEN sessions ELSE [sessions EXCEPT ![r.target] = 0]
  /\ Ends(c)
  /\ UNCHANGED settings

\* import_users() awaits the list of accounts, and creates those that are not there yet.
ImportBegins(c, p) ==
  /\ LoopIsFree /\ MayManage(p) /\ server # Unset
  /\ \E m \in BOOLEAN : Begins(c, [op |-> "import", manages |-> m])
  /\ UNCHANGED <<settings, users, sessions>>

Import(c) ==
  /\ LoopIsFree /\ call[c].op = "import"
  /\ \E new \in SUBSET Persons :
       users' = [p \in Persons |-> IF p \in new \ Imported THEN User(TRUE, call[c].manages)
                                                           ELSE users[p]]
  /\ Ends(c)
  /\ UNCHANGED <<settings, sessions>>

RevokeSessions(p, t) ==
  /\ MayManage(p) /\ users[t].imported
  /\ sessions' = [sessions EXCEPT ![t] = 0]
  /\ UNCHANGED <<settings, users, call>>

SetDoor(p) ==
  /\ MayManage(p)
  /\ openDoor' = ~openDoor
  /\ UNCHANGED <<mode, server, users, sessions, call>>

Next ==
  \/ Skip
  \/ \E c \in Calls :
       \/ SetupBegins(c) \/ ConnectBegins(c) \/ SignInBegins(c) \/ JellyfinAnswers(c)
       \/ SetupCommits(c) \/ ConnectCommits(c) \/ Match(c) \/ Enter(c)
       \/ SetPermissions(c) \/ SetEnabled(c) \/ Import(c)
       \/ \E p \in Persons : UpdateBegins(c, p) \/ ImportBegins(c, p)
  \/ \E p \in Persons : LeaveOne(p) \/ SetDoor(p)
  \/ \E p, t \in Persons : RevokeSessions(p, t)

Spec == Init /\ [][Next]_vars
-----------------------------------------------------------------------------

TypeOK ==
  /\ mode \in {"none", "open", "jellyfin"} /\ server \in Servers \cup {Unset}
  /\ users \in [Persons -> [enabled : BOOLEAN, manages : BOOLEAN, imported : BOOLEAN]]
  /\ sessions \in [Persons -> 0..MaxSessions] /\ openDoor \in BOOLEAN
  /\ \A c \in Calls :
       call[c].op \in {"none", "setup", "connect", "signin", "enter", "update", "import"}

\* In open mode every visitor is the same implicit user and no account is looked at: so
\* whatever requests race through the wizard, an open panel has no accounts and no sessions
\* whose limits would silently not apply.
OpenHasNoAccounts ==
  mode = "open" => Imported = {} /\ server = Unset /\ \A p \in Persons : sessions[p] = 0

\* "two concurrent first-time connections are effectively two concurrent public bootstraps"
\* (connect_jellyfin): of the setups, skips and first connections that race one is the last
\* word.  A connected panel stays connected, and is moved to another server only by a
\* request that was let in when it was connected already.
ChoiceStands ==
  mode = "jellyfin" =>
    /\ mode' = "jellyfin"
    /\ server' # server =>
         \E c \in Calls : call[c].op = "connect" /\ ~call[c].first /\ call'[c].op = "enter"

FirstChoiceStands == [][ChoiceStands]_vars
=============================================================================
