----------------------------- MODULE SourceDomain -----------------------------
(***************************************************************************)
(* data.json and the domain of the source: update_data() and the unlocked  *)
(* readers of app/config.py, the endpoints of app/routers/domain.py, and   *)
(* the search for a new domain of app/core/domain_recovery.py.             *)
(*                                                                         *)
(* A writer truncates the file and then writes it, under a lock that the   *)
(* readers do not take; a reader that meets a truncated file, or one a     *)
(* crash left so, reads the defaults.  PUT /settings reads so what it does *)
(* not send, and writes the settings as one key: another save in between,  *)
(* or a truncated file, and it puts back what it read.  Whether a host is  *)
(* plausible and answers is up to the world.  Left out: announcements, the *)
(* other hosts, which are one more top-level key, and the settings' ranges. *)
(***************************************************************************)
EXTENDS Integers

CONSTANTS
  Hosts,        \* domains of the source
  Calls,        \* threads at work at a time
  MaxCrashes    \* bound

VARIABLES
  file,        \* data.json
  lock,        \* the file lock
  pending,     \* _pending
  throttled,   \* less than _MIN_CHECK_INTERVAL since _last_check_at
  call,        \* what each thread does
  crashes,     \* bound
  whole,       \* history: what the file held when it was last complete
  lost,        \* history: it has been torn by a crash since
  stale,       \* history: saves of settings that did not read what they replace
  asked,       \* history: an administrator once switched domain_auto_apply on
  chosen       \* history: the domains administrators typed in or confirmed

vars == <<file, lock, pending, throttled, call, crashes, whole, lost, stale, asked,
          chosen>>
history == <<whole, lost, stale, asked, chosen>>

None == "none"
Torn == [state |-> "torn"]
\* domain_auto_apply, and one that stands for what the other sections of the page own.
Settings == {"auto", "other"}
Defaults == [s \in Settings |-> FALSE]
Empty == [state |-> "complete", domain |-> None, libraries |-> "unset",
          settings |-> Defaults]
Keys == {"domain", "libraries", "settings"}
Idle == [op |-> "none"]

\* read_data(), get_settings() and the router's _read_data(): no lock.
ReadData == IF file = Torn THEN Empty ELSE file

Init ==
  /\ file = Empty /\ whole = Empty /\ lost = FALSE /\ stale = {}
  /\ lock = None /\ pending = None /\ throttled = FALSE
  /\ call = [c \in Calls |-> Idle]
  /\ crashes = 0 /\ asked = FALSE /\ chosen = {None}

Does(c, r) == call' = [call EXCEPT ![c] = r]
Starts(c, r) == call[c] = Idle /\ Does(c, r)
Write(key, value, next) == [op |-> "write", key |-> key, value |-> value, next |-> next]
WriteSettings(sent, value) ==
  [op |-> "write", key |-> "settings", sent |-> sent, value |-> value, next |-> "none"]
SavesSettings(c) == call[c].op = "write" /\ call[c].key = "settings"

-----------------------------------------------------------------------------
(* update_data() *)

\* Mutant of Lock: the file is read and written without the lock.
LockNothing(c) ==
  /\ call[c].op = "write"
  /\ Does(c, [op |-> "dump", of |-> call[c],
              data |-> [ReadData EXCEPT ![call[c].key] = call[c].value]])
  /\ file' = Torn /\ UNCHANGED lock
  /\ UNCHANGED <<pending, throttled, crashes, history>>

\* Under the lock the file is read again, changed and opened for writing, which empties it;
Lock(c) ==
  /\ call[c].op = "write" /\ lock = None
  /\ lock' = c
  /\ Does(c, [op |-> "dump", of |-> call[c],
              data |-> [ReadData EXCEPT ![call[c].key] = call[c].value]])
  /\ file' = Torn
  /\ UNCHANGED <<pending, throttled, crashes, history>>

\* then it is written.
Dump(c) ==
  /\ call[c].op = "dump"
  /\ file' = call[c].data /\ whole' = call[c].data /\ lost' = FALSE
  /\ stale' = IF call[c].of.key = "settings"
              THEN {d \in Calls \ {c} : SavesSettings(d)} ELSE stale
  /\ lock' = None
  /\ Does(c, [op |-> call[c].of.next])
  /\ UNCHANGED <<pending, throttled, crashes, asked, chosen>>

-----------------------------------------------------------------------------
(* The administrator's requests *)

\* Mutant of Merged: what was not sent is reset ("save_settings() replaces the whole
\* settings dict rather than merging").
MergedOverDefaults(setting, on) == [Defaults EXCEPT ![setting] = on]

\* {**get_settings(), **provided}, from an unlocked read.
Merged(setting, on) == [ReadData.settings EXCEPT ![setting] = on]

\* set_app_settings(): each section of the page sends what it owns.
SaveSettings(c) ==
  /\ \E setting \in Settings, on \in BOOLEAN :
       /\ Starts(c, WriteSettings(setting, Merged(setting, on)))
       /\ asked' = (asked \/ (setting = "auto" /\ on))
  /\ stale' = IF file = Torn THEN stale \cup {c} ELSE stale \ {c}
  /\ UNCHANGED <<file, lock, pending, throttled, crashes, whole, lost, chosen>>

\* set_libraries(), and set_hosts() in the same way.
SaveLibraries(c) ==
  /\ Starts(c, Write("libraries", "set", "none"))
  /\ UNCHANGED <<file, lock, pending, throttled, crashes, history>>

\* set_domain(), once the host has answered: the candidate is left as it is.
SetDomain(c) ==
  /\ \E h \in Hosts : Starts(c, Write("domain", h, "none")) /\ chosen' = chosen \cup {h}
  /\ UNCHANGED <<file, lock, pending, throttled, crashes, whole, lost, stale, asked>>

\* apply_domain_candidate(): the name in the request is a confirmation of what is pending.
Confirm(c) ==
  /\ pending # None
  /\ Starts(c, [op |-> "adopt", host |-> pending])
  /\ chosen' = chosen \cup {pending}
  /\ UNCHANGED <<file, lock, pending, throttled, crashes, whole, lost, stale, asked>>

\* dismiss_domain_candidate().
Dismiss ==
  /\ pending # None /\ pending' = None
  /\ UNCHANGED <<file, lock, throttled, call, crashes, history>>

-----------------------------------------------------------------------------
(* run_check(), from the loop, from a page load or by request *)

\* The throttle is looked at here and set in the next step.
CheckBegins(c) ==
  /\ \E force \in BOOLEAN :
       /\ throttled => force
       /\ Starts(c, [op |-> "mark", current |-> ReadData.domain, force |-> force])
  /\ UNCHANGED <<file, lock, pending, throttled, crashes, history>>

Mark(c) ==
  /\ call[c].op = "mark"
  /\ throttled' = TRUE
  /\ call' = [call EXCEPT ![c].op = "check"]
  /\ UNCHANGED <<file, lock, pending, crashes, history>>

\* fetch_candidates() and verify(): what the page names, is plausible and answers as the
\* source does may be any host but the one in use.
Candidates(current) == Hosts \ {current}

\* The domain works and nobody asked; or the page cannot be read or has no candidate; or
\* it has one, which is then proposed or adopted.
Check(c) ==
  LET r == call[c] IN
  /\ r.op = "check"
  /\ \/ r.current # None /\ ~r.force /\ pending' = None /\ Does(c, Idle)
     \/ Does(c, Idle) /\ UNCHANGED pending
     \/ /\ \E h \in Candidates(r.current) : Does(c, [op |-> "decide", host |-> h])
        /\ UNCHANGED pending
  /\ UNCHANGED <<file, lock, throttled, crashes, history>>

Decide(c) ==
  LET r == call[c] IN
  /\ r.op = "decide"
  /\ IF ReadData.settings["auto"]
     THEN Does(c, [op |-> "adopt", host |-> r.host]) /\ UNCHANGED pending
     ELSE Does(c, Idle) /\ pending' = r.host
  /\ UNCHANGED <<file, lock, throttled, crashes, history>>

\* apply_candidate(): the host is tried once more, then written, and the candidate dropped.
Adopt(c) ==
  /\ call[c].op = "adopt"
  /\ Does(c, Idle) \/ Does(c, Write("domain", call[c].host, "forget"))
  /\ UNCHANGED <<file, lock, pending, throttled, crashes, history>>

Forget(c) ==
  /\ call[c].op = "forget"
  /\ pending' = None
  /\ Does(c, Idle)
  /\ UNCHANGED <<file, lock, throttled, crashes, history>>

-----------------------------------------------------------------------------

IntervalEnds == throttled /\ throttled' = FALSE
                /\ UNCHANGED <<file, lock, pending, call, crashes, history>>

\* The candidate is not kept; the file is left as it is.
Crash ==
  /\ crashes < MaxCrashes /\ crashes' = crashes + 1
  /\ call' = [c \in Calls |-> Idle] /\ lock' = None
  /\ pending' = None /\ throttled' = FALSE
  /\ lost' = (lost \/ file = Torn) /\ stale' = {}
  /\ UNCHANGED <<file, whole, asked, chosen>>

Next ==
  \/ \E c \in Calls :
       \/ Lock(c) \/ Dump(c) \/ SaveSettings(c) \/ SaveLibraries(c) \/ SetDomain(c)
       \/ Confirm(c) \/ CheckBegins(c) \/ Mark(c) \/ Check(c) \/ Decide(c)
       \/ Adopt(c) \/ Forget(c)
  \/ Dismiss \/ IntervalEnds \/ Crash

Spec == Init /\ [][Next]_vars
-----------------------------------------------------------------------------

TypeOK ==
  /\ file = Torn \/ file.domain \in Hosts \cup {None}
  /\ lock \in Calls \cup {None} /\ pending \in Hosts \cup {None}
  /\ throttled \in BOOLEAN /\ crashes \in 0..MaxCrashes
  /\ stale \subseteq Calls
  /\ lock # None => file = Torn /\ call[lock].op = "dump"

\* "the last writer would otherwise drop the other's key wholesale" (update_data): of
\* updates that race, each leaves the file as the last one completed it but for its own
\* key - unless a crash has emptied the file in between.
OtherKeysAreKept ==
  file' \notin {file, Torn} /\ ~lost =>
    \E key \in Keys : \A other \in Keys \ {key} : file'[other] = whole[other]

UpdatesKeepOtherKeys == [][OtherKeysAreKept]_vars

\* "every key the caller did not send has to be carried over here or it is lost"
\* (set_app_settings): what a save of settings is about to write has every setting that was
\* not sent as the file last held it, whatever else is written while it waits - unless it is
\* stale: another save of settings was written since it read, or it read a file that a
\* writer had emptied, or a crash had.
UnsentSettingsAreKept ==
  \A c \in Calls \ stale :
    call[c].op = "dump" /\ call[c].of.key = "settings" =>
      \A s \in Settings \ {call[c].of.sent} : call[c].data.settings[s] = whole.settings[s]

\* "off unless asked for" (domain_auto_apply): as long as no administrator ever switched it
\* on, the domain is one that an administrator typed in or confirmed, whatever a reader
\* makes of a file it finds half written or torn.
AdoptedOnRequest == ~asked /\ file # Torn => file.domain \in chosen
=============================================================================
