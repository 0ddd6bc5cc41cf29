-------------------------------- MODULE Tracks --------------------------------
(***************************************************************************)
(* Which languages the file of a title ends up with.  Requests for one     *)
(* title in different languages are different requests that write the same *)
(* file; so resolve() of app/requests/resolver.py widens each to what      *)
(* everybody wants and the file holds, download_film(), download_episode() *)
(* and download_anime_episode() of app/core collect the tracks, and        *)
(* download_m3u8() writes the file, one download at a time - with the      *)
(* languages it was planned with, however long ago that was.               *)
(*                                                                         *)
(* The source may change what it offers at any moment, and the master      *)
(* playlist is read anew at each stage.  A source that offers no separate  *)
(* audio ({}) has one soundtrack in the video.  Subtitles go the same way  *)
(* as the audio and are left out, and so is where the file is: that the    *)
(* paths of the check and of the download agree is assumed here.           *)
(***************************************************************************)
EXTENDS FiniteSets, Naturals

CONSTANTS
  Tasks,       \* requests and direct downloads of one title
  Languages,
  MaxChanges,  \* bound: changes of the source
  AutoRetries  \* auto_retries, the attempts of a job after its first

VARIABLES
  task,     \* each task, see NoTask
  film,     \* the file
  writer,   \* who holds _destination_lock
  offered,  \* the separate audio the source offers now
  changes,  \* bound
  ffprobe   \* whether one is installed

vars == <<task, film, writer, offered, changes, ffprobe>>

Und == "und"
Nobody == "nobody"
Unknown == {"unknown"}   \* an answer of media_languages(): the file cannot be read
NoFilm == [there |-> FALSE, whole |-> FALSE, audio |-> {}, by |-> Nobody]

\* strict is FALSE for a direct download; available is what the source offered when the
\* request was resolved; plan are the job's audio_languages; tracks what it collected;
\* saw (history) the requests whose languages it found in the table, held (history) what
\* it found in the file and was to keep.
NoTask == [step |-> "none", strict |-> TRUE, want |-> {}, available |-> {}, plan |-> {},
           tracks |-> {}, tries |-> 0, saw |-> {}, held |-> {}]

Running == {"stream", "collect", "lock", "video", "joining", "merge", "clean"}
Working == {"find", "rows", "file", "check", "submit"} \cup Running
Ended == {"available", "completed", "done", "failed"}
Requested == {t \in Tasks : task[t].step # "none" /\ task[t].strict}
Open == {t \in Requested : task[t].step \notin Ended}
Live == {t \in Requested : task[t].step # "failed"}   \* LIVE_STATUSES

Set(t, r) == task' = [task EXCEPT ![t] = r]
Go(t, step) == task' = [task EXCEPT ![t].step = step]

Init ==
  /\ task = [t \in Tasks |-> NoTask]
  /\ film = NoFilm
  /\ writer = Nobody
  /\ offered \in SUBSET Languages
  /\ changes = 0
  /\ ffprobe \in BOOLEAN

SourceChanges ==
  /\ changes < MaxChanges /\ changes' = changes + 1
  /\ offered' \in SUBSET Languages \ {offered}
  /\ UNCHANGED <<task, film, writer, ffprobe>>

\* media_languages(): a file that is being written may be unreadable, or show no audio.
Readings ==
  IF ~film.there \/ ~ffprobe THEN {Unknown}
  ELSE IF film.whole THEN {film.audio} ELSE {Unknown, {}}

\* is_in_library(): a file that cannot be read counts as complete, and so does a
\* single untagged soundtrack for a request of one language.
InLibrary(t, reading) ==
  /\ film.there
  /\ \/ reading = Unknown
     \/ task[t].want \subseteq reading
     \/ Cardinality(task[t].want) = 1 /\ reading # {} /\ reading \subseteq {Und}

-----------------------------------------------------------------------------
(* A request, from its creation to its job *)

\* create_request(); one that is open already in the same languages is joined instead.
Ask(t) ==
  /\ task[t] = NoTask
  /\ \E want \in SUBSET Languages \ {{}} :
       /\ \A o \in Open : task[o].want # want
       /\ Set(t, [NoTask EXCEPT !.step = "asked", !.want = want])
  /\ UNCHANGED <<film, writer, offered, changes, ffprobe>>

FirstCheck(t) ==
  /\ task[t].step = "asked"
  /\ \E reading \in Readings : Go(t, IF InLibrary(t, reading) THEN "available" ELSE "pending")
  /\ UNCHANGED <<film, writer, offered, changes, ffprobe>>

Approve(t) ==
  /\ task[t].step \in {"pending", "attention"}
  /\ Go(t, "find")
  /\ UNCHANGED <<film, writer, offered, changes, ffprobe>>

\* The episode and its languages, or a dead link - a season that is answered with another
\* one is refused - and then _check_audio().
Resolve(t) ==
  /\ task[t].step = "find"
  /\ \/ Go(t, "attention")
     \/ /\ offered = {} \/ task[t].want \subseteq offered
        /\ Set(t, [task[t] EXCEPT !.step = "rows", !.available = offered])
  /\ UNCHANGED <<film, writer, offered, changes, ffprobe>>

\* Mutant of WantedLanguages: each request for itself.
WantedByOne(t) == task[t].want

\* wanted_languages(): what is wanted of this file by any request that is not refused.
WantedLanguages(t) == task[t].want \cup UNION {task[o].want : o \in Live}

ReadRows(t) ==
  /\ task[t].step = "rows"
  /\ Set(t, [task[t] EXCEPT !.step = "file", !.plan = WantedLanguages(t),
                            !.saw = {r \in Requested : task[r].step # "failed"}])
  /\ UNCHANGED <<film, writer, offered, changes, ffprobe>>

\* _widen_to_everyone(): what the file holds is wanted too, and what the source does not
\* offer is not, unless this request asked for it.
Widen(t) ==
  /\ task[t].step = "file"
  /\ \E reading \in Readings :
       LET held == (IF film.there /\ reading # Unknown THEN reading ELSE {}) \ {Und}
           offer == task[t].available
           On(langs) == IF offer = {} THEN langs ELSE langs \cap (offer \cup task[t].want)
       IN Set(t, [task[t] EXCEPT !.step = "check", !.plan = On(@ \cup held),
                                 !.held = On(held)])
  /\ UNCHANGED <<film, writer, offered, changes, ffprobe>>

\* _execute_inner(): the library is looked at again, then the job is submitted.
SecondCheck(t) ==
  /\ task[t].step = "check"
  /\ \E reading \in Readings : Go(t, IF InLibrary(t, reading) THEN "completed" ELSE "stream")
  /\ UNCHANGED <<film, writer, offered, changes, ffprobe>>

\* A direct download names its languages and is neither widened nor strict.
Direct(t) ==
  /\ task[t] = NoTask
  /\ \E want \in SUBSET Languages \ {{}} :
       Set(t, [NoTask EXCEPT !.step = "stream", !.strict = FALSE, !.want = want,
                             !.plan = want])
  /\ UNCHANGED <<film, writer, offered, changes, ffprobe>>

-----------------------------------------------------------------------------
(* An attempt of its job *)

\* Another attempt, from the start and with the same plan, or the end of the job.
Failed(t) ==
  IF task[t].tries < AutoRetries
  THEN Set(t, [task[t] EXCEPT !.step = "stream", !.tries = @ + 1, !.tracks = {}])
  ELSE Go(t, "failed")

\* resolve_stream(): the iframe, the embed page and the key.
Stream(t) ==
  /\ task[t].step = "stream"
  /\ Go(t, "collect") \/ Failed(t)
  /\ UNCHANGED <<film, writer, offered, changes, ffprobe>>

Collected(t) == [task[t] EXCEPT !.step = "lock", !.tracks = task[t].plan \cap offered]

\* Mutant of Collect: a language that is gone is skipped, strict or not.
CollectLeniently(t) ==
  /\ task[t].step = "collect"
  /\ Set(t, Collected(t)) \/ Failed(t)
  /\ UNCHANGED <<film, writer, offered, changes, ffprobe>>

\* _collect_audio_tracks(): no separate audio at all is no error; strict, a missing
\* language or a master that cannot be read is one, and otherwise either is passed over.
Collect(t) ==
  /\ task[t].step = "collect"
  /\ \/ /\ offered = {} \/ ~task[t].strict \/ task[t].plan \subseteq offered
        /\ Set(t, Collected(t))
     \/ task[t].strict /\ Failed(t)
     \/ ~task[t].strict /\ Go(t, "lock")
  /\ UNCHANGED <<film, writer, offered, changes, ffprobe>>

Lock(t) ==
  /\ task[t].step = "lock" /\ writer = Nobody
  /\ writer' = t
  /\ Go(t, "video")
  /\ UNCHANGED <<film, offered, changes, ffprobe>>

\* The video is fetched, then join() overwrites the file ...
Video(t) ==
  /\ task[t].step = "video"
  /\ \/ film' = [there |-> TRUE, whole |-> FALSE, audio |-> {}, by |-> t] /\ Go(t, "joining")
     \/ UNCHANGED film /\ Go(t, "clean")
  /\ UNCHANGED <<writer, offered, changes, ffprobe>>

\* ... with the video, and the sound that is in it.
Join(t) ==
  /\ task[t].step = "joining"
  /\ \/ /\ \E own \in IF offered = {} THEN {{Und}} ELSE {{Und}, {}} :
             film' = [film EXCEPT !.whole = TRUE, !.audio = own]
        /\ IF task[t].tracks = {} THEN Go(t, "done") /\ writer' = Nobody
                                  ELSE Go(t, "merge") /\ UNCHANGED writer
     \/ UNCHANGED <<film, writer>> /\ Go(t, "clean")
  /\ UNCHANGED <<offered, changes, ffprobe>>

\* The audio tracks are fetched and joined, and remux() puts them in the place of the
\* sound the video had.
Merge(t) ==
  /\ task[t].step = "merge"
  /\ \/ film' = [film EXCEPT !.audio = task[t].tracks] /\ Go(t, "done") /\ writer' = Nobody
     \/ Go(t, "clean") /\ UNCHANGED <<film, writer>>
  /\ UNCHANGED <<offered, changes, ffprobe>>

\* The output is removed, whoever wrote it.
Clean(t) ==
  /\ task[t].step = "clean"
  /\ film' = NoFilm /\ writer' = Nobody
  /\ Failed(t)
  /\ UNCHANGED <<offered, changes, ffprobe>>

Step(t) ==
  \/ Ask(t) \/ FirstCheck(t) \/ Approve(t) \/ Resolve(t) \/ ReadRows(t) \/ Widen(t)
  \/ SecondCheck(t) \/ Direct(t) \/ Stream(t) \/ Collect(t) \/ Lock(t) \/ Video(t)
  \/ Join(t) \/ Merge(t) \/ Clean(t)

Next == SourceChanges \/ \E t \in Tasks : Step(t)

Spec == Init /\ [][Next]_vars
-----------------------------------------------------------------------------

TypeOK ==
  /\ \A t \in Tasks :
       /\ task[t].step \in {"none", "asked", "pending", "attention"} \cup Working \cup Ended
       /\ task[t].strict \in BOOLEAN /\ task[t].tries \in 0..AutoRetries
       /\ task[t].want \cup task[t].available \cup task[t].plan \cup task[t].tracks
            \cup task[t].held \subseteq Languages
       /\ task[t].saw \subseteq Tasks
  /\ film.audio \subseteq Languages \cup {Und} /\ film.whole \in BOOLEAN
  /\ film.there <=> film.by # Nobody
  /\ \A t \in Tasks : task[t].step \in {"video", "joining", "merge", "clean"} => writer = t
  /\ offered \subseteq Languages /\ changes \in 0..MaxChanges /\ ffprobe \in BOOLEAN

\* What the plan of request t was to have of the languages of request r.
Promised(r, t) ==
  IF task[t].available = {} THEN task[r].want
  ELSE task[r].want \cap (task[t].available \cup task[t].want)

\* "Downloading the union instead leaves a file that satisfies all of them"
\* (wanted_languages): the file that is left when nobody writes it has what its last writer
\* asked for, what every request asked for that this writer found when it was planned, and
\* what the file had then, as far as the source offered it.  Whoever asked later may lose
\* by it, and so may anybody by a direct download, or when the source has gone over to one
\* soundtrack.
SatisfiesWhomItKnew ==
  LET t == film.by IN
  film.whole /\ writer = Nobody /\ task[t].strict /\ task[t].tracks # {} =>
    /\ \A r \in task[t].saw \cup {t} : Promised(r, t) \subseteq film.audio
    /\ task[t].held \subseteq film.audio
=============================================================================
