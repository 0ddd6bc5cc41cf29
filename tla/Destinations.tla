----------------------------- MODULE Destinations -----------------------------
(***************************************************************************)
(* The files of one title while its downloads write them: download_m3u8()  *)
(* and M3U8_Downloader.start() of app/core/m3u8.py, remux() of             *)
(* app/core/format.py.  Two downloads of a title share a path when they    *)
(* use the same container; the container is a setting and may change       *)
(* between them, which makes two paths of one title.                       *)
(*                                                                         *)
(* The segments of a stream are fetched in the job's own temporary folder: *)
(* that is Segments, and here one step that may fail.  A file is removed   *)
(* under whoever writes it, as POSIX allows.  Left out: the folder that is *)
(* removed when it is empty, and the audio merge of a single extra         *)
(* playlist, which no caller asks for.                                     *)
(***************************************************************************)
EXTENDS FiniteSets, Integers

CONSTANTS
  Downloads,   \* jobs of the same title
  Containers   \* KNOWN_EXTENSIONS

VARIABLES
  at,        \* where each download is
  box,       \* the container each was started with
  subs,      \* how each treats its subtitles: none, embedded, or beside the video
  disk,      \* the video file of each container, and who wrote it
  staged,    \* the remux's staging file of each container
  beside,    \* whether the subtitle files lie beside the video
  holder     \* _destination_locks

vars == <<at, box, subs, disk, staged, beside, holder>>
fileVars == <<disk, staged, beside>>
choiceVars == <<box, subs>>

Nobody == "nobody"
Absent == [state |-> "absent"]
Video(state, d) == [state |-> state, by |-> d]
Over == {"idle", "done", "failed"}

Init ==
  /\ at = [d \in Downloads |-> "idle"]
  /\ box \in [Downloads -> Containers]
  /\ subs \in [Downloads -> {"none", "embed", "external"}]
  /\ disk = [c \in Containers |-> Absent]
  /\ staged = [c \in Containers |-> FALSE]
  /\ beside = FALSE
  /\ holder = [c \in Containers |-> Nobody]

Go(d, step) == at' = [at EXCEPT ![d] = step]

\* Mutant of Acquire: two writers at once.
AcquireAnyway(d) ==
  /\ at[d] = "idle"
  /\ holder' = [holder EXCEPT ![box[d]] = d]
  /\ Go(d, "prepare")
  /\ UNCHANGED <<choiceVars, fileVars>>

\* download_m3u8(): the lock of the destination, for the whole download.
Acquire(d) ==
  /\ at[d] = "idle"
  /\ holder[box[d]] = Nobody
  /\ holder' = [holder EXCEPT ![box[d]] = d]
  /\ Go(d, "prepare")
  /\ UNCHANGED <<choiceVars, fileVars>>

Released(d) == holder' = [holder EXCEPT ![box[d]] = Nobody]

\* A path for another system or a playlist that cannot be read ends it before there is
\* anything to clean; otherwise the subtitles are fetched, into the temporary folder.
Prepare(d) ==
  /\ at[d] = "prepare"
  /\ \/ Go(d, "fetch") /\ UNCHANGED holder
     \/ Go(d, "failed") /\ Released(d)
  /\ UNCHANGED <<choiceVars, fileVars>>

\* The video stream, or an error or a cancellation.
Fetch(d) ==
  /\ at[d] = "fetch"
  /\ Go(d, "join") \/ Go(d, "clean")
  /\ UNCHANGED <<choiceVars, fileVars, holder>>

\* ffmpeg opens the destination and overwrites what is there ...
JoinBegins(d) ==
  /\ at[d] = "join"
  /\ disk' = [disk EXCEPT ![box[d]] = Video("partial", d)]
  /\ Go(d, "joining")
  /\ UNCHANGED <<choiceVars, staged, beside, holder>>

\* Two writers leave a mixture; a file that was removed meanwhile stays removed.
Written(d, state) ==
  IF disk[box[d]] = Absent THEN Absent
  ELSE Video(IF disk[box[d]].by = d THEN state ELSE "partial", d)

\* ... and the file holds the video, and the audio that comes with it.  What is left
\* is to merge the other audio tracks and the subtitles, if there are any.
JoinEnds(d) ==
  /\ at[d] = "joining"
  /\ \/ /\ subs[d] # "embed"
        /\ disk' = [disk EXCEPT ![box[d]] = Written(d, "whole")] /\ Go(d, "place")
     \/ /\ disk' = [disk EXCEPT ![box[d]] = Written(d, "unmerged")] /\ Go(d, "tracks")
     \/ UNCHANGED disk /\ Go(d, "clean")
  /\ UNCHANGED <<choiceVars, staged, beside, holder>>

\* The audio tracks, each fetched and joined as the video was.
Tracks(d) ==
  /\ at[d] = "tracks"
  /\ Go(d, "remux") \/ Go(d, "clean")
  /\ UNCHANGED <<choiceVars, fileVars, holder>>

RemuxBegins(d) ==
  /\ at[d] = "remux"
  /\ IF disk[box[d]] = Absent
     THEN Go(d, "clean") /\ UNCHANGED staged
     ELSE Go(d, "remuxing") /\ staged' = [staged EXCEPT ![box[d]] = TRUE]
  /\ UNCHANGED <<choiceVars, disk, beside, holder>>

\* remux(): the staging file replaces the video, or is removed, or - when it cannot be put
\* in its place - stays.
RemuxEnds(d) ==
  LET c == box[d] IN
  /\ at[d] = "remuxing"
  /\ \/ /\ staged[c]
        /\ disk' = [disk EXCEPT ![c] = IF @ = Absent THEN Video("whole", d)
                                                     ELSE Written(d, "whole")]
        /\ staged' = [staged EXCEPT ![c] = FALSE]
        /\ Go(d, "place")
     \/ staged' = [staged EXCEPT ![c] = FALSE] /\ UNCHANGED disk /\ Go(d, "clean")
     \/ UNCHANGED <<staged, disk>> /\ Go(d, "clean")
  /\ UNCHANGED <<choiceVars, beside, holder>>

\* _place_subtitles_beside_video().
Place(d) ==
  /\ at[d] = "place"
  /\ beside' \in IF subs[d] = "external" THEN {TRUE, beside} ELSE {beside}
  /\ Go(d, "siblings")
  /\ UNCHANGED <<choiceVars, disk, staged, holder>>

\* _remove_superseded_sibling(): the same title in the other containers.
RemoveSiblings(d) ==
  /\ at[d] = "siblings"
  /\ disk' = [c \in Containers |-> IF c = box[d] THEN disk[c] ELSE Absent]
  /\ Go(d, "done") /\ Released(d)
  /\ UNCHANGED <<choiceVars, staged, beside>>

\* Mutant of Clean: only the file that was being written.
CleanOutput(d) ==
  /\ at[d] = "clean"
  /\ disk' = [disk EXCEPT ![box[d]] = Absent]
  /\ beside' \in IF subs[d] = "none" THEN {beside} ELSE {FALSE}
  /\ Go(d, "failed") /\ Released(d)
  /\ UNCHANGED <<choiceVars, staged>>

\* What a failed or cancelled download leaves is removed: its subtitles, and the output and
\* its staging file in every container, whoever wrote them.
Clean(d) ==
  /\ at[d] = "clean"
  /\ disk' = [c \in Containers |-> Absent]
  /\ staged' = [c \in Containers |-> FALSE]
  /\ beside' \in IF subs[d] = "none" THEN {beside} ELSE {FALSE}
  /\ Go(d, "failed") /\ Released(d)
  /\ UNCHANGED choiceVars

\* The job, or another one for the title, is run again later, maybe under other settings.
Again(d) ==
  /\ at[d] = "failed"
  /\ Go(d, "idle")
  /\ \E c \in Containers : box' = [box EXCEPT ![d] = c]
  /\ UNCHANGED <<subs, fileVars, holder>>

Step(d) ==
  \/ Acquire(d) \/ Prepare(d) \/ Fetch(d) \/ JoinBegins(d) \/ JoinEnds(d) \/ Tracks(d)
  \/ RemuxBegins(d) \/ RemuxEnds(d) \/ Place(d) \/ RemoveSiblings(d) \/ Clean(d) \/ Again(d)

Next == \E d \in Downloads : Step(d)

Spec == Init /\ [][Next]_vars
-----------------------------------------------------------------------------

TypeOK ==
  /\ at \in [Downloads -> Over \cup {"prepare", "fetch", "join", "joining", "tracks",
                                     "remux", "remuxing", "place", "siblings", "clean"}]
  /\ box \in [Downloads -> Containers]
  /\ subs \in [Downloads -> {"none", "embed", "external"}]
  /\ disk \in [Containers -> {Absent} \cup
                 [state : {"partial", "unmerged", "whole"}, by : Downloads]]
  /\ staged \in [Containers -> BOOLEAN] /\ beside \in BOOLEAN
  /\ \A c \in Containers : holder[c] = Nobody \/ box[holder[c]] = c

\* A file in the library is never corrupt or half made "that still looked like a film"
\* (download_m3u8): once no download of the title runs, each file of it is whole and
\* no staging file lies beside it, whichever downloads failed and wherever.
RestIsWhole ==
  (\A d \in Downloads : at[d] \in Over) =>
    \A c \in Containers : ~staged[c] /\ (disk[c] # Absent => disk[c].state = "whole")
=============================================================================
