---------------------------- MODULE SeriesFolders -----------------------------
(***************************************************************************)
(* Where the episodes of one series go and where they are looked for: the  *)
(* names of app/core/naming.py and app/core/paths.py, the library check    *)
(* and the choice of a folder in app/requests/resolver.py, and what they   *)
(* take from the registry of app/library.py - while the templates, the     *)
(* container, the year the source gives and a person's decisions change.   *)
(*                                                                         *)
(* A folder is its template and its year, a file its folder, its template, *)
(* the title it is named after, its episode and its container.  There are  *)
(* three layouts: the default one, one that names folders otherwise, and   *)
(* one whose files carry no number like S01E07.  Left out: one season      *)
(* stands for all, offsets are 0, a folder is there while it has files,    *)
(* and folders renamed outside the panel (see Library).                    *)
(***************************************************************************)
EXTENDS FiniteSets, Integers

CONSTANTS
  Episodes,
  Years,         \* the years the source may give, numbers above 0
  Downloads,
  MaxChanges     \* bound: how often settings, the source or a person change something

VARIABLES
  layout,     \* naming_templates
  container,  \* output_container
  year,       \* the year of the series, as the source gives it
  disk,       \* the files
  row,        \* library_folder: the origin of each folder of the series
  job,        \* the downloads
  changes,    \* bound
  filed,      \* history: the files whose download was filed
  disowned,   \* history: the folders somebody ever rejected
  unsettled   \* history: the downloads during which something changed

vars == <<layout, container, year, disk, row, job, changes, filed, disowned, unsettled>>

NoYear == 0
AnyYear == Years \cup {NoYear}
Layouts == {"default", "own", "unnumbered"}
Extensions == {"mkv", "mp4"}

\* series_folder(): the template and the year decide.
FolderOf(l, y) == [template |-> IF l = "own" THEN "own" ELSE "usual", year |-> y]

\* A folder of another series, which a person may choose for this one too.
Shared == [template |-> "other", year |-> NoYear]
AllFolders == [template : {"usual", "own"}, year : AnyYear] \cup {Shared}

\* folder_title(): the trailing year is taken off, as the default template puts it on.
TitleIn(g) == IF g.template = "usual" THEN "series" ELSE "folder"

File(g, l, title, e, c) ==
  [folder |-> g, layout |-> l, title |-> title, episode |-> e, container |-> c]
Files == [folder : AllFolders, layout : Layouts, title : {"series", "folder"},
          episode : Episodes, container : Extensions]

\* episode_path() and placed_episode_path().
Named(l, y, e, c) == File(FolderOf(l, y), l, "series", e, c)
Placed(g, e, c) == File(g, layout, TitleIn(g), e, c)

\* episode_files(): the number in the name tells the episode.
Numbered(f) == f.layout # "unnumbered"

Dirs == {f.folder : f \in disk} \cup {Shared}
Rejected == {g \in AllFolders : row[g] = "rejected"}
Held == {g \in Dirs : row[g] \in {"download", "matched", "manual"}}

Idle == [step |-> "idle"]

Init ==
  /\ layout \in Layouts /\ container = "mkv" /\ year \in AnyYear
  /\ disk = {}
  /\ row = [g \in AllFolders |-> "none"]
  /\ job = [d \in Downloads |-> Idle]
  /\ changes = 0
  /\ filed = {} /\ disowned = {} /\ unsettled = {}

-----------------------------------------------------------------------------
(* The library check *)

Renders(y) == {FolderOf(layout, y), FolderOf("default", y)}

\* series_years(): the year asked for, and any other the folders show, but no earlier one
\* and none whose folders were all rejected.
SeriesYears(y0) ==
  {y0} \cup {y \in AnyYear :
               /\ y = NoYear \/ y0 = NoYear \/ y >= y0
               /\ Renders(y) \cap Dirs # {}
               /\ ~(Renders(y) \subseteq Rejected)}

\* Mutant of ByName: the layout of old is not tried.
ByCurrentName(y0, e) ==
  {Named(layout, y, e, c) : y \in SeriesYears(y0), c \in Extensions} \cap disk

\* episode_candidates(), candidate_paths() and first_existing().
ByName(y0, e) ==
  {Named(l, y, e, c) : l \in {layout, "default"}, y \in SeriesYears(y0), c \in Extensions}
    \cap disk

\* Mutant of ByRegistry: only the name the templates give now is looked for.
ByBuilder(e) ==
  {f \in disk : f.folder \in Held /\ f \in {Placed(f.folder, e, c) : c \in Extensions}}

\* _registered_file(): held() and locate(), by the builder of the download and then by the
\* number in the name.
ByRegistry(e) ==
  {f \in disk : /\ f.folder \in Held
                /\ \/ f \in {Placed(f.folder, e, c) : c \in Extensions}
                   \/ f.episode = e /\ Numbered(f)}

\* existing_file()
Existing(y0, e) == ByName(y0, e) \cup ByRegistry(e)

-----------------------------------------------------------------------------
(* The folder of a new episode *)

\* The layout whose folder counts for a year: the current one if it is there.
LayoutAt(y) == IF FolderOf(layout, y) \in Dirs \ Rejected THEN layout ELSE "default"
HomeAt(y) == FolderOf(LayoutAt(y), y)
Score(y) == Cardinality({f.episode : f \in {x \in disk : x.folder = HomeAt(y) /\ Numbered(x)}})

\* The order in which series_years() lists them: the year asked for, none, the latest first.
Rank(y0, y) == IF y = y0 THEN -2 ELSE IF y = NoYear THEN -1 ELSE 10000 - y

Homes(y0) == {y \in SeriesYears(y0) : HomeAt(y) \in Dirs \ Rejected /\ Score(y) > 0}

\* Mutant of Home: the folder of the year asked for, whatever is on disk.
CanonicalHome(y0) == <<layout, y0>>

\* series_home(): the folder with the most episodes; the canonical one if there is no choice.
Home(y0) ==
  IF SeriesYears(y0) = {y0} \/ Homes(y0) = {} THEN <<layout, y0>>
  ELSE LET best == CHOOSE y \in Homes(y0) :
             \A z \in Homes(y0) \ {y} :
               Score(z) < Score(y) \/ (Score(z) = Score(y) /\ Rank(y0, y) < Rank(y0, z))
       IN <<LayoutAt(best), best>>

Manual == {g \in Dirs : row[g] = "manual"}

\* destination(), or else series_episode_path().
Destinations(y0, e) ==
  IF Manual # {} THEN {Placed(g, e, container) : g \in Manual}
  ELSE {Named(Home(y0)[1], Home(y0)[2], e, container)}

-----------------------------------------------------------------------------
(* A download, with the year it was submitted with *)

\* _missing_only(), a request or a poll: what is there is not fetched.
Begin(d) ==
  /\ job[d] = Idle
  /\ \E e \in Episodes :
       /\ Existing(year, e) = {}
       /\ job' = [job EXCEPT ![d] = [step |-> "stream", year |-> year, episode |-> e]]
  /\ unsettled' = unsettled \ {d}
  /\ UNCHANGED <<layout, container, year, disk, row, changes, filed, disowned>>

\* download_episode(): the path is settled once the stream is known ...
Place(d) ==
  /\ job[d].step = "stream"
  /\ \E f \in Destinations(job[d].year, job[d].episode) :
       job' = [job EXCEPT ![d] = [step |-> "fetch", year |-> @.year, file |-> f]]
  /\ unsettled' = unsettled \ {d}
  /\ UNCHANGED <<layout, container, year, disk, row, changes, filed, disowned>>

\* ... and written in the end, in place of the same file in another container.
Write(d) ==
  LET f == job[d].file IN
  /\ job[d].step = "fetch"
  /\ disk' = {x \in disk : [x EXCEPT !.container = f.container] # f} \cup {f}
  /\ filed' = filed \ {[f EXCEPT !.container = c] : c \in Extensions}
  /\ job' = [job EXCEPT ![d].step = "written"]
  /\ UNCHANGED <<layout, container, year, row, changes, disowned, unsettled>>

\* A download that fails, or a listener that does: nothing is filed.
Fail(d) ==
  /\ job[d] # Idle
  /\ job' = [job EXCEPT ![d] = Idle]
  /\ UNCHANGED <<layout, container, year, disk, row, changes, filed, disowned, unsettled>>

\* Mutant of FileDownload: the folder is not filed, only the older ones.
FileOlder(d) ==
  /\ job[d].step = "written"
  /\ row' = [g \in AllFolders |->
       IF row[g] = "none" /\ g \in Dirs /\ g # job[d].file.folder /\
          \E y \in SeriesYears(job[d].year) \ {job[d].year} : g \in Renders(y)
       THEN "matched" ELSE row[g]]
  /\ filed' = filed \cup ({job[d].file} \cap disk)
  /\ job' = [job EXCEPT ![d] = Idle]
  /\ UNCHANGED <<layout, container, year, disk, changes, disowned, unsettled>>

\* file_download(): its folder, and the folders of the series under other years.  What a
\* person decided stays.
FileDownload(d) ==
  LET written == job[d].file
      older == {g \in Dirs \ {written.folder} :
                  \E y \in SeriesYears(job[d].year) \ {job[d].year} : g \in Renders(y)}
  IN
  /\ job[d].step = "written"
  /\ row' = [g \in AllFolders |->
       IF g = written.folder /\ row[g] \in {"none", "matched"} THEN "download"
       ELSE IF g \in older /\ row[g] = "none" THEN "matched"
       ELSE row[g]]
  /\ filed' = filed \cup ({written} \cap disk)
  /\ job' = [job EXCEPT ![d] = Idle]
  /\ UNCHANGED <<layout, container, year, disk, changes, disowned, unsettled>>

-----------------------------------------------------------------------------
(* What changes meanwhile *)

Change == changes < MaxChanges /\ changes' = changes + 1 /\ unsettled' = Downloads

Settings ==
  /\ Change
  /\ \/ layout' \in Layouts \ {layout} /\ UNCHANGED <<container, year>>
     \/ container' \in Extensions \ {container} /\ UNCHANGED <<layout, year>>
     \/ year' \in AnyYear \ {year} /\ UNCHANGED <<layout, container>>
  /\ UNCHANGED <<disk, row, job, filed, disowned>>

\* associate(), reject() and restore().
Decide ==
  /\ Change
  /\ \/ /\ \E g \in Dirs : row' = [row EXCEPT ![g] = "manual"]
        /\ UNCHANGED disowned
     \/ \E g \in AllFolders :
          /\ row[g] \in {"download", "matched", "manual"}
          /\ row' = [row EXCEPT ![g] = "rejected"]
          /\ disowned' = disowned \cup {g}
     \/ \E g \in Rejected : row' = [row EXCEPT ![g] = "none"] /\ UNCHANGED disowned
  /\ UNCHANGED <<layout, container, year, disk, job, filed>>

\* A person deletes a file.
Delete ==
  /\ Change
  /\ \E f \in disk : disk' = disk \ {f} /\ filed' = filed \ {f}
  /\ UNCHANGED <<layout, container, year, row, job, disowned>>

Next ==
  \/ \E d \in Downloads : Begin(d) \/ Place(d) \/ Write(d) \/ Fail(d) \/ FileDownload(d)
  \/ Settings \/ Decide \/ Delete

Spec == Init /\ [][Next]_vars
-----------------------------------------------------------------------------

TypeOK ==
  /\ layout \in Layouts /\ container \in Extensions /\ year \in AnyYear
  /\ disk \subseteq Files /\ filed \subseteq disk
  /\ row \in [AllFolders -> {"none", "download", "matched", "manual", "rejected"}]
  /\ job \in [Downloads -> {Idle}
       \cup [step : {"stream"}, year : AnyYear, episode : Episodes]
       \cup [step : {"fetch", "written"}, year : AnyYear, file : Files]]
  /\ changes \in 0..MaxChanges
  /\ disowned \subseteq AllFolders /\ unsettled \subseteq Downloads

\* "The download and the check cannot disagree about where an episode is" (paths.py,
\* series_episode_path()): what a download wrote is found by the check as long as nothing
\* changed since its path was settled, though it is not filed yet.
DownloadAndCheckAgree ==
  \A d \in Downloads \ unsettled :
    (job[d].step = "written" /\ job[d].file \in disk) =>
      job[d].file \in Existing(job[d].year, job[d].file.episode)

\* Changing a template, the container or the year "must not make files already in the
\* library invisible" (candidate_paths()): what was filed is found whatever changes later,
\* unless its name carries no number or somebody rejected its folder; and what is named by the
\* default layout is found without the registry, unless the year has moved past its folder.
FiledIsFound ==
  \A f \in {x \in disk : x.folder \notin disowned} :
    /\ (f \in filed /\ Numbered(f)) => Existing(year, f.episode) # {}
    /\ (/\ f = Named("default", f.folder.year, f.episode, f.container)
        /\ f.folder.year = NoYear \/ f.folder.year >= year)
       => f \in ByName(year, f.episode)

\* A rejected folder is "not this title's": while the templates are the default ones, no
\* file in it counts as present and no new episode is put into it - but the folder of the
\* very year asked for, which is never left out.
RejectedIsLeftOut ==
  layout = "default" =>
    \A g \in Rejected :
      g = FolderOf(layout, year) \/
      \A e \in Episodes :
        /\ \A f \in Existing(year, e) : f.folder # g
        /\ \A f \in Destinations(year, e) : f.folder # g

\* "The library does not grow another folder" (existing_file()): a series of which the folder
\* that counts for another year holds an episode gets no new folder for the next one.  (Of the
\* two layouts of a year the current one counts if it is there, though it hold no episode.)
SeriesStaysTogether ==
  \A f \in disk :
    (/\ Numbered(f) /\ f.folder \notin Rejected
     /\ f.folder.year \in SeriesYears(year) \ {year} /\ f.folder = HomeAt(f.folder.year))
    => \A e \in Episodes : \A g \in Destinations(year, e) : g.folder \in Dirs

\* What is on disk is found, and what is not there goes where the series is.
EpisodesAreFound ==
  DownloadAndCheckAgree /\ FiledIsFound /\ RejectedIsLeftOut /\ SeriesStaysTogether
=============================================================================
