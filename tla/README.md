# StreamingCommunity-downloader: specifications

TLA+ modules for the panel's own logic - the parts where several threads, a
crash or a late answer decide what happens - with TLC configurations that check
them on small instances and TLAPS proofs that hold for any instance. Paths are
relative to the repository. `PROJECT.json` lists the components, the runs, the
hazards and the source lines each definition stands for.

## The system

One Python process (FastAPI) downloads films, series and anime. Its state is
partly in memory (jobs, batches, the line for a download slot), partly in a JSON
file (schedules) and partly in SQLite (requests, followed series, accounts). The
event loop serves the API; downloads run on an executor of 64 threads,
requests are resolved on a small pool, and three background loops poll the
scheduler, the followed series and the source's domain.

### Inventory

| Component | State | Operations | What is hard | What makes it correct |
|---|---|---|---|---|
| Download slots (`app/jobs.py`, `DownloadSlots`) | limit, busy counter, line, tickets | acquire, release, resize, wake | a condition variable with cancel, pause and resize at any point | no slot lost, FIFO, no lost wake-up, nobody starves |
| Job manager (`app/jobs.py`, `JobManager`) | jobs, flags, executor queue | submit, run, retry, cancel, pause/resume/cancel a batch, dismiss | a job is carried by a thread, by the executor's queue or by nobody (parked), and each request must know which | carried exactly once, ends, reported once |
| Batches (`app/downloads_notify.py`, `app/routers/downloads.py`) | one accumulator per batch | register, record, abandon, silence | results and failures of submission race | one announcement, on time, true |
| Schedules (`app/schedule.py`, `app/jobs.py`) | entries in a file, jobs in memory | add, fire (loop or person), cancel, dismiss, reload | check then act across two locks; crash between two writes | dispatched in one session, never lost, not after a withdrawal |
| Requests (`app/requests`) | a row per request, the pool's work, a job | create, decide, resolve, correct, withdraw, listen, recover | three actors write one row; the job may end before its id is known; restart | status follows the table, nobody forgotten, no unwanted download, no duplicate |
| Title resolution (`app/requests/resolver.py`) | none; reads files, registry, other requests | library check, choice of a folder, plan of languages | what is read is old when the file is written; names depend on settings that change | what is there is found, a request gets what it knew of |
| Request notifications, hooks (`notify.py`, `apprise_channel.py`, `app/downloads_hooks.py`) | the bell's rows, channels, hooks | listen, deliver, announce a dead hook | targets fail or are edited meanwhile | whom it concerns is told, each target tried |
| Followed series (`app/watches`) | a watch, its followers, a ledger of seen episodes | follow (with seeding), unfollow, poll, check now, arm | the watch is enabled before its ledger is seeded; two polls at once; crash before the mark | the back catalogue is never requested, no new episode is missed or requested twice |
| Segment downloader (`app/core/m3u8.py`) | limiter, failure streak, watchdog, files per segment | fetch with retries, abort, second pass, join | 16 threads share the limiter and the streak; the watchdog races the last segment | never joins a partial set, the second pass is alone, it ends |
| Titles and formats (`app/core/m3u8.py`, `format.py`, `film.py`, `tv.py`, `animeunity.py`, ...) | the file of a title, its staging file, subtitles, siblings | join, merge, remux, place, clean up | two downloads of a title; a failure at any step | no half made file stays |
| Paths and names (`app/core/paths.py`, `naming.py`) | templates in the settings | render, validate | templates change under files | the check and the download agree |
| Source pages, caches (`app/core/page.py`, `home.py`, `metadata.py`) | timed caches | get, clear | a lookup stores after a clear | no answer of an old domain after the change |
| Domain and settings (`app/core/domain_recovery.py`, `app/config.py`, `app/routers/domain.py`) | pending candidate, `data.json` | check, confirm, dismiss, adopt, set | readers take no lock, a crash tears the file, checks overlap with administrators | the domain changes on request only, no other key and no setting that was not sent is lost |
| Library (`app/library.py`, `app/routers/library.py`, `files.py`) | associations of folders | record, associate, edit, reject, restore, reconcile | files move under it | the panel never overrides a person |
| Accounts (`app/auth`) | mode, server, users, sessions | set up, connect, sign in, edit, import | requests to Jellyfin in between | the first choice stands, an open panel has no accounts |
| Database (`app/db.py`) | schema version, tables | migrate | a stop between any two statements; rebuilt tables | each migration once, no row lost |
| Progress (`app/progress.py`, `app/routers/progress.py`, `app/jobs.py`) | a bar per phase, a queue per page | update, carry over, renew, broadcast | segment threads update at once; slow pages | bytes of this attempt, the end is shown |
| Updates (`app/updates.py`, `updater_client.py`, `app/routers/updates.py`, `src/updater`) | releases known, backup, the updater's state | check, install, run, poll | two processes, restarts, requests at once | a way back, no outcome of another update |
| MCP, catalogue endpoints, frontend | none | relays and display | - | - |

How they interact: an API call or the request worker submits a job; the job's
thread queues for a slot, downloads, and tells the listeners (batch
accumulator, requests, library, hooks) that it is over, each reading the job's
status at that moment. The poller of the followed series creates requests. At
startup the schedules are reloaded and the requests recovered before the first
API call is served.

## Modules

| Module | Models | State and actions |
|---|---|---|
| `Lines` | `deque.remove` | `Without`, used by the two modules below |
| `FifoSlots` | what the slots promise | a line and a set of holders; join, grant from the head under the limit, give up, finish, resize |
| `DownloadSlots` | class `DownloadSlots`, critical section by critical section | `Enter` is the first critical section of `acquire`; `Take`, `Quit` and `Sleep` are the three outcomes of one turn of its loop; `Release`, `Resize` and `Wake` are the methods; `Cancel`, `Pause` and `Resume` set the flags of the job manager. A thread in `cond.wait()` is "asleep" and moves only when a `notify_all` made it "joined" |
| `JobManager` | class `JobManager` with `downloads_notify.py` and `_run_batch` | one record per job, one per executor thread (`thread[t].step` is where it is in `_run_download`/`_attempt`); each API method is cut where it releases the lock (`resubmit`, `owed` and `sweep` hold what it still has to do). The slots are `FifoSlots`: this run uses the abstract module that `DownloadSlots` is proved to implement |
| `Schedules` | `ScheduleStore`, `_scheduler_loop`, `fire_now`, `_fire_job`, `_add_schedule`, `load_scheduled_from_store` | the file with its half-written moment (`saving`), the jobs of this session, the two actors that fire, and `Restart` at any point |
| `Requests` | `app/requests/models.py`, `service.py` and the correction in `router.py` | the row, the pool's work on it (`worker[r].step`), the job as the request sees it, a withdrawal and a correction in progress, and `Restart` with the recovery |
| `Watches` | `app/watches`: `models.py`, `router.py` (follow, unfollow, check), `poller.py` | the rows of one series with owner, followers and ledger; `following[w]` is how far `follow_series` has got, `poll[p]` where `poll_watch` is in the cycle and in a manual check; `Restart` at any point. A request is an episode that was asked for: what becomes of it is `Requests` |
| `AdaptiveLimiter` | class `AdaptiveLimiter` | the allowance between `MIN` and the ceiling: `Take` and `Give` a place, `Penalise`, `Reward`, `Cool`, `Resize`; its steps are parts of the actions of `Segments` |
| `Segments` | class `M3U8_Segments`, on top of `AdaptiveLimiter` | `main` is where `download_ts()` and `join()` are, `fetch[f]` where a thread is in `get_req_ts()`, `task[s]` the future of a segment; the watchdog, a cancellation and new ceilings at any point |
| `Destinations` | `download_m3u8()`, `M3U8_Downloader`, `remux()` | two downloads of a title, each with its container and its treatment of subtitles; every step may fail and is followed by the cleaning up |
| `Tracks` | `resolve()`'s plan of languages, `_collect_audio_tracks`, the second check | each request's way from being asked to done or parked while the source changes what it offers |
| `SeriesFolders` | `series_years`, `series_home`, `existing_file`, `destination`, `locate`, `file_download`, the builders of `paths.py` | files and folders as records of what their names are made of; `Begin`, `Place`, `Write` and `FileDownload` are the stages of a download; `Settings`, `Decide` and `Delete` change the world between them |
| `Announcements` | the listeners of a finished job, the delivery to bell, channels and hooks | two threads, the job's and the request worker's; targets edited meanwhile |
| `Progress` | `WebProgressBar`, the factory, the broadcast to the pages | `Update` is the critical section of `update()`, `Write` and `Broadcast` what follows it |
| `Accounts` | `app/auth`: set-up, connection, sign-in, administration | a call is cut where it awaits Jellyfin, and the administration between its statements |
| `SourceDomain` | `data.json`, the endpoints of the settings, `domain_recovery.py` | the file has a domain, two settings and the libraries; a write is `Lock` (the file is empty) and `Dump`; `Crash` in between tears it; `SaveSettings` merges the setting that was sent over what it read |
| `Library` | `app/library.py` and its router | the rows of the registry, folders as sets of titles; `ReconcileBegins` and `Reconcile` are the two stages of the sweep |
| `Updates` | the release check, the install request, `updater.py` | requests in the panel, threads in the updater; either may restart |
| `Database` | `run_migrations()` over the tables migrations rebuild | one transaction of statements per migration, `Stop` between any two |
| `DownloadSlotsProofs`, `JobManagerProofs`, `SchedulesProofs`, `RequestsProofs`, `WatchesProofs`, `SegmentsProofs`, `JobReportsProofs`, `PanelProofs` | - | theorems and their proofs |
| `MCDownloadSlots`, `MCJobManager`, `MCSchedules`, `MCRequests`, `MCWatches`, `MCSegments` | - | the small instances |
| `MCPanel` | - | the ten modules from `Destinations` to `Database`, in one run: they share no variable, so `focus`, chosen in the initial state, says whose variables `v1`..`v12` are, and only that component moves |

Composition: `DownloadSlots` implements `FifoSlots`, which is what `JobManager` queues on (and
`SlotsKeepTheirPromise` of `jobs_pause` shows that it does not break it); `Segments` is one step
("fetch") of `Destinations`; `Destinations` is one step of a job; `Library` treats for several
titles what `SeriesFolders` follows for one.

A history variable (`heard`, `dispatched`, `withdrawn`, `revived`, `overdue`, `torn`, `unheard`, `refused`,
`back`, `held`, `askedBy`, `told`, `steady`, `broken`, `wire`, `full`, `whole`, `lost`, `asked`,
`chosen`, `shown`, `old`, `filed`, `disowned`, `unsettled`, `stale`, `mind`, `late`, and `saw` and `held` of a
plan in `Tracks`) records what a property needs and no guard reads it. An
operator whose comment begins "Mutant of" is not part of the model: it is a plausible
bug of the definition below it, with which one of the properties is shown to fail.

## Runs

| Run | Instance | Shows |
|---|---|---|
| `slots` | 3 jobs, limits 1 and 2, 3 calls of `acquire` | accounting, line, wake-ups; nobody starves and who gives up leaves even if no slot ever frees (`WaitersLeave`); `FifoSlots` is implemented |
| `jobs_batch` | 2 episodes and a film, 2 threads, 1 slot, 1 automatic retry, 2 requests | each job reported once and only when over; the batch closes exactly when the last episode is counted; purged jobs leave no file; a summary that is sent is true |
| `jobs_pause` | 2 episodes, 2 threads, 1 slot, 1 pause among 2 requests | a job is carried once; every job settles and is reported; a paused one frees its thread; the slots are FIFO through pauses |
| `jobs_reports` | the same | **violated**: finding 1 |
| `schedules` | 2 entries, 1 restart, 2 requests | dispatched in one session; a withdrawn one does not download, unless a restart made a job of its entry again; a stored one is attended to unless overdue at a restart or the file was torn |
| `requests` | 2 rows, 2 contents, 3 requests, 1 restart | approved means in hand; no stray download; closed stays closed; requests move on |
| `requests_twice` | 2 rows, 2 contents | **violated**: finding 2 |
| `watches` | 1 watch, 2 users, 2 episodes, 3 requests, 1 restart | the owner is a follower; an episode in the ledger was there before, asked for or in the library; every published episode comes into the ledger |
| `watches_backlog` | the same, 2 requests, no restart | **violated**: finding 3 |
| `segments` | 2 segments, 2 workers and the main thread, ceilings 1 and 3, 2 attempts, 2 resizes | nothing incomplete is joined; nobody fetches beside the second pass; a download ends |
| `panel` | see below | one property or two of each of the ten components of `MCPanel` |
| `migration_links` | 1 watch, 1 request | **violated**: finding 4 |

What `panel` shows, by component:

| Component | Property | In words |
|---|---|---|
| `Destinations` | `RestIsWhole` | when no download of a title runs, its files are whole and nothing is staged, whoever failed and where |
| `Tracks` | `SatisfiesWhomItKnew` | the file that is left has what its last writer asked for, what the requests asked for that this one saw when it was planned, and what the file held then |
| `SeriesFolders` | `EpisodesAreFound` | what a download wrote the check finds; what was filed is found after any change of template, container or year; a rejected folder is left out; a new episode joins the folder that counts for another year (with the exceptions listed under Observed) |
| `Announcements` | `EveryoneIsTold` | bell, channels and hooks that were on have all been tried, and a dead hook is announced |
| `Progress` | `ProgressIsTrue` | the bytes are of this attempt, a phase shows its end, a page that has nothing to read has missed nothing |
| `Accounts` | `FirstSetupStands` | of racing set-ups one stands, an open panel has no accounts |
| `SourceDomain` | `SettingsStand` | the domain changes on request only; an update loses no other key, and a save of settings that is not stale no setting it was not sent |
| `Library` | `PersonDecides` | a row is a person's choice or a rejection exactly when people last decided so; excepted is a pair decided on while a sweep has its row in hand |
| `Updates` | `UpdatesAreSound` | a page never reads the outcome of an earlier update, no update without a copy to go back to, every update ends |
| `Database` | `MigratedOnceAndWhole` | each migration once, the rebuilt tables keep their rows |

### Bounds, and why they are enough

- `slots`: three jobs give a holder, a head and one behind it, which is what
  order and lost wake-ups need; two limits give every resize, a shrink below the
  busy count included. `MaxTickets` bounds how often `acquire` is called.
- Jobs: two episodes are the smallest batch with one over while the other is not;
  one slot makes the second wait; the second thread lets a job be carried twice
  if the code allowed it. `AutoRetries` is 1 in `jobs_batch` to have a backoff
  and 0 in `jobs_pause`, which checks liveness. `MaxRequests` bounds cancels,
  dismissals, retries and sweeps; `MaxPauses` the pauses (a resume needs one). One `cancel_batch` is
  in progress at a time; two of them with different answers about the files are left out.
- Schedules: a file of two entries tells a save of one from the state of the
  other; one restart is a crash in every place; two requests race the loop.
- Requests: two rows compete for one content; three requests are an approval, a
  withdrawal or correction and one act on the job. The proofs below lift the
  bounds for the safety properties.
- Watches: at most one row of a series is enabled and each row has a ledger of
  its own, so one row is enough; two episodes are one that is published before
  the follow and one after, or one that fails in a poll and one that does not; three requests
  are a follow, a join and a departure of the owner, or a follow and two
  manual checks. `PartialLists` (an anime whose list lacks a batch) is FALSE
  in both runs: it widens what a poll may read and leaves the properties as they are, but
  costs TLC the liveness check.
- Segments: two workers are the smallest pool that shares the streak and the limiter; two
  segments with an abort streak of 2 (the code's 200) let a streak end by a success or by the
  abort; two attempts (the code's number is larger) are a retry and giving up; ceilings 1 and 3 around
  `MinAllowance` 1 let the allowance be cut, earned back, clipped and raised. The proofs lift
  these bounds for the safety properties.
- Panel: two of everything that races (`Downloads`, `Tasks`, `Senders`, `Calls`, `Persons`) and one of
  what stands still (`Hooks`, `Pages`, `Titles`, `Watches`, `Requests`). Both containers, as two paths of one
  title. Two languages: one a request lacks and one it has. Two phases and two attempts: a
  carry-over and a renewal; a queue of 1 is full at once. Two servers, so that a
  connection may move; two folders, so that a rename has where to go; versions up to 3 and two
  runs: an update after an update; one crash, one edit (`MaxEdits`), one change
  of the world (`MaxChanges`), in every place. `Years` are two, so that a year may lie before and after
  the one asked for, and `Episodes` two, so that one folder may hold more than another;
  `SeriesFolders` starts under any template, so one change is enough to have files of two.
  With one download it was also run with three changes. `MaxSessions` 1 tells a session from none.

Deadlock is not checked: when the bounds are used up and every job is over the
system is at rest, as the panel is.

### Fairness, and why the code gives it

- A thread that can run is scheduled (weak fairness of each thread's steps) and a
  method that released the lock half way goes on: nothing in the code
  waits there.
- A download ends: connections and reads have timeouts, segments a bounded number
  of attempts, and a watchdog aborts a stalled pass. In `WaitersLeave` only the part about
  starvation needs it, and states it as its hypothesis (`DownloadsEnd`).
- `segments`: the main thread, each fetching thread and each worker. A request has a timeout, and a thread
  that waits for a place wakes every half second, so its wait is weakly fair like any step. Neither
  the watchdog, nor the limiter's cooling, nor a cancellation is assumed to come.
- `panel`: the thread of an update only (`Run`); every docker command of the updater has a
  timeout. The other nine components are checked for safety.
- The scheduler loop looks at every job at each round; between two rounds a
  store's save may be in progress, so its check needs strong fairness: it is enabled
  again and again, and the lock is only held for the write.
- The poll cycle comes round for ever and goes on once begun; the source and
  the creation of a request do not fail it every time (`Read` of the full list
  and `MakeRequest` are strongly fair). A manual check is a request.
- Nobody is assumed to ask for anything: API calls have no fairness.

## Findings

1. `ReportedOnceWhenOver` with pauses. `_run_download` looks at `job.parked` after the lock
   that set it is gone: a resume or a cancel in between makes it report a job that is
   not over, or report it twice. Without pauses (`jobs_batch`) the property holds.
2. `NobodyQueuesTheSameTwice`. A correction refused because of its key has already
   rewritten the row.
3. `NoBackCatalogue`. `create` commits an enabled watch, then `follow_series` reads the source
   (seconds) and only then seeds the ledger; a poll in between, or after a stop of the panel in
   between, requests what had been published before.
4. `MigrationKeepsLinks`. The fifth migration drops `jf_series_watch` while requests refer to
   it and foreign keys are on: `ON DELETE SET NULL` clears every `jf_request.watch_id`. The same
   happens when the statements of `app/db.py` are run on a database file with rows.

### Observed, without a run

What the models or the reading showed beside the properties; each is in the modelled code unless
it says otherwise.

Jobs and schedules (`app/jobs.py`):
- a pause and a resume at once leave a waiter in the line without a number (548), though the
  number is "its ticket while it waits" (149);
- an entry that falls due while the panel is down comes back as "queued", which nothing submits
  (781), though `README.md:514` says that scheduled downloads survive: the exception `overdue`
  of `SurvivesUnlessOverdue`;
- a schedule that is cancelled while it waits keeps its pending entry in the file: `cancel` (515-533)
  touches the job only, and after a restart `load_scheduled_from_store` (973) makes a job of it again,
  which downloads: the exception `revived` of `WithdrawnNeverDownloads`. Nothing excludes that one entry is
  dispatched twice within one session;
- a cancelled job may be dismissed while its thread still downloads (622); `cancel_batch` with
  deletion skips an episode cancelled earlier on its own whose thread still lands the file (594);
  a schedule dismissed before its job's id is written comes back at the next start (967); with
  more than 64 jobs the order before the line is the executor's (253).

Requests and watches:
- an approved request cannot be withdrawn (`requests/models.py:39`), though the endpoint says so
  (`router.py:524`);
- the docstring of `unfollow` (`watches/models.py:225`) keeps
  the ledger "so the seen-episode ledger survives" a later follow, but `create` looks only for an
  enabled row and otherwise inserts one whose ledger is empty;
- a language that somebody else's wish added makes a strict job fail when the source has dropped
  it;
- a request planned earlier and written later, or a direct download, overwrites a wider file, though
  the comment at `core/m3u8.py:1080-1083` wants the file left behind to be "the one that satisfies
  everybody rather than whoever finished last": the destination's lock orders the writers, and nobody compares
  what they write. `SatisfiesWhomItKnew` therefore speaks of what the last writer saw when it was planned;
- a file that is still being written and cannot be inspected counts as complete.

Segments and files (`app/core/m3u8.py`):
- a ceiling lowered and raised again forgets what was learnt (160-176), though the docstring says
  "without discarding what has been learnt"; a torn segment file counts as present;
- downloads of one title into two containers remove each other's file, and a second download
  that fails removes the finished file of the first; a crash during the join leaves a partial file.

Names (`SeriesFolders`):
- the folder of the very year asked for is searched and written to although a person rejected
  it, and under a template of one's own a rejected folder counts again as long as the default
  one's is not rejected too (`not rendered <= exclude`, `resolver.py:212`); the docstring of
  `rejected_folders` says that "the name-based check skips them too". They are the exceptions of
  `RejectedIsLeftOut`;
- after a change of the folder's template a series that has a single year gets a new folder,
  since `series_home` looks at the default layout only when there are two years or more;
- `series_home` takes for a year the folder of the current template as soon as it exists, though it hold no
  numbered episode, and then does not look at the default layout's, where the episodes are
  (`resolver.py:266-278`): a series may get a second folder after changes of the template;
- of two templates without a number in turn the files of the first are found by nobody
  (`FiledIsFound` speaks of numbered files);
- `naming.validate` compares `rendered != _scrub(rendered)` after `_render_raw` has scrubbed, so a
  template with a forbidden character passes and is changed silently, and one that is empty
  without a year passes and falls back to the default (`naming.py:153`; not modelled).

Accounts and settings:
- two concurrent demotions leave no administrator (`users_router.py:48-63`); a login under way
  when its user is disabled leaves a session; a skip during a set-up is undone by it;
- settings are merged and saved over an unlocked read (`routers/domain.py:307-327`), though `set_app_settings`
  says that "every key the caller did not send has to be carried over here or it is lost" (308-313; the docstring
  at 215-221 likewise): two saves at once lose one, and a save that reads the file while a writer has emptied it
  (`config.py:152-173`) puts the defaults in the place of every setting it was not sent. They are the `stale`
  saves, the exception of `UnsentSettingsAreKept`; a stop during a write tears `data.json`, which then reads as empty;
- a check that began earlier puts a
  dismissed candidate back (`domain_recovery.py:330`), the throttle of the check is read and set in two lock
  sections, and setting a domain leaves the old candidate;
- a lookup begun before the cache is cleared stores the old domain's answer (`metadata.py:40`; not modelled).

Library, database, updates, progress:
- an edit may reject the old pair and then fail to make the new one; `reconcile` works on rows
  read before the scan, and moves or deletes them by id (`library.py:643`, 657): a pair rejected meanwhile
  loses its row, and the next download of its title by that name is the panel's again, though a rejection is
  "Kept, not deleted, so the panel cannot guess it back" (`library.py:23`; the exception `late` of
  `DecisionsStand`); a move in the file manager tests and then moves;
- a fresh installation interrupted half way is carried over as an open one (`db.py:533`);
- a download submitted after the update's test for running jobs is cut short; an older answer of
  the release check may overwrite a newer one; a later update that fails has overwritten the only backup;
- frames of the bar may pass each other; two readers of one job's stream share its frames, and its
  queue is unbounded;
- channels and hooks are read once per event; the bell's rows are written in one transaction for everybody; a job that
  ends before its id is written may be announced twice.

## Proofs

`tlapm <module>.tla`, for each of the eight modules `*Proofs`. What a run shows of two jobs or one
restart, a theorem shows of any number: none of the bounds above limits what is proved.

**DownloadSlots**, for any finite set of jobs, any positive limits and any number of
tickets. The inductive invariant is
`IInv == TypeOK /\ SlotAccounting /\ LineIsTheWaiters /\ NoMissedWakeup`. None of
its parts is inductive alone: the busy counter stays in its type only because it
counts the holders; the removal from the line needs the line to be free of
repetitions and to hold the waiter; and that no wake-up is missed needs to
know that whoever leaves is not asleep. `WithoutProperties` is what
`deque.remove` does to such a line. The refinement (`MonitorKeepsThePromise`) maps
`holders` to the jobs past a successful `acquire` and uses the invariant for the
count of the holders; sleeping, waking and the flags are stutters.

**Requests**, for any rows, contents and bounds. `TypeOK` is proved part by part.
`ApprovedIsInHand` is inductive with it: every transition into or out of
`approved` is made by the worker or puts the row into its hands. `NoStrayDownload`
then needs it, to know that the row of a job just submitted is still approved.
`ClosedStaysClosed` follows from `SourcesOf`: no closed status is the source of a
transition. A consequence worth knowing: the branch of `Claim` for a row
"no longer approved" cannot be taken in one process; it guards against a second.

**Segments**, for any finite set of workers, any number of segments, attempts and resizes, and any
ceilings. `IInv` is the conjunction of `LimiterOK` (the allowance in its bounds: it is cut to no less than
the floor and earned up to no more than the ceiling), `InFlightOK` (who holds a place under the
limiter is who has a request in flight), `FetchOK`, `TaskOK`, `FlagsOK`, `PoolOK`, `StreakOK` and
`JoinedIsComplete`. `PoolOK` carries the argument: a worker fetches for a running future of its
own, none is queued once the futures were collected, and none runs once the pool was left, so the
second pass cannot have company (`SecondPassIsAlone`). `StreakOK` bounds the streak by the futures
that are settled, each of which raises it at most once. `JoinedIsComplete` is
inductive because `Join` counts the files itself and nothing is removed afterwards.

**JobManager**, for any jobs, episodes, threads, slots, pauses and requests. A job can be in four
places: handed to the executor, with a thread, in a call of `resume` between its two locks, or
parked by a pause. `IInv` is `Shape`, what the variables look like, and for every job `Safe(j)`:
it is in one place at most (`OneCall`, `OneThread`, `OnePlace`), in one while it is active
(`HeldWhileActive`), in none before it is submitted; and a thread that is about to let go of a job
has settled it (`SettledAtRelease`), with its file there only if the file is to stay
(`FileSettled`). The last two are what `PurgedLeavesNoFile` lacks to be inductive: a purge that comes
after the download ended deletes the file itself, one that comes before leaves it to the thread,
and no moment lies between. `CarriedOnce` needs that a pause which frees a thread parks the job in
the same critical section, and that `resume` and `retry` find only jobs no thread has.

**Schedules**, for any entries, restarts and requests. `Safe(e)` tells the life of one entry: it
is marked in the file, and the file is written, before the entry is dispatched; after a restart an
entry that was dispatched before is left alone (`LeftAlone`), even when the file was torn; a job
that is still scheduled has no call under way. `DispatchedInOneSession` and
`WithdrawnNeverDownloads` both follow from it: a call that is about to dispatch finds the job still scheduled,
and only a restart (`revived`) makes a withdrawn job scheduled again.

**Watches**, for any rows, users, episodes, calls and restarts. Two calls write the ledger: `follow_series`, a list
it read before the row was there, and `poll_watch`, episode by episode. The invariant says what each
knows when it writes - the list was published at the time, the episode was asked for or is in the
library - and that a row has an owner among its followers or is gone.

`JobsRefineSlots` is the refinement of `FifoSlots`, step by step, for any limit: the mapping sends
`line` to itself and the holders to the jobs of the threads past `Granted`. It needs `LineOK`: the line is an
injective sequence of exactly the jobs whose threads wait in it, and `busy` counts the threads that hold. With
`MonitorKeepsThePromise` this closes the chain from the monitor's critical sections to what the
job manager relies on.

**What the listeners hear** (`JobReportsProofs`), for any batch, other jobs, threads, slots, retries and
requests, in three layers over the `IInv` of the jobs.
- `SInv`, with or without pauses: a job that was reported as done has its file in the library, unless
  its batch was silenced first; the sweep of `cancel_batch`, which removes finished episodes, begins
  by silencing. Hence `SummariesAreTrue`.
- `RInv`, under `MaxPauses = 0`: a job has one run at a time, is over when its thread is about to
  report, and once reported has no thread and is not queued, so nothing reports it again
  (`ReportsAreSingle`). The hypothesis is not for convenience: with a pause the property is
  false (finding 1).
- `BatchOK`, for a batch of at least one episode: of an open batch `remaining` is what is still to be submitted
  plus what was submitted and is not reported, and more than none; of a closed one nothing is left of either
  (`BatchesCloseOnTime`, which needs `RInv`: a second report would close the batch early).
  Of an empty batch the statement is false, and `_check_size` (`downloads.py:194-198`) refuses it before it is
  registered.

**The ten components of MCPanel** (`PanelProofs`), each in its instance, a section each. What the other components
do is not looked at: `focus` never changes, and an inductive invariant has the form
`focus = "..." => Inv`.
- `Destinations`: `LockOK` says who is inside the destination's lock, `OwnFile` that a file half-made is
  made by who is inside, `FileOK` and `StagedOK` what file and staging file are at each step
  and after each failure. A download into another container may remove the file of this one at any moment,
  so nothing can say that a file is still there: only that what is there is whole.
- `Tracks`: from the moment it is planned the plan has what the request asks for and all it is to satisfy
  (`PlanOK`), what its job collected, if anything, is all of the plan (`CollectedOK`), what it saw of the
  others is in it (`SawOK`), and a whole file has what its last writer collected (`FilmOK`).
- `SeriesFolders`: the folder of what was filed belongs to the series unless somebody rejected it (`FiledOK`,
  `RejectedOK`), and a download during which nothing changed is on its way to a file the
  check will find (`SettledOK`). That `series_home` has a best folder to choose is proved for any
  years: the score is bounded by the number of episodes, and the ranks of years differ.
- `Announcements`: what a thread owes it has `Delivered` or has `UnderWay` - on the bell first, then
  channel by channel - and a request that is not closed has somebody who will look at it
  again.
- `Progress`: `n` counts the threads past their segment (`SegmentsCount`); when it is complete, a frame that says
  so was written or is about to be (`EndIsShown`); the last event in a page's queue is the last
  there was (`LastIsQueued`), also when a full queue drops its oldest.
- `Accounts`: until the panel is connected nobody is imported, signed in or in any request but the wizard's
  (`NobodyIn`).
- `SourceDomain`: who dumps holds the lock and writes the last whole file but for one key (`DataFileOK`); a
  save of settings that is not stale has merged what it was sent over the settings as they still are (`SavesOK`);
  until somebody asks for automatic adoption, nothing read, under way or about to be written names a domain
  nobody chose (`ChosenOnly`).
- `Library`: the property says of every state what people decided over the whole history (`mind`). It is
  inductive together with the types: the sweep acts by id on rows it read before, and the decision goes with the
  row it moves or drops, unless it was taken late.
- `Updates`: a thread that works is the last update's and the state shown is its own (`WorkIsShown`), so
  no poll reads an earlier outcome (`PollsOK`); once a request made its copy there is one for good
  (`CopyOK`). This is the safety half of `UpdatesAreSound` (`UpdatesAreSafe`).
- `Database`: a migration that ran k of its statements has copied some tables and dropped some, and what it
  dropped it had copied (`WorkOK`); nothing is committed before the end, and then with the version.

`TypeCorrect` puts the ten types together; most follow from the invariants above, some need more: in `Library`
that a row the sweep remembers is still there and that no two remembered rows are of one pair, in
`Tracks` and `SourceDomain` that whoever is inside a lock is who the lock says.

What is assumed of the constants in `MCPanel`, each by name, is what the code gives: a lock's "nobody" and the settings'
"none" are no thread's name; a bar's phase has threads, finitely many, and a page's queue has room for one event
(`asyncio.Queue(maxsize=...)` with a constant above 0); a season has finitely many episodes and a year four digits
at most; there is a version to run; bounds are natural numbers. TLC evaluates them in the run `panel`.

One statement was corrected because its proof failed. `SeriesStaysTogether` (a conjunct of
`EpisodesAreFound`) said that a series gets no new folder while any unrejected folder of it holds an
episode; it is false from eight changes on, which no run reaches: `series_home` takes for a year the folder of the
current template as soon as it exists, though it hold no numbered episode, and does not look at that of the default
layout (`resolver.py:266-278`). It now speaks of the folder that counts for its year (`HomeAt`).

Only model-checked: everything about liveness (`WaitersLeave`, `EveryJobSettles`,
`PausedGivesUpItsThread`, `SurvivesUnlessOverdue`, `RequestsMoveOn`, `NothingIsMissed`,
`DownloadEnds`, the end of an update in `UpdatesAreSound`), which is out of the prover's reach. Every invariant
that a passing run checks is a theorem.

## Not modelled

Scraping, ffmpeg's command lines, HTTP relays, the MCP tools, the catalogue's endpoints and the
frontend: their failure is an error outcome of the step that uses them, and they keep no state
that a property could speak of. The caches of the source's pages: an answer is as old as it may be.
The text of names and the template language: a name is what it is made of. Errors of SQLite and of the
schedule file's writes. Removing a request's row and its
subscribers. Of the followed series: arming and automatic approval, languages,
the year, panels without accounts (where a failed download is marked as seen all
the same, `process_episode`), and the repair of a ledger with seasons the source does not
list. Of the accounts: API keys, the delay after failed passwords, expiry. Of the library: the
offsets and the moves of the file manager between folders, sweeps that overlap (`POST /reconcile` beside the
periodic one, `routers/library.py:193`), and what happens between the choice of a download's folder at its start
(`library.py:458`) and its row at its end (509). Of `Progress`: the updates of the sequential second pass; frames
have no order once the lock is released, so nothing is said of the last one shown. Of `SeriesFolders`: a
download of an episode that exists already (again, or for a language it lacks - `Begin` wants that there is no
file; what such a download does to the file is in `Tracks`), several seasons, a
title that changes, anime and films (the same builders with other templates). One uvicorn
process is assumed, as the code does. The hazards of PROJECT.json with a note and no property are
the ones not covered.

## Plan

1. An abstract `RequestLife` - a request moves along its table and ends - that
   `Requests` implements, and an abstract "one announcement per batch" that `JobManager` implements
   while nobody pauses.
2. The remaining action properties as theorems: `NothingIsMissed` has a safety half (an episode leaves the list only
   for the ledger) worth stating on its own.
3. Arming and automatic approval in `Watches`; seasons and anime in `SeriesFolders`.
