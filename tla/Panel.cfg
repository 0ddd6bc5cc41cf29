SPECIFICATION Spec
CONSTANTS
  Downloads = {d1, d2}
  Containers = {"mkv", "mp4"}
  Tasks = {t1, t2}
  Languages = {l1, l2}
  MaxChanges = 1
  AutoRetries = 0
  Channels = {c1, c2}
  Hooks = {h1}
  MaxEdits = 1
  Senders = {v1, v2}
  Pages = {p1}
  Phases = 2
  Attempts = 2
  QueueSize = 1
  Persons = {ann, bob}
  Admins = {ann, bob}
  Servers = {s1, s2}
  MaxSessions = 1
  Hosts = {x1}
  MaxCrashes = 1
  Titles = {title}
  Folders = {f1, f2}
  MaxVersion = 3
  MaxRuns = 2
  Watches = {wa}
  Requests = {re}
  Calls = {k1, k2}
  Episodes = {1, 2}
  Years = {1, 2}
INVARIANT TypeOK
INVARIANT RestIsWhole
INVARIANT SatisfiesWhomItKnew
INVARIANT EveryoneIsTold
INVARIANT ProgressIsTrue
INVARIANT MigratedOnceAndWhole
INVARIANT EpisodesAreFound
INVARIANT PersonDecides
PROPERTY FirstSetupStands
PROPERTY SettingsStand
PROPERTY UpdatesAreSound
CHECK_DEADLOCK FALSE
