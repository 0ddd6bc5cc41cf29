SPECIFICATION FairSpec
CONSTANTS
  w1 = w1
  w2 = w2
  job = job
  Fetchers <- MCFetchers
  Workers <- MCWorkers
  Main = job
  Ceilings <- MCCeilings
  MinAllowance = 1
  NumSegments = 2
  MaxRetry = 2
  AbortStreak = 2
  MaxResizes = 2
INVARIANT TypeOK
INVARIANT JoinedIsComplete
INVARIANT SecondPassIsAlone
PROPERTY DownloadEnds
CHECK_DEADLOCK FALSE
