SPECIFICATION Spec
CONSTANTS
  ep1 = ep1
  ep2 = ep2
  film = film
  BatchJobs <- MCBatch
  SpareJobs <- NoSpare
  NumThreads = 2
  Limit = 1
  AutoRetries = 0
  MaxRequests = 2
  MaxPauses = 1
INVARIANT ReportedOnceWhenOver
CHECK_DEADLOCK FALSE
