SPECIFICATION Spec
CONSTANTS
  ep1 = ep1
  ep2 = ep2
  film = film
  BatchJobs <- MCBatch
  SpareJobs <- MCSpare
  NumThreads = 2
  Limit = 1
  AutoRetries = 1
  MaxRequests = 2
  MaxPauses = 0
INVARIANT ReportedOnceWhenOver
INVARIANT BatchClosesOnTime
INVARIANT PurgedLeavesNoFile
PROPERTY SummaryIsTrue
CHECK_DEADLOCK FALSE
