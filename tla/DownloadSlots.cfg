SPECIFICATION FairSpec
CONSTANTS
  a = a
  b = b
  c = c
  Jobs <- MCJobs
  Limits <- MCLimits
  MaxTickets = 3
INVARIANT TypeOK
INVARIANT SlotAccounting
INVARIANT LineIsTheWaiters
INVARIANT NoMissedWakeup
PROPERTY WaitersLeave
PROPERTY KeepsThePromise
CHECK_DEADLOCK FALSE
