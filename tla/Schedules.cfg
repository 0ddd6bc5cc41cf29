SPECIFICATION FairSpec
CONSTANTS
  a = a
  b = b
  Entries <- MCEntries
  MaxRestarts = 1
  MaxRequests = 2
INVARIANT DispatchedInOneSession
INVARIANT WithdrawnNeverDownloads
PROPERTY SurvivesUnlessOverdue
CHECK_DEADLOCK FALSE
