SPECIFICATION FairSpec
CONSTANTS
  r1 = r1
  r2 = r2
  film = film
  other = other
  Rows <- MCRows
  Contents <- MCContents
  MaxAsks = 3
  MaxRestarts = 1
INVARIANT TypeOK
INVARIANT ApprovedIsInHand
INVARIANT NoStrayDownload
PROPERTY ClosedStaysClosed
PROPERTY RequestsMoveOn
CHECK_DEADLOCK FALSE
