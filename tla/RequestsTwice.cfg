SPECIFICATION Spec
CONSTANTS
  r1 = r1
  r2 = r2
  film = film
  other = other
  Rows <- MCRows
  Contents <- MCContents
  MaxAsks = 3
  MaxRestarts = 0
INVARIANT NobodyQueuesTheSameTwice
CHECK_DEADLOCK FALSE
