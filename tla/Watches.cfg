SPECIFICATION FairSpec
CONSTANTS
  w1 = w1
  ann = ann
  bob = bob
  Rows <- MCOneRow
  Users <- MCUsers
  NumEpisodes = 2
  PartialLists = FALSE
  MaxAsks = 3
  MaxRestarts = 1
INVARIANT OwnerFollows
INVARIANT SeenIsAccountedFor
PROPERTY NothingIsMissed
CHECK_DEADLOCK FALSE
