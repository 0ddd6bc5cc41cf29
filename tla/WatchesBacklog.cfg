SPECIFICATION Spec
CONSTANTS
  w1 = w1
  ann = ann
  bob = bob
  Rows <- MCOneRow
  Users <- MCUsers
  NumEpisodes = 2
  PartialLists = FALSE
  MaxAsks = 2
  MaxRestarts = 0
INVARIANT NoBackCatalogue
CHECK_DEADLOCK FALSE
