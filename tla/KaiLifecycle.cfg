CONSTANTS
  Workers = 3
  Leftovers = {0, 1, 2}
  Faults = {"reject", "lost", "list", "delete", "interrupt"}
SPECIFICATION FairSpec
INVARIANTS
  SuccessIsReal
  NothingLeft
PROPERTIES
  GroupGoesLast
  OthersSpared
  RunEnds
CHECK_DEADLOCK FALSE
