CONSTANTS
  NodeIds = {1, 2, 3, 4}
  Addresses = {"p1", "p2"}
  Scenarios <- MCScenarios
  Hardware <- MCHardware
  Faults = {"misplaced", "cancel", "interrupt"}
SPECIFICATION FairSpec
INVARIANTS
  ZeroMeansNone
CHECK_DEADLOCK FALSE
