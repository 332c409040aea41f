CONSTANTS
  NodeIds = {1, 2, 3, 4}
  Addresses = {"p1", "p2"}
  Scenarios <- MCScenarios
  Hardware <- MCHardware
  Faults = {"misplaced", "cancel", "interrupt"}
SPECIFICATION FairSpec
INVARIANTS
  InventoryIsWhole
  PlannedNodesAreBacked
  NvlinkCountIsSound
  NicRecordIsHonest
  DirectionsOnce
PROPERTIES
  DiscoveryEndsClean
CHECK_DEADLOCK FALSE
