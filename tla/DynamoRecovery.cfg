CONSTANTS
  Replicas = 1
  Faults = {"actor", "guardian", "driver", "ray", "interrupt"}
SPECIFICATION FairSpec
INVARIANTS
  IInv
  ClosedLeavesNothing
PROPERTIES
  NoLaunchAfterStop
  CustodySpec
  DriverDeathStopsEngines
  CallsReturn
CHECK_DEADLOCK FALSE
