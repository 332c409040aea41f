CONSTANTS
  Runs = {1, 2, 3, 4}
  Workers = 2
  Gpus = 2
  Faults = {"create", "cancel", "remove", "interrupt"}
  Policies <- MCPolicies
  Jobs = 2
  Times = {0, 1}
SPECIFICATION FairSpec
INVARIANTS
  LeftoversAreAccounted
  InputsMatch
  RatiosAreMatched
PROPERTIES
  CustodyOfRuns
  TraceEndsClean
CHECK_DEADLOCK FALSE
