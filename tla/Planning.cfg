CONSTANTS
  Nodes = {1, 2, 3, 4}
  Model <- MCModel
  Memory <- MCMemory
  Workers = 3
  Compute <- MCCompute
  Traffic = 6
  MaxCandidates = 15
  MaxAge = 1
  Advertised <- MCAdvertised
  Probed <- MCProbed
  Skew <- MCSkew
  Speeds = {1, 3}
  Readings <- MCReadings
  Settings <- MCSettings
  MaxRecords = 3
  MaxTime = 2
SPECIFICATION Spec
INVARIANTS
  MeasuredIsCurrent
  PlanIsBest
  PlanIsFound
CHECK_DEADLOCK FALSE
