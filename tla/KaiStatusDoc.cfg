CONSTANTS
  Workers = 2
  Leftovers = {2}
  Faults = {}
SPECIFICATION Spec
INVARIANTS
  SuccessIsOfWorkers
CHECK_DEADLOCK FALSE
