CONSTANTS
  Workers = 2
  Leftovers = {}
  Faults = {"lost"}
SPECIFICATION Spec
INVARIANTS
  SubmitRollsBack
CHECK_DEADLOCK FALSE
