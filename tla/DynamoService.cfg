CONSTANTS
  Replicas = 2
  Faults = {"guardian"}
SPECIFICATION WatchSpec
INVARIANTS
  EnginesHoldReservation
  TeardownAfterStop
  ReadyIsWatched
PROPERTIES
  FailureClosesService
CHECK_DEADLOCK FALSE
