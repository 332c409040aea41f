CONSTANTS
  Pids = {p1, p2, p3}
  Guardian = guardian
  System = system
  MaxBirth = 4
SPECIFICATION FairSpec
INVARIANTS
  TypeOK
  ReceiptIsTrue
  StrangersSpared
  NothingEscapes
PROPERTIES
  EngineExitIsHandled
  ContractSpec
CHECK_DEADLOCK FALSE
