CONSTANTS
  Streams = 2
  Strays = {stray}
SPECIFICATION FairSpec
INVARIANTS
  SuccessIsWhole
  DoneClosesAll
PROPERTIES
  ProbeEnds
CHECK_DEADLOCK FALSE
