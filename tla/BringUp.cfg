SPECIFICATION FairSpec
CONSTANTS
  Runs = 2
  PortWait = 1
  BindWait = 1
  ReadyPolls = 5
  TermWait = 1
INVARIANTS
  EgoOutlivesInterface
  OwnServerOrWarned
  OnlyOwnCarlaIsStruck
  TornDown
PROPERTY
  BringUpEnds
CHECK_DEADLOCK FALSE
