SPECIFICATION FairSpec
CONSTANTS
  Runs = 2
  Cells <- MCCells
  MaxInterrupts = 1
  MaxWriteFaults = 1
  MaxDeaths = 1
INVARIANTS
  TypeOK
  LabelledUnlessFaulted
  NothingLeftRunning
  ReasonNamesItsCause
  GroundTruthOutlivesClock
PROPERTIES
  FiledRunsStayFiled
  ImplementsLedger
  EveryInvocationEnds
