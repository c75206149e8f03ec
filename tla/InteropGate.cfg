SPECIFICATION FairSpec
CONSTANTS
  Specs <- MCSpecs
  Graphs <- MCGraphs
  MaxChanges = 2
INVARIANTS
  PassIsEarned
  ReportsAgree
PROPERTY
  GateEnds
CHECK_DEADLOCK FALSE
