SPECIFICATION Spec
CONSTANTS
  Specs <- MCSpecs
  Graphs <- MCGraphs
  MaxChanges = 0
INVARIANT
  TimeoutIsReported
CHECK_DEADLOCK FALSE
