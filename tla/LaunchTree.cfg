SPECIFICATION Spec
CONSTANTS
  Pids = {p1, p2}
  Files = 2
  Maps = {m1, m2}
  MaxLaunches = 2
  MaxStops = 2
SYMMETRY Symmetry
INVARIANTS
  OnlyTheRecordedTree
  SkipsOnlyLeftovers
  StoppedIsTrue
CHECK_DEADLOCK FALSE
