SPECIFICATION Spec
CONSTANTS
  Pairs = 4
  MaxFailures = 2
  Ceiling = 5
  Poll = 2
  Target = 3
  Gate = 4
  Peak = 5
  TickUp = 1
INVARIANTS
  Interleaved
  StopsOnlyOnARow
  PacingClearsGate
  PacingIsBounded
