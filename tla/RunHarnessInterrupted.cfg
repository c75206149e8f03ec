SPECIFICATION Spec
CONSTANTS
  Runs = 1
  Cells <- MCCells
  MaxInterrupts = 1
  MaxWriteFaults = 0
  MaxDeaths = 0
INVARIANT
  AbortAfterBringUpIsFiled
