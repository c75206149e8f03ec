SPECIFICATION RigSpec
CONSTANT
  Inputs <- MCInputs
  ScanHeight = 3
INVARIANTS
  SeesWhereTfSays
  NativeOrNothing
  AsAsked
CHECK_DEADLOCK FALSE
