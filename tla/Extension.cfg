SPECIFICATION Spec
CONSTANTS
  Threads = {d1}
  Second = 2
  MaxTime = 3
  MaxEpisodes = 2
  MaxEgos = 2
  MaxCommands = 2
INVARIANTS
  CallbacksFindTheirState
  NewestCommandDrives
  PoseIsFresh
PROPERTIES
  ReportsNeverGoBack
CHECK_DEADLOCK FALSE
