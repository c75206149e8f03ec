SPECIFICATION Spec
CONSTANTS
  Threads = {d1, d2}
  Second = 2
  MaxTime = 3
  MaxEpisodes = 1
  MaxEgos = 1
  MaxCommands = 0
PROPERTY OnePoseASecond
CHECK_DEADLOCK FALSE
