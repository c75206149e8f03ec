SPECIFICATION FairSpec
CONSTANTS
  Timeout = 4
  ClearReady = 1
  ClearCall = 1
  RetryPause = 2
  Mrm = 2
  Adapi = 3
  Discovery = 1
  Publishing = 1
  Window = 2
  MinCount = 2
INVARIANTS
  ArmedIsEarned
  PhasesAreBounded
PROPERTY AlwaysAnswers
