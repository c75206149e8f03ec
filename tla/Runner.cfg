SPECIFICATION FairSpec
CONSTANT
  Cameras = 2
INVARIANTS
  TypeOK
  NeverLeaks
  SettingsGivenBack
PROPERTIES
  ImplementsLease
  SensorsBeforeEgo
  SigintEnds
CHECK_DEADLOCK FALSE
