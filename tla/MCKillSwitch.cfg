SPECIFICATION KFairSpec
CONSTANTS
  Incidents = {i1, i2}
  Goroutines = {g1}
  MaxWorkers = 1
  EventBufSize = 1
  CfgKillSwitch = FALSE
  CfgApplyEnabled = FALSE
INVARIANT LateAppliesBounded
PROPERTIES
  InFlightClears
  KillDrains
  ImplementsLifecycle
