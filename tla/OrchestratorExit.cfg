SPECIFICATION Spec
CONSTANTS
  Incidents = {i1}
  Goroutines = {g1}
  MaxWorkers = 1
  EventBufSize = 1
  CfgKillSwitch = FALSE
  CfgApplyEnabled = TRUE
PROPERTY CleanExitWaits
