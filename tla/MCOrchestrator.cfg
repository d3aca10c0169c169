SPECIFICATION Spec
CONSTANTS
  Incidents = {i1, i2}
  Goroutines = {g1, g2}
  MaxWorkers = 2
  EventBufSize = 1
  CfgKillSwitch = FALSE
  CfgApplyEnabled = FALSE
SYMMETRY Symmetry
INVARIANTS
  TypeOK
  OnePipelinePerIncident
  InFlightExact
  SlotsExact
  ApplyAuthorised
  ChangesAccountedFor
