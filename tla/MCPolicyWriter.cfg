SPECIFICATION PWSpec
CONSTANTS
  Scale = 2
  Confidences <- MCConfidences
  ActionTypes = {"scale-deployment", "bump-memory-limit", "rollback-deployment", "patch-hpa"}
  DefaultScale = 2
  MemFactor = 3
  Thresholds = {1}
  DeltaLimits = {0, 1, 2}
  FactorLimits = {2}
  Evaluators = {g1, g2, g3}
  MaxActions = 2
  Window = 2
  MaxCrashes = 1
  Appliers = {a1, a2}
  Files = {deployment}
  Fields = {replicas, memory}
  Targets = {1}
  MaxApplies = 2
  Faults = {"disk", "git", "push", "crash", "human"}
SYMMETRY Symmetry
INVARIANTS MCTypeOK VerdictIsPolicy RateBounded ResultIsTrue NeverEmptied
PROPERTY FailureRestores
CHECK_DEADLOCK FALSE
