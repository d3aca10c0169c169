SPECIFICATION Spec
CONSTANTS
  Scale = 2
  Confidences = {1, 2}
  ActionTypes = {"scale-deployment", "bump-memory-limit"}
  DefaultScale = 2
  MemFactor = 5
  Thresholds = {1}
  DeltaLimits = {2}
  FactorLimits = {0, 4}
INVARIANT AutoWithinMemoryLimit
CHECK_DEADLOCK FALSE
