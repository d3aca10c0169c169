SPECIFICATION MCSpec
CONSTANTS
  None = None
  s1 = s1
  s2 = s2
  Slots = {s1, s2}
  Kinds = {"scale-deployment", "patch-hpa", "rollback-deployment", "bump-memory-limit", "right-size-memory", "right-size-cpu"}
  Targets = {1}
  Files0 <- MCFiles
  MaxEdits = 3
  Reasons = {r1, r2}
  DedupWindow = 2
  ResolveWindow = 3
  GraceDelay = 1
  Window = 5
  FailureThreshold = 1
  MaxSignals = 6
SYMMETRY Symmetry
INVARIANTS MCTypeOK PersistentFailureSeen
PROPERTY ActionContract
