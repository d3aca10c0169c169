SPECIFICATION Spec
CONSTANTS
  k1 = k1
  k2 = k2
  r1 = r1
  Keys = {k1, k2}
  Reasons = {r1}
  Signals <- MCSignals
  ResolveWindow = 1
  DedupWindow = 1
  EventBufSize = 1
  MaxIds = 2
PROPERTY NeverPanics
