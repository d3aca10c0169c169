SPECIFICATION FairSpec
CONSTANTS
  k1 = k1
  k2 = k2
  r1 = r1
  Keys = {k1, k2}
  Reasons = {r1}
  Signals <- MCSignals
  ResolveWindow = 3
  DedupWindow = 2
  EventBufSize = 1
  MaxIds = 2
INVARIANTS TypeOK StoreAgrees
PROPERTIES ClosedWhenQuiet QuietIncidentsClose
