SPECIFICATION MCSpec
CONSTANTS
  SignalBufSize = 1
  LineKinds <- MCLineKinds
  Intervals = {1, 2}
  Limit = 2
  MaxPollers = 2
  MaxInstants = 1
  MaxTime = 2
  Objects <- MCObjects
  MaxNotices = 1
  MaxChanges = 1
  Requests = {"r1"}
  Alerts <- MCAlerts
  MaxPosts = 1
INVARIANTS TypeOK WindowsTile ModesRaised
PROPERTY WrongIsSignalled
CHECK_DEADLOCK FALSE
