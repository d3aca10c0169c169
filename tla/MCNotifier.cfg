SPECIFICATION MCSpec
CONSTANTS
  Requests = {r1}
  Handlers = {h1, h2, h3}
  Timeout = 2
  Callers = {p1}
  MaxRetries = 2
  NoKey = NoKey
  MaxReloads = 2
INVARIANTS MCTypeOK FailClosed OneAnswerWins NothingLeftBehind CallsDeliver OnePagePerCall
PROPERTY CallsReturn
CHECK_DEADLOCK FALSE
