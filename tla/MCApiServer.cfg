SPECIFICATION MCSpec
CONSTANTS
  Nothing = Nothing
  Garbage = Garbage
  None = None
  Categories = {"loki", "gitops", "llm", "notifications"}
  Saves = {s1, s2}
  Values = {v1, v2}
  MaxStarts = 2
  Toggles = {t1, t2, t3}
  AtStart = "disengaged"
  Crowds <- MCCrowds
SYMMETRY Symmetry
INVARIANTS TypeOK RunningIsSaved AcceptedIsReadable AuditTellsSwitch
PROPERTY SecretsKept
CHECK_DEADLOCK FALSE
