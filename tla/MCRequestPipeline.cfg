CONSTANTS
  Parts = {"requests", "eval", "rules", "verdicts"}
  Request = {r1, r2}
  Priority = {1, 2}  Action = {"block", "tag", "log"}  MaxRules = 2  MaxPatterns = 2
  None = None  Custom = {custom}  Managed = {managed}  DeclaredOff = {managed}
  Ids = {i1, i2}  Loaders = {q1}  TTL = 2  MaxDelay = 1
  Text = {a}  CacheTTL = 2  CallTimeout = 1
  Detector = TRUE
  FailThreshold = 2
  ProbeInterval = 1
SYMMETRY Symmetry
CHECK_DEADLOCK FALSE
SPECIFICATION MCSpec
INVARIANTS RefusalIsFinal AnsweredOnce SpansAreEnded DecisionIsDetermined
PROPERTIES RequestsSpec CopiesAreRecent
