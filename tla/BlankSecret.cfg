\* The same instance: whether the preflight and the deploy's own gate agree.
SPECIFICATION Spec
CONSTANTS
  Jobs = {p1, p2}
  JobKinds = {"env", "secret", "required", "preflight", "deploy", "clean"}
  Keys = {k1}
  Values = {"", " ", "v"}
  Attempts = 2
  ExtraAttempts = 2
  HistoryCap = 2
  Commits = {1, 2}
  Tolerance = 1
  MaxSkew = 1
  MaxRuns = 1
  MaxTime = 3
  Patience = 4
  LongestWait = 2
PROPERTIES PreflightIsTheGate
CHECK_DEADLOCK FALSE
