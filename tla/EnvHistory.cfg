\* Two updates of an env of two keys.
SPECIFICATION Spec
CONSTANTS
  Jobs = {p1, p2}
  JobKinds = {"env"}
  Keys = {k1, k2}
  Values = {"v", "w"}
  Attempts = 2
  ExtraAttempts = 2
  HistoryCap = 2
  Commits = {1, 2}
  Tolerance = 1
  MaxSkew = 1
  MaxRuns = 1
  MaxTime = 3
  Patience = 4
  LongestWait = 2
PROPERTIES HistoryMissesNothing
CHECK_DEADLOCK FALSE
