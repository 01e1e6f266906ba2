\* One deploy or rollback: its provisioning among two other requests, then a relay that
\* runs two more things around it, with clocks a tick apart.
SPECIFICATION FairSpec
CONSTANTS
  Jobs = {p1, p2}
  JobKinds = {"env", "secret", "required", "preflight", "deploy", "clean"}
  Keys = {k1}
  Values = {"", " ", "v"}
  Attempts = 2
  ExtraAttempts = 2
  HistoryCap = 2
  Commits = {1, 2}
  Tolerance = 1
  MaxSkew = 1
  MaxRuns = 1
  MaxTime = 3
  Patience = 4
  LongestWait = 2
INVARIANTS TypeOK GateNeedsNews WatchIsKept NothingIsSwallowed BlockedReadsBlocked OutcomeFitsCard ClientsTellTheTruth
PROPERTIES HistoryIsTrue DeploysAreProvisioned RecoveredIsReal RollbackIsReal WaitsEnd
CHECK_DEADLOCK FALSE
