\* Two entries, either of which may lose its server, two restarts and two failed calls; or
\* the page of pending entries open over a backend that does not fail.
SPECIFICATION PageFairSpec
CONSTANTS
  Entries = {e1, e2}
  MaxCrashes = 2
  MaxFaults = 2
  Followed = e1
  Grace = 2
  MaxLoads = 2
INVARIANTS TypeOK RunsAtMostOnce LossIsBounded
PROPERTIES CancelIsTimely KeepsContract DueEntriesAreTaken PageForgets
CHECK_DEADLOCK FALSE
