\* A due entry is cancelled between the query of a pass and its mark.
SPECIFICATION Spec
CONSTANTS
  Entries = {e1, e2}
  MaxCrashes = 0
  MaxFaults = 0
PROPERTIES CancelledDoesNotRun
CHECK_DEADLOCK FALSE
