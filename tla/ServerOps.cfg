\* Two requests of any kind.
SPECIFICATION FairSpec
CONSTANTS
  Requests = {p1, p2}
  Actors = {a1}
  Kinds = {"test", "sync", "patch", "delete", "create", "install", "reinstall", "update", "self"}
  MaxPolls = 2
  MaxRestarts = 1
INVARIANTS TypeOK LocksExact OneOperation
PROPERTIES NoFlicker TokenIsTheInstallers UpdateIsReal RecordIsOwn EveryRequestEnds
CHECK_DEADLOCK FALSE
