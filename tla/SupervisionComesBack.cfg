\* plugins.md on Workers that exit, with a second death during the recovery.
SPECIFICATION Spec
CONSTANTS
  Policy = "on_failure"
  FailureLimit = 5
  WorkerLimit = 3
  Isolated = TRUE
  Watchers = {w1}
  MaxRunners = 2
  MaxExits = 2
PROPERTY WorkerComesBack
CHECK_DEADLOCK FALSE
