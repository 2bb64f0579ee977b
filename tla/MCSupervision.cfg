\* Owner, operations, recovery and two watch tasks on one generation: three
\* runners, a Worker that dies once.
SPECIFICATION Spec
CONSTANTS
  Policy = "on_failure"
  FailureLimit = 2
  WorkerLimit = 2
  Isolated = TRUE
  Watchers = {w1, w2}
  MaxRunners = 3
  MaxExits = 1
INVARIANTS TypeOK RunsOnlyWhenWanted RunningIsWatched RetiredWorkerStops
SYMMETRY WatcherSymmetry
CHECK_DEADLOCK FALSE
