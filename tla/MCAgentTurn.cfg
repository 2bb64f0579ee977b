\* One turn on a history with a tool batch: every outcome of the model and the
\* tools, a compaction at any request, a steer and a stop at any moment.
SPECIFICATION Spec
CONSTANTS
  MaxIterations = 2
  MaxTries <- OneRetry
  MaxIdentical = 1
  MaxPending = 1
  Compressor = TRUE
  ImageTurns = {1}
  Budgets <- OneBudget
  Earlier <- OneEarlierTurn
  MaxTurns = 1
  MaxSteers = 1
  MaxStops = 1
INVARIANTS TypeOK ModelSeesPairedTools ConsumedSteerReachesModel EndedTurnIsRecorded
PROPERTY TurnEnds
CHECK_DEADLOCK FALSE
