\* Two batches of three calls over two tools that share a key: questions,
\* answers, expiry, stops, cancellation and cleared grants at any moment.
SPECIFICATION Spec
CONSTANTS
  Tools <- TwoTools
  Keys <- ThreeKeys
  KeysOf <- KeysOfTwo
  Prompt = {"shell"}
  Parallel = {"read"}
  Idempotent = {"read"}
  Ttl = 2
  MaxCalls = 3
  MaxBatches = 2
  MaxTime = 2
  MaxStops = 1
INVARIANTS GrantsAreBacked RefusedNeverRuns
PROPERTY EveryBatchEnds
CHECK_DEADLOCK FALSE
