\* Durable and plain submissions of one session, resubmitted across a crash,
\* with a ledger whose final write may fail.
SPECIFICATION Spec
CONSTANTS
  ra = ra rb = rb sa = sa pa = pa pb = pb pc = pc
  Requests = {ra, rb}
  Sessions = {sa}
  SessionOf <- OneSession
  Payloads = {pa, pb, pc}
  Hashes = {1, 2}
  HashOf <- SameHash
  Durable = {ra}
  Deliver = {ra}
  Immediate = {}
  MaxJobs = 3
  CacheSize = 1
  MaxCrashes = 1
  MayClose = FALSE
  StoreFaults = TRUE
INVARIANTS OneWorkerPerSession NoStrandedJob TurnsInOrder OneTurnPerLife
  TurnsRunTheRecordedPayload CompletedIsDurable
PROPERTY RecordedNeverReruns
SYMMETRY IntentSymmetry
CHECK_DEADLOCK FALSE
