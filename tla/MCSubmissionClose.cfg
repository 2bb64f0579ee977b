\* A session, a durable immediate command beside it, and close() at any moment.
SPECIFICATION FairSpec
CONSTANTS
  ra = ra rb = rb sa = sa pa = pa pb = pb pc = pc
  Requests = {ra, rb}
  Sessions = {sa}
  SessionOf <- OneSession
  Payloads = {pa}
  Hashes = {1, 2}
  HashOf <- OneHash
  Durable = {ra}
  Deliver = {ra}
  Immediate = {ra}
  MaxJobs = 3
  CacheSize = 1
  MaxCrashes = 0
  MayClose = TRUE
  StoreFaults = FALSE
INVARIANT ClosedIsQuiet
PROPERTY EverySubmissionIsAnswered
CHECK_DEADLOCK FALSE
