\* close(cancel_pending=True) against a worker that has not started.
SPECIFICATION FairSpec
CONSTANTS
  ra = ra rb = rb sa = sa pa = pa pb = pb pc = pc
  Requests = {ra}
  Sessions = {sa}
  SessionOf <- OnlyRequest
  Payloads = {pa}
  Hashes = {1, 2}
  HashOf <- OneHash
  Durable = {}
  Deliver = {}
  Immediate = {}
  MaxJobs = 2
  CacheSize = 1
  MaxCrashes = 0
  MayClose = TRUE
  StoreFaults = FALSE
PROPERTY CloseTerminates
CHECK_DEADLOCK FALSE
