\* Liveness: two callers and the worker, no cancelled task, one crash.
SPECIFICATION FairSpec
CONSTANTS
  d1 = d1 d2 = d2 c1 = c1 c2 = c2 w = w
  Deliveries = {d1}
  Callers = {c1, c2}
  Worker = w
  NumParts = 2
  PlanSizes = {2}
  Protected = {}
  MaxAttempts = 2
  Outcomes = {"ok", "refused", "timeout", "raised", "silent"}
  Cancellable = {}
  MaxCrashes = 1
PROPERTY ImplementsFairContract
