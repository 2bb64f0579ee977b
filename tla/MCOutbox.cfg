\* Two callers and the worker share one delivery of up to three parts, planned
\* anew by each round; a crash.
SPECIFICATION Spec
CONSTANTS
  d1 = d1 d2 = d2 c1 = c1 c2 = c2 w = w
  Deliveries = {d1}
  Callers = {c1, c2}
  Worker = w
  NumParts = 3
  PlanSizes = {1, 2, 3}
  Protected = {}
  MaxAttempts = 2
  Outcomes = {"ok", "refused", "timeout", "raised"}
  Cancellable = {c1}
  MaxCrashes = 1
INVARIANTS ExclusiveSender PartsInOrder DuplicatesNeedCrash AnswerIsTrue
PROPERTIES DeliveredIsComplete ImplementsContract
