----------------------------- MODULE Submission -----------------------------
(***************************************************************************)
(* ConversationCoordinator and DurableSubmissionLedger: the one boundary   *)
(* through which every conversation turn is submitted, with its in-memory  *)
(* duplicate cache, per-session queues and workers, the SQLite ledger, and *)
(* the outbox row a durable submission is delivered through.               *)
(*                                                                         *)
(* Every call of submit() is a job, numbered in the order of the calls.    *)
(* ledger and box are SQLite and survive a crash; the rest is memory.      *)
(***************************************************************************)
EXTENDS Integers, Sequences, FiniteSets

CONSTANTS
  Requests,    \* request ids (each with its scope and owner)
  Sessions,
  SessionOf,   \* the session a request is for
  Payloads,    \* what a request id may be submitted with: _submission_identity
  Hashes,
  HashOf,      \* payload_hash: the intent is not part of it
  Durable,     \* requests submitted with durable=True
  Deliver,     \* requests with response mode DELIVER
  Immediate,   \* requests whose text is a command with no BARRIER policy
  MaxJobs,     \* bound on the calls of submit()
  CacheSize,   \* idempotency_cache_size
  MaxCrashes,  \* bound on the crashes explored
  MayClose,    \* close(cancel_pending=True) is explored
  StoreFaults  \* store_final may raise

Jobs == 1 .. MaxJobs

ASSUME RequestsAssumption ==
  /\ SessionOf \in [Requests -> Sessions]
  /\ Durable \subseteq Requests /\ Deliver \subseteq Requests /\ Immediate \subseteq Requests
ASSUME HashAssumption == HashOf \in [Payloads -> Hashes]
ASSUME BoundsAssumption ==
  /\ MaxJobs \in Nat /\ CacheSize \in Nat \ {0} /\ MaxCrashes \in Nat
  /\ MayClose \in BOOLEAN /\ StoreFaults \in BOOLEAN

VARIABLES
  ledger,   \* ledger[r]: status and payload hash of the submission_ledger row
  box,      \* box[r]: the outbox row of r's deterministic delivery id
  phase,    \* of close(): accepting, closing, closed
  awaited,  \* the worker tasks and the immediate jobs close() gathers
  lock,     \* the job that holds _lock across ledger.claim, 0 if none
  memo,     \* _submissions, oldest first, as jobs
  queues,   \* _queues[s]: the job that created the queue object, 0 if none
  items,    \* what each queue object holds
  workers,  \* _workers[s]: the job whose submit() spawned the task, 0 if none
  task,     \* each worker task: its state, its queue object, its current job
  req,      \* the request of each job
  pay,      \* the payload of each job
  stage,    \* where each job stands
  claimed,  \* the ledger row each job's claim returned
  out,      \* each job's outcome: status, whether it has a response, deferral
  future,   \* each job's future
  crashes,
  turns     \* history: the jobs whose turn started, in that order

volatile == <<phase, awaited, lock, memo, queues, items, workers, task, stage, claimed, out, future>>
static == <<req, pay>>
vars == <<ledger, box, phase, awaited, lock, memo, queues, items, workers, task, req, pay,
          stage, claimed, out, future, crashes, turns>>

TerminalRows == {"completed", "delivery_pending", "failed", "cancelled"}
LedgerRows == {"absent", "accepted", "running", "retryable", "conversation_completed"} \cup TerminalRows
Held == {"sending", "resending"}
Outcomes == {"completed", "failed", "cancelled"}

NoOutcome == [status |-> "none", response |-> FALSE, deferred |-> FALSE]
NoTask == [state |-> "none", queue |-> 0, job |-> 0]
NoRow == [status |-> "absent", hash |-> CHOOSE h \in Hashes : TRUE]

Init ==
  /\ ledger = [r \in Requests |-> NoRow]
  /\ box = [r \in Requests |-> "absent"]
  /\ phase = "accepting"
  /\ awaited = {}
  /\ lock = 0
  /\ memo = <<>>
  /\ queues = [s \in Sessions |-> 0]
  /\ items = [j \in Jobs |-> <<>>]
  /\ workers = [s \in Sessions |-> 0]
  /\ task = [w \in Jobs |-> NoTask]
  /\ req = <<>>
  /\ pay = <<>>
  /\ stage = [j \in Jobs |-> "none"]
  /\ claimed = [j \in Jobs |-> "none"]
  /\ out = [j \in Jobs |-> NoOutcome]
  /\ future = [j \in Jobs |-> "none"]
  /\ crashes = 0
  /\ turns = <<>>

-----------------------------------------------------------------------------
(* Derived views of the coordinator's dictionaries. *)

Session(j) == SessionOf[req[j]]
Busy(j) == stage[j] \in {"start", "turn", "persist", "deliver", "sending", "final"}
Done(j) == future[j] \notin {"none", "pending"}
Recorded(r) == {j \in {memo[i] : i \in DOMAIN memo} : req[j] = r}

(* _prune_submissions: above the limit, the oldest finished entries go. *)
Prune(entries, done) ==
  LET excess == Len(entries) - CacheSize
      finished == {i \in DOMAIN entries : entries[i] \in done}
      evicted == {entries[i] : i \in {k \in finished :
                    Cardinality({l \in finished : l <= k}) <= excess}}
  IN  SelectSeq(entries, LAMBDA j : j \notin evicted)

MoveToEnd(entries, j) == Append(SelectSeq(entries, LAMBDA k : k # j), j)

-----------------------------------------------------------------------------
(* submit() *)

NextJob == Len(req) + 1

Called(r, p) ==
  /\ lock = 0
  /\ NextJob \in Jobs
  /\ req' = Append(req, r)
  /\ pay' = Append(pay, p)

Answer(j, o) == future' = [future EXCEPT ![j] = o]

(* Wrong: every submission spawns a worker. *)
AlwaysIdle(s) == TRUE

(* The session has no worker task, or one that is done. *)
WorkerIdle(s) == IF workers[s] = 0 THEN TRUE ELSE task[workers[s]].state = "done"

(* Wrong: the newest submission first. *)
PutFirst(q, j) == [items EXCEPT ![q] = <<j>> \o @]

Put(q, j) == [items EXCEPT ![q] = Append(@, j)]

(* The part of submit() that admits a new submission: an immediate task for *)
(* a non-barrier command, otherwise the session's queue and its worker.     *)
Admit(j, r) ==
  LET s == SessionOf[r]
      q == IF queues[s] = 0 THEN j ELSE queues[s]
  IN /\ Answer(j, "pending")
     /\ memo' = Prune(Append(memo, j), {k \in Jobs : Done(k)} \ {j})
     /\ IF r \in Immediate
        THEN /\ stage' = [stage EXCEPT ![j] = "start"]
             /\ UNCHANGED <<queues, items, workers, task>>
        ELSE /\ stage' = [stage EXCEPT ![j] = "queued"]
             /\ queues' = [queues EXCEPT ![s] = q]
             /\ items' = Put(q, j)
             /\ workers' = [workers EXCEPT ![s] = IF WorkerIdle(s) THEN j ELSE @]
             /\ task' = IF WorkerIdle(s)
                        THEN [task EXCEPT ![j] = [state |-> "created", queue |-> q, job |-> 0]]
                        ELSE task

SubmitRefused(r, p) ==
  /\ Called(r, p)
  /\ phase # "accepting"
  /\ Answer(NextJob, "rejected")
  /\ UNCHANGED <<ledger, box, phase, awaited, lock, memo, queues, items, workers, task, stage,
                 claimed, out, crashes, turns>>

(* A request id in the cache: its future is shared, or the call is rejected. *)
SubmitDuplicate(r, p) ==
  /\ Called(r, p)
  /\ phase = "accepting"
  /\ \E j \in Recorded(r) :
       /\ memo' = MoveToEnd(memo, j)
       /\ Answer(NextJob, IF pay[j] = p THEN "shared" ELSE "rejected")
  /\ UNCHANGED <<ledger, box, phase, awaited, lock, queues, items, workers, task, stage,
                 claimed, out, crashes, turns>>

SubmitPlain(r, p) ==
  /\ Called(r, p)
  /\ phase = "accepting" /\ Recorded(r) = {} /\ r \notin Durable
  /\ Admit(NextJob, r)
  /\ UNCHANGED <<ledger, box, phase, awaited, lock, claimed, out, crashes, turns>>

(* Wrong: a row that is in progress can be taken over as well. *)
RetryableOrActive == {"retryable", "accepted", "running"}

Retryable == {"retryable"}

(* Wrong: an interrupted id may be taken over with another hash. *)
ConflictUnlessRetryable(row, p) == row.hash # HashOf[p] /\ row.status # "retryable"

Conflict(row, p) == row.hash # HashOf[p]

(* claim_submission: insert, or take over a retryable row of equal hash. *)
ClaimKind(row, p) ==
  IF row.status = "absent" THEN "new"
  ELSE IF Conflict(row, p) THEN "conflict"
  ELSE IF row.status \in Retryable THEN "new"
  ELSE CASE row.status = "conversation_completed" -> "resume"
         [] row.status \in TerminalRows -> "cached"
         [] OTHER -> "active"

SubmitDurable(r, p) ==
  /\ Called(r, p)
  /\ phase = "accepting" /\ Recorded(r) = {} /\ r \in Durable
  /\ lock' = NextJob
  /\ claimed' = [claimed EXCEPT ![NextJob] =
       IF ClaimKind(ledger[r], p) = "cached" THEN ledger[r].status ELSE ClaimKind(ledger[r], p)]
  /\ ledger' = IF ClaimKind(ledger[r], p) = "new"
               THEN [ledger EXCEPT ![r] = [status |-> "accepted", hash |-> HashOf[p]]] ELSE ledger
  /\ UNCHANGED <<box, phase, awaited, memo, queues, items, workers, task, stage, out, future,
                 crashes, turns>>

(* The outcome that a terminal row records. *)
Cached(status) == IF status = "delivery_pending" THEN "completed" ELSE status

(* submit() goes on, still under the lock, with what the claim returned. *)
ClaimReturns(j) ==
  /\ lock = j
  /\ lock' = 0
  /\ CASE claimed[j] = "new" -> Admit(j, req[j]) /\ UNCHANGED out
       [] claimed[j] = "resume" ->
            /\ memo' = Append(memo, j)
            /\ stage' = [stage EXCEPT ![j] = "deliver"]
            /\ out' = [out EXCEPT ![j] = [status |-> "completed", response |-> TRUE, deferred |-> FALSE]]
            /\ Answer(j, "pending")
            /\ UNCHANGED <<queues, items, workers, task>>
       [] claimed[j] \in TerminalRows ->
            /\ Answer(j, Cached(claimed[j]))
            /\ memo' = Prune(Append(memo, j), {k \in Jobs : Done(k)} \cup {j})
            /\ UNCHANGED <<queues, items, workers, task, stage, out>>
       [] claimed[j] \in {"active", "conflict"} ->
            /\ Answer(j, IF claimed[j] = "active" THEN "accepted" ELSE "rejected")
            /\ UNCHANGED <<memo, queues, items, workers, task, stage, out>>
  /\ claimed' = [claimed EXCEPT ![j] = IF @ = "resume" THEN @ ELSE "none"]
  /\ UNCHANGED <<ledger, box, phase, awaited, static, crashes, turns>>

(* The ledger raises, or the caller is cancelled while it waits: the row may *)
(* be accepted, and has no job until a restart makes it retryable.          *)
ClaimLost(j) ==
  /\ lock = j
  /\ lock' = 0
  /\ Answer(j, "lost")
  /\ claimed' = [claimed EXCEPT ![j] = "none"]
  /\ UNCHANGED <<ledger, box, phase, awaited, memo, queues, items, workers, task, static, stage,
                 out, crashes, turns>>

(* SubmissionHandle.cancel(): the future is done, the work is not told. *)
CancelHandle(j) ==
  /\ future[j] = "pending"
  /\ Answer(j, "cancelled")
  /\ UNCHANGED <<ledger, box, phase, awaited, lock, memo, queues, items, workers, task, static,
                 stage, claimed, out, crashes, turns>>

-----------------------------------------------------------------------------
(* _run_session: the worker task w of one session. *)

(* queue.get() returns; a cancelled future is skipped. *)
TakeNext(w) ==
  LET q == task[w].queue
      j == Head(items[q])
  IN /\ task[w].state \in {"created", "waiting"}
     /\ items[q] # <<>>
     /\ items' = [items EXCEPT ![q] = Tail(@)]
     /\ IF future[j] = "cancelled"
        THEN /\ stage' = [stage EXCEPT ![j] = "over"]
             /\ task' = [task EXCEPT ![w].state = "leaving"]
        ELSE /\ stage' = [stage EXCEPT ![j] = "start"]
             /\ task' = [task EXCEPT ![w].state = "busy", ![w].job = j]
     /\ UNCHANGED <<ledger, box, phase, awaited, lock, memo, queues, workers, static, claimed, out,
                    future, crashes, turns>>

(* Wrong: the worker leaves after any item. *)
DrainedAlways(w) == TRUE

Drained(w) == items[task[w].queue] = <<>>

(* After an item, under the lock: leave when the queue is empty. *)
LeaveOrLoop(w) ==
  /\ task[w].state = "leaving"
  /\ lock = 0
  /\ IF Drained(w)
     THEN /\ queues' = [queues EXCEPT ![Session(w)] = 0]
          /\ workers' = [workers EXCEPT ![Session(w)] = 0]
          /\ task' = [task EXCEPT ![w].state = "done", ![w].queue = 0]
     ELSE /\ task' = [task EXCEPT ![w].state = "waiting"]
          /\ UNCHANGED <<queues, workers>>
  /\ UNCHANGED <<ledger, box, phase, awaited, lock, memo, items, static, stage, claimed, out,
                 future, crashes, turns>>

-----------------------------------------------------------------------------
(* The pipeline of one job: _execute, _persist_conversation,                *)
(* _apply_response_mode, _safe_persist_final and the future.                *)

SetRow(j, status) ==
  IF req[j] \in Durable THEN [ledger EXCEPT ![req[j]].status = status] ELSE ledger

StartTurn(j) ==
  /\ stage[j] = "start"
  /\ ledger' = SetRow(j, "running")
  /\ stage' = [stage EXCEPT ![j] = "turn"]
  /\ turns' = IF req[j] \in Immediate THEN turns ELSE Append(turns, j)
  /\ UNCHANGED <<box, phase, awaited, lock, memo, queues, items, workers, task, static, claimed,
                 out, future, crashes>>

EndTurn(j, status, response) ==
  /\ stage[j] = "turn"
  /\ out' = [out EXCEPT ![j] = [status |-> status, response |-> response, deferred |-> FALSE]]
  /\ stage' = [stage EXCEPT ![j] = "persist"]
  /\ UNCHANGED <<ledger, box, phase, awaited, lock, memo, queues, items, workers, task, static,
                 claimed, future, crashes, turns>>

PersistConversation(j) ==
  /\ stage[j] = "persist"
  /\ ledger' = IF req[j] \in Deliver /\ out[j].status = "completed" /\ out[j].response
               THEN SetRow(j, "conversation_completed") ELSE ledger
  /\ stage' = [stage EXCEPT ![j] =
       IF req[j] \in Deliver /\ out[j].response THEN "deliver" ELSE "final"]
  /\ UNCHANGED <<box, phase, awaited, lock, memo, queues, items, workers, task, static, claimed,
                 out, future, crashes, turns>>

(* DeliveryService.deliver with the deterministic id: claim the row, or be  *)
(* told DEFERRED when somebody else holds it or it is settled already.      *)
BeginDelivery(j) ==
  LET free == req[j] \notin Durable \/ box[req[j]] \in {"absent", "queued"}
  IN /\ stage[j] = "deliver"
     /\ box' = IF free /\ req[j] \in Durable
               THEN [box EXCEPT ![req[j]] = IF @ = "absent" THEN "sending" ELSE "resending"]
               ELSE box
     /\ stage' = [stage EXCEPT ![j] = IF free THEN "sending" ELSE "final"]
     /\ out' = [out EXCEPT ![j].deferred = ~free]
     /\ UNCHANGED <<ledger, phase, awaited, lock, memo, queues, items, workers, task, static,
                    claimed, future, crashes, turns>>

(* A row whose last attempt finds no adapter fails and is answered DEFERRED; *)
(* only a row that was tried before can be at its last one.                 *)
EndDelivery(j, result, deferred) ==
  /\ stage[j] = "sending"
  /\ result = "queued" => deferred
  /\ result = "delivered" => ~deferred
  /\ result = "undelivered" /\ deferred => req[j] \in Durable /\ box[req[j]] = "resending"
  /\ box' = IF req[j] \in Durable THEN [box EXCEPT ![req[j]] = result] ELSE box
  /\ out' = [out EXCEPT ![j].deferred = deferred,
                        ![j].status = IF result = "undelivered" /\ ~deferred THEN "failed" ELSE @]
  /\ stage' = [stage EXCEPT ![j] = "final"]
  /\ UNCHANGED <<ledger, phase, awaited, lock, memo, queues, items, workers, task, static, claimed,
                 future, crashes, turns>>

(* The last step of a job releases its session's worker. *)
Release(j) ==
  task' = [w \in Jobs |-> IF task[w].state = "busy" /\ task[w].job = j
                          THEN [task[w] EXCEPT !.state = "leaving", !.job = 0] ELSE task[w]]

(* Wrong: the outcome is announced although the ledger has not stored it. *)
ToldAnyway(j, stored) == out[j].status

Told(j, stored) == IF stored \/ req[j] \notin Durable THEN out[j].status ELSE "failed"

FinalRow(j) == IF out[j].deferred THEN "delivery_pending" ELSE out[j].status

StoreFinal(j, stored) ==
  /\ stage[j] = "final"
  /\ stored \/ StoreFaults
  /\ ledger' = IF stored THEN SetRow(j, FinalRow(j)) ELSE ledger
  /\ future' = [future EXCEPT ![j] = IF @ = "pending" THEN Told(j, stored) ELSE @]
  /\ stage' = [stage EXCEPT ![j] = "over"]
  /\ out' = [out EXCEPT ![j] = NoOutcome]
  /\ Release(j)
  /\ UNCHANGED <<box, phase, awaited, lock, memo, queues, items, workers, static, claimed,
                 crashes, turns>>

-----------------------------------------------------------------------------
(* The background DeliveryWorker, close(), and a crash. *)

WorkerRetries(r, result) ==
  /\ box[r] = "queued"
  /\ box' = [box EXCEPT ![r] = result]
  /\ UNCHANGED <<ledger, volatile, static, crashes, turns>>

Cancelled == {j \in Jobs : stage[j] = "queued" /\ future[j] = "pending"}
OffQueue(j) == req[j] \in Immediate \/ claimed[j] = "resume"

(* Wrong: close() waits for the workers only. *)
GatheredWorkers == {workers[s] : s \in Sessions}

Gathered == {workers[s] : s \in Sessions} \cup {j \in 1 .. Len(req) : Busy(j) /\ OffQueue(j)}

Close ==
  /\ MayClose
  /\ lock = 0
  /\ phase = "accepting"
  /\ phase' = "closing"
  /\ items' = [q \in Jobs |-> <<>>]
  /\ future' = [j \in Jobs |-> IF j \in Cancelled THEN "cancelled" ELSE future[j]]
  /\ stage' = [j \in Jobs |-> IF stage[j] = "queued" THEN "over" ELSE stage[j]]
  /\ awaited' = Gathered
  /\ UNCHANGED <<ledger, box, lock, memo, queues, workers, task, static, claimed, out,
                 crashes, turns>>

(* gather() over the workers and the immediate tasks has returned. *)
CloseReturns ==
  /\ phase = "closing"
  /\ \A j \in awaited \ {0} : /\ task[j].state \in {"none", "done"}
                              /\ ~(Busy(j) /\ OffQueue(j))
  /\ phase' = "closed"
  /\ UNCHANGED <<ledger, box, awaited, lock, memo, queues, items, workers, task, static,
                 stage, claimed, out, future, crashes, turns>>

(* Wrong: a conversation that is on record counts as interrupted. *)
InterruptedOrRecorded == {"accepted", "running", "conversation_completed"}

Interrupted == {"accepted", "running"}

CrashRestart ==
  /\ crashes < MaxCrashes
  /\ crashes' = crashes + 1
  /\ ledger' = [r \in Requests |-> IF ledger[r].status \in Interrupted
                                   THEN [ledger[r] EXCEPT !.status = "retryable"] ELSE ledger[r]]
  /\ box' = [r \in Requests |-> IF box[r] \in Held THEN "queued" ELSE box[r]]
  /\ phase' = "accepting"
  /\ awaited' = {}
  /\ lock' = 0
  /\ memo' = <<>>
  /\ queues' = [s \in Sessions |-> 0]
  /\ items' = [j \in Jobs |-> <<>>]
  /\ workers' = [s \in Sessions |-> 0]
  /\ task' = [w \in Jobs |-> NoTask]
  /\ stage' = [j \in Jobs |-> IF j < NextJob THEN "over" ELSE "none"]
  /\ claimed' = [j \in Jobs |-> "none"]
  /\ out' = [j \in Jobs |-> NoOutcome]
  /\ future' = [j \in Jobs |-> IF future[j] = "pending" THEN "lost" ELSE future[j]]
  /\ UNCHANGED <<static, turns>>

-----------------------------------------------------------------------------
Results == {"delivered", "undelivered", "queued"}

Pipeline(j) ==
  \/ StartTurn(j)
  \/ \E status \in Outcomes, response \in BOOLEAN : EndTurn(j, status, response)
  \/ PersistConversation(j)
  \/ BeginDelivery(j)
  \/ \E result \in Results, deferred \in BOOLEAN : EndDelivery(j, result, deferred)
  \/ \E stored \in BOOLEAN : StoreFinal(j, stored)

WorkerTask(w) == TakeNext(w) \/ LeaveOrLoop(w)

Submit ==
  \E r \in Requests, p \in Payloads :
    SubmitRefused(r, p) \/ SubmitDuplicate(r, p) \/ SubmitPlain(r, p) \/ SubmitDurable(r, p)

Next ==
  \/ Submit
  \/ \E j \in Jobs : \/ ClaimReturns(j) \/ ClaimLost(j) \/ CancelHandle(j)
                    \/ Pipeline(j) \/ WorkerTask(j)
  \/ \E r \in Requests, result \in Results : WorkerRetries(r, result)
  \/ Close \/ CloseReturns
  \/ CrashRestart

Spec == Init /\ [][Next]_vars

(* The event loop runs every ready task, turns end and the database answers. *)
Fairness ==
  \A j \in Jobs : WF_vars(ClaimReturns(j)) /\ WF_vars(Pipeline(j)) /\ WF_vars(WorkerTask(j))

FairSpec == Spec /\ Fairness /\ WF_vars(CloseReturns)

-----------------------------------------------------------------------------
Live(w) == task[w].state \in {"created", "waiting", "busy", "leaving"}

(* One session never has two live workers, so its turns never overlap: the  *)
(* worker's exit and submit()'s reuse of it are decided under one lock.     *)
OneWorkerPerSession ==
  \A v, w \in Jobs : Live(v) /\ Live(w) /\ Session(v) = Session(w) => v = w

(* A queued submission always has a live worker that holds its queue: none  *)
(* is put on a queue whose worker has already decided to leave.             *)
NoStrandedJob ==
  \A j \in Jobs : stage[j] = "queued" =>
    \E w \in Jobs : Live(w) /\ \E i \in DOMAIN items[task[w].queue] : items[task[w].queue][i] = j

(* Turns of a session start in the order of the submissions, restarts and   *)
(* replaced workers included.                                               *)
TurnsInOrder ==
  \A a, b \in DOMAIN turns :
    a < b /\ Session(turns[a]) = Session(turns[b]) => turns[a] < turns[b]

TurnsOf(r) == {a \in DOMAIN turns : req[turns[a]] = r}

(* A durable request runs the model at most once per process life, however  *)
(* its handle is cancelled, its cache entry evicted or its id resubmitted.  *)
OneTurnPerLife ==
  \A r \in Durable : Cardinality(TurnsOf(r)) <= 1 + crashes

(* Every turn of a durable request runs what its ledger row records: a      *)
(* payload of another hash never takes over an interrupted id.              *)
TurnsRunTheRecordedPayload ==
  \A r \in Durable : \A a \in TurnsOf(r) : HashOf[pay[turns[a]]] = ledger[r].hash

(* Who was told 'completed' can rely on it: the row is terminal, so a crash *)
(* or a resubmission answers from the ledger.                               *)
CompletedIsDurable ==
  \A j \in 1 .. Len(req) : future[j] = "completed" /\ req[j] \in Durable =>
    /\ ledger[req[j]].status \in TerminalRows
    /\ ledger[req[j]].hash = HashOf[pay[j]]

(* When close() has returned nothing runs and nobody waits for an answer.   *)
ClosedIsQuiet ==
  phase = "closed" => \A j \in Jobs : ~Live(j) /\ ~Busy(j) /\ future[j] # "pending"

Settled(row) == row.status \in {"conversation_completed"} \cup TerminalRows

(* Once the conversation is on record no later submission, resumption or    *)
(* restart runs the model again or reopens the row.                         *)
RecordedNeverReruns ==
  [][\A r \in Durable : Settled(ledger[r]) =>
       /\ Settled(ledger'[r])
       /\ \A a \in DOMAIN turns' \ DOMAIN turns : req[turns'[a]] # r]_vars

(* Every submission that was accepted is answered, or lost in a crash.      *)
EverySubmissionIsAnswered ==
  \A j \in Jobs : future[j] = "pending" ~> future[j] # "pending"

-----------------------------------------------------------------------------
(* What the documents and tests say and the code does not do.               *)

(* docs/plugins.md: another payload under a used id is rejected. payload_hash *)
(* cannot tell two intents apart, so only equal hashes are.                 *)
OnePayloadPerRequest ==
  \A r \in Durable : \A a, b \in TurnsOf(r) : pay[turns[a]] = pay[turns[b]]

(* architecture.md: a submission in progress is reused by its request id.   *)
RunningIsRemembered ==
  \A j \in 1 .. Len(req) : Busy(j) => j \in Recorded(req[j])

(* close() waits for the running work and returns.                          *)
CloseTerminates == phase = "closing" ~> phase # "closing"
=============================================================================
