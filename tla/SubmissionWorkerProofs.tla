---------------------- MODULE SubmissionWorkerProofs ----------------------
(***************************************************************************)
(* Proofs about Submission for any requests, sessions and numbers of jobs  *)
(* and crashes: a session has one worker, no queued job is without one,    *)
(* and the turns of a session start in the order of the submissions.       *)
(***************************************************************************)
EXTENDS Submission, SequenceTheorems, TLAPS

Stages == {"none", "queued", "start", "turn", "persist", "deliver", "sending", "final", "over"}
States == {"none", "created", "waiting", "busy", "leaving", "done"}

TaskRecord == [state : States, queue : Jobs \cup {0}, job : Jobs \cup {0}]

Types ==
  /\ lock \in Jobs \cup {0}
  /\ queues \in [Sessions -> Jobs \cup {0}]
  /\ items \in [Jobs -> Seq(Jobs)]
  /\ workers \in [Sessions -> Jobs \cup {0}]
  /\ task \in [Jobs -> TaskRecord]
  /\ req \in Seq(Requests) /\ Len(req) \in Jobs \cup {0}
  /\ stage \in [Jobs -> Stages]
  /\ turns \in Seq(Jobs)

(* What no call of submit() has reached yet is untouched, and so is the    *)
(* job whose claim is awaited under the lock.                              *)
Fresh(j) == stage[j] = "none" /\ task[j].state = "none" /\ items[j] = <<>>
FreshJobs ==
  /\ \A j \in Jobs : j > Len(req) => Fresh(j)
  /\ lock # 0 => lock = Len(req) /\ Fresh(lock)
  /\ \A a \in DOMAIN turns : turns[a] <= Len(req) /\ stage[turns[a]] # "none"

(* A live worker is the one its session names, and holds its queue.        *)
WorkerOfSession ==
  /\ \A w \in Jobs : Live(w) =>
       w <= Len(req) /\ workers[Session(w)] = w /\ queues[Session(w)] = task[w].queue
  /\ \A s \in Sessions : workers[s] # 0 =>
       Live(workers[s]) /\ Session(workers[s]) = s
  /\ \A s \in Sessions : queues[s] # 0 <=> workers[s] # 0
  /\ \A s \in Sessions : queues[s] # 0 => queues[s] <= Len(req) /\ Session(queues[s]) = s

(* A queue with jobs is the one its session names, and its jobs are those  *)
(* queued, in order.                                                       *)
QueuedInOrder ==
  /\ \A q \in Jobs : items[q] # <<>> => q <= Len(req) /\ queues[Session(q)] = q
  /\ \A q \in Jobs : \A i \in DOMAIN items[q] :
       LET x == items[q][i]
       IN x <= Len(req) /\ stage[x] = "queued" /\ Session(x) = Session(q) /\ req[x] \notin Immediate
  /\ \A q \in Jobs : \A i, k \in DOMAIN items[q] : i < k => items[q][i] < items[q][k]
  /\ \A j \in Jobs : stage[j] = "queued" =>
       queues[Session(j)] # 0 /\ \E i \in DOMAIN items[queues[Session(j)]] : items[queues[Session(j)]][i] = j

(* A job about to start is its worker's, and before all that wait.         *)
Starting(j) == stage[j] = "start" /\ req[j] \notin Immediate
StartsInOrder ==
  \A j \in Jobs : Starting(j) =>
    /\ workers[Session(j)] # 0
    /\ task[workers[Session(j)]].state = "busy" /\ task[workers[Session(j)]].job = j
    /\ \A x \in Jobs : stage[x] = "queued" /\ Session(x) = Session(j) => j < x

(* The turns so far are before all that is still to start.                 *)
ToStart(j) == stage[j] = "queued" \/ Starting(j)
TurnsFirst ==
  \A j \in Jobs, a \in DOMAIN turns :
    ToStart(j) /\ Session(turns[a]) = Session(j) => turns[a] < j

WorkerInv ==
  Types /\ FreshJobs /\ WorkerOfSession /\ QueuedInOrder /\ StartsInOrder /\ TurnsFirst /\ TurnsInOrder

------------------------------------------------------------------------------
(* The claim awaited under the lock has a result *)

Kinds == {"new", "conflict", "resume", "active"} \cup TerminalRows
ClaimKnown ==
  /\ lock \in Jobs \cup {0}
  /\ claimed \in [Jobs -> Kinds \cup {"none"}]
  /\ lock # 0 => claimed[lock] # "none"

(* What each answer of the ledger to a claim says of the row.              *)
LEMMA ClaimKinds ==
  ASSUME NEW row, NEW p
  PROVE  /\ ClaimKind(row, p) \in {"new", "conflict", "resume", "cached", "active"}
         /\ ClaimKind(row, p) = "new" => row.status = "absent" \/ (row.status = "retryable" /\ row.hash = HashOf[p])
         /\ ClaimKind(row, p) = "resume" => row.status = "conversation_completed" /\ row.hash = HashOf[p]
         /\ ClaimKind(row, p) = "cached" => row.status \in TerminalRows /\ row.hash = HashOf[p]
         /\ {"new", "conflict", "resume", "cached", "active", "none"} \cap TerminalRows = {}
  BY DEF ClaimKind, Conflict, Retryable, TerminalRows

LEMMA ClaimStep == ASSUME ClaimKnown, [Next]_vars PROVE ClaimKnown'
<1>1. CASE UNCHANGED <<lock, claimed>>
  BY <1>1 DEF ClaimKnown
<1>2. ASSUME NEW r \in Requests, NEW p \in Payloads, SubmitDurable(r, p) PROVE ClaimKnown'
  <2>1. IF ClaimKind(ledger[r], p) = "cached" THEN ledger[r].status \in TerminalRows
        ELSE ClaimKind(ledger[r], p) \in Kinds
    BY ClaimKinds DEF Kinds
  <2>2. NextJob \in Jobs /\ NextJob # 0
    BY <1>2 DEF SubmitDurable, Called, Jobs
  <2>3. "none" \notin Kinds /\ TerminalRows \subseteq Kinds
    BY DEF Kinds, TerminalRows
  <2>4. QED BY <1>2, <2>1, <2>2, <2>3 DEF SubmitDurable, ClaimKnown
<1>3. ASSUME NEW j \in Jobs, ClaimReturns(j) \/ ClaimLost(j) PROVE ClaimKnown'
  BY <1>3 DEF ClaimReturns, ClaimLost, ClaimKnown
<1>4. CASE CrashRestart
  BY <1>4 DEF CrashRestart, ClaimKnown
<1>5. CASE Submit
  BY <1>1, <1>2, <1>5 DEF Submit, SubmitRefused, SubmitDuplicate, SubmitPlain
<1>6. ASSUME NEW j \in Jobs, CancelHandle(j) \/ Pipeline(j) \/ WorkerTask(j) PROVE ClaimKnown'
  BY <1>1, <1>6 DEF CancelHandle, Pipeline, WorkerTask, StartTurn, EndTurn, PersistConversation,
    BeginDelivery, EndDelivery, StoreFinal, TakeNext, LeaveOrLoop
<1>7. CASE Close \/ CloseReturns \/ UNCHANGED vars
  BY <1>1, <1>7 DEF Close, CloseReturns, vars
<1>8. ASSUME NEW r, NEW result, WorkerRetries(r, result) PROVE ClaimKnown'
  BY <1>1, <1>8 DEF WorkerRetries, volatile
<1>9. QED BY <1>3, <1>4, <1>5, <1>6, <1>7, <1>8 DEF Next

------------------------------------------------------------------------------
(* Steps, by what they do to queues and workers *)

coord == <<lock, queues, items, workers, task, req, stage, turns>>

Calls(r) == NextJob \in Jobs /\ lock = 0 /\ req' = Append(req, r)
Unadmitted == UNCHANGED <<queues, items, workers, task, stage, turns>>

(* A stage later than the start moves on. *)
Later == {"turn", "persist", "deliver", "sending", "final"}
MovesOn(j) ==
  /\ stage[j] \in Later
  /\ \E x \in Later : stage' = [stage EXCEPT ![j] = x]
  /\ UNCHANGED <<lock, queues, items, workers, task, req, turns>>

Returns(j) ==
  /\ lock = j /\ lock' = 0 /\ UNCHANGED <<req, turns>>
  /\ \/ Admit(j, req[j])
     \/ stage' = [stage EXCEPT ![j] = "deliver"] /\ UNCHANGED <<queues, items, workers, task>>
     \/ UNCHANGED <<queues, items, workers, task, stage>>

LEMMA CoordCases ==
  ASSUME ClaimKnown, [Next]_vars
  PROVE  \/ UNCHANGED coord
         \/ \E r \in Requests : Calls(r) /\ Unadmitted /\ lock' \in {0, NextJob}
         \/ \E r \in Requests : Calls(r) /\ Admit(NextJob, r) /\ UNCHANGED <<lock, turns>>
         \/ \E j \in Jobs : Returns(j) \/ MovesOn(j) \/ TakeNext(j) \/ LeaveOrLoop(j) \/ StartTurn(j)
         \/ \E j \in Jobs, stored \in BOOLEAN : StoreFinal(j, stored)
         \/ Close \/ CrashRestart
<1>1. CASE Submit
  <2>1. PICK r \in Requests, p \in Payloads :
          SubmitRefused(r, p) \/ SubmitDuplicate(r, p) \/ SubmitPlain(r, p) \/ SubmitDurable(r, p)
    BY <1>1 DEF Submit
  <2>2. Calls(r)
    BY <2>1 DEF Calls, Called, SubmitRefused, SubmitDuplicate, SubmitPlain, SubmitDurable
  <2>3. CASE SubmitRefused(r, p) \/ SubmitDuplicate(r, p)
    BY <2>2, <2>3 DEF SubmitRefused, SubmitDuplicate, Unadmitted, Calls
  <2>4. CASE SubmitPlain(r, p)
    BY <2>2, <2>4 DEF SubmitPlain
  <2>5. CASE SubmitDurable(r, p)
    BY <2>2, <2>5 DEF SubmitDurable, Unadmitted
  <2>6. QED BY <2>1, <2>3, <2>4, <2>5
<1>2. ASSUME NEW j \in Jobs, ClaimReturns(j) \/ ClaimLost(j) PROVE Returns(j)
  <2>1. CASE ClaimReturns(j)
    <3>1. claimed[j] \in Kinds
      BY <2>1 DEF ClaimKnown, ClaimReturns, Jobs
    <3>2. QED BY <2>1, <3>1 DEF ClaimReturns, Returns, static, Kinds
  <2>2. CASE ClaimLost(j)
    BY <2>2 DEF ClaimLost, Returns, static
  <2>3. QED BY <1>2, <2>1, <2>2
<1>3. ASSUME NEW j \in Jobs, CancelHandle(j) PROVE UNCHANGED coord
  BY <1>3 DEF CancelHandle, coord, static
<1>4. ASSUME NEW j \in Jobs, Pipeline(j)
      PROVE  StartTurn(j) \/ MovesOn(j) \/ \E stored \in BOOLEAN : StoreFinal(j, stored)
  <2>1. ASSUME NEW status, NEW response, EndTurn(j, status, response) PROVE MovesOn(j)
    BY <2>1 DEF EndTurn, MovesOn, Later, static
  <2>2. ASSUME PersistConversation(j) PROVE MovesOn(j)
    BY <2>2 DEF PersistConversation, MovesOn, Later, static
  <2>3. ASSUME BeginDelivery(j) PROVE MovesOn(j)
    BY <2>3 DEF BeginDelivery, MovesOn, Later, static
  <2>4. ASSUME NEW result, NEW deferred, EndDelivery(j, result, deferred) PROVE MovesOn(j)
    BY <2>4 DEF EndDelivery, MovesOn, Later, static
  <2>5. QED BY <1>4, <2>1, <2>2, <2>3, <2>4 DEF Pipeline
<1>5. ASSUME NEW j \in Jobs, WorkerTask(j) PROVE TakeNext(j) \/ LeaveOrLoop(j)
  BY <1>5 DEF WorkerTask
<1>6. ASSUME NEW r, NEW result, WorkerRetries(r, result) PROVE UNCHANGED coord
  BY <1>6 DEF WorkerRetries, coord, static, volatile
<1>7. ASSUME CloseReturns PROVE UNCHANGED coord
  BY <1>7 DEF CloseReturns, coord, static
<1>8. ASSUME UNCHANGED vars PROVE UNCHANGED coord
  BY <1>8 DEF vars, coord
<1>9. QED BY <1>1, <1>2, <1>3, <1>4, <1>5, <1>6, <1>7, <1>8 DEF Next

------------------------------------------------------------------------------
(* Each kind of step keeps the invariant *)

(* req' is req, or one call longer.                                        *)
Longer ==
  /\ req' \in Seq(Requests) /\ Len(req') \in Jobs \cup {0}
  /\ Len(req') \in {Len(req), Len(req) + 1}
  /\ \A i \in 1 .. Len(req) : req'[i] = req[i]

LEMMA CallsLonger ==
  ASSUME WorkerInv, NEW r \in Requests, Calls(r)
  PROVE  Longer /\ Len(req') = NextJob /\ req'[NextJob] = r /\ Fresh(NextJob) /\ lock = 0
  BY DEF WorkerInv, Types, FreshJobs, Calls, Longer, NextJob, Jobs

(* What is known of a call, its session and its request, stays.            *)
LEMMA SessionKept ==
  ASSUME Types, Longer
  PROVE  \A j \in Jobs : j <= Len(req) => j <= Len(req') /\ req'[j] = req[j] /\ Session(j)' = Session(j)
  BY DEF Types, Longer, Session, Jobs

LEMMA SessionTyped ==
  ASSUME Types
  PROVE  \A j \in Jobs : j <= Len(req) => Session(j) \in Sessions /\ workers[Session(j)] \in Jobs \cup {0}
<1>1. \A j \in Jobs : j <= Len(req) => req[j] \in Requests
  BY DEF Types, Jobs
<1>2. QED BY <1>1, RequestsAssumption DEF Session, Types

LEMMA QueueTyped ==
  ASSUME Types
  PROVE  \A q \in Jobs : \A i \in DOMAIN items[q] : items[q] # <<>> /\ items[q][i] \in Jobs
  BY DEF Types

LEMMA CallStep ==
  ASSUME WorkerInv, Longer, Unadmitted, lock' = 0 \/ (lock' = Len(req') /\ Fresh(lock'))
  PROVE  WorkerInv'
<1> USE DEF WorkerInv, Unadmitted
<1>1. \A j \in Jobs : j <= Len(req) => j <= Len(req') /\ req'[j] = req[j] /\ Session(j)' = Session(j)
  BY SessionKept
<1>2. \A j \in Jobs : Live(j) \/ stage[j] # "none" => j <= Len(req)
  BY DEF FreshJobs, Fresh, Live, Types, Jobs
<1>3. Types'
  BY DEF Types, Longer
<1>4. FreshJobs'
  <2>1. \A j \in Jobs : j > Len(req') => Fresh(j)'
    BY DEF FreshJobs, Fresh, Longer, Types, Jobs
  <2>2. lock' # 0 => lock' = Len(req') /\ Fresh(lock)'
    BY DEF Fresh
  <2>3. \A a \in DOMAIN turns : turns[a] <= Len(req') /\ stage[turns[a]] # "none"
    BY <1>1, ElementOfSeq DEF FreshJobs, Types
  <2>4. QED BY <2>1, <2>2, <2>3 DEF FreshJobs
<1>5. WorkerOfSession'
  BY <1>1, <1>2 DEF WorkerOfSession, Live, Types
<1>6. QueuedInOrder'
  <2>1. \A q \in Jobs : items[q] # <<>> => q <= Len(req') /\ queues[Session(q)'] = q
    BY <1>1 DEF QueuedInOrder, Types
  <2>2. \A q \in Jobs : \A i \in DOMAIN items[q] :
          LET x == items[q][i]
          IN x <= Len(req') /\ stage[x] = "queued" /\ Session(x)' = Session(q)' /\ req'[x] \notin Immediate
    BY <1>1, QueueTyped DEF QueuedInOrder
  <2>3. \A j \in Jobs : stage[j] = "queued" =>
          queues[Session(j)'] # 0 /\ \E i \in DOMAIN items[queues[Session(j)']] : items[queues[Session(j)']][i] = j
    BY <1>1, <1>2 DEF QueuedInOrder
  <2>4. QED BY <2>1, <2>2, <2>3 DEF QueuedInOrder
<1>7. StartsInOrder'
  <2>1. \A j \in Jobs : Starting(j)' => Starting(j) /\ Session(j)' = Session(j)
    BY <1>1, <1>2 DEF Starting
  <2>2. QED BY <1>1, <1>2, <2>1 DEF StartsInOrder
<1>8. TurnsFirst' /\ TurnsInOrder'
  <2>1. \A a \in DOMAIN turns : turns[a] \in Jobs /\ Session(turns[a])' = Session(turns[a])
    BY <1>1, ElementOfSeq DEF FreshJobs, Types
  <2>2. \A j \in Jobs : ToStart(j)' => ToStart(j) /\ Session(j)' = Session(j)
    BY <1>1, <1>2 DEF ToStart, Starting
  <2>3. QED BY <2>1, <2>2 DEF TurnsFirst, TurnsInOrder
<1>9. QED BY <1>3, <1>4, <1>5, <1>6, <1>7, <1>8

(* A job that is past its start, or is off the queue, moves to such a      *)
(* stage; its worker may be released.                                      *)
Past == Later \cup {"none", "over"}
LEMMA PastStep ==
  ASSUME WorkerInv, NEW j \in Jobs, j <= Len(req), stage[j] \in Past, NEW x \in Later \cup {"over"},
         stage' = [stage EXCEPT ![j] = x],
         task' = task \/ Release(j),
         lock' = lock \/ lock' = 0, stage[j] = "none" => lock = j /\ lock' = 0,
         UNCHANGED <<queues, items, workers, req, turns>>
  PROVE  WorkerInv'
<1> USE DEF WorkerInv
<1>1. \A w \in Jobs : (Live(w)' <=> Live(w)) /\ task'[w].queue = task[w].queue
                   /\ (task[w].state = "busy" /\ task[w].job # j => task'[w] = task[w])
                   /\ (task[w].state = "none" => task'[w] = task[w])
                   /\ task'[w] \in TaskRecord
  <2>1. CASE task' = task
    BY <2>1 DEF Live, Types
  <2>2. CASE Release(j)
    BY <2>2, Zenon DEF Live, Types, TaskRecord, Release, States
  <2>3. QED BY <2>1, <2>2
<1>2. \A i \in Jobs : (stage'[i] = "queued" <=> stage[i] = "queued")
                   /\ (Starting(i)' <=> Starting(i)) /\ (Starting(i) => i # j)
                   /\ (i > Len(req) => stage'[i] = stage[i])
  BY DEF Types, Starting, Past, Later, Jobs
<1>3. Types'
  BY <1>1 DEF Types, TaskRecord, Stages, Later, Release
<1>4. FreshJobs'
  <2>1. \A i \in Jobs : i > Len(req) => Fresh(i)'
    BY <1>1, <1>2 DEF FreshJobs, Fresh
  <2>2. lock' # 0 => lock' = Len(req) /\ lock' # j /\ Fresh(lock)'
    BY <1>1 DEF FreshJobs, Fresh, Types, Jobs
  <2>3. \A a \in DOMAIN turns : turns[a] \in Jobs
    BY ElementOfSeq DEF Types
  <2>4. \A i \in Jobs : stage[i] # "none" => stage'[i] # "none"
    BY DEF Types, Later
  <2>5. QED BY <2>1, <2>2, <2>3, <2>4 DEF FreshJobs
<1>5. WorkerOfSession'
  BY <1>1 DEF WorkerOfSession, Types, Session
<1>6. QueuedInOrder'
  BY <1>2 DEF QueuedInOrder, Types, Session
<1>7. StartsInOrder'
  <2>1. \A i \in Jobs : Starting(i) => workers[Session(i)] \in Jobs
    BY <1>2, SessionTyped DEF FreshJobs, Fresh, Starting, StartsInOrder, Types, Jobs
  <2>2. QED BY <1>1, <1>2, <2>1 DEF StartsInOrder, Session
<1>8. TurnsFirst' /\ TurnsInOrder'
  BY <1>2 DEF TurnsFirst, ToStart, TurnsInOrder, Session
<1>9. QED BY <1>3, <1>4, <1>5, <1>6, <1>7, <1>8

(* A turn starts.                                                          *)
LEMMA StartStep ==
  ASSUME WorkerInv, NEW j \in Jobs, StartTurn(j)
  PROVE  WorkerInv'
<1> USE DEF WorkerInv
<1>1. /\ stage[j] = "start" /\ stage' = [stage EXCEPT ![j] = "turn"] /\ j <= Len(req)
      /\ UNCHANGED <<lock, queues, items, workers, task, req>>
      /\ turns' = IF req[j] \in Immediate THEN turns ELSE Append(turns, j)
  BY DEF StartTurn, static, FreshJobs, Fresh, Types, Jobs
<1>2. \A i \in Jobs : (stage'[i] = "queued" <=> stage[i] = "queued")
                   /\ (Starting(i)' <=> Starting(i) /\ i # j)
                   /\ (i > Len(req) => stage'[i] = stage[i])
  BY <1>1 DEF Types, Starting, Jobs
<1>3. Types'
  BY <1>1 DEF Types, Stages
<1>4. FreshJobs'
  <2>1. \A i \in Jobs : i > Len(req) => Fresh(i)'
    BY <1>1, <1>2 DEF FreshJobs, Fresh
  <2>2. lock # 0 => lock = Len(req) /\ Fresh(lock)'
    BY <1>1 DEF FreshJobs, Fresh, Types
  <2>3. \A a \in DOMAIN turns' : turns'[a] <= Len(req) /\ stage'[turns'[a]] # "none"
    BY <1>1 DEF FreshJobs, Types
  <2>4. QED BY <1>1, <2>1, <2>2, <2>3 DEF FreshJobs
<1>5. WorkerOfSession'
  BY <1>1 DEF WorkerOfSession, Types, Session, Live
<1>6. QueuedInOrder'
  BY <1>1, <1>2, QueueTyped DEF QueuedInOrder, Session
<1>7. StartsInOrder'
  BY <1>1, <1>2 DEF StartsInOrder, Types, Session
<1>8. TurnsFirst' /\ TurnsInOrder'
  <2>1. CASE req[j] \in Immediate
    BY <1>1, <1>2, <2>1 DEF TurnsFirst, ToStart, TurnsInOrder, Session
  <2>2. CASE req[j] \notin Immediate
    <3>1. Starting(j)
      BY <1>1, <2>2 DEF Starting
    <3>2. \A i \in Jobs : ToStart(i)' /\ Session(i) = Session(j) => j < i
      <4>1. ASSUME NEW i \in Jobs, ToStart(i)', Session(i) = Session(j) PROVE j < i
        <5>1. CASE stage[i] = "queued"
          BY <3>1, <4>1, <5>1 DEF StartsInOrder
        <5>2. CASE Starting(i) /\ i # j
          BY <3>1, <4>1, <5>2 DEF StartsInOrder
        <5>3. QED BY <1>2, <4>1, <5>1, <5>2 DEF ToStart
      <4>2. QED BY <4>1
    <3>3. \A a \in DOMAIN turns : Session(turns[a]) = Session(j) => turns[a] < j
      BY <3>1 DEF TurnsFirst, ToStart
    <3>4. /\ turns \in Seq(Jobs) /\ Len(turns') = Len(turns) + 1 /\ turns'[Len(turns) + 1] = j
          /\ DOMAIN turns' = 1 .. Len(turns) + 1 /\ DOMAIN turns = 1 .. Len(turns)
          /\ \A a \in DOMAIN turns : turns'[a] = turns[a]
      BY <1>1, <2>2 DEF Types
    <3>5. TurnsFirst'
      BY <1>1, <1>2, <3>2, <3>4 DEF TurnsFirst, ToStart, Session
    <3>6. TurnsInOrder'
      BY <1>1, <3>3, <3>4 DEF TurnsInOrder, Session
    <3>7. QED BY <3>5, <3>6
  <2>3. QED BY <2>1, <2>2
<1>9. QED BY <1>3, <1>4, <1>5, <1>6, <1>7, <1>8

(* Close and a crash empty the queues.                                     *)
LEMMA CloseStep ==
  ASSUME WorkerInv, Close
  PROVE  WorkerInv'
<1> USE DEF WorkerInv
<1>1. /\ items' = [q \in Jobs |-> <<>>]
      /\ stage' = [j \in Jobs |-> IF stage[j] = "queued" THEN "over" ELSE stage[j]]
      /\ UNCHANGED <<lock, queues, workers, task, req, turns>>
  BY DEF Close, static
<1>2. \A i \in Jobs : stage'[i] # "queued" /\ (stage[i] # "queued" => stage'[i] = stage[i])
                   /\ (Starting(i)' <=> Starting(i))
  BY <1>1 DEF Types, Starting
<1>3. Types'
  BY <1>1 DEF Types, Stages
<1>4. FreshJobs'
  BY <1>1, <1>2 DEF FreshJobs, Fresh, Types
<1>5. WorkerOfSession'
  BY <1>1 DEF WorkerOfSession, Types, Session, Live
<1>6. QueuedInOrder'
  BY <1>1, <1>2 DEF QueuedInOrder
<1>7. StartsInOrder'
  BY <1>1, <1>2 DEF StartsInOrder, Session
<1>8. TurnsFirst' /\ TurnsInOrder'
  BY <1>1, <1>2 DEF TurnsFirst, ToStart, TurnsInOrder, Session
<1>9. QED BY <1>3, <1>4, <1>5, <1>6, <1>7, <1>8

LEMMA CrashStep ==
  ASSUME WorkerInv, CrashRestart
  PROVE  WorkerInv'
<1> USE DEF WorkerInv
<1>1. /\ items' = [j \in Jobs |-> <<>>] /\ task' = [w \in Jobs |-> NoTask]
      /\ queues' = [s \in Sessions |-> 0] /\ workers' = [s \in Sessions |-> 0] /\ lock' = 0
      /\ stage' = [j \in Jobs |-> IF j < NextJob THEN "over" ELSE "none"]
      /\ UNCHANGED <<req, turns>>
  BY DEF CrashRestart, static
<1>2. \A i \in Jobs : stage'[i] \in {"over", "none"} /\ (i > Len(req) => stage'[i] = "none") /\ ~Live(i)'
  BY <1>1 DEF Types, NextJob, Jobs, Live, NoTask
<1>3. Types'
  BY <1>1 DEF Types, TaskRecord, Stages, States, NoTask
<1>4. FreshJobs'
  <2>1. \A a \in DOMAIN turns : turns[a] \in Jobs /\ turns[a] <= Len(req)
    BY ElementOfSeq DEF FreshJobs, Types
  <2>2. \A i \in Jobs : i <= Len(req) => stage'[i] = "over"
    BY <1>1 DEF Types, NextJob, Jobs
  <2>3. QED BY <1>1, <1>2, <2>1, <2>2 DEF FreshJobs, Fresh, NoTask
<1>5. WorkerOfSession'
  BY <1>1, <1>2 DEF WorkerOfSession
<1>6. QueuedInOrder'
  BY <1>1, <1>2 DEF QueuedInOrder
<1>7. StartsInOrder'
  BY <1>2 DEF StartsInOrder, Starting
<1>8. TurnsFirst' /\ TurnsInOrder'
  BY <1>1, <1>2 DEF TurnsFirst, ToStart, Starting, TurnsInOrder, Session
<1>9. QED BY <1>3, <1>4, <1>5, <1>6, <1>7, <1>8

(* Where a worker stands that is about to take a job or to leave.          *)
LEMMA WorkerPlace ==
  ASSUME WorkerInv, NEW w \in Jobs, Live(w), task[w].state # "busy"
  PROVE  /\ w <= Len(req) /\ Session(w) \in Sessions /\ workers[Session(w)] = w
         /\ task[w].queue \in Jobs /\ queues[Session(w)] = task[w].queue
         /\ task[w].queue <= Len(req) /\ Session(task[w].queue) = Session(w)
         /\ \A i \in Jobs : Starting(i) => Session(i) # Session(w) /\ workers[Session(i)] \in Jobs \ {w}
         /\ \A v \in Jobs : Live(v) /\ v # w => Session(v) # Session(w)
<1> USE DEF WorkerInv
<1>1. w <= Len(req) /\ workers[Session(w)] = w /\ queues[Session(w)] = task[w].queue
  BY DEF WorkerOfSession
<1>2. Session(w) \in Sessions
  BY <1>1, SessionTyped
<1>3. queues[Session(w)] # 0 /\ queues[Session(w)] \in Jobs
  BY <1>1, <1>2 DEF WorkerOfSession, Types, Jobs
<1>4. \A i \in Jobs : Starting(i) => Session(i) # Session(w) /\ workers[Session(i)] \in Jobs \ {w}
  <2>1. ASSUME NEW i \in Jobs, Starting(i)
        PROVE  Session(i) # Session(w) /\ workers[Session(i)] \in Jobs \ {w}
    <3>1. i <= Len(req)
      BY <2>1 DEF Starting, FreshJobs, Fresh, Types, Jobs
    <3>2. workers[Session(i)] \in Jobs
      BY <2>1, <3>1, SessionTyped DEF StartsInOrder
    <3>3. workers[Session(i)] # w
      BY <2>1 DEF StartsInOrder
    <3>4. QED BY <1>1, <3>2, <3>3
  <2>2. QED BY <2>1
<1>5. QED BY <1>1, <1>2, <1>3, <1>4 DEF WorkerOfSession

LEMMA TaskTyped ==
  ASSUME Types, NEW w \in Jobs, NEW x \in States, NEW y \in Jobs \cup {0}
  PROVE  /\ [task EXCEPT ![w].state = x] \in [Jobs -> TaskRecord]
         /\ [task EXCEPT ![w].state = x, ![w].job = y] \in [Jobs -> TaskRecord]
         /\ [task EXCEPT ![w].state = x, ![w].queue = y] \in [Jobs -> TaskRecord]
<1>1. task \in [Jobs -> TaskRecord] /\ task[w] \in TaskRecord
  BY DEF Types
<1>2. /\ [task[w] EXCEPT !.state = x] \in TaskRecord
      /\ [task[w] EXCEPT !.state = x, !.job = y] \in TaskRecord
      /\ [task[w] EXCEPT !.state = x, !.queue = y] \in TaskRecord
  BY <1>1 DEF TaskRecord
<1>3. /\ [task EXCEPT ![w].state = x] = [task EXCEPT ![w] = [task[w] EXCEPT !.state = x]]
      /\ [task EXCEPT ![w].state = x, ![w].job = y] = [task EXCEPT ![w] = [task[w] EXCEPT !.state = x, !.job = y]]
      /\ [task EXCEPT ![w].state = x, ![w].queue = y] = [task EXCEPT ![w] = [task[w] EXCEPT !.state = x, !.queue = y]]
  BY <1>1 DEF TaskRecord
<1>4. QED BY <1>1, <1>2, <1>3

LEMMA TakeStep ==
  ASSUME WorkerInv, NEW w \in Jobs, TakeNext(w)
  PROVE  WorkerInv'
<1> USE DEF WorkerInv
<1>0. PICK q \in Jobs, j \in Jobs : q = task[w].queue /\ items[q] # <<>> /\ j = Head(items[q])
  <2>1. task[w].queue \in Jobs /\ items[task[w].queue] # <<>>
    BY WorkerPlace DEF TakeNext, Live
  <2>2. Head(items[task[w].queue]) \in Jobs
    BY <2>1 DEF Types
  <2>3. QED BY <2>1, <2>2
<1>1. /\ task[w].state \in {"created", "waiting"} /\ items[q] # <<>>
      /\ items' = [items EXCEPT ![q] = Tail(@)]
      /\ UNCHANGED <<lock, queues, workers, req, turns>>
      /\ \/ /\ stage' = [stage EXCEPT ![j] = "over"]
            /\ task' = [task EXCEPT ![w].state = "leaving"]
         \/ /\ stage' = [stage EXCEPT ![j] = "start"]
            /\ task' = [task EXCEPT ![w].state = "busy", ![w].job = j]
  BY <1>0 DEF TakeNext, static
<1>2. /\ Live(w) /\ w <= Len(req) /\ Session(w) \in Sessions /\ workers[Session(w)] = w
      /\ queues[Session(w)] = q /\ q <= Len(req) /\ Session(q) = Session(w)
      /\ \A i \in Jobs : Starting(i) => Session(i) # Session(w) /\ workers[Session(i)] \in Jobs \ {w}
  BY <1>0, <1>1, WorkerPlace DEF Live
<1>3. /\ items[q] \in Seq(Jobs) /\ 1 \in DOMAIN items[q] /\ j = items[q][1]
  BY <1>0 DEF Types
<1>4. /\ j <= Len(req) /\ stage[j] = "queued"
      /\ Session(j) = Session(w) /\ req[j] \notin Immediate
  BY <1>2, <1>3 DEF QueuedInOrder, Types
<1>5. (\A i \in Jobs \ {j} : stage'[i] = stage[i]) /\ \A x \in Jobs : Session(x)' = Session(x)
  BY <1>1 DEF Types, Session
<1>6. stage'[j] \in {"over", "start"} /\ (stage'[j] = "start" => task'[w].state = "busy" /\ task'[w].job = j)
  BY <1>1, <1>4 DEF Types, TaskRecord
<1>7. \A v \in Jobs : (Live(v)' <=> Live(v)) /\ task'[v].queue = task[v].queue
                   /\ (v # w => task'[v] = task[v])
  BY <1>1, <1>2 DEF Live, Types, TaskRecord
<1>18. task' \in [Jobs -> TaskRecord]
  <2>1. "leaving" \in States /\ "busy" \in States /\ j \in Jobs \cup {0} /\ Types
    BY DEF States
  <2>2. [task EXCEPT ![w].state = "leaving"] \in [Jobs -> TaskRecord]
    BY <2>1, TaskTyped
  <2>3. [task EXCEPT ![w].state = "busy", ![w].job = j] \in [Jobs -> TaskRecord]
    BY <2>1, TaskTyped
  <2>4. QED BY <1>1, <2>2, <2>3
<1>8. /\ \A k \in DOMAIN items'[q] : k + 1 \in DOMAIN items[q] /\ items'[q][k] = items[q][k + 1]
      /\ \A k \in DOMAIN items[q] : k # 1 => k - 1 \in DOMAIN items'[q] /\ items'[q][k - 1] = items[q][k]
      /\ \A p \in Jobs \ {q} : items'[p] = items[p]
      /\ items'[q] \in Seq(Jobs) /\ DOMAIN items'[q] \subseteq Nat /\ DOMAIN items[q] \subseteq Nat
  <2>1. items'[q] = Tail(items[q]) /\ \A p \in Jobs \ {q} : items'[p] = items[p]
    BY <1>1, <1>2 DEF Types
  <2>2. Tail(items[q]) \in Seq(Jobs) /\ Len(Tail(items[q])) = Len(items[q]) - 1
        /\ \A k \in 1 .. Len(items[q]) - 1 : Tail(items[q])[k] = items[q][k + 1]
    BY <1>1, <1>3
  <2>3. QED BY <1>3, <2>1, <2>2
<1>9. Types'
  <2>1. items' \in [Jobs -> Seq(Jobs)]
    BY <1>1, <1>8 DEF Types
  <2>2. stage' \in [Jobs -> Stages]
    BY <1>1 DEF Types, Stages
  <2>3. QED BY <1>1, <1>18, <2>1, <2>2 DEF Types
<1>10. FreshJobs'
  <2>1. \A i \in Jobs : Fresh(i) => Fresh(i)'
    BY <1>1, <1>2, <1>4, <1>5, <1>7, <1>8 DEF Fresh, Live
  <2>2. QED BY <1>1, <2>1 DEF FreshJobs, Types
<1>11. WorkerOfSession'
  BY <1>1, <1>7 DEF WorkerOfSession, Session, Types
<1>12. \A p \in Jobs : \A i \in DOMAIN items'[p] :
         \E k \in DOMAIN items[p] : items[p][k] = items'[p][i] /\ items[p][k] # j /\ items[p][k] \in Jobs
                                /\ (p = q => k = i + 1) /\ (p # q => k = i)
  <2>1. ASSUME NEW i \in DOMAIN items'[q] PROVE items[q][i + 1] # j
    <3>1. i + 1 \in DOMAIN items[q] /\ 1 < i + 1
      BY <1>3, <1>8, <2>1
    <3>2. j < items[q][i + 1]
      BY <1>2, <1>3, <3>1 DEF QueuedInOrder
    <3>3. QED BY <1>4, <3>2 DEF Jobs
  <2>2. ASSUME NEW p \in Jobs \ {q}, NEW i \in DOMAIN items[p] PROVE items[p][i] # j
    <3>1. items[p] # <<>>
      BY <2>2, QueueTyped
    <3>2. Session(items[p][i]) = Session(p) /\ queues[Session(p)] = p
      BY <2>2, <3>1 DEF QueuedInOrder
    <3>3. QED BY <1>2, <1>4, <3>2
  <2>3. ASSUME NEW p \in Jobs, NEW i \in DOMAIN items'[p]
        PROVE  \E k \in DOMAIN items[p] : items[p][k] = items'[p][i] /\ items[p][k] # j /\ items[p][k] \in Jobs
                                       /\ (p = q => k = i + 1) /\ (p # q => k = i)
    <3>1. CASE p = q
      <4>1. i + 1 \in DOMAIN items[q] /\ items'[q][i] = items[q][i + 1] /\ items[q][i + 1] \in Jobs
        BY <1>8, <2>3, <3>1, QueueTyped
      <4>2. QED BY <2>1, <2>3, <3>1, <4>1
    <3>2. CASE p # q
      BY <1>8, <2>2, <2>3, <3>2, QueueTyped
    <3>3. QED BY <3>1, <3>2
  <2>4. QED BY <2>3
<1>13. \A i \in Jobs : stage'[i] = "queued" => stage[i] = "queued" /\ i # j
  BY <1>5, <1>6
<1>14. QueuedInOrder'
  <2>1. \A p \in Jobs : items'[p] # <<>> => p <= Len(req) /\ queues[Session(p)] = p
    BY <1>2, <1>8 DEF QueuedInOrder
  <2>2. \A p \in Jobs : \A i \in DOMAIN items'[p] :
          LET x == items'[p][i]
          IN x <= Len(req) /\ stage'[x] = "queued" /\ Session(x) = Session(p) /\ req[x] \notin Immediate
    BY <1>5, <1>12 DEF QueuedInOrder
  <2>3. \A p \in Jobs : \A i, k \in DOMAIN items'[p] : i < k => items'[p][i] < items'[p][k]
    <3>1. ASSUME NEW i \in DOMAIN items'[q], NEW k \in DOMAIN items'[q], i < k
          PROVE  items'[q][i] < items'[q][k]
      <4>1. i + 1 \in DOMAIN items[q] /\ k + 1 \in DOMAIN items[q] /\ i + 1 < k + 1
        BY <1>8, <3>1
      <4>2. items[q][i + 1] < items[q][k + 1]
        BY <1>2, <4>1 DEF QueuedInOrder
      <4>3. QED BY <1>8, <4>2
    <3>2. ASSUME NEW p \in Jobs \ {q}, NEW i \in DOMAIN items'[p], NEW k \in DOMAIN items'[p], i < k
          PROVE  items'[p][i] < items'[p][k]
      BY <1>8, <3>2 DEF QueuedInOrder
    <3>3. QED BY <3>1, <3>2
  <2>4. ASSUME NEW i \in Jobs, stage'[i] = "queued"
        PROVE  queues[Session(i)] # 0 /\ \E k \in DOMAIN items'[queues[Session(i)]] : items'[queues[Session(i)]][k] = i
    <3>1. stage[i] = "queued" /\ i # j
      BY <1>13, <2>4
    <3>2. queues[Session(i)] # 0 /\ \E k \in DOMAIN items[queues[Session(i)]] : items[queues[Session(i)]][k] = i
      BY <3>1 DEF QueuedInOrder
    <3>3. PICK k \in DOMAIN items[queues[Session(i)]] : items[queues[Session(i)]][k] = i
      BY <3>2
    <3>4. CASE queues[Session(i)] = q
      <4>1. k # 1 /\ k - 1 \in DOMAIN items'[q] /\ items'[q][k - 1] = i
        BY <1>3, <1>8, <3>1, <3>3, <3>4
      <4>2. QED BY <3>2, <3>4, <4>1
    <3>5. CASE queues[Session(i)] # q
      <4>1. i <= Len(req)
        BY <3>1 DEF FreshJobs, Fresh, Types, Jobs
      <4>2. queues[Session(i)] \in Jobs
        BY <3>2, <4>1, SessionTyped DEF Types
      <4>3. QED BY <1>8, <3>2, <3>5, <4>2
    <3>6. QED BY <3>4, <3>5
  <2>5. \A p \in Jobs : \A i \in DOMAIN items'[p] : items'[p][i] \in Jobs
    BY <1>12
  <2>6. QED BY <1>1, <1>5, <2>1, <2>2, <2>3, <2>4, <2>5 DEF QueuedInOrder
<1>15. StartsInOrder'
  <2>1. ASSUME NEW i \in Jobs, Starting(i)', i # j
        PROVE  /\ workers[Session(i)] # 0
               /\ task'[workers[Session(i)]].state = "busy" /\ task'[workers[Session(i)]].job = i
               /\ \A x \in Jobs : stage'[x] = "queued" /\ Session(x) = Session(i) => i < x
    <3>1. Starting(i)
      BY <1>1, <1>5, <2>1 DEF Starting
    <3>2. workers[Session(i)] \in Jobs \ {w}
      BY <1>2, <3>1
    <3>3. QED BY <1>7, <1>13, <3>1, <3>2 DEF StartsInOrder
  <2>2. ASSUME Starting(j)'
        PROVE  \A x \in Jobs : stage'[x] = "queued" /\ Session(x) = Session(j) => j < x
    <3>1. ASSUME NEW x \in Jobs, stage'[x] = "queued", Session(x) = Session(j) PROVE j < x
      <4>1. stage[x] = "queued" /\ x # j
        BY <1>13, <3>1
      <4>2. \E k \in DOMAIN items[q] : items[q][k] = x
        BY <1>2, <1>4, <3>1, <4>1 DEF QueuedInOrder
      <4>3. PICK k \in DOMAIN items[q] : items[q][k] = x
        BY <4>2
      <4>4. 1 < k
        BY <1>3, <4>1, <4>3
      <4>5. QED BY <1>2, <1>3, <4>3, <4>4 DEF QueuedInOrder
    <3>2. QED BY <3>1
  <2>3. Starting(j)' => workers[Session(j)] = w /\ w # 0 /\ task'[w].state = "busy" /\ task'[w].job = j
    BY <1>2, <1>4, <1>6 DEF Starting, Jobs
  <2>4. QED BY <1>1, <1>4, <1>5, <2>1, <2>2, <2>3 DEF StartsInOrder
<1>16. TurnsFirst' /\ TurnsInOrder'
  <2>1. \A i \in Jobs : ToStart(i)' => ToStart(i)
    BY <1>1, <1>4, <1>5, <1>6 DEF ToStart, Starting
  <2>2. QED BY <1>1, <2>1 DEF TurnsFirst, TurnsInOrder, Session
<1>17. QED BY <1>9, <1>10, <1>11, <1>14, <1>15, <1>16

LEMMA LeaveStep ==
  ASSUME WorkerInv, NEW w \in Jobs, LeaveOrLoop(w)
  PROVE  WorkerInv'
<1> USE DEF WorkerInv
<1> DEFINE q == task[w].queue
           s == Session(w)
<1>1. /\ task[w].state = "leaving" /\ UNCHANGED <<lock, items, req, stage, turns>>
      /\ IF Drained(w)
         THEN /\ queues' = [queues EXCEPT ![s] = 0] /\ workers' = [workers EXCEPT ![s] = 0]
              /\ task' = [task EXCEPT ![w].state = "done", ![w].queue = 0]
         ELSE task' = [task EXCEPT ![w].state = "waiting"] /\ UNCHANGED <<queues, workers>>
  BY DEF LeaveOrLoop, static
<1>2. /\ Live(w) /\ w <= Len(req) /\ s \in Sessions /\ workers[s] = w
      /\ q \in Jobs /\ queues[s] = q /\ q <= Len(req) /\ Session(q) = s
      /\ \A i \in Jobs : Starting(i) => Session(i) # s /\ workers[Session(i)] \in Jobs \ {w}
      /\ \A v \in Jobs : Live(v) /\ v # w => Session(v) # s
  BY <1>1, WorkerPlace DEF Live
<1>3. \A v \in Jobs \ {w} : task'[v] = task[v]
  BY <1>1 DEF Types
<1>4. Types'
  <2>1. task' \in [Jobs -> TaskRecord]
    <3>1. "waiting" \in States /\ "done" \in States /\ 0 \in Jobs \cup {0} /\ Types
      BY DEF States
    <3>2. [task EXCEPT ![w].state = "waiting"] \in [Jobs -> TaskRecord]
      BY <3>1, TaskTyped
    <3>3. [task EXCEPT ![w].state = "done", ![w].queue = 0] \in [Jobs -> TaskRecord]
      BY <3>1, TaskTyped
    <3>4. QED BY <1>1, <3>2, <3>3
  <2>2. queues' \in [Sessions -> Jobs \cup {0}] /\ workers' \in [Sessions -> Jobs \cup {0}]
    BY <1>1 DEF Types
  <2>3. QED BY <1>1, <2>1, <2>2 DEF Types
<1>5. FreshJobs'
  <2>1. \A i \in Jobs : Fresh(i) => Fresh(i)'
    BY <1>1, <1>3 DEF Fresh
  <2>2. QED BY <1>1, <2>1 DEF FreshJobs, Types
<1>6. TurnsFirst' /\ TurnsInOrder'
  BY <1>1 DEF TurnsFirst, ToStart, Starting, TurnsInOrder, Session
<1>7. CASE ~Drained(w)
  <2>1. task'[w].state = "waiting" /\ task'[w].queue = q /\ queues' = queues /\ workers' = workers
    BY <1>1, <1>7 DEF Types, TaskRecord
  <2>2. \A v \in Jobs : (Live(v)' <=> Live(v)) /\ task'[v].queue = task[v].queue
    BY <1>2, <1>3, <2>1 DEF Live
  <2>3. WorkerOfSession'
    BY <1>1, <2>1, <2>2 DEF WorkerOfSession, Session, Types
  <2>4. QueuedInOrder'
    BY <1>1, <2>1 DEF QueuedInOrder, Session
  <2>5. StartsInOrder'
    BY <1>1, <1>2, <1>3, <2>1 DEF StartsInOrder, Starting, Session
  <2>6. QED BY <1>4, <1>5, <1>6, <2>3, <2>4, <2>5
<1>8. CASE Drained(w)
  <2>1. items[q] = <<>>
    BY <1>8 DEF Drained
  <2>2. /\ queues' = [queues EXCEPT ![s] = 0] /\ workers' = [workers EXCEPT ![s] = 0]
        /\ task'[w].state = "done"
    BY <1>1, <1>8 DEF Types, TaskRecord
  <2>3. \A v \in Jobs : Live(v)' <=> Live(v) /\ v # w
    BY <1>3, <2>2 DEF Live
  <2>4. /\ \A i \in Sessions \ {s} : queues'[i] = queues[i] /\ workers'[i] = workers[i]
        /\ queues'[s] = 0 /\ workers'[s] = 0
    BY <1>2, <2>2 DEF Types
  <2>5. WorkerOfSession'
    <3>1. \A v \in Jobs : Live(v)' =>
            v <= Len(req) /\ workers'[Session(v)] = v /\ queues'[Session(v)] = task'[v].queue
      BY <1>2, <1>3, <2>3, <2>4, SessionTyped DEF WorkerOfSession
    <3>2. \A i \in Sessions : workers'[i] # 0 => Live(workers[i])' /\ Session(workers'[i]) = i
      <4>1. ASSUME NEW i \in Sessions, workers'[i] # 0
            PROVE  workers'[i] = workers[i] /\ workers[i] \in Jobs \ {w} /\ Live(workers[i]) /\ Session(workers[i]) = i
        BY <1>2, <2>4, <4>1 DEF WorkerOfSession, Types
      <4>2. QED BY <1>3, <4>1 DEF Live
    <3>3. QED BY <1>1, <2>4, <3>1, <3>2 DEF WorkerOfSession, Session
  <2>6. QueuedInOrder'
    <3>1. \A p \in Jobs : items[p] # <<>> => p <= Len(req) /\ queues'[Session(p)] = p
      BY <1>2, <2>1, <2>4, SessionTyped DEF QueuedInOrder
    <3>2. \A i \in Jobs : stage[i] = "queued" => i <= Len(req) /\ Session(i) \in Sessions
      BY SessionTyped DEF FreshJobs, Fresh, Types, Jobs
    <3>3. \A i \in Jobs : stage[i] = "queued" => Session(i) # s
      BY <1>2, <2>1 DEF QueuedInOrder
    <3>4. \A i \in Jobs : stage[i] = "queued" => queues'[Session(i)] = queues[Session(i)]
      BY <2>4, <3>2, <3>3
    <3>5. QED BY <1>1, <3>1, <3>4 DEF QueuedInOrder, Session
  <2>7. StartsInOrder'
    <3>1. \A i \in Jobs : Starting(i) => Session(i) \in Sessions
      BY SessionTyped DEF Starting, FreshJobs, Fresh, Types, Jobs
    <3>2. QED BY <1>1, <1>2, <1>3, <2>4, <3>1 DEF StartsInOrder, Starting, Session
  <2>8. QED BY <1>4, <1>5, <1>6, <2>5, <2>6, <2>7
<1>9. QED BY <1>7, <1>8

(* A new submission is admitted: it is later than all others.              *)
LEMMA AdmitStep ==
  ASSUME WorkerInv, Longer, NEW j \in Jobs, j = Len(req'), Fresh(j),
         Admit(j, req'[j]), lock' = 0, UNCHANGED turns
  PROVE  WorkerInv'
<1> USE DEF WorkerInv
<1>1. \A i \in Jobs : i <= Len(req) => i <= Len(req') /\ req'[i] = req[i] /\ Session(i)' = Session(i)
  BY SessionKept
<1>2. \A i \in Jobs : Live(i) \/ stage[i] # "none" \/ items[i] # <<>> => i <= Len(req) /\ i < j
  BY DEF FreshJobs, Fresh, Live, Types, Longer, Jobs
<1>3. \A a \in DOMAIN turns : turns[a] \in Jobs /\ turns[a] <= Len(req) /\ turns[a] < j
  BY <1>2, ElementOfSeq DEF FreshJobs, Types
<1>4. PICK s \in Sessions : s = SessionOf[req'[j]] /\ Session(j)' = s
  BY RequestsAssumption DEF Longer, Session, Jobs
<1>5. PICK q \in Jobs : q = IF queues[s] = 0 THEN j ELSE queues[s]
  BY <1>4 DEF Types
<1>6. queues[s] = 0 <=> WorkerIdle(s)
  <2>1. workers[s] # 0 => Live(workers[s]) /\ task[workers[s]].state # "done"
    BY <1>4 DEF WorkerOfSession, Live
  <2>2. QED BY <1>4, <2>1 DEF WorkerIdle, WorkerOfSession
<1>7. \A i \in Jobs : i > Len(req') => Fresh(i) /\ i # j /\ i # q
  BY <1>5, <1>2 DEF FreshJobs, Types, Longer, WorkerOfSession, Jobs
<1>8. TurnsInOrder'
  BY <1>1, <1>3 DEF TurnsInOrder
<1>9. CASE req'[j] \in Immediate
  <2>1. stage' = [stage EXCEPT ![j] = "start"] /\ UNCHANGED <<queues, items, workers, task>>
    BY <1>9 DEF Admit
  <2>2. \A i \in Jobs : (stage'[i] = "queued" <=> stage[i] = "queued") /\ (Starting(i)' => Starting(i))
                     /\ (i # j => stage'[i] = stage[i]) /\ stage'[j] = "start"
    BY <1>1, <1>2, <1>9, <2>1 DEF Types, Starting, Fresh
  <2>3. Types'
    BY <2>1 DEF Types, Stages, Longer
  <2>4. FreshJobs'
    BY <1>1, <1>3, <1>7, <2>1, <2>2 DEF FreshJobs, Fresh
  <2>5. WorkerOfSession'
    BY <1>1, <1>2, <2>1 DEF WorkerOfSession, Live, Types
  <2>6. QueuedInOrder'
    <3>1. \A p \in Jobs : items[p] # <<>> => p <= Len(req') /\ queues[Session(p)'] = p
      BY <1>1 DEF QueuedInOrder, Types
    <3>2. \A p \in Jobs : \A i \in DOMAIN items[p] : \A x \in Jobs : x = items[p][i] =>
            x <= Len(req') /\ stage'[x] = "queued" /\ Session(x)' = Session(p)' /\ req'[x] \notin Immediate
      BY <1>1, <2>2, QueueTyped DEF QueuedInOrder
    <3>3. \A i \in Jobs : stage'[i] = "queued" =>
            queues[Session(i)'] # 0 /\ \E k \in DOMAIN items[queues[Session(i)']] : items[queues[Session(i)']][k] = i
      BY <1>1, <1>2, <2>2 DEF QueuedInOrder
    <3>4. QED BY <2>1, <3>1, <3>2, <3>3, QueueTyped DEF QueuedInOrder, Session
  <2>7. StartsInOrder'
    <3>1. \A i \in Jobs : Starting(i)' => Starting(i) /\ Session(i)' = Session(i)
      BY <1>1, <1>2, <2>2 DEF Starting
    <3>2. \A i \in Jobs : stage'[i] = "queued" => stage[i] = "queued" /\ Session(i)' = Session(i)
      BY <1>1, <1>2, <2>2
    <3>3. QED BY <2>1, <3>1, <3>2 DEF StartsInOrder
  <2>8. TurnsFirst'
    <3>1. \A i \in Jobs : ToStart(i)' => ToStart(i) /\ Session(i)' = Session(i)
      BY <1>1, <1>2, <2>2 DEF ToStart, Starting
    <3>2. QED BY <1>1, <1>3, <3>1 DEF TurnsFirst
  <2>9. QED BY <1>8, <2>3, <2>4, <2>5, <2>6, <2>7, <2>8
<1>10. CASE req'[j] \notin Immediate
  <2>1. /\ stage' = [stage EXCEPT ![j] = "queued"]
        /\ queues' = [queues EXCEPT ![s] = q]
        /\ items' = [items EXCEPT ![q] = Append(@, j)]
        /\ workers' = [workers EXCEPT ![s] = IF queues[s] = 0 THEN j ELSE @]
        /\ task' = IF queues[s] = 0 THEN [task EXCEPT ![j] = [state |-> "created", queue |-> q, job |-> 0]]
                   ELSE task
    BY <1>4, <1>5, <1>6, <1>10 DEF Admit, Put
  <2>2. /\ \A i \in Jobs : i # j => stage'[i] = stage[i]
        /\ stage'[j] = "queued" /\ stage[j] = "none"
        /\ \A t \in Sessions \ {s} : queues'[t] = queues[t] /\ workers'[t] = workers[t]
        /\ queues'[s] = q /\ q # 0 /\ (queues[s] # 0 => queues' = queues /\ workers' = workers)
        /\ (queues[s] = 0 => workers'[s] = j)
    BY <1>4, <1>5, <2>1 DEF Types, Fresh, Jobs
  <2>3. /\ items[q] \in Seq(Jobs) /\ items'[q] = Append(items[q], j) /\ items'[q] \in Seq(Jobs)
        /\ DOMAIN items'[q] = DOMAIN items[q] \cup {Len(items[q]) + 1}
        /\ \A k \in DOMAIN items[q] : items'[q][k] = items[q][k] /\ k < Len(items[q]) + 1 /\ k \in Nat
        /\ items'[q][Len(items[q]) + 1] = j
        /\ \A p \in Jobs \ {q} : items'[p] = items[p]
    BY <2>1 DEF Types
  <2>4. \A v \in Jobs : (v # j => task'[v] = task[v]) /\ (queues[s] # 0 => task'[v] = task[v])
                     /\ (Live(v)' <=> Live(v) \/ (v = j /\ queues[s] = 0))
                     /\ (queues[s] = 0 => task'[j].queue = q /\ q = j)
    BY <1>5, <2>1 DEF Types, TaskRecord, Live
  <2>5. \A i \in Jobs : Starting(i)' <=> Starting(i)
    BY <1>1, <1>2, <2>2 DEF Starting, Fresh
  <2>6. Types'
    <3>1. [state |-> "created", queue |-> q, job |-> 0] \in TaskRecord
      BY DEF TaskRecord, States
    <3>2. task' \in [Jobs -> TaskRecord]
      BY <2>1, <3>1 DEF Types
    <3>3. items' \in [Jobs -> Seq(Jobs)]
      BY <2>1, <2>3 DEF Types
    <3>4. stage' \in [Jobs -> Stages]
      BY <2>1 DEF Types, Stages
    <3>5. QED BY <1>4, <2>1, <3>2, <3>3, <3>4 DEF Types, Longer
  <2>7. FreshJobs'
    <3>1. \A i \in Jobs : i > Len(req') => Fresh(i)'
      BY <1>7, <2>2, <2>3, <2>4 DEF Fresh
    <3>2. \A a \in DOMAIN turns : turns[a] <= Len(req') /\ stage'[turns[a]] # "none"
      BY <1>1, <1>3, <2>2 DEF FreshJobs, Jobs
    <3>3. QED BY <3>1, <3>2 DEF FreshJobs
  <2>8. queues[s] # 0 => q = queues[s] /\ Session(q) = s /\ q <= Len(req)
    BY <1>4, <1>5 DEF WorkerOfSession
  <2>9. q <= Len(req') /\ Session(q)' = s
    BY <1>1, <1>4, <1>5, <2>8 DEF Jobs
  <2>10. \A i \in Jobs : i <= Len(req) => Session(i) \in Sessions
    BY SessionTyped
  <2>11. WorkerOfSession'
    <3>1. ASSUME NEW v \in Jobs, Live(v)'
          PROVE  v <= Len(req') /\ workers'[Session(v)'] = v /\ queues'[Session(v)'] = task'[v].queue
      <4>1. CASE Live(v)
        <5>1. v <= Len(req) /\ v # j /\ workers[Session(v)] = v /\ queues[Session(v)] = task[v].queue /\ v # 0
          BY <1>2, <4>1 DEF WorkerOfSession, Jobs
        <5>2. queues[s] = 0 => Session(v) # s
          BY <1>4, <5>1 DEF WorkerOfSession
        <5>3. QED BY <1>1, <2>2, <2>4, <2>10, <5>1, <5>2
      <4>2. CASE v = j /\ queues[s] = 0
        BY <1>4, <2>2, <2>4, <4>2 DEF Longer
      <4>3. QED BY <2>4, <3>1, <4>1, <4>2
    <3>2. ASSUME NEW t \in Sessions, NEW v \in Jobs, v = workers'[t]
          PROVE  Live(v)' /\ Session(v)' = t
      <4>1. CASE t = s /\ queues[s] = 0
        BY <1>4, <2>2, <2>4, <3>2, <4>1
      <4>2. CASE t # s \/ queues[s] # 0
        <5>1. workers'[t] = workers[t]
          BY <2>2, <4>2
        <5>2. workers[t] \in Jobs /\ Live(workers[t]) /\ Session(workers[t]) = t
          BY <3>2, <5>1 DEF WorkerOfSession, Types, Jobs
        <5>3. v = workers[t] /\ v <= Len(req) /\ v # j
          BY <1>2, <3>2, <5>1, <5>2 DEF Jobs
        <5>4. QED BY <1>1, <2>4, <5>2, <5>3
      <4>3. QED BY <4>1, <4>2
    <3>3. \A t \in Sessions : queues'[t] # 0 <=> workers'[t] # 0
      BY <1>4, <2>2 DEF WorkerOfSession, Jobs
    <3>4. \A t \in Sessions, p \in Jobs : p = queues'[t] => p <= Len(req') /\ Session(p)' = t
      BY <1>1, <1>4, <2>2, <2>9 DEF WorkerOfSession, Jobs
    <3>5. \A t \in Sessions : workers'[t] \in Jobs \cup {0} /\ queues'[t] \in Jobs \cup {0}
      BY <2>6 DEF Types
    <3>6. QED BY <3>1, <3>2, <3>3, <3>4, <3>5 DEF WorkerOfSession, Session, Live
  <2>12. \A p \in Jobs : \A k \in DOMAIN items[p] :
           items[p][k] \in Jobs /\ items[p][k] <= Len(req) /\ items[p][k] < j
    BY <1>2, QueueTyped DEF QueuedInOrder
  <2>13. QueuedInOrder'
    <3>1. ASSUME NEW p \in Jobs, items'[p] # <<>> PROVE p <= Len(req') /\ queues'[Session(p)'] = p
      <4>1. CASE p = q
        BY <2>2, <2>9, <4>1
      <4>2. CASE p # q
        <5>1. p <= Len(req) /\ queues[Session(p)] = p /\ p # 0
          BY <2>3, <3>1, <4>2 DEF QueuedInOrder, Jobs
        <5>2. Session(p) # s
          BY <2>8, <4>2, <5>1
        <5>3. QED BY <1>1, <2>2, <2>10, <5>1, <5>2
      <4>3. QED BY <4>1, <4>2
    <3>2. ASSUME NEW p \in Jobs, NEW k \in DOMAIN items'[p], NEW x \in Jobs, x = items'[p][k]
          PROVE  x <= Len(req') /\ stage'[x] = "queued" /\ Session(x)' = Session(p)' /\ req'[x] \notin Immediate
      <4>1. CASE k \in DOMAIN items[p] /\ items'[p][k] = items[p][k]
        <5>1. p <= Len(req)
          BY <4>1, QueueTyped DEF QueuedInOrder
        <5>2. x <= Len(req) /\ x # j /\ stage[x] = "queued" /\ Session(x) = Session(p) /\ req[x] \notin Immediate
          BY <1>2, <2>2, <3>2, <4>1 DEF QueuedInOrder
        <5>3. QED BY <1>1, <2>2, <5>1, <5>2
      <4>2. CASE p = q /\ x = j
        <5>1. Session(x)' = s /\ Session(p)' = s
          BY <1>4, <2>9, <4>2
        <5>2. QED BY <1>10, <2>2, <4>2, <5>1 DEF Longer, Jobs
      <4>3. QED BY <2>3, <3>2, <4>1, <4>2
    <3>3. ASSUME NEW p \in Jobs, NEW i \in DOMAIN items'[p], NEW k \in DOMAIN items'[p], i < k
          PROVE  items'[p][i] < items'[p][k]
      <4>1. CASE p = q
        <5>1. i \in DOMAIN items[q]
          BY <2>3, <3>3, <4>1
        <5>2. CASE k \in DOMAIN items[q]
          BY <2>3, <3>3, <4>1, <5>1, <5>2 DEF QueuedInOrder
        <5>3. CASE k = Len(items[q]) + 1
          BY <2>3, <2>12, <4>1, <5>1, <5>3
        <5>4. QED BY <2>3, <3>3, <4>1, <5>2, <5>3
      <4>2. CASE p # q
        BY <2>3, <3>3, <4>2 DEF QueuedInOrder
      <4>3. QED BY <4>1, <4>2
    <3>4. ASSUME NEW i \in Jobs, stage'[i] = "queued"
          PROVE  /\ queues'[Session(i)'] # 0
                 /\ \E k \in DOMAIN items'[queues'[Session(i)']] : items'[queues'[Session(i)']][k] = i
      <4>1. CASE i = j
        <5>1. queues'[Session(i)'] = q
          BY <1>4, <2>2, <4>1
        <5>2. QED BY <2>2, <2>3, <4>1, <5>1
      <4>2. CASE i # j
        <5>1. /\ stage[i] = "queued" /\ i <= Len(req) /\ Session(i)' = Session(i) /\ Session(i) \in Sessions
              /\ queues[Session(i)] \in Jobs
              /\ \E k \in DOMAIN items[queues[Session(i)]] : items[queues[Session(i)]][k] = i
          BY <1>1, <1>2, <2>2, <2>10, <3>4, <4>2 DEF QueuedInOrder, Types
        <5>2. queues'[Session(i)] = queues[Session(i)] /\ queues[Session(i)] # 0
          BY <2>2, <5>1 DEF Jobs
        <5>3. \A k \in DOMAIN items[queues[Session(i)]] :
                k \in DOMAIN items'[queues[Session(i)]] /\ items'[queues[Session(i)]][k] = items[queues[Session(i)]][k]
          BY <2>3, <5>1
        <5>4. QED BY <5>1, <5>2, <5>3
      <4>3. QED BY <4>1, <4>2
    <3>5. \A p \in Jobs : \A k \in DOMAIN items'[p] : items'[p][k] \in Jobs
      BY <2>6, ElementOfSeq DEF Types
    <3>6. QED BY <3>1, <3>2, <3>3, <3>4, <3>5 DEF QueuedInOrder, Session
  <2>14. StartsInOrder'
    <3>1. ASSUME NEW i \in Jobs, Starting(i)'
          PROVE  /\ workers'[Session(i)'] # 0
                 /\ task'[workers'[Session(i)']].state = "busy" /\ task'[workers'[Session(i)']].job = i
                 /\ \A x \in Jobs : stage'[x] = "queued" /\ Session(x)' = Session(i)' => i < x
      <4>1. Starting(i) /\ i <= Len(req) /\ i < j /\ Session(i)' = Session(i) /\ Session(i) \in Sessions
        BY <1>1, <1>2, <2>5, <2>10, <3>1 DEF Starting
      <4>2. workers[Session(i)] # 0 /\ workers[Session(i)] \in Jobs /\ Live(workers[Session(i)])
        BY <4>1 DEF StartsInOrder, WorkerOfSession, Types
      <4>3. workers'[Session(i)] = workers[Session(i)] /\ workers[Session(i)] # j
        BY <1>2, <2>2, <4>1, <4>2 DEF WorkerOfSession, Jobs
      <4>4. \A x \in Jobs : stage'[x] = "queued" /\ x # j => stage[x] = "queued" /\ Session(x)' = Session(x)
        BY <1>1, <1>2, <2>2
      <4>5. QED BY <2>4, <4>1, <4>2, <4>3, <4>4 DEF StartsInOrder
    <3>2. QED BY <3>1 DEF StartsInOrder
  <2>15. TurnsFirst'
    <3>1. \A i \in Jobs : ToStart(i)' => i = j \/ (ToStart(i) /\ Session(i)' = Session(i))
      BY <1>1, <1>2, <2>2, <2>5 DEF ToStart, Starting
    <3>2. QED BY <1>1, <1>3, <3>1 DEF TurnsFirst
  <2>16. QED BY <1>8, <2>6, <2>7, <2>11, <2>13, <2>14, <2>15
<1>11. QED BY <1>9, <1>10

------------------------------------------------------------------------------
(* The invariant and what follows *)

LEMMA WorkerInit == Init => WorkerInv /\ ClaimKnown
<1> SUFFICES ASSUME Init PROVE WorkerInv /\ ClaimKnown
  OBVIOUS
<1>1. \A w \in Jobs : ~Live(w) /\ task[w].state = "none" /\ stage[w] = "none" /\ items[w] = <<>>
  BY DEF Init, Live, NoTask
<1>2. Types
  BY DEF Init, Types, TaskRecord, States, Stages, NoTask
<1>3. FreshJobs
  BY <1>1 DEF Init, FreshJobs, Fresh
<1>4. WorkerOfSession
  BY <1>1 DEF Init, WorkerOfSession
<1>5. QueuedInOrder
  BY <1>1 DEF QueuedInOrder
<1>6. StartsInOrder /\ TurnsFirst /\ TurnsInOrder
  BY <1>1 DEF Init, StartsInOrder, TurnsFirst, Starting, TurnsInOrder
<1>7. ClaimKnown
  BY DEF Init, ClaimKnown
<1>8. QED BY <1>2, <1>3, <1>4, <1>5, <1>6, <1>7 DEF WorkerInv

LEMMA WorkerStep == ASSUME WorkerInv, ClaimKnown, [Next]_vars PROVE WorkerInv'
<1>1. CASE UNCHANGED coord
  <2>1. \A j \in Jobs : Session(j)' = Session(j) /\ Live(j)' = Live(j)
    BY <1>1 DEF coord, Session, Live
  <2>2. Longer /\ Unadmitted
    BY <1>1 DEF coord, WorkerInv, Types, Longer, Unadmitted
  <2>3. lock' = 0 \/ (lock' = Len(req') /\ Fresh(lock'))
    BY <1>1 DEF coord, WorkerInv, FreshJobs
  <2>4. QED BY <2>2, <2>3, CallStep
<1>2. ASSUME NEW r \in Requests, Calls(r), Unadmitted, lock' \in {0, NextJob} PROVE WorkerInv'
  BY <1>2, CallsLonger, CallStep
<1>3. ASSUME NEW r \in Requests, Calls(r), Admit(NextJob, r), UNCHANGED <<lock, turns>> PROVE WorkerInv'
  <2>1. Longer /\ Len(req') = NextJob /\ req'[NextJob] = r /\ Fresh(NextJob) /\ lock' = 0 /\ NextJob \in Jobs
    BY <1>3, CallsLonger DEF Calls
  <2>2. QED BY <1>3, <2>1, AdmitStep
<1>4. ASSUME NEW j \in Jobs, Returns(j) PROVE WorkerInv'
  <2>1. /\ Longer /\ j = Len(req) /\ j = Len(req') /\ req'[j] = req[j] /\ Fresh(j)
        /\ lock = j /\ lock' = 0 /\ UNCHANGED <<req, turns>>
    BY <1>4 DEF Returns, WorkerInv, FreshJobs, Types, Longer, Jobs
  <2>2. CASE Admit(j, req[j])
    BY <2>1, <2>2, AdmitStep
  <2>3. CASE stage' = [stage EXCEPT ![j] = "deliver"] /\ UNCHANGED <<queues, items, workers, task>>
    <3>1. j <= Len(req) /\ stage[j] = "none" /\ stage[j] \in Past /\ "deliver" \in Later \cup {"over"}
      BY <2>1 DEF Past, Later, Fresh, Jobs
    <3>2. QED BY <2>1, <2>3, <3>1, PastStep
  <2>4. CASE UNCHANGED <<queues, items, workers, task, stage>>
    BY <2>1, <2>4, CallStep DEF Unadmitted
  <2>5. QED BY <1>4, <2>2, <2>3, <2>4 DEF Returns
<1>5. ASSUME NEW j \in Jobs, stage[j] \in Later PROVE j <= Len(req) /\ stage[j] # "none" /\ stage[j] \in Past
  BY <1>5 DEF WorkerInv, FreshJobs, Fresh, Types, Later, Past, Jobs
<1>6. ASSUME NEW j \in Jobs, MovesOn(j) PROVE WorkerInv'
  BY <1>5, <1>6, PastStep DEF MovesOn
<1>7. ASSUME NEW j \in Jobs, NEW stored \in BOOLEAN, StoreFinal(j, stored) PROVE WorkerInv'
  <2>1. /\ stage[j] \in Later /\ stage' = [stage EXCEPT ![j] = "over"] /\ Release(j)
        /\ UNCHANGED <<lock, queues, items, workers, req, turns>>
    BY <1>7 DEF StoreFinal, Later, static
  <2>2. QED BY <1>5, <2>1, PastStep
<1>8. QED
  BY <1>1, <1>2, <1>3, <1>4, <1>6, <1>7, CoordCases, TakeStep, LeaveStep, StartStep, CloseStep, CrashStep

(* The coordinator's maps, queues and workers agree in every state.        *)
THEOREM WorkersAgree == Spec => [](WorkerInv /\ ClaimKnown)
<1>1. WorkerInv /\ ClaimKnown /\ [Next]_vars => (WorkerInv /\ ClaimKnown)'
  BY WorkerStep, ClaimStep
<1>2. QED BY WorkerInit, <1>1, PTL DEF Spec

(* One session never has two live workers: submit() adds one only where    *)
(* _run_session has left under the lock (coordinator.py).                  *)
THEOREM WorkersExclude == Spec => []OneWorkerPerSession
<1>1. WorkerInv => OneWorkerPerSession
  BY DEF WorkerInv, WorkerOfSession, OneWorkerPerSession
<1>2. QED BY WorkersAgree, <1>1, PTL

(* No queued submission is left without a worker that holds its queue.     *)
THEOREM NobodyStranded == Spec => []NoStrandedJob
<1>1. ASSUME WorkerInv PROVE NoStrandedJob
  <2>1. ASSUME NEW j \in Jobs, stage[j] = "queued"
        PROVE  \E w \in Jobs : Live(w) /\ \E i \in DOMAIN items[task[w].queue] : items[task[w].queue][i] = j
    <3>1. j <= Len(req) /\ Session(j) \in Sessions
      BY <1>1, <2>1, SessionTyped DEF WorkerInv, FreshJobs, Fresh, Types, Jobs
    <3>2. queues[Session(j)] # 0 /\ \E i \in DOMAIN items[queues[Session(j)]] : items[queues[Session(j)]][i] = j
      BY <1>1, <2>1 DEF WorkerInv, QueuedInOrder
    <3>3. workers[Session(j)] \in Jobs /\ Live(workers[Session(j)]) /\ Session(workers[Session(j)]) = Session(j)
      BY <1>1, <3>1, <3>2 DEF WorkerInv, WorkerOfSession, Types
    <3>4. task[workers[Session(j)]].queue = queues[Session(j)]
      BY <1>1, <3>3 DEF WorkerInv, WorkerOfSession
    <3>5. QED BY <3>2, <3>3, <3>4
  <2>2. QED BY <2>1 DEF NoStrandedJob
<1>2. QED BY WorkersAgree, <1>1, PTL

(* The turns of a session start in the order its submissions were          *)
(* accepted, whatever workers come and go and across restarts.             *)
THEOREM TurnsOrdered == Spec => []TurnsInOrder
<1>1. WorkerInv => TurnsInOrder
  BY DEF WorkerInv
<1>2. QED BY WorkersAgree, <1>1, PTL
=============================================================================
