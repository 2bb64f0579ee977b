------------------------------- MODULE Outbox -------------------------------
(***************************************************************************)
(* The durable delivery queue: DeliveryService.deliver / deliver_once, the *)
(* SQLite outbox with its part rows, and the background DeliveryWorker.    *)
(*                                                                         *)
(* row and part are the two SQLite tables and survive a crash; everything  *)
(* indexed by a sender is the local state of one asyncio task.  One action *)
(* is the code between two awaits whose effects others can observe.        *)
(* Wall-clock back-off is the flag row[d].due, which BackoffElapses sets.  *)
(***************************************************************************)
EXTENDS Integers, FiniteSets

CONSTANTS
  Deliveries,   \* delivery ids
  Callers,      \* tasks that may call DeliveryService.deliver
  Worker,       \* the task of DeliveryWorker._run
  NumParts,     \* largest number of operations a plan can hold
  PlanSizes,    \* sizes the plan of one message may have (hooks, capabilities)
  Protected,    \* ids whose kind skips the mutable PreDelivery hook
  MaxAttempts,  \* gateway.delivery_max_attempts
  Outcomes,     \* what one adapter call can do, see Send
  Cancellable,  \* callers whose task may be cancelled during a delivery
  MaxCrashes    \* bound on the crashes explored

Senders == Callers \cup {Worker}
Parts == 1 .. NumParts

ASSUME SendersAssumption == Worker \notin Callers /\ Cancellable \subseteq Callers
ASSUME PartsAssumption ==
  NumParts \in Nat \ {0} /\ PlanSizes \subseteq Parts /\ PlanSizes # {}
ASSUME AttemptsAssumption == MaxAttempts \in Nat \ {0} /\ MaxCrashes \in Nat
ASSUME OutcomesAssumption == Outcomes \subseteq {"ok", "refused", "timeout", "raised", "silent"}

VARIABLES
  row,       \* row[d]: status, attempts and due of the outbox row
  part,      \* part[d][i]: status and attempts of the part row
  pc,        \* where each sender stands
  cur,       \* the delivery each sender works on
  plan,      \* the size of the plan of the sender's round
  idx,       \* the operation the sender stands at
  batch,     \* due rows the worker has read and not yet claimed
  reply,     \* the adapter's reply to the sender's last call
  res,       \* the result of the sender's round
  answer,    \* what deliver() last returned to the sender
  accepted,  \* accepted[d][i]: how often the platform took the part
  crashes    \* crashes so far

tables == <<row, part>>
tasks == <<pc, cur, plan, idx, batch, reply, res, answer>>
world == <<accepted, crashes>>
vars == <<row, part, pc, cur, plan, idx, batch, reply, res, answer,
          accepted, crashes>>

(* Wrong: a claim that also takes rows that have failed for good. *)
ClaimableOrFailed == {"pending", "retry", "failed"}

Claimable == {"pending", "retry"}
Open == Claimable \cup {"sending"}
Terminal == {"delivered", "suppressed", "ambiguous", "failed"}
PartStatuses == {"absent", "pending", "sending", "retry", "delivered", "ambiguous", "failed"}
RoundResults == {"delivered", "suppressed", "deferred", "failed", "ambiguous"}

Init ==
  /\ row = [d \in Deliveries |-> [status |-> "absent", attempts |-> 0, due |-> TRUE]]
  /\ part = [d \in Deliveries |-> [i \in Parts |-> [status |-> "absent", attempts |-> 0]]]
  /\ pc = [s \in Senders |-> "idle"]
  /\ cur \in [Senders -> Deliveries] /\ \A s, t \in Senders : cur[s] = cur[t]
  /\ plan = [s \in Senders |-> 0]
  /\ idx = [s \in Senders |-> 1]
  /\ batch = {}
  /\ reply = [s \in Senders |-> "none"]
  /\ res = [s \in Senders |-> "none"]
  /\ answer = [s \in Senders |-> "none"]
  /\ accepted = [d \in Deliveries |-> [i \in Parts |-> 0]]
  /\ crashes = 0

-----------------------------------------------------------------------------
(* deliver(): enqueue (INSERT OR IGNORE), then claim. *)

(* Wrong: INSERT OR REPLACE. *)
InsertedAgain(status) == "pending"

Inserted(status) == IF status = "absent" THEN "pending" ELSE status

Enqueue(s, d) ==
  /\ s \in Callers
  /\ pc[s] = "idle"
  /\ row' = [row EXCEPT ![d].status = Inserted(@)]
  /\ cur' = [cur EXCEPT ![s] = d]
  /\ pc' = [pc EXCEPT ![s] = "claim"]
  /\ answer' = [answer EXCEPT ![s] = "none"]
  /\ UNCHANGED <<part, plan, idx, batch, reply, res, world>>

(* Wrong: an UPDATE without its condition. *)
ClaimRowUnguarded(s, d) ==
  /\ row' = [row EXCEPT ![d].status = "sending"]
  /\ cur' = [cur EXCEPT ![s] = d]
  /\ pc' = [pc EXCEPT ![s] = "prepare"]

(* claim_delivery: the conditional UPDATE succeeds for one sender only. *)
ClaimRow(s, d) ==
  /\ row[d].status \in Claimable
  /\ row' = [row EXCEPT ![d].status = "sending"]
  /\ cur' = [cur EXCEPT ![s] = d]
  /\ pc' = [pc EXCEPT ![s] = "prepare"]

Claim(s) ==
  /\ s \in Callers
  /\ pc[s] = "claim"
  /\ \/ ClaimRow(s, cur[s]) /\ UNCHANGED answer
     \/ /\ row[cur[s]].status \notin Claimable
        /\ pc' = [pc EXCEPT ![s] = "idle"]
        /\ answer' = [answer EXCEPT ![s] = "deferred"]
        /\ UNCHANGED <<row, cur>>
  /\ UNCHANGED <<part, plan, idx, batch, reply, res, world>>

(* process_due: one SELECT, then a claim per record of that stale list. *)
LoadDue ==
  /\ pc[Worker] = "idle"
  /\ batch' = {d \in Deliveries : row[d].status \in Claimable /\ row[d].due}
  /\ batch' # {}
  /\ pc' = [pc EXCEPT ![Worker] = "claim"]
  /\ UNCHANGED <<tables, cur, plan, idx, reply, res, answer, world>>

ClaimNext(d) ==
  /\ pc[Worker] = "claim"
  /\ d \in batch
  /\ batch' = batch \ {d}
  /\ \/ ClaimRow(Worker, d)
     \/ /\ row[d].status \notin Claimable
        /\ pc' = [pc EXCEPT ![Worker] = IF batch' = {} THEN "idle" ELSE "claim"]
        /\ UNCHANGED <<row, cur>>
  /\ UNCHANGED <<part, plan, idx, reply, res, answer, world>>

-----------------------------------------------------------------------------
(* deliver_once(): route, PreDelivery, plan, then the operations in order.  *)
(* Bindings and adapters come and go, so any round may find none.           *)

Unroutable(s) ==
  /\ pc[s] = "prepare"
  /\ res' = [res EXCEPT ![s] = "deferred"]
  /\ pc' = [pc EXCEPT ![s] = "finish"]
  /\ UNCHANGED <<tables, cur, plan, idx, batch, reply, answer, world>>

Suppress(s) ==
  /\ pc[s] = "prepare"
  /\ cur[s] \notin Protected
  /\ res' = [res EXCEPT ![s] = "suppressed"]
  /\ pc' = [pc EXCEPT ![s] = "finish"]
  /\ UNCHANGED <<tables, cur, plan, idx, batch, reply, answer, world>>

PlanParts(s, n) ==
  /\ pc[s] = "prepare"
  /\ plan' = [plan EXCEPT ![s] = n]
  /\ idx' = [idx EXCEPT ![s] = 1]
  /\ part' = [part EXCEPT ![cur[s]] =
       [i \in Parts |-> IF i <= n /\ @[i].status = "absent"
                        THEN [status |-> "pending", attempts |-> 0] ELSE @[i]]]
  /\ pc' = [pc EXCEPT ![s] = "part"]
  /\ UNCHANGED <<row, cur, batch, reply, res, answer, world>>

(* The records were read by ensure_parts; only the claim holder writes part *)
(* rows, so reading them at the operation sees what the round has read.     *)
Record(s) == part[cur[s]][idx[s]]

(* Wrong: a loop that ends one operation early. *)
RemainingButLast(s) == idx[s] < plan[s]

Remaining(s) == idx[s] <= plan[s]

SkipDelivered(s) ==
  /\ pc[s] = "part"
  /\ Remaining(s)
  /\ Record(s).status = "delivered"
  /\ idx' = [idx EXCEPT ![s] = @ + 1]
  /\ UNCHANGED <<tables, pc, cur, plan, batch, reply, res, answer, world>>

(* Wrong: the loop goes on past a part that is failed or ambiguous. *)
SkipSettled(s, r) ==
  /\ pc[s] = "part"
  /\ Remaining(s)
  /\ Record(s).status \in {"failed", "ambiguous"}
  /\ idx' = [idx EXCEPT ![s] = @ + 1]
  /\ UNCHANGED <<tables, pc, cur, plan, batch, reply, res, answer, world>>

(* A part that failed with a timeout in its last error makes the row ambiguous. *)
StopAtSettled(s, r) ==
  /\ pc[s] = "part"
  /\ Remaining(s)
  /\ Record(s).status \in {"failed", "ambiguous"}
  /\ r = Record(s).status \/ (r = "ambiguous" /\ "raised" \in Outcomes)
  /\ res' = [res EXCEPT ![s] = r]
  /\ pc' = [pc EXCEPT ![s] = "finish"]
  /\ UNCHANGED <<tables, cur, plan, idx, batch, reply, answer, world>>

StartPart(s) ==
  /\ pc[s] = "part"
  /\ Remaining(s)
  /\ Record(s).status \notin {"delivered", "failed", "ambiguous"}
  /\ part' = [part EXCEPT ![cur[s]][idx[s]].status = "sending"]
  /\ pc' = [pc EXCEPT ![s] = "send"]
  /\ UNCHANGED <<row, cur, plan, idx, batch, reply, res, answer, world>>

(* The adapter call: "ok" takes the message, "refused" does not (a platform *)
(* error or an unavailable artifact), "timeout" answers with an error that  *)
(* says so and may or may not have taken it, "raised" is a TimeoutError of  *)
(* the call, which names a timeout only with its type, and "silent" has     *)
(* taken it but answers with an error that names none: str(TimeoutError()). *)
Send(s, o, taken) ==
  /\ pc[s] = "send"
  /\ o \in {"ok", "silent"} => taken
  /\ o = "refused" => ~taken
  /\ accepted' = IF taken THEN [accepted EXCEPT ![cur[s]][idx[s]] = @ + 1] ELSE accepted
  /\ reply' = [reply EXCEPT ![s] = o]
  /\ pc' = [pc EXCEPT ![s] = "recordpart"]
  /\ UNCHANGED <<tables, cur, plan, idx, batch, res, answer, crashes>>

PartStatusAfter(o, attempts) ==
  CASE o = "ok" -> "delivered"
    [] o = "timeout" -> "ambiguous"
    [] OTHER -> IF attempts < MaxAttempts THEN "retry" ELSE "failed"

(* The row looks for a timeout in the text that starts with the type's name. *)
ResultOf(o) == IF o \in {"timeout", "raised"} THEN "ambiguous" ELSE "failed"

RecordPart(s) ==
  /\ pc[s] = "recordpart"
  /\ part' = [part EXCEPT ![cur[s]][idx[s]] =
       [status |-> PartStatusAfter(reply[s], @.attempts + 1), attempts |-> @.attempts + 1]]
  /\ IF reply[s] = "ok"
     THEN /\ idx' = [idx EXCEPT ![s] = @ + 1]
          /\ pc' = [pc EXCEPT ![s] = "part"]
          /\ UNCHANGED res
     ELSE /\ res' = [res EXCEPT ![s] = ResultOf(reply[s])]
          /\ pc' = [pc EXCEPT ![s] = "finish"]
          /\ UNCHANGED idx
  /\ reply' = [reply EXCEPT ![s] = "none"]
  /\ UNCHANGED <<row, cur, plan, batch, answer, world>>

AllPartsDone(s) ==
  /\ pc[s] = "part"
  /\ ~Remaining(s)
  /\ res' = [res EXCEPT ![s] = "delivered"]
  /\ pc' = [pc EXCEPT ![s] = "finish"]
  /\ UNCHANGED <<tables, cur, plan, idx, batch, reply, answer, world>>

-----------------------------------------------------------------------------
(* record_result: the row's status, its back-off and the caller's answer. *)

RowStatusAfter(r, attempts) ==
  IF r \in {"delivered", "suppressed", "ambiguous"} THEN r
  ELSE IF attempts < MaxAttempts THEN "retry" ELSE "failed"

Answered(r, status) ==
  IF status = "retry" THEN "deferred" ELSE IF r = "ambiguous" THEN "failed" ELSE r

ForgetRound(s) ==
  /\ plan' = [plan EXCEPT ![s] = 0]
  /\ idx' = [idx EXCEPT ![s] = 1]
  /\ reply' = [reply EXCEPT ![s] = "none"]
  /\ res' = [res EXCEPT ![s] = "none"]

AfterRound(s) == IF s = Worker /\ batch # {} THEN "claim" ELSE "idle"

RecordResult(s) ==
  LET d == cur[s]
      n == row[d].attempts + 1
      status == RowStatusAfter(res[s], n)
  IN /\ pc[s] = "finish"
     /\ row' = [row EXCEPT ![d] = [status |-> status, attempts |-> n, due |-> status # "retry"]]
     /\ answer' = [answer EXCEPT ![s] = Answered(res[s], status)]
     /\ pc' = [pc EXCEPT ![s] = AfterRound(s)]
     /\ ForgetRound(s)
     /\ UNCHANGED <<part, cur, batch, world>>

-----------------------------------------------------------------------------
(* The environment: back-off timers, cancelled tasks, crashes. *)

BackoffElapses(d) ==
  /\ row[d].status = "retry" /\ ~row[d].due
  /\ row' = [row EXCEPT ![d].due = TRUE]
  /\ UNCHANGED <<part, tasks, world>>

(* A plugin's task is cancelled while it awaits deliver(): nothing is undone. *)
CancelCaller(s) ==
  /\ s \in Cancellable
  /\ pc[s] # "idle"
  /\ pc' = [pc EXCEPT ![s] = "idle"]
  /\ ForgetRound(s)
  /\ UNCHANGED <<tables, cur, batch, answer, world>>

(* Wrong: a start that leaves the rows of the dead process alone. *)
NotReopened(status) == status

Reopened(status) == IF status = "sending" THEN "retry" ELSE status

(* The process dies and starts again: Database.initialize reopens the rows. *)
CrashRestart ==
  /\ crashes < MaxCrashes
  /\ crashes' = crashes + 1
  /\ row' = [d \in Deliveries |->
       [row[d] EXCEPT !.status = Reopened(@), !.due = @ \/ row[d].status = "sending"]]
  /\ part' = [d \in Deliveries |-> [i \in Parts |->
       [part[d][i] EXCEPT !.status = Reopened(@)]]]
  /\ pc' = [s \in Senders |-> "idle"]
  /\ plan' = [s \in Senders |-> 0]
  /\ idx' = [s \in Senders |-> 1]
  /\ batch' = {}
  /\ reply' = [s \in Senders |-> "none"]
  /\ res' = [s \in Senders |-> "none"]
  /\ answer' = [s \in Senders |-> "none"]
  /\ UNCHANGED <<cur, accepted>>

-----------------------------------------------------------------------------
Round(s) ==
  \/ Unroutable(s) \/ Suppress(s)
  \/ \E n \in PlanSizes : PlanParts(s, n)
  \/ SkipDelivered(s) \/ StartPart(s)
  \/ \E r \in {"failed", "ambiguous"} : StopAtSettled(s, r)
  \/ \E o \in Outcomes, taken \in BOOLEAN : Send(s, o, taken)
  \/ RecordPart(s) \/ AllPartsDone(s) \/ RecordResult(s)

WorkerPoll == LoadDue \/ \E d \in Deliveries : ClaimNext(d)

Environment ==
  \/ \E d \in Deliveries : BackoffElapses(d)
  \/ \E s \in Callers : CancelCaller(s)
  \/ CrashRestart

Next ==
  \/ \E s \in Callers, d \in Deliveries : Enqueue(s, d)
  \/ \E s \in Callers : Claim(s)
  \/ WorkerPoll
  \/ \E s \in Senders : Round(s)
  \/ Environment

Spec == Init /\ [][Next]_vars

(* The event loop runs every ready task; adapter calls return; timers fire. *)
Fairness ==
  /\ \A s \in Callers : WF_vars(Claim(s))
  /\ WF_vars(WorkerPoll)
  /\ \A s \in Senders : WF_vars(Round(s))
  /\ \A d \in Deliveries : WF_vars(BackoffElapses(d))

FairSpec == Spec /\ Fairness

-----------------------------------------------------------------------------
Rows == [status : {"absent"} \cup Open \cup Terminal, attempts : Nat, due : BOOLEAN]
PartRows == [status : PartStatuses, attempts : Nat]

TablesOK ==
  /\ row \in [Deliveries -> Rows]
  /\ part \in [Deliveries -> [Parts -> PartRows]]

TasksOK ==
  /\ pc \in [Senders -> {"idle", "claim", "prepare", "part", "send", "recordpart", "finish"}]
  /\ cur \in [Senders -> Deliveries]
  /\ plan \in [Senders -> 0 .. NumParts]
  /\ idx \in [Senders -> 1 .. NumParts + 1]
  /\ batch \subseteq Deliveries
  /\ reply \in [Senders -> {"none"} \cup Outcomes]
  /\ res \in [Senders -> {"none"} \cup RoundResults]
  /\ answer \in [Senders -> {"none", "delivered", "suppressed", "deferred", "failed"}]

TypeOK ==
  /\ TablesOK
  /\ TasksOK
  /\ accepted \in [Deliveries -> [Parts -> Nat]]
  /\ crashes \in Nat

InRound(s) == pc[s] \in {"prepare", "part", "send", "recordpart", "finish"}

(* One sender at a time holds a delivery, and holds it as 'sending': the    *)
(* claim of deliver() and the stale list of process_due cannot both send.   *)
ExclusiveSender ==
  \A s \in Senders : InRound(s) =>
    /\ row[cur[s]].status = "sending"
    /\ \A t \in Senders : InRound(t) /\ cur[t] = cur[s] => t = s

(* A part is touched only when every part before it has been delivered, in  *)
(* every round, after retries, plan changes and restarts.                   *)
PartsInOrder ==
  \A d \in Deliveries, i \in Parts :
    part[d][i].status \notin {"absent", "pending"} =>
      \A j \in 1 .. i - 1 : part[d][j].status = "delivered"

(* A round settles its row as 'delivered' only when each part of its plan   *)
(* is, by this round or an earlier one, whatever plans those had and        *)
(* however often they failed, were cancelled or were cut off by a crash.    *)
DeliveredIsComplete ==
  [][\A s \in Senders : RecordResult(s) /\ row'[cur[s]].status = "delivered" =>
       /\ plan[s] \in PlanSizes
       /\ \A i \in 1 .. plan[s] : part[cur[s]][i].status = "delivered"]_vars

(* The platform takes a part at most once per process life: only a crash    *)
(* between the platform's acceptance and the record can send it again.      *)
DuplicatesNeedCrash ==
  \A d \in Deliveries, i \in Parts : accepted[d][i] <= 1 + crashes

(* A settled row stays settled: no later call, retry or restart reopens it. *)
SettledIsFinal ==
  [][\A d \in Deliveries : row[d].status \in Terminal => row'[d] = row[d]]_vars

(* What deliver() answers its caller agrees with the row it leaves behind,   *)
(* whatever other senders did to the row since.                             *)
AnswerIsTrue ==
  \A s \in Callers :
    /\ answer[s] \in {"delivered", "suppressed"} => row[cur[s]].status = answer[s]
    /\ answer[s] = "failed" => row[cur[s]].status \in {"failed", "ambiguous"}

(* Every message accepted into the outbox is settled in the end.            *)
EveryDeliverySettles ==
  \A d \in Deliveries : row[d].status \in Open ~> row[d].status \in Terminal

(* The outbox seen through its rows: it implements DeliveryContract.        *)
StageOf(status) ==
  CASE status = "absent" -> "none"
    [] status \in Open -> "open"
    [] status \in {"delivered", "suppressed"} -> status
    [] OTHER -> "undelivered"

Contract == INSTANCE DeliveryContract WITH
  stage <- [d \in Deliveries |-> StageOf(row[d].status)],
  confirmed <- [d \in Deliveries |-> {i \in Parts : part[d][i].status = "delivered"}]

(* Every behaviour of the code keeps the contract of the abstract queue.    *)
ImplementsContract == Contract!Spec

(* With the fairness of the event loop it also settles as the contract says. *)
ImplementsFairContract == Contract!FairSpec

-----------------------------------------------------------------------------
(* What the documents say and the code does not do.                         *)

(* A plan that got shorter leaves the parts that an earlier round planned   *)
(* and did not get through, although the row says 'delivered'.              *)
NoPartLeftOver ==
  \A d \in Deliveries : row[d].status = "delivered" =>
    \A i \in Parts : part[d][i].status \in {"absent", "delivered"}

(* BACKEND_INTERFACE.md: a part that may have been sent is never blindly    *)
(* sent again, restarts included.                                           *)
NeverSentTwice == \A d \in Deliveries, i \in Parts : accepted[d][i] <= 1
=============================================================================
