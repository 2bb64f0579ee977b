---------------------------- MODULE OutboxProofs ----------------------------
(***************************************************************************)
(* Proofs about Outbox: its types, the exclusion of senders, settled rows, *)
(* and the parts of a delivery, which are taken in order and are a whole   *)
(* plan when the row is 'delivered'.  Then what the world outside the      *)
(* tables sees: the outbox implements DeliveryContract, what deliver()     *)
(* answers is what the row says, and outside of crashes the platform takes *)
(* a part at most once, as long as no adapter hides a timeout.             *)
(***************************************************************************)
EXTENDS Outbox, TLAPS

(* A sender at an adapter call stands at an operation of its plan.          *)
AtPart == \A s \in Senders : pc[s] \in {"send", "recordpart"} => idx[s] <= plan[s]

TypeInv == TypeOK /\ AtPart

(* An outbox row keeps its shape when its status is replaced. *)
LEMMA RowType ==
  ASSUME NEW r \in Rows, NEW x \in {"absent"} \cup Open \cup Terminal
  PROVE  [r EXCEPT !.status = x] \in Rows
BY DEF Rows

(* A part row keeps its shape when its status is replaced. *)
LEMMA PartRowType ==
  ASSUME NEW p \in PartRows, NEW x \in PartStatuses
  PROVE  [p EXCEPT !.status = x] \in PartRows
BY DEF PartRows

(* The types hold when the process first starts. *)
LEMMA InitType == Init => TypeInv
BY PartsAssumption DEF Init, TypeInv, TypeOK, TablesOK, TasksOK, AtPart, Parts, Rows, PartRows,
  Open, Claimable, Terminal, PartStatuses, RoundResults

(* deliver() before its round: the row is accepted, then claimed.           *)
LEMMA EnqueueType ==
  ASSUME TypeInv, NEW s \in Callers, NEW d \in Deliveries, Enqueue(s, d)
  PROVE  TypeInv'
<1>1. Inserted(row[d].status) \in {"absent"} \cup Open \cup Terminal
  BY DEF Inserted, TypeInv, TypeOK, TablesOK, Rows, Open, Claimable
<1>2. TablesOK'
  <2>1. row' = [row EXCEPT ![d] = [row[d] EXCEPT !.status = Inserted(row[d].status)]]
    BY DEF Enqueue
  <2>2. row' \in [Deliveries -> Rows]
    BY <1>1, <2>1, RowType DEF TypeInv, TypeOK, TablesOK
  <2>3. QED BY <2>2 DEF Enqueue, TypeInv, TypeOK, TablesOK
<1>3. TasksOK' /\ AtPart'
  BY DEF Enqueue, TypeInv, TypeOK, TasksOK, AtPart, Senders
<1>4. QED BY <1>2, <1>3 DEF Enqueue, TypeInv, TypeOK, world

(* The conditional UPDATE of claim_delivery keeps the types. *)
LEMMA ClaimRowType ==
  ASSUME TypeInv, NEW s \in Senders, NEW d \in Deliveries, ClaimRow(s, d)
  PROVE  /\ row' \in [Deliveries -> Rows]
         /\ cur' \in [Senders -> Deliveries]
         /\ pc' = [pc EXCEPT ![s] = "prepare"]
<1>1. row' = [row EXCEPT ![d] = [row[d] EXCEPT !.status = "sending"]]
  BY DEF ClaimRow
<1>2. row' \in [Deliveries -> Rows]
  BY <1>1, RowType DEF TypeInv, TypeOK, TablesOK, Open
<1>3. QED BY <1>2 DEF ClaimRow, TypeInv, TypeOK, TasksOK

(* A caller's claim, granted or answered DEFERRED, keeps the types. *)
LEMMA ClaimType ==
  ASSUME TypeInv, NEW s \in Callers, Claim(s)
  PROVE  TypeInv'
<1>1. s \in Senders /\ cur[s] \in Deliveries
  BY DEF Senders, TypeInv, TypeOK, TasksOK
<1>2. CASE ClaimRow(s, cur[s]) /\ UNCHANGED answer
  BY <1>1, <1>2, ClaimRowType
  DEF Claim, TypeInv, TypeOK, TablesOK, TasksOK, AtPart, world
<1>3. CASE row[cur[s]].status \notin Claimable /\ UNCHANGED <<row, cur>>
             /\ pc' = [pc EXCEPT ![s] = "idle"] /\ answer' = [answer EXCEPT ![s] = "deferred"]
  BY <1>1, <1>3 DEF Claim, TypeInv, TypeOK, TablesOK, TasksOK, AtPart, world
<1>4. QED BY <1>2, <1>3 DEF Claim

(* The worker's stale list and its claims.                                  *)
LEMMA PollType ==
  ASSUME TypeInv, WorkerPoll
  PROVE  TypeInv'
<1>1. Worker \in Senders
  BY DEF Senders
<1>2. CASE LoadDue
  BY <1>1, <1>2 DEF LoadDue, TypeInv, TypeOK, TablesOK, TasksOK, AtPart, tables, world
<1>3. ASSUME NEW d \in Deliveries, ClaimNext(d)
      PROVE  TypeInv'
  <2>1. CASE ClaimRow(Worker, d)
    BY <1>1, <1>3, <2>1, ClaimRowType
    DEF ClaimNext, TypeInv, TypeOK, TablesOK, TasksOK, AtPart, world
  <2>2. CASE UNCHANGED <<row, cur>>
               /\ pc' = [pc EXCEPT ![Worker] = IF batch' = {} THEN "idle" ELSE "claim"]
    BY <1>1, <1>3, <2>2 DEF ClaimNext, TypeInv, TypeOK, TablesOK, TasksOK, AtPart, world
  <2>3. QED BY <1>3, <2>1, <2>2 DEF ClaimNext
<1>4. QED BY <1>2, <1>3 DEF WorkerPoll

(* The steps of a round that leave both tables alone.                       *)
LEMMA QuietStepType ==
  ASSUME TypeInv, NEW s \in Senders,
         Unroutable(s) \/ Suppress(s) \/ SkipDelivered(s) \/ AllPartsDone(s)
           \/ \E r \in {"failed", "ambiguous"} : StopAtSettled(s, r)
  PROVE  TypeInv'
<1>1. UNCHANGED tables /\ UNCHANGED world /\ UNCHANGED <<cur, plan, batch, reply, answer>>
  BY DEF Unroutable, Suppress, SkipDelivered, AllPartsDone, StopAtSettled, tables, world
<1>2. TablesOK' /\ accepted' = accepted /\ crashes' = crashes
  BY <1>1 DEF TypeInv, TypeOK, TablesOK, tables, world
<1>3. CASE SkipDelivered(s)
  BY <1>1, <1>2, <1>3, PartsAssumption
  DEF SkipDelivered, Remaining, TypeInv, TypeOK, TasksOK, AtPart
<1>4. CASE Unroutable(s) \/ Suppress(s) \/ AllPartsDone(s)
             \/ \E r \in {"failed", "ambiguous"} : StopAtSettled(s, r)
  <2>1. /\ idx' = idx
        /\ pc' = [pc EXCEPT ![s] = "finish"]
        /\ \E r \in RoundResults : res' = [res EXCEPT ![s] = r]
    BY <1>4 DEF Unroutable, Suppress, AllPartsDone, StopAtSettled, RoundResults
  <2>2. QED BY <1>1, <1>2, <2>1 DEF TypeInv, TypeOK, TasksOK, AtPart
<1>5. QED BY <1>3, <1>4

(* ensure_parts keeps the types: it only fills in rows that are missing. *)
LEMMA PlanPartsType ==
  ASSUME TypeInv, NEW s \in Senders, NEW n \in PlanSizes, PlanParts(s, n)
  PROVE  TypeInv'
<1> DEFINE fresh(p) == [i \in Parts |-> IF i <= n /\ p[i].status = "absent"
                          THEN [status |-> "pending", attempts |-> 0] ELSE p[i]]
<1>1. cur[s] \in Deliveries /\ n \in 0 .. NumParts
  BY PartsAssumption DEF TypeInv, TypeOK, TasksOK, Parts
<1>2. fresh(part[cur[s]]) \in [Parts -> PartRows]
  BY <1>1 DEF TypeInv, TypeOK, TablesOK, PartRows, PartStatuses
<1>3. part' = [part EXCEPT ![cur[s]] = fresh(part[cur[s]])]
  BY DEF PlanParts
<1> HIDE DEF fresh
<1>4. TablesOK'
  BY <1>1, <1>2, <1>3 DEF PlanParts, TypeInv, TypeOK, TablesOK
<1>5. TasksOK' /\ AtPart'
  BY <1>1, PartsAssumption DEF PlanParts, TypeInv, TypeOK, TasksOK, AtPart
<1>6. QED BY <1>4, <1>5 DEF PlanParts, TypeInv, TypeOK, world

(* A sender at the current operation writes its part row.                   *)
LEMMA PartWritten ==
  ASSUME TypeInv, NEW s \in Senders, idx[s] <= plan[s], NEW p \in PartRows,
         part' = [part EXCEPT ![cur[s]][idx[s]] = p], row' = row
  PROVE  TablesOK'
<1>1. cur[s] \in Deliveries /\ idx[s] \in Parts
  BY PartsAssumption DEF TypeInv, TypeOK, TasksOK, Parts
<1>2. part' = [part EXCEPT ![cur[s]] = [part[cur[s]] EXCEPT ![idx[s]] = p]]
  OBVIOUS
<1>3. [part[cur[s]] EXCEPT ![idx[s]] = p] \in [Parts -> PartRows]
  BY <1>1 DEF TypeInv, TypeOK, TablesOK
<1>4. QED BY <1>1, <1>2, <1>3 DEF TypeInv, TypeOK, TablesOK

(* start_part keeps the types. *)
LEMMA StartPartType ==
  ASSUME TypeInv, NEW s \in Senders, StartPart(s)
  PROVE  TypeInv'
<1> DEFINE p == [part[cur[s]][idx[s]] EXCEPT !.status = "sending"]
<1>1. idx[s] <= plan[s] /\ cur[s] \in Deliveries /\ idx[s] \in Parts
  BY PartsAssumption DEF StartPart, Remaining, TypeInv, TypeOK, TasksOK, Parts
<1>2. p \in PartRows
  BY <1>1, PartRowType DEF TypeInv, TypeOK, TablesOK, PartStatuses
<1>3. part' = [part EXCEPT ![cur[s]][idx[s]] = p] /\ row' = row
  BY DEF StartPart
<1> HIDE DEF p
<1>4. TablesOK'
  BY <1>1, <1>2, <1>3, PartWritten
<1>5. TasksOK' /\ AtPart'
  BY <1>1 DEF StartPart, TypeInv, TypeOK, TasksOK, AtPart
<1>6. QED BY <1>4, <1>5 DEF StartPart, TypeInv, TypeOK, world

(* The adapter call keeps the types. *)
LEMMA SendType ==
  ASSUME TypeInv, NEW s \in Senders, NEW o \in Outcomes, NEW taken \in BOOLEAN,
         Send(s, o, taken)
  PROVE  TypeInv'
<1>1. cur[s] \in Deliveries /\ idx[s] \in Parts
  BY PartsAssumption DEF Send, TypeInv, TypeOK, TasksOK, AtPart, Parts
<1>2. accepted' \in [Deliveries -> [Parts -> Nat]]
  BY <1>1 DEF Send, TypeInv, TypeOK
<1>3. TasksOK' /\ AtPart'
  BY DEF Send, TypeInv, TypeOK, TasksOK, AtPart
<1>4. QED BY <1>2, <1>3 DEF Send, TypeInv, TypeOK, TablesOK, tables

(* record_part_result keeps the types, at the last operation too. *)
LEMMA RecordPartType ==
  ASSUME TypeInv, NEW s \in Senders, RecordPart(s)
  PROVE  TypeInv'
<1> DEFINE n == part[cur[s]][idx[s]].attempts + 1
           p == [status |-> PartStatusAfter(reply[s], n), attempts |-> n]
<1>1. idx[s] <= plan[s] /\ cur[s] \in Deliveries /\ idx[s] \in Parts
  BY PartsAssumption DEF RecordPart, TypeInv, TypeOK, TasksOK, AtPart, Parts
<1>2. p \in PartRows
  <2>1. n \in Nat
    BY <1>1 DEF TypeInv, TypeOK, TablesOK, PartRows
  <2>2. PartStatusAfter(reply[s], n) \in PartStatuses
    BY DEF PartStatusAfter, PartStatuses
  <2>3. QED BY <2>1, <2>2 DEF PartRows
<1>3. part' = [part EXCEPT ![cur[s]][idx[s]] = p] /\ row' = row
  BY DEF RecordPart
<1> HIDE DEF n, p
<1>4. TablesOK'
  BY <1>1, <1>2, <1>3, PartWritten
<1>5. TasksOK' /\ AtPart'
  <2>1. /\ UNCHANGED <<cur, plan, batch, answer>>
        /\ reply' = [reply EXCEPT ![s] = "none"]
    BY DEF RecordPart
  <2>2. CASE reply[s] = "ok"
    <3>1. /\ idx' = [idx EXCEPT ![s] = @ + 1]
          /\ pc' = [pc EXCEPT ![s] = "part"]
          /\ res' = res
      BY <2>2 DEF RecordPart
    <3>2. idx[s] + 1 \in 1 .. NumParts + 1
      BY <1>1, PartsAssumption DEF Parts
    <3>3. QED BY <2>1, <3>1, <3>2 DEF TypeInv, TypeOK, TasksOK, AtPart
  <2>3. CASE reply[s] # "ok"
    <3>1. /\ idx' = idx
          /\ pc' = [pc EXCEPT ![s] = "finish"]
          /\ res' = [res EXCEPT ![s] = ResultOf(reply[s])]
      BY <2>3 DEF RecordPart
    <3>2. ResultOf(reply[s]) \in RoundResults
      BY DEF ResultOf, RoundResults
    <3>3. QED BY <2>1, <3>1, <3>2 DEF TypeInv, TypeOK, TasksOK, AtPart
  <2>4. QED BY <2>2, <2>3
<1>6. QED BY <1>4, <1>5 DEF RecordPart, TypeInv, TypeOK, world

(* A sender that ends its round has its local state back. *)
LEMMA ForgetRoundType ==
  ASSUME TypeInv, NEW s \in Senders, ForgetRound(s)
  PROVE  /\ plan' \in [Senders -> 0 .. NumParts]
         /\ idx' \in [Senders -> 1 .. NumParts + 1]
         /\ reply' \in [Senders -> {"none"} \cup Outcomes]
         /\ res' \in [Senders -> {"none"} \cup RoundResults]
         /\ \A t \in Senders \ {s} : plan'[t] = plan[t] /\ idx'[t] = idx[t]
BY PartsAssumption DEF ForgetRound, TypeInv, TypeOK, TasksOK

(* record_result keeps the types. *)
LEMMA RecordResultType ==
  ASSUME TypeInv, NEW s \in Senders, RecordResult(s)
  PROVE  TypeInv'
<1> DEFINE n == row[cur[s]].attempts + 1
           status == RowStatusAfter(res[s], n)
           r == [status |-> status, attempts |-> n, due |-> status # "retry"]
<1>1. cur[s] \in Deliveries
  BY DEF TypeInv, TypeOK, TasksOK
<1>2. status \in {"delivered", "suppressed", "ambiguous", "retry", "failed"}
  BY DEF RowStatusAfter
<1>3. r \in Rows
  <2>1. n \in Nat
    BY <1>1 DEF TypeInv, TypeOK, TablesOK, Rows
  <2>2. QED BY <1>2, <2>1 DEF Rows, Open, Claimable, Terminal
<1>4. row' = [row EXCEPT ![cur[s]] = r]
  BY DEF RecordResult
<1>5. Answered(res[s], status) \in {"none", "delivered", "suppressed", "deferred", "failed"}
  BY DEF Answered, TypeInv, TypeOK, TasksOK, RoundResults
<1>6. answer' = [answer EXCEPT ![s] = Answered(res[s], status)]
  BY DEF RecordResult
<1> HIDE DEF n, status, r
<1>7. TablesOK'
  BY <1>1, <1>3, <1>4 DEF RecordResult, TypeInv, TypeOK, TablesOK
<1>8. TasksOK' /\ AtPart'
  BY <1>5, <1>6, ForgetRoundType DEF RecordResult, AfterRound, TypeInv, TypeOK, TasksOK, AtPart
<1>9. QED BY <1>7, <1>8 DEF RecordResult, TypeInv, TypeOK, world

(* A back-off timer keeps the types. *)
LEMMA BackoffType ==
  ASSUME TypeInv, NEW d \in Deliveries, BackoffElapses(d)
  PROVE  TypeInv'
<1>1. row' = [row EXCEPT ![d] = [row[d] EXCEPT !.due = TRUE]]
  BY DEF BackoffElapses
<1>2. [row[d] EXCEPT !.due = TRUE] \in Rows
  BY DEF TypeInv, TypeOK, TablesOK, Rows
<1>3. row' \in [Deliveries -> Rows]
  BY <1>1, <1>2 DEF TypeInv, TypeOK, TablesOK
<1>4. QED
  BY <1>3 DEF BackoffElapses, TypeInv, TypeOK, TablesOK, TasksOK, AtPart, tasks, world

(* A cancelled caller keeps the types. *)
LEMMA CancelType ==
  ASSUME TypeInv, NEW s \in Callers, CancelCaller(s)
  PROVE  TypeInv'
<1>1. s \in Senders
  BY DEF Senders
<1>2. QED
  BY <1>1, ForgetRoundType
  DEF CancelCaller, TypeInv, TypeOK, TablesOK, TasksOK, AtPart, tables, world

(* Database.initialize after a crash keeps the types. *)
LEMMA CrashType ==
  ASSUME TypeInv, CrashRestart
  PROVE  TypeInv'
<1>1. \A d \in Deliveries :
        [row[d] EXCEPT !.status = Reopened(row[d].status),
                       !.due = row[d].due \/ row[d].status = "sending"] \in Rows
  <2>1. SUFFICES ASSUME NEW d \in Deliveries
                 PROVE  [row[d] EXCEPT !.status = Reopened(row[d].status),
                           !.due = row[d].due \/ row[d].status = "sending"] \in Rows
    OBVIOUS
  <2>2. Reopened(row[d].status) \in {"absent"} \cup Open \cup Terminal
    BY DEF Reopened, TypeInv, TypeOK, TablesOK, Rows, Open, Claimable
  <2>3. (row[d].due \/ row[d].status = "sending") \in BOOLEAN
    OBVIOUS
  <2>4. QED BY <2>2, <2>3 DEF TypeInv, TypeOK, TablesOK, Rows
<1>2. \A d \in Deliveries, i \in Parts :
        [part[d][i] EXCEPT !.status = Reopened(part[d][i].status)] \in PartRows
  <2>1. SUFFICES ASSUME NEW d \in Deliveries, NEW i \in Parts
                 PROVE  [part[d][i] EXCEPT !.status = Reopened(part[d][i].status)] \in PartRows
    OBVIOUS
  <2>2. Reopened(part[d][i].status) \in PartStatuses
    BY DEF Reopened, TypeInv, TypeOK, TablesOK, PartRows, PartStatuses
  <2>3. QED BY <2>2, PartRowType DEF TypeInv, TypeOK, TablesOK
<1>3. row' \in [Deliveries -> Rows]
  <2>1. row' = [d \in Deliveries |->
          [row[d] EXCEPT !.status = Reopened(row[d].status),
                         !.due = row[d].due \/ row[d].status = "sending"]]
    BY Zenon DEF CrashRestart
  <2>2. QED BY <1>1, <2>1, Zenon
<1>4. part' \in [Deliveries -> [Parts -> PartRows]]
  <2>1. part' = [d \in Deliveries |-> [i \in Parts |->
          [part[d][i] EXCEPT !.status = Reopened(part[d][i].status)]]]
    BY Zenon DEF CrashRestart
  <2>2. QED BY <1>2, <2>1, Zenon
<1>5. /\ UNCHANGED <<cur, accepted>>
      /\ crashes' = crashes + 1
      /\ batch' = {}
      /\ pc' = [s \in Senders |-> "idle"]
      /\ plan' = [s \in Senders |-> 0]
      /\ idx' = [s \in Senders |-> 1]
      /\ reply' = [s \in Senders |-> "none"]
      /\ res' = [s \in Senders |-> "none"]
      /\ answer' = [s \in Senders |-> "none"]
  BY Zenon DEF CrashRestart
<1>6. TasksOK' /\ AtPart'
  BY <1>5, PartsAssumption DEF TypeInv, TypeOK, TasksOK, AtPart
<1>7. QED
  BY <1>3, <1>4, <1>5, <1>6 DEF TypeInv, TypeOK, TablesOK

(* Every step of the queue keeps the types. *)
LEMMA NextType == TypeInv /\ [Next]_vars => TypeInv'
<1> SUFFICES ASSUME TypeInv, [Next]_vars
             PROVE  TypeInv'
  OBVIOUS
<1>1. ASSUME NEW s \in Callers, NEW d \in Deliveries, Enqueue(s, d)
      PROVE  TypeInv'
  BY <1>1, EnqueueType
<1>2. ASSUME NEW s \in Callers, Claim(s)
      PROVE  TypeInv'
  BY <1>2, ClaimType
<1>3. CASE WorkerPoll
  BY <1>3, PollType
<1>4. ASSUME NEW s \in Senders, Round(s)
      PROVE  TypeInv'
  BY <1>4, QuietStepType, PlanPartsType, StartPartType, SendType, RecordPartType,
     RecordResultType DEF Round
<1>5. CASE Environment
  BY <1>5, BackoffType, CancelType, CrashType DEF Environment
<1>6. CASE UNCHANGED vars
  BY <1>6 DEF vars, TypeInv, TypeOK, TablesOK, TasksOK, AtPart
<1>7. QED BY <1>1, <1>2, <1>3, <1>4, <1>5, <1>6 DEF Next

(* The types are kept, for any number of deliveries, callers and parts.     *)
THEOREM TypeCorrect == Spec => []TypeOK
<1>1. TypeInv => TypeOK
  BY DEF TypeInv
<1>2. QED BY InitType, NextType, <1>1, PTL DEF Spec

-----------------------------------------------------------------------------
(* Mutual exclusion.  ExclusiveSender is inductive with the types.          *)

Inv == TypeInv /\ ExclusiveSender

InRoundPc == {"prepare", "part", "send", "recordpart", "finish"}

(* The steps of a round before its result is recorded.                      *)
InnerStep(s) ==
  \/ Unroutable(s) \/ Suppress(s)
  \/ \E n \in PlanSizes : PlanParts(s, n)
  \/ SkipDelivered(s) \/ StartPart(s)
  \/ \E r \in {"failed", "ambiguous"} : StopAtSettled(s, r)
  \/ \E o \in Outcomes, taken \in BOOLEAN : Send(s, o, taken)
  \/ RecordPart(s) \/ AllPartsDone(s)

(* A step inside a round leaves the outbox rows and the other senders alone. *)
LEMMA InnerStepFrame ==
  ASSUME TypeInv, NEW s \in Senders, InnerStep(s)
  PROVE  /\ row' = row /\ cur' = cur /\ crashes' = crashes /\ answer' = answer
         /\ pc[s] \in InRoundPc
         /\ \E p \in InRoundPc : pc' = [pc EXCEPT ![s] = p]
<1>1. CASE Unroutable(s) \/ Suppress(s) \/ AllPartsDone(s)
             \/ \E r \in {"failed", "ambiguous"} : StopAtSettled(s, r)
  BY <1>1 DEF Unroutable, Suppress, AllPartsDone, StopAtSettled, tables, world, InRoundPc
<1>2. CASE \E n \in PlanSizes : PlanParts(s, n)
  BY <1>2 DEF PlanParts, world, InRoundPc
<1>3. CASE SkipDelivered(s)
  BY <1>3 DEF SkipDelivered, tables, world, InRoundPc, TypeInv, TypeOK, TasksOK
<1>4. CASE StartPart(s)
  BY <1>4 DEF StartPart, world, InRoundPc
<1>5. CASE \E o \in Outcomes, taken \in BOOLEAN : Send(s, o, taken)
  BY <1>5 DEF Send, tables, InRoundPc
<1>6. CASE RecordPart(s)
  <2>1. /\ pc[s] = "recordpart" /\ row' = row /\ cur' = cur /\ answer' = answer
        /\ crashes' = crashes
    BY <1>6 DEF RecordPart, world
  <2>2. CASE reply[s] = "ok"
    BY <1>6, <2>1, <2>2 DEF RecordPart, InRoundPc
  <2>3. CASE reply[s] # "ok"
    BY <1>6, <2>1, <2>3 DEF RecordPart, InRoundPc
  <2>4. QED BY <2>2, <2>3
<1>7. QED BY <1>1, <1>2, <1>3, <1>4, <1>5, <1>6 DEF InnerStep

(* No sender holds a delivery when the process starts. *)
LEMMA InitExclusive == Init => ExclusiveSender
BY DEF Init, ExclusiveSender, InRound

(* A claim is granted only on a row that no round holds.                    *)
LEMMA ClaimRowExclusive ==
  ASSUME Inv, NEW s \in Senders, NEW d \in Deliveries, ClaimRow(s, d), pc[s] = "claim"
  PROVE  ExclusiveSender'
<1>1. \A t \in Senders : InRound(t) => cur[t] # d
  BY DEF Inv, ExclusiveSender, ClaimRow, Claimable
<1>2. /\ row'[d].status = "sending"
      /\ \A e \in Deliveries \ {d} : row'[e] = row[e]
      /\ cur' = [cur EXCEPT ![s] = d]
      /\ pc' = [pc EXCEPT ![s] = "prepare"]
  BY DEF ClaimRow, Inv, TypeInv, TypeOK, TablesOK, Rows
<1>3. \A t \in Senders : cur[t] \in Deliveries
  BY DEF Inv, TypeInv, TypeOK, TasksOK
<1>4. QED
  BY <1>1, <1>2, <1>3 DEF Inv, TypeInv, TypeOK, TasksOK, ExclusiveSender, InRound

(* A sender that goes on in its round holds what it held.                   *)
LEMMA InnerStepExclusive ==
  ASSUME Inv, NEW s \in Senders, InnerStep(s)
  PROVE  ExclusiveSender'
<1>1. PICK p \in InRoundPc : pc' = [pc EXCEPT ![s] = p]
  BY InnerStepFrame DEF Inv
<1>2. row' = row /\ cur' = cur /\ pc[s] \in InRoundPc
  BY InnerStepFrame DEF Inv
<1>3. QED
  BY <1>1, <1>2 DEF Inv, TypeInv, TypeOK, TasksOK, ExclusiveSender, InRound, InRoundPc

(* Every step keeps the senders apart: the inductive step of SendersExclude. *)
LEMMA NextExclusive == Inv /\ [Next]_vars => ExclusiveSender'
<1> SUFFICES ASSUME Inv, [Next]_vars
             PROVE  ExclusiveSender'
  OBVIOUS
<1> USE DEF Inv, TypeInv
<1>0. /\ \A t \in Senders : cur[t] \in Deliveries
      /\ pc \in [Senders -> {"idle", "claim", "prepare", "part", "send", "recordpart", "finish"}]
      /\ cur \in [Senders -> Deliveries]
      /\ row \in [Deliveries -> Rows]
  BY DEF TypeOK, TablesOK, TasksOK
<1>1. ASSUME NEW s \in Callers, NEW d \in Deliveries, Enqueue(s, d)
      PROVE  ExclusiveSender'
  <2>1. s \in Senders /\ pc[s] = "idle" /\ pc' = [pc EXCEPT ![s] = "claim"]
        /\ cur' = [cur EXCEPT ![s] = d]
    BY <1>1 DEF Enqueue, Senders
  <2>2. \A e \in Deliveries : row[e].status = "sending" => row'[e].status = "sending"
    BY <1>0, <1>1 DEF Enqueue, Inserted, Rows
  <2>3. QED BY <1>0, <2>1, <2>2 DEF ExclusiveSender, InRound
<1>2. ASSUME NEW s \in Callers, Claim(s)
      PROVE  ExclusiveSender'
  <2>1. s \in Senders /\ cur[s] \in Deliveries /\ pc[s] = "claim"
    BY <1>0, <1>2 DEF Claim, Senders
  <2>2. CASE ClaimRow(s, cur[s])
    BY <2>1, <2>2, ClaimRowExclusive
  <2>3. CASE UNCHANGED <<row, cur>> /\ pc' = [pc EXCEPT ![s] = "idle"]
    BY <1>0, <2>1, <2>3 DEF ExclusiveSender, InRound
  <2>4. QED BY <1>2, <2>2, <2>3 DEF Claim
<1>3. CASE WorkerPoll
  <2>1. Worker \in Senders
    BY DEF Senders
  <2>2. CASE LoadDue
    BY <1>0, <2>1, <2>2 DEF LoadDue, tables, ExclusiveSender, InRound
  <2>3. ASSUME NEW d \in Deliveries, ClaimNext(d)
        PROVE  ExclusiveSender'
    <3>1. CASE ClaimRow(Worker, d)
      BY <2>1, <2>3, <3>1, ClaimRowExclusive DEF ClaimNext
    <3>2. CASE UNCHANGED <<row, cur>>
                 /\ pc' = [pc EXCEPT ![Worker] = IF batch' = {} THEN "idle" ELSE "claim"]
      BY <1>0, <2>1, <2>3, <3>2 DEF ClaimNext, ExclusiveSender, InRound
    <3>3. QED BY <2>3, <3>1, <3>2 DEF ClaimNext
  <2>4. QED BY <1>3, <2>2, <2>3 DEF WorkerPoll
<1>4. ASSUME NEW s \in Senders, InnerStep(s)
      PROVE  ExclusiveSender'
  BY <1>4, InnerStepExclusive
<1>5. ASSUME NEW s \in Senders, RecordResult(s)
      PROVE  ExclusiveSender'
  <2>1. /\ pc[s] = "finish"
        /\ pc' = [pc EXCEPT ![s] = AfterRound(s)]
        /\ cur' = cur
        /\ \A e \in Deliveries : e # cur[s] => row'[e] = row[e]
    BY <1>0, <1>5 DEF RecordResult
  <2>2. AfterRound(s) \in {"idle", "claim"}
    BY DEF AfterRound
  <2>3. QED BY <1>0, <2>1, <2>2 DEF ExclusiveSender, InRound
<1>6. ASSUME NEW d \in Deliveries, BackoffElapses(d)
      PROVE  ExclusiveSender'
  <2>1. \A e \in Deliveries : row'[e].status = row[e].status
    BY <1>0, <1>6 DEF BackoffElapses, Rows
  <2>2. QED BY <1>0, <1>6, <2>1 DEF BackoffElapses, tasks, ExclusiveSender, InRound
<1>7. ASSUME NEW s \in Callers, CancelCaller(s)
      PROVE  ExclusiveSender'
  BY <1>0, <1>7 DEF CancelCaller, tables, ExclusiveSender, InRound, Senders
<1>8. CASE CrashRestart
  <2>1. pc' = [s \in Senders |-> "idle"]
    BY <1>8, Zenon DEF CrashRestart
  <2>2. QED BY <2>1 DEF ExclusiveSender, InRound
<1>9. CASE UNCHANGED vars
  BY <1>9 DEF vars, ExclusiveSender, InRound
<1>10. QED
  BY <1>1, <1>2, <1>3, <1>4, <1>5, <1>6, <1>7, <1>8, <1>9
  DEF Next, Round, InnerStep, Environment

(* The types and the exclusion of the senders are invariants together. *)
THEOREM InvCorrect == Spec => []Inv
<1>1. Init => Inv
  BY InitType, InitExclusive DEF Inv
<1>2. Inv /\ [Next]_vars => Inv'
  BY NextType, NextExclusive DEF Inv
<1>3. QED BY <1>1, <1>2, PTL DEF Spec

(* However many tasks call deliver() and whatever the worker read, a row is *)
(* held by one sender at a time and is 'sending' as long as it is held.     *)
THEOREM SendersExclude == Spec => []ExclusiveSender
BY InvCorrect, PTL DEF Inv

-----------------------------------------------------------------------------
(* Settled rows and the answers that tell of them.                          *)

(* No single step changes a settled row. *)
LEMMA SettledStep ==
  ASSUME Inv, [Next]_vars, NEW d \in Deliveries, row[d].status \in Terminal
  PROVE  row'[d] = row[d]
<1>0. row \in [Deliveries -> Rows] /\ \A s \in Senders : cur[s] \in Deliveries
  BY DEF Inv, TypeInv, TypeOK, TablesOK, TasksOK
<1>1. ASSUME NEW s \in Callers, NEW e \in Deliveries, Enqueue(s, e)
      PROVE  row'[d] = row[d]
  <2>1. row' = [row EXCEPT ![e] = [row[e] EXCEPT !.status = Inserted(row[e].status)]]
    BY <1>1 DEF Enqueue
  <2>2. CASE e = d
    <3>1. Inserted(row[d].status) = row[d].status
      BY DEF Inserted, Terminal
    <3>2. [row[d] EXCEPT !.status = row[d].status] = row[d]
      BY <1>0 DEF Rows
    <3>3. QED BY <1>0, <2>1, <2>2, <3>1, <3>2
  <2>3. QED BY <1>0, <2>1, <2>2
<1>2. ASSUME NEW s \in Senders, NEW e \in Deliveries, ClaimRow(s, e)
      PROVE  row'[d] = row[d]
  <2>1. e # d
    BY <1>2 DEF ClaimRow, Claimable, Terminal
  <2>2. QED BY <1>0, <1>2, <2>1 DEF ClaimRow
<1>3. ASSUME NEW s \in Callers, Claim(s)
      PROVE  row'[d] = row[d]
  BY <1>0, <1>2, <1>3 DEF Claim, Senders
<1>4. CASE WorkerPoll
  BY <1>2, <1>4 DEF WorkerPoll, LoadDue, ClaimNext, tables, Senders
<1>5. ASSUME NEW s \in Senders, InnerStep(s)
      PROVE  row'[d] = row[d]
  BY <1>5, InnerStepFrame DEF Inv
<1>6. ASSUME NEW s \in Senders, RecordResult(s)
      PROVE  row'[d] = row[d]
  <2>1. cur[s] # d
    BY <1>6 DEF RecordResult, Inv, ExclusiveSender, InRound, Terminal
  <2>2. QED BY <1>0, <1>6, <2>1 DEF RecordResult
<1>7. ASSUME NEW e \in Deliveries, BackoffElapses(e)
      PROVE  row'[d] = row[d]
  BY <1>0, <1>7 DEF BackoffElapses, Terminal
<1>8. ASSUME NEW s \in Callers, CancelCaller(s)
      PROVE  row'[d] = row[d]
  BY <1>8 DEF CancelCaller, tables
<1>9. CASE CrashRestart
  <2>1. row' = [e \in Deliveries |->
          [row[e] EXCEPT !.status = Reopened(row[e].status),
                         !.due = row[e].due \/ row[e].status = "sending"]]
    BY <1>9, Zenon DEF CrashRestart
  <2>2. row'[d] = [row[d] EXCEPT !.status = Reopened(row[d].status),
                                 !.due = row[d].due \/ row[d].status = "sending"]
    BY <2>1, Zenon
  <2>3. row[d].status # "sending" /\ Reopened(row[d].status) = row[d].status
    BY DEF Reopened, Terminal
  <2>4. row[d].due \in BOOLEAN
    BY <1>0 DEF Rows
  <2>5. (row[d].due \/ row[d].status = "sending") = row[d].due
    BY <2>3, <2>4
  <2>6. [row[d] EXCEPT !.status = row[d].status, !.due = row[d].due] = row[d]
    BY <1>0 DEF Rows
  <2>7. QED BY <2>2, <2>3, <2>5, <2>6
<1>10. CASE UNCHANGED vars
  BY <1>10 DEF vars
<1>11. QED
  BY <1>1, <1>3, <1>4, <1>5, <1>6, <1>7, <1>8, <1>9, <1>10
  DEF Next, Round, InnerStep, Environment

(* No call, retry, back-off, cancellation or restart reopens a settled row. *)
THEOREM SettledStays == Spec => SettledIsFinal
<1>1. Inv /\ [Next]_vars =>
        [\A d \in Deliveries : row[d].status \in Terminal => row'[d] = row[d]]_vars
  BY SettledStep
<1>2. QED BY <1>1, InvCorrect, PTL DEF Spec, SettledIsFinal

-----------------------------------------------------------------------------
(* The order of the parts, built on the exclusion of senders.              *)

AtOperation(s) == pc[s] \in {"part", "send", "recordpart"}

(* What a round knows of the parts it has passed and of the one it sends.   *)
RoundInOrder ==
  \A s \in Senders : AtOperation(s) =>
    /\ plan[s] \in PlanSizes
    /\ \A j \in 1 .. idx[s] - 1 : part[cur[s]][j].status = "delivered"
    /\ pc[s] # "part" => part[cur[s]][idx[s]].status = "sending"

OrderInv == Inv /\ RoundInOrder /\ PartsInOrder

-----------------------------------------------------------------------------
(* What each action does to the part rows. *)

(* The types of the part rows and of what a sender knows of its round. *)
LEMMA Typed ==
  ASSUME Inv
  PROVE  /\ part \in [Deliveries -> [Parts -> PartRows]]
         /\ \A d \in Deliveries, i \in Parts : part[d][i].status \in PartStatuses
         /\ cur \in [Senders -> Deliveries]
         /\ pc \in [Senders -> {"idle", "claim", "prepare", "part", "send", "recordpart", "finish"}]
         /\ idx \in [Senders -> 1 .. NumParts + 1]
         /\ plan \in [Senders -> 0 .. NumParts]
         /\ Parts = 1 .. NumParts /\ NumParts \in Nat
         /\ \A i \in Parts : 1 .. i - 1 \subseteq Parts
<1>1. part \in [Deliveries -> [Parts -> PartRows]]
  BY DEF Inv, TypeInv, TypeOK, TablesOK
<1>2. \A d \in Deliveries, i \in Parts : part[d][i].status \in PartStatuses
  BY <1>1 DEF PartRows
<1>3. QED BY <1>1, <1>2, PartsAssumption DEF Inv, TypeInv, TypeOK, TasksOK, Parts

(* A sender at an operation of its plan points at a part of its delivery. *)
LEMMA AtOperationTyped ==
  ASSUME Inv, NEW s \in Senders, Remaining(s) \/ pc[s] \in {"send", "recordpart"}
  PROVE  cur[s] \in Deliveries /\ idx[s] \in Parts /\ idx[s] <= plan[s]
BY Typed DEF Remaining, Inv, TypeInv, AtPart

(* ensure_parts turns missing parts of its delivery to 'pending', no other. *)
LEMMA PlanPartsStatus ==
  ASSUME Inv, NEW s \in Senders, NEW n \in PlanSizes, PlanParts(s, n),
         NEW d \in Deliveries, NEW i \in Parts
  PROVE  \/ part'[d][i].status = part[d][i].status
         \/ part[d][i].status = "absent" /\ part'[d][i].status = "pending"
<1> DEFINE fresh(p) == [k \in Parts |-> IF k <= n /\ p[k].status = "absent"
                          THEN [status |-> "pending", attempts |-> 0] ELSE p[k]]
<1>1. part' = [part EXCEPT ![cur[s]] = fresh(part[cur[s]])]
  BY DEF PlanParts
<1>2. fresh(part[d])[i] = IF i <= n /\ part[d][i].status = "absent"
                          THEN [status |-> "pending", attempts |-> 0] ELSE part[d][i]
  OBVIOUS
<1> HIDE DEF fresh
<1>3. part'[d] = IF d = cur[s] THEN fresh(part[d]) ELSE part[d]
  BY <1>1, Typed
<1>4. QED BY <1>2, <1>3

(* start_part turns the current part to 'sending', no other. *)
LEMMA StartPartStatus ==
  ASSUME Inv, NEW s \in Senders, StartPart(s), NEW d \in Deliveries, NEW i \in Parts
  PROVE  part'[d][i].status = IF d = cur[s] /\ i = idx[s] THEN "sending" ELSE part[d][i].status
<1>1. cur[s] \in Deliveries /\ idx[s] \in Parts
  BY AtOperationTyped DEF StartPart
<1>2. QED BY <1>1, Typed DEF StartPart, PartRows

(* record_part_result settles or reopens the current part, no other. *)
LEMMA RecordPartStatus ==
  ASSUME Inv, NEW s \in Senders, RecordPart(s), NEW d \in Deliveries, NEW i \in Parts
  PROVE  part'[d][i].status =
           IF d = cur[s] /\ i = idx[s]
           THEN PartStatusAfter(reply[s], part[d][i].attempts + 1) ELSE part[d][i].status
<1> DEFINE p == [status |-> PartStatusAfter(reply[s], part[cur[s]][idx[s]].attempts + 1),
                 attempts |-> part[cur[s]][idx[s]].attempts + 1]
<1>1. cur[s] \in Deliveries /\ idx[s] \in Parts
  BY AtOperationTyped DEF RecordPart
<1>2. part' = [part EXCEPT ![cur[s]][idx[s]] = p]
  BY DEF RecordPart
<1>3. p.status = PartStatusAfter(reply[s], part[cur[s]][idx[s]].attempts + 1)
  OBVIOUS
<1> HIDE DEF p
<1>4. part'[d][i] = IF d = cur[s] /\ i = idx[s] THEN p ELSE part[d][i]
  BY <1>1, <1>2, Typed
<1>5. QED BY <1>3, <1>4

(* A restart turns the parts that were being sent to 'retry', no other. *)
LEMMA CrashStatus ==
  ASSUME Inv, CrashRestart, NEW d \in Deliveries, NEW i \in Parts
  PROVE  part'[d][i].status = Reopened(part[d][i].status)
<1>1. part' = [e \in Deliveries |-> [k \in Parts |->
        [part[e][k] EXCEPT !.status = Reopened(part[e][k].status)]]]
  BY Zenon DEF CrashRestart
<1>2. part'[d][i] = [part[d][i] EXCEPT !.status = Reopened(part[d][i].status)]
  BY <1>1, Zenon
<1>3. part[d][i] \in PartRows
  BY Typed
<1>4. QED BY <1>2, <1>3 DEF PartRows

(* The actions that leave the part rows alone.                              *)
Elsewhere ==
  \/ \E s \in Callers, d \in Deliveries : Enqueue(s, d)
  \/ \E s \in Callers : Claim(s)
  \/ WorkerPoll
  \/ \E s \in Senders : \/ Unroutable(s) \/ Suppress(s) \/ SkipDelivered(s) \/ AllPartsDone(s)
                        \/ \E r \in {"failed", "ambiguous"} : StopAtSettled(s, r)
                        \/ \E o \in Outcomes, taken \in BOOLEAN : Send(s, o, taken)
                        \/ RecordResult(s)
  \/ \E d \in Deliveries : BackoffElapses(d)
  \/ \E s \in Callers : CancelCaller(s)
  \/ UNCHANGED vars

(* The remaining steps leave the part rows alone. *)
LEMMA PartKept == Elsewhere => part' = part
BY DEF Elsewhere, Enqueue, Claim, WorkerPoll, LoadDue, ClaimNext, Unroutable, Suppress,
  SkipDelivered, AllPartsDone, StopAtSettled, Send, RecordResult, BackoffElapses, CancelCaller,
  tables, vars

(* The steps, grouped by what they do to the part rows. *)
LEMMA NextCases ==
  ASSUME [Next]_vars
  PROVE  \/ Elsewhere
         \/ \E s \in Senders, n \in PlanSizes : PlanParts(s, n)
         \/ \E s \in Senders : StartPart(s) \/ RecordPart(s)
         \/ CrashRestart
BY DEF Next, Round, Environment, Elsewhere

(* A part that is recorded as delivered stays so.                           *)
LEMMA DeliveredStays ==
  ASSUME OrderInv, [Next]_vars, NEW d \in Deliveries, NEW i \in Parts,
         part[d][i].status = "delivered"
  PROVE  part'[d][i].status = "delivered"
<1>1. Inv
  BY DEF OrderInv
<1>2. CASE Elsewhere
  BY <1>2, PartKept
<1>3. CASE \E s \in Senders, n \in PlanSizes : PlanParts(s, n)
  BY <1>1, <1>3, PlanPartsStatus
<1>4. ASSUME NEW s \in Senders, StartPart(s)
      PROVE  part'[d][i].status = "delivered"
  <2>1. ~(d = cur[s] /\ i = idx[s])
    BY <1>4 DEF StartPart, Record
  <2>2. QED BY <1>1, <1>4, <2>1, StartPartStatus
<1>5. ASSUME NEW s \in Senders, RecordPart(s)
      PROVE  part'[d][i].status = "delivered"
  <2>1. part[cur[s]][idx[s]].status = "sending"
    BY <1>5 DEF RecordPart, OrderInv, RoundInOrder, AtOperation
  <2>2. QED BY <1>1, <1>5, <2>1, RecordPartStatus
<1>6. CASE CrashRestart
  BY <1>1, <1>6, CrashStatus DEF Reopened
<1>7. QED BY <1>2, <1>3, <1>4, <1>5, <1>6, NextCases

-----------------------------------------------------------------------------
(* Parts are taken in order. *)

(* No part exists and no round runs when the process first starts. *)
LEMMA InitOrder == Init => RoundInOrder /\ PartsInOrder
BY DEF Init, RoundInOrder, PartsInOrder, AtOperation

(* Every step keeps the order of the parts, as PartsOrdered needs. *)
LEMMA PartsInOrderStep == OrderInv /\ [Next]_vars => PartsInOrder'
<1> SUFFICES ASSUME OrderInv, [Next]_vars,
                    NEW d \in Deliveries, NEW i \in Parts,
                    part'[d][i].status \notin {"absent", "pending"},
                    NEW j \in 1 .. i - 1
             PROVE  part'[d][j].status = "delivered"
  BY DEF PartsInOrder
<1>1. Inv /\ j \in Parts
  BY Typed DEF OrderInv
<1>2. SUFFICES part[d][j].status = "delivered"
  BY <1>1, DeliveredStays
<1>3. CASE part[d][i].status \notin {"absent", "pending"}
  BY <1>3 DEF OrderInv, PartsInOrder
<1>4. CASE part[d][i].status \in {"absent", "pending"}
  <2>1. CASE Elsewhere
    BY <1>4, <2>1, PartKept
  <2>2. CASE \E s \in Senders, n \in PlanSizes : PlanParts(s, n)
    BY <1>1, <1>4, <2>2, PlanPartsStatus
  <2>3. ASSUME NEW s \in Senders, StartPart(s)
        PROVE  part[d][j].status = "delivered"
    <3>1. d = cur[s] /\ i = idx[s]
      BY <1>1, <1>4, <2>3, StartPartStatus
    <3>2. QED BY <2>3, <3>1 DEF StartPart, OrderInv, RoundInOrder, AtOperation
  <2>4. ASSUME NEW s \in Senders, RecordPart(s)
        PROVE  part[d][j].status = "delivered"
    <3>1. d = cur[s] /\ i = idx[s]
      BY <1>1, <1>4, <2>4, RecordPartStatus
    <3>2. QED BY <2>4, <3>1 DEF RecordPart, OrderInv, RoundInOrder, AtOperation
  <2>5. CASE CrashRestart
    BY <1>1, <1>4, <2>5, CrashStatus DEF Reopened
  <2>6. QED BY <2>1, <2>2, <2>3, <2>4, <2>5, NextCases
<1>5. QED BY <1>3, <1>4

(* A sender that another one's step leaves alone keeps what it knows: the   *)
(* step writes the parts of another delivery.                               *)
LEMMA OtherRound ==
  ASSUME OrderInv, NEW s \in Senders, NEW t \in Senders, InnerStep(s), t # s, AtOperation(t)'
  PROVE  AtOperation(t) /\ cur'[t] = cur[t] /\ cur[t] # cur[s] /\ pc'[t] = pc[t]
<1>1. cur' = cur /\ pc[s] \in InRoundPc /\ \E p \in InRoundPc : pc' = [pc EXCEPT ![s] = p]
  BY InnerStepFrame DEF OrderInv, Inv
<1>2. pc'[t] = pc[t]
  BY <1>1, Typed DEF OrderInv
<1>3. QED
  BY <1>1, <1>2 DEF AtOperation, OrderInv, Inv, ExclusiveSender, InRound, InRoundPc

(* Every step keeps what the rounds know of the parts behind them. *)
LEMMA RoundInOrderStep == OrderInv /\ [Next]_vars => RoundInOrder'
<1> SUFFICES ASSUME OrderInv, [Next]_vars, NEW t \in Senders, AtOperation(t)'
             PROVE  /\ plan'[t] \in PlanSizes
                    /\ \A j \in 1 .. idx'[t] - 1 : part'[cur'[t]][j].status = "delivered"
                    /\ pc'[t] # "part" => part'[cur'[t]][idx'[t]].status = "sending"
  BY DEF RoundInOrder
<1> DEFINE Goal == /\ plan'[t] \in PlanSizes
                   /\ \A j \in 1 .. idx'[t] - 1 : part'[cur'[t]][j].status = "delivered"
                   /\ pc'[t] # "part" => part'[cur'[t]][idx'[t]].status = "sending"
<1>0. Inv /\ cur[t] \in Deliveries /\ Worker \in Senders /\ Callers \subseteq Senders
  BY Typed DEF OrderInv, Senders
<1>1. ASSUME AtOperation(t), UNCHANGED <<plan, idx>>, cur'[t] = cur[t], pc'[t] = pc[t],
             \A i \in Parts : part'[cur[t]][i].status = part[cur[t]][i].status
      PROVE  Goal
  <2>1. pc[t] # "part" => idx[t] \in Parts
    BY <1>0, <1>1, AtOperationTyped DEF AtOperation
  <2>2. \A j \in 1 .. idx[t] - 1 : j \in Parts
    BY <1>0, Typed
  <2>3. QED BY <1>1, <2>1, <2>2 DEF OrderInv, RoundInOrder
<1>2. ASSUME NEW s \in Callers, NEW d \in Deliveries, Enqueue(s, d)
      PROVE  Goal
  BY <1>0, <1>1, <1>2, Typed DEF Enqueue, AtOperation
<1>3. ASSUME NEW s \in Callers, Claim(s)
      PROVE  Goal
  BY <1>0, <1>1, <1>3, Typed DEF Claim, ClaimRow, AtOperation
<1>4. CASE WorkerPoll
  BY <1>0, <1>1, <1>4, Typed DEF WorkerPoll, LoadDue, ClaimNext, ClaimRow, AtOperation, tables
<1>5. ASSUME NEW s \in Senders, InnerStep(s)
      PROVE  Goal
  <2>1. CASE t # s
    <3>1. /\ AtOperation(t) /\ cur'[t] = cur[t] /\ cur[t] # cur[s] /\ pc'[t] = pc[t]
          /\ cur[s] \in Deliveries
      BY <1>0, <1>5, <2>1, OtherRound, Typed
    <3>2. plan'[t] = plan[t] /\ idx'[t] = idx[t]
      BY <1>0, <1>5, <2>1, Typed
      DEF InnerStep, Unroutable, Suppress, PlanParts, SkipDelivered, StartPart, StopAtSettled,
        Send, RecordPart, AllPartsDone, Inv, TypeInv, TypeOK, TasksOK
    <3>3. \A i \in Parts : part'[cur[t]][i].status = part[cur[t]][i].status
      <4>1. CASE \E n \in PlanSizes : PlanParts(s, n)
        BY <1>0, <3>1, <4>1, Typed DEF PlanParts
      <4>2. CASE StartPart(s)
        BY <1>0, <3>1, <4>2, StartPartStatus
      <4>3. CASE RecordPart(s)
        BY <1>0, <3>1, <4>3, RecordPartStatus
      <4>4. CASE Elsewhere
        BY <4>4, PartKept
      <4>5. QED BY <1>5, <4>1, <4>2, <4>3, <4>4 DEF InnerStep, Elsewhere
    <3>4. \A j \in 1 .. idx[t] - 1 : j \in Parts
      BY <1>0, Typed
    <3>5. pc[t] # "part" => idx[t] \in Parts
      BY <1>0, <3>1, AtOperationTyped DEF AtOperation
    <3>6. QED BY <3>1, <3>2, <3>3, <3>4, <3>5 DEF OrderInv, RoundInOrder
  <2>2. CASE t = s
    <3>1. CASE \E n \in PlanSizes : PlanParts(s, n)
      BY <1>0, <2>2, <3>1, Typed DEF PlanParts, Inv, TypeInv, TypeOK, TasksOK
    <3>2. CASE SkipDelivered(s)
      <4>1. /\ UNCHANGED <<part, cur, plan, pc>> /\ pc[s] = "part"
            /\ idx'[s] = idx[s] + 1 /\ idx[s] \in Nat
            /\ part[cur[s]][idx[s]].status = "delivered"
        BY <1>0, <3>2, Typed DEF SkipDelivered, Record, tables
      <4>2. \A j \in 1 .. idx[s] : j = idx[s] \/ j \in 1 .. idx[s] - 1
        BY <4>1
      <4>3. QED BY <2>2, <4>1, <4>2 DEF OrderInv, RoundInOrder, AtOperation
    <3>3. CASE StartPart(s)
      <4>1. /\ UNCHANGED <<cur, plan, idx>> /\ pc[s] = "part"
            /\ cur[s] \in Deliveries /\ idx[s] \in Parts
        BY <1>0, <3>3, AtOperationTyped DEF StartPart
      <4>2. \A j \in 1 .. idx[s] - 1 : j \in Parts /\ j # idx[s]
        BY <1>0, <4>1, Typed
      <4>3. \A j \in Parts : part'[cur[s]][j].status =
                               IF j = idx[s] THEN "sending" ELSE part[cur[s]][j].status
        BY <1>0, <3>3, <4>1, StartPartStatus
      <4>4. QED BY <2>2, <4>1, <4>2, <4>3 DEF OrderInv, RoundInOrder, AtOperation
    <3>4. ASSUME NEW o \in Outcomes, NEW taken \in BOOLEAN, Send(s, o, taken)
          PROVE  Goal
      BY <1>0, <2>2, <3>4, Typed DEF Send, tables, OrderInv, RoundInOrder, AtOperation
    <3>5. CASE RecordPart(s)
      <4>1. reply[s] = "ok"
        BY <1>0, <2>2, <3>5, Typed DEF RecordPart, AtOperation
      <4>2. /\ UNCHANGED <<cur, plan>> /\ pc[s] = "recordpart" /\ pc'[s] = "part"
            /\ cur[s] \in Deliveries /\ idx[s] \in Parts /\ idx'[s] = idx[s] + 1
            /\ idx[s] \in Nat
        BY <1>0, <3>5, <4>1, AtOperationTyped, Typed DEF RecordPart
      <4>3. \A j \in Parts : part'[cur[s]][j].status =
                               IF j = idx[s] THEN "delivered" ELSE part[cur[s]][j].status
        BY <1>0, <3>5, <4>1, <4>2, RecordPartStatus DEF PartStatusAfter
      <4>4. \A j \in 1 .. idx[s] : j = idx[s] \/ (j \in 1 .. idx[s] - 1 /\ j \in Parts)
        BY <1>0, <4>2, Typed
      <4>5. QED BY <2>2, <4>2, <4>3, <4>4 DEF OrderInv, RoundInOrder, AtOperation
    <3>6. CASE Unroutable(s) \/ Suppress(s) \/ AllPartsDone(s)
                 \/ \E r \in {"failed", "ambiguous"} : StopAtSettled(s, r)
      BY <1>0, <2>2, <3>6, Typed
      DEF Unroutable, Suppress, AllPartsDone, StopAtSettled, AtOperation
    <3>7. QED BY <1>5, <3>1, <3>2, <3>3, <3>4, <3>5, <3>6 DEF InnerStep
  <2>3. QED BY <2>1, <2>2
<1>6. ASSUME NEW s \in Senders, RecordResult(s)
      PROVE  Goal
  <2>1. t # s
    BY <1>0, <1>6, Typed DEF RecordResult, AfterRound, AtOperation
  <2>2. /\ UNCHANGED <<part, cur>> /\ plan'[t] = plan[t] /\ idx'[t] = idx[t] /\ pc'[t] = pc[t]
    BY <1>0, <1>6, <2>1, ForgetRoundType, Typed DEF RecordResult, Inv
  <2>3. QED BY <2>2 DEF OrderInv, RoundInOrder, AtOperation
<1>7. ASSUME NEW d \in Deliveries, BackoffElapses(d)
      PROVE  Goal
  BY <1>7 DEF BackoffElapses, tasks, OrderInv, RoundInOrder, AtOperation
<1>8. ASSUME NEW s \in Callers, CancelCaller(s)
      PROVE  Goal
  <2>1. t # s
    BY <1>0, <1>8, Typed DEF CancelCaller, AtOperation
  <2>2. /\ UNCHANGED <<part, cur>> /\ plan'[t] = plan[t] /\ idx'[t] = idx[t] /\ pc'[t] = pc[t]
    BY <1>0, <1>8, <2>1, ForgetRoundType, Typed DEF CancelCaller, Inv, tables
  <2>3. QED BY <2>2 DEF OrderInv, RoundInOrder, AtOperation
<1>9. CASE CrashRestart
  <2>1. pc' = [s \in Senders |-> "idle"]
    BY <1>9, Zenon DEF CrashRestart
  <2>2. QED BY <2>1 DEF AtOperation
<1>10. CASE UNCHANGED vars
  BY <1>10 DEF vars, OrderInv, RoundInOrder, AtOperation
<1>11. QED
  BY <1>2, <1>3, <1>4, <1>5, <1>6, <1>7, <1>8, <1>9, <1>10
  DEF Next, Round, InnerStep, Environment

(* The order of the parts and what the rounds know of it are invariants. *)
THEOREM OrderInvCorrect == Spec => []OrderInv
<1>1. Init => OrderInv
  BY InitType, InitExclusive, InitOrder DEF OrderInv, Inv
<1>2. OrderInv /\ [Next]_vars => OrderInv'
  BY NextType, NextExclusive, PartsInOrderStep, RoundInOrderStep DEF OrderInv, Inv
<1>3. QED BY <1>1, <1>2, PTL DEF Spec

(* In every round, after retries, changed plans and restarts, a part is     *)
(* touched only when all parts before it are delivered.                     *)
THEOREM PartsOrdered == Spec => []PartsInOrder
BY OrderInvCorrect, PTL DEF OrderInv

-----------------------------------------------------------------------------
(* A row that is 'delivered' has a whole plan delivered. *)

(* The ways in which the status of a row changes.                           *)
LEMMA RowChanges ==
  ASSUME Inv, [Next]_vars, NEW d \in Deliveries, row'[d].status # row[d].status
  PROVE  \/ /\ \E s \in Callers : Enqueue(s, d)
            /\ row[d].status = "absent" /\ row'[d].status = "pending"
         \/ row[d].status \in Open /\ row'[d].status \in Open
         \/ \E s \in Senders : /\ RecordResult(s) /\ cur[s] = d /\ row[d].status = "sending"
                               /\ row'[d].status = RowStatusAfter(res[s], row[d].attempts + 1)
<1>0. /\ row \in [Deliveries -> Rows] /\ \A s \in Senders : cur[s] \in Deliveries
      /\ Worker \in Senders /\ Callers \subseteq Senders
  BY DEF Inv, TypeInv, TypeOK, TablesOK, TasksOK, Senders
<1>1. ASSUME NEW s \in Callers, NEW e \in Deliveries, Enqueue(s, e)
      PROVE  Enqueue(s, d) /\ row[d].status = "absent" /\ row'[d].status = "pending"
  BY <1>0, <1>1 DEF Enqueue, Inserted, Rows
<1>2. ASSUME NEW s \in Senders, NEW e \in Deliveries, ClaimRow(s, e)
      PROVE  row[d].status \in Open /\ row'[d].status \in Open
  BY <1>0, <1>2 DEF ClaimRow, Open, Rows
<1>3. CASE \E s \in Callers : Claim(s)
  BY <1>0, <1>2, <1>3 DEF Claim
<1>4. CASE WorkerPoll
  BY <1>0, <1>2, <1>4 DEF WorkerPoll, LoadDue, ClaimNext, tables
<1>5. CASE \E s \in Senders : InnerStep(s)
  BY <1>5, InnerStepFrame DEF Inv
<1>6. ASSUME NEW s \in Senders, RecordResult(s)
      PROVE  /\ cur[s] = d /\ row[d].status = "sending"
             /\ row'[d].status = RowStatusAfter(res[s], row[d].attempts + 1)
  <2>1. cur[s] = d
    BY <1>0, <1>6 DEF RecordResult
  <2>2. row'[d].status = RowStatusAfter(res[s], row[d].attempts + 1)
    BY <1>0, <1>6, <2>1 DEF RecordResult
  <2>3. QED BY <1>6, <2>1, <2>2 DEF RecordResult, Inv, ExclusiveSender, InRound
<1>7. CASE \E e \in Deliveries : BackoffElapses(e)
  BY <1>0, <1>7 DEF BackoffElapses, Rows
<1>8. CASE CrashRestart
  <2>1. row' = [e \in Deliveries |->
          [row[e] EXCEPT !.status = Reopened(row[e].status),
                         !.due = row[e].due \/ row[e].status = "sending"]]
    BY <1>8, Zenon DEF CrashRestart
  <2>2. row'[d] = [row[d] EXCEPT !.status = Reopened(row[d].status),
                                 !.due = row[d].due \/ row[d].status = "sending"]
    BY <2>1, Zenon
  <2>3. row[d] \in Rows
    BY <1>0
  <2>4. row'[d].status = Reopened(row[d].status)
    BY <2>2, <2>3 DEF Rows
  <2>5. QED BY <2>4 DEF Reopened, Open, Claimable
<1>9. CASE \E s \in Callers : CancelCaller(s)
  BY <1>9 DEF CancelCaller, tables
<1>10. CASE UNCHANGED vars
  BY <1>10 DEF vars
<1>11. QED
  BY <1>1, <1>3, <1>4, <1>5, <1>6, <1>7, <1>8, <1>9, <1>10
  DEF Next, Round, InnerStep, Environment

Whole(p, n) == n \in PlanSizes /\ \A i \in 1 .. n : p[i].status = "delivered"

(* A round whose result is 'delivered' has delivered its whole plan.        *)
ResultIsTrue ==
  \A s \in Senders : pc[s] = "finish" /\ res[s] = "delivered" => Whole(part[cur[s]], plan[s])

CompleteInv == OrderInv /\ ResultIsTrue

(* No round has a result when the process first starts. *)
LEMMA InitComplete == Init => ResultIsTrue
BY DEF Init, ResultIsTrue

(* A plan that is delivered as a whole stays so. *)
LEMMA WholeStays ==
  ASSUME OrderInv, [Next]_vars, NEW d \in Deliveries, NEW n, Whole(part[d], n)
  PROVE  Whole(part'[d], n)
<1>1. \A i \in 1 .. n : i \in Parts /\ part[d][i].status = "delivered"
  BY PartsAssumption DEF Parts, Whole
<1>2. \A i \in 1 .. n : part'[d][i].status = "delivered"
  BY <1>1, DeliveredStays
<1>3. QED BY <1>2 DEF Whole

(* A round that ends as 'delivered' has a whole plan delivered. *)
LEMMA ResultIsTrueStep ==
  ASSUME OrderInv, ResultIsTrue, [Next]_vars
  PROVE  ResultIsTrue'
<1> SUFFICES ASSUME NEW t \in Senders, pc'[t] = "finish", res'[t] = "delivered"
             PROVE  Whole(part'[cur'[t]], plan'[t])
  BY DEF ResultIsTrue
<1>0. /\ Inv /\ cur[t] \in Deliveries /\ Worker \in Senders /\ Callers \subseteq Senders
      /\ res \in [Senders -> {"none"} \cup RoundResults]
  BY Typed DEF OrderInv, Inv, TypeInv, TypeOK, TasksOK, Senders
<1>1. ASSUME pc[t] = "finish", res[t] = "delivered", cur'[t] = cur[t], plan'[t] = plan[t]
      PROVE  Whole(part'[cur'[t]], plan'[t])
  BY <1>0, <1>1, WholeStays DEF ResultIsTrue
<1>2. CASE \E s \in Callers, d \in Deliveries : Enqueue(s, d)
  BY <1>0, <1>1, <1>2, Typed DEF Enqueue
<1>3. CASE \E s \in Callers : Claim(s)
  BY <1>0, <1>1, <1>3, Typed DEF Claim, ClaimRow
<1>4. CASE WorkerPoll
  BY <1>0, <1>1, <1>4, Typed DEF WorkerPoll, LoadDue, ClaimNext, ClaimRow
<1>5. ASSUME NEW s \in Senders, AllPartsDone(s)
      PROVE  Whole(part'[cur'[t]], plan'[t])
  <2>1. CASE t # s
    BY <1>0, <1>1, <1>5, <2>1, Typed DEF AllPartsDone
  <2>2. CASE t = s
    <3>1. /\ UNCHANGED <<part, cur, plan>> /\ idx[s] > plan[s] /\ plan[s] \in PlanSizes
          /\ idx[s] \in Nat /\ plan[s] \in Nat
          /\ \A j \in 1 .. idx[s] - 1 : part[cur[s]][j].status = "delivered"
      BY <1>0, <1>5, Typed
      DEF AllPartsDone, Remaining, tables, OrderInv, RoundInOrder, AtOperation
    <3>2. \A j \in 1 .. plan[s] : j \in 1 .. idx[s] - 1
      BY <3>1
    <3>3. QED BY <2>2, <3>1, <3>2 DEF Whole
  <2>3. QED BY <2>1, <2>2
<1>6. ASSUME NEW s \in Senders, InnerStep(s), ~AllPartsDone(s)
      PROVE  Whole(part'[cur'[t]], plan'[t])
  <2>1. cur' = cur
    BY <1>0, <1>6, InnerStepFrame DEF Inv
  <2>2. pc[t] = "finish" /\ res[t] = "delivered" /\ plan'[t] = plan[t]
    <3>1. CASE \/ \E n \in PlanSizes : PlanParts(s, n)
               \/ StartPart(s) \/ SkipDelivered(s)
               \/ \E o \in Outcomes, taken \in BOOLEAN : Send(s, o, taken)
      BY <1>0, <3>1, Typed DEF PlanParts, StartPart, SkipDelivered, Send
    <3>2. CASE Unroutable(s) \/ Suppress(s)
                 \/ \E r \in {"failed", "ambiguous"} : StopAtSettled(s, r)
      BY <1>0, <3>2, Typed DEF Unroutable, Suppress, StopAtSettled
    <3>3. CASE RecordPart(s)
      BY <1>0, <3>3, Typed DEF RecordPart, ResultOf
    <3>4. QED BY <1>6, <3>1, <3>2, <3>3 DEF InnerStep
  <2>3. QED BY <1>1, <2>1, <2>2
<1>7. ASSUME NEW s \in Senders, RecordResult(s)
      PROVE  Whole(part'[cur'[t]], plan'[t])
  <2>1. t # s
    BY <1>0, <1>7, Typed DEF RecordResult, AfterRound
  <2>2. pc'[t] = pc[t] /\ res'[t] = res[t] /\ cur' = cur /\ plan'[t] = plan[t]
    BY <1>0, <1>7, <2>1, Typed DEF RecordResult, ForgetRound
  <2>3. QED BY <1>1, <2>2
<1>8. CASE \E d \in Deliveries : BackoffElapses(d)
  BY <1>1, <1>8 DEF BackoffElapses, tasks
<1>9. ASSUME NEW s \in Callers, CancelCaller(s)
      PROVE  Whole(part'[cur'[t]], plan'[t])
  BY <1>0, <1>1, <1>9, Typed DEF CancelCaller, ForgetRound
<1>10. CASE CrashRestart
  <2>1. pc' = [s \in Senders |-> "idle"]
    BY <1>10, Zenon DEF CrashRestart
  <2>2. QED BY <2>1
<1>11. CASE UNCHANGED vars
  BY <1>1, <1>11 DEF vars
<1>12. QED
  BY <1>2, <1>3, <1>4, <1>5, <1>6, <1>7, <1>8, <1>9, <1>10, <1>11
  DEF Next, Round, InnerStep, Environment

(* The truth of the rounds' results is an invariant. *)
THEOREM CompleteInvCorrect == Spec => []CompleteInv
<1>1. Init => CompleteInv
  BY InitType, InitExclusive, InitOrder, InitComplete DEF CompleteInv, OrderInv, Inv
<1>2. CompleteInv /\ [Next]_vars => CompleteInv'
  BY NextType, NextExclusive, PartsInOrderStep, RoundInOrderStep, ResultIsTrueStep
  DEF CompleteInv, OrderInv, Inv
<1>3. QED BY <1>1, <1>2, PTL DEF Spec

(* No round settles its delivery as delivered with a part of its plan       *)
(* missing, whatever the plans of the rounds before it were.                *)
THEOREM DeliveredComplete == Spec => DeliveredIsComplete
<1>1. CompleteInv /\ [Next]_vars =>
        [\A s \in Senders : RecordResult(s) /\ row'[cur[s]].status = "delivered" =>
           /\ plan[s] \in PlanSizes
           /\ \A i \in 1 .. plan[s] : part[cur[s]][i].status = "delivered"]_vars
  <2>1. ASSUME CompleteInv, NEW s \in Senders, RecordResult(s), row'[cur[s]].status = "delivered"
        PROVE  Whole(part[cur[s]], plan[s])
    <3>1. pc[s] = "finish" /\ row'[cur[s]].status = RowStatusAfter(res[s], row[cur[s]].attempts + 1)
      BY <2>1 DEF RecordResult, CompleteInv, OrderInv, Inv, TypeInv, TypeOK, TablesOK, TasksOK
    <3>2. res[s] = "delivered"
      BY <2>1, <3>1 DEF RowStatusAfter
    <3>3. QED BY <2>1, <3>1, <3>2 DEF CompleteInv, ResultIsTrue
  <2>2. QED BY <2>1 DEF Whole
<1>2. QED BY <1>1, CompleteInvCorrect, PTL DEF Spec, DeliveredIsComplete

------------------------------------------------------------------------------
(* The contract: Enqueue accepts, the record of a part that the platform    *)
(* took confirms it, the result that settles the row settles, and every     *)
(* other step stutters.                                                     *)

Stage == [d \in Deliveries |-> StageOf(row[d].status)]
Confirmed == [d \in Deliveries |-> {i \in Parts : part[d][i].status = "delivered"}]

(* The steps that the contract sees. *)
Confirming(s) == RecordPart(s) /\ reply[s] = "ok"

(* No step but the record of a part that was taken confirms anything. *)
LEMMA ConfirmedKept ==
  ASSUME OrderInv, [Next]_vars, \A s \in Senders : ~Confirming(s)
  PROVE  Confirmed' = Confirmed
<1> SUFFICES ASSUME NEW d \in Deliveries, NEW i \in Parts, part'[d][i].status = "delivered"
             PROVE  part[d][i].status = "delivered"
  BY DeliveredStays DEF Confirmed
<1>1. Inv
  BY DEF OrderInv
<1>2. CASE Elsewhere
  BY <1>2, PartKept
<1>3. CASE \E s \in Senders, n \in PlanSizes : PlanParts(s, n)
  BY <1>1, <1>3, PlanPartsStatus
<1>4. CASE \E s \in Senders : StartPart(s)
  BY <1>1, <1>4, StartPartStatus
<1>5. ASSUME NEW s \in Senders, RecordPart(s)
      PROVE  part[d][i].status = "delivered"
  <2>1. \A n : PartStatusAfter(reply[s], n) # "delivered"
    BY <1>5 DEF Confirming, PartStatusAfter
  <2>2. QED BY <1>1, <1>5, <2>1, RecordPartStatus
<1>6. CASE CrashRestart
  BY <1>1, <1>6, CrashStatus DEF Reopened
<1>7. QED BY <1>2, <1>3, <1>4, <1>5, <1>6, NextCases

(* The record of a part that the platform took confirms the next part. *)
LEMMA ConfirmingConfirms ==
  ASSUME OrderInv, NEW s \in Senders, Confirming(s)
  PROVE  /\ Stage' = Stage
         /\ Stage[cur[s]] = "open"
         /\ cur[s] \in Deliveries /\ idx[s] \in 1 .. NumParts
         /\ idx[s] \notin Confirmed[cur[s]]
         /\ 1 .. idx[s] - 1 \subseteq Confirmed[cur[s]]
         /\ Confirmed' = [Confirmed EXCEPT ![cur[s]] = Confirmed[cur[s]] \cup {idx[s]}]
<1>1. /\ Inv /\ pc[s] = "recordpart" /\ RecordPart(s) /\ reply[s] = "ok"
      /\ AtOperation(s) /\ part[cur[s]][idx[s]].status = "sending"
  BY DEF OrderInv, Confirming, RecordPart, RoundInOrder, AtOperation
<1>2. /\ cur[s] \in Deliveries /\ idx[s] \in Parts /\ Parts = 1 .. NumParts
      /\ 1 .. idx[s] - 1 \subseteq Parts
  BY <1>1, AtOperationTyped, Typed
<1>3. row' = row
  BY <1>1 DEF RecordPart
<1>4. row[cur[s]].status = "sending"
  BY <1>1 DEF Inv, ExclusiveSender, InRound
<1>5. \A j \in 1 .. idx[s] - 1 : part[cur[s]][j].status = "delivered"
  BY <1>1 DEF OrderInv, RoundInOrder
<1>6. \A d \in Deliveries, i \in Parts :
        part'[d][i].status = "delivered"
          <=> (d = cur[s] /\ i = idx[s]) \/ part[d][i].status = "delivered"
  <2>1. \A n : PartStatusAfter(reply[s], n) = "delivered"
    BY <1>1 DEF PartStatusAfter
  <2>2. QED BY <1>1, <2>1, RecordPartStatus
<1>7. Stage[cur[s]] = "open"
  BY <1>2, <1>4 DEF Stage, StageOf, Open
<1>8. Stage' = Stage
  BY <1>3 DEF Stage
<1>9. idx[s] \notin Confirmed[cur[s]] /\ 1 .. idx[s] - 1 \subseteq Confirmed[cur[s]]
  BY <1>1, <1>2, <1>5 DEF Confirmed
<1>10. Confirmed' = [Confirmed EXCEPT ![cur[s]] = Confirmed[cur[s]] \cup {idx[s]}]
  <2> DEFINE taken(d) == IF d = cur[s] THEN Confirmed[d] \cup {idx[s]} ELSE Confirmed[d]
  <2>1. \A d \in Deliveries : Confirmed'[d] = taken(d)
    BY <1>2, <1>6 DEF Confirmed
  <2>2. Confirmed' = [d \in Deliveries |-> taken(d)]
    BY <2>1 DEF Confirmed
  <2>3. QED BY <1>2, <2>2 DEF Confirmed
<1>11. QED BY <1>2, <1>7, <1>8, <1>9, <1>10

(* A row whose status stays, or stays open, has the stage it had. *)
LEMMA StageKept ==
  ASSUME Inv, [Next]_vars, NEW d \in Deliveries,
         \A s \in Senders : ~(RecordResult(s) /\ cur[s] = d),
         \A s \in Callers : ~(Enqueue(s, d) /\ row[d].status = "absent")
  PROVE  Stage'[d] = Stage[d]
<1>1. CASE row'[d].status = row[d].status
  BY <1>1 DEF Stage
<1>2. CASE row'[d].status # row[d].status
  <2>1. row[d].status \in Open /\ row'[d].status \in Open
    BY <1>2, RowChanges
  <2>2. QED BY <2>1 DEF Stage, StageOf, Open, Claimable
<1>3. QED BY <1>1, <1>2

(* The first call with a delivery id is the contract's Accept. *)
LEMMA EnqueueAccepts ==
  ASSUME OrderInv, [Next]_vars, NEW s \in Callers, NEW d \in Deliveries, Enqueue(s, d),
         row[d].status = "absent"
  PROVE  /\ Stage[d] = "none"
         /\ Stage' = [Stage EXCEPT ![d] = "open"]
         /\ Confirmed' = Confirmed
<1>1. row \in [Deliveries -> Rows]
  BY DEF OrderInv, Inv, TypeInv, TypeOK, TablesOK
<1>2. row'[d].status = "pending" /\ \A e \in Deliveries \ {d} : row'[e] = row[e]
  BY <1>1 DEF Enqueue, Inserted, Rows
<1>3. part' = part
  BY DEF Enqueue
<1>4. QED BY <1>2, <1>3 DEF Stage, Confirmed, StageOf, Open, Claimable

(* A result that settles the row is the contract's Settle. *)
LEMMA ResultSettles ==
  ASSUME CompleteInv, [Next]_vars, NEW s \in Senders, RecordResult(s),
         row'[cur[s]].status \notin Open
  PROVE  LET outcome == StageOf(row'[cur[s]].status) IN
         /\ cur[s] \in Deliveries /\ Stage[cur[s]] = "open"
         /\ outcome \in {"delivered", "suppressed", "undelivered"}
         /\ outcome = "delivered" => \E n \in PlanSizes : 1 .. n \subseteq Confirmed[cur[s]]
         /\ Stage' = [Stage EXCEPT ![cur[s]] = outcome]
         /\ Confirmed' = Confirmed
<1>0. /\ Inv /\ OrderInv /\ row \in [Deliveries -> Rows] /\ cur[s] \in Deliveries
      /\ pc[s] = "finish" /\ part' = part
  BY DEF CompleteInv, OrderInv, Inv, TypeInv, TypeOK, TablesOK, TasksOK, RecordResult
<1>1. Stage[cur[s]] = "open"
  BY <1>0 DEF Inv, ExclusiveSender, InRound, Stage, StageOf, Open
<1>2. /\ \A e \in Deliveries \ {cur[s]} : row'[e] = row[e]
      /\ row'[cur[s]].status = RowStatusAfter(res[s], row[cur[s]].attempts + 1)
  BY <1>0 DEF RecordResult
<1>3. row'[cur[s]].status \in {"delivered", "suppressed", "ambiguous", "failed"}
  BY <1>2 DEF RowStatusAfter, Open, Claimable
<1>4. ASSUME StageOf(row'[cur[s]].status) = "delivered"
      PROVE  \E n \in PlanSizes : 1 .. n \subseteq Confirmed[cur[s]]
  <2>1. row'[cur[s]].status = "delivered"
    BY <1>3, <1>4 DEF StageOf, Open, Claimable
  <2>2. res[s] = "delivered"
    BY <1>2, <2>1 DEF RowStatusAfter
  <2>3. PICK n \in PlanSizes : \A i \in 1 .. n : part[cur[s]][i].status = "delivered"
    BY <1>0, <2>2 DEF CompleteInv, ResultIsTrue, Whole
  <2>4. 1 .. n \subseteq Parts
    BY <2>3, PartsAssumption DEF Parts
  <2>5. QED BY <1>0, <2>3, <2>4 DEF Confirmed
<1>5. StageOf(row'[cur[s]].status) \in {"delivered", "suppressed", "undelivered"}
  BY <1>3 DEF StageOf, Open, Claimable
<1>6. Stage' = [Stage EXCEPT ![cur[s]] = StageOf(row'[cur[s]].status)]
  BY <1>0, <1>2 DEF Stage
<1>7. Confirmed' = Confirmed
  BY <1>0 DEF Confirmed
<1>8. QED BY <1>0, <1>1, <1>4, <1>5, <1>6, <1>7

-----------------------------------------------------------------------------
(* The initial states of the outbox are an initial state of the contract. *)
LEMMA InitContract == Init => Contract!Init
<1>1. StageOf("absent") = "none"
  BY DEF StageOf, Open, Claimable
<1>2. ASSUME Init, NEW d \in Deliveries
      PROVE  row[d].status = "absent" /\ {i \in Parts : part[d][i].status = "delivered"} = {}
  BY <1>2 DEF Init
<1>3. QED BY <1>1, <1>2 DEF Contract!Init

(* Every step of the outbox is a step of the contract or leaves it alone. *)
LEMMA StepContract == CompleteInv /\ [Next]_vars => [Contract!Next]_(Contract!vars)
<1> SUFFICES ASSUME CompleteInv, [Next]_vars
             PROVE  [Contract!Next]_(Contract!vars)
  OBVIOUS
<1>0. OrderInv /\ Inv
  BY DEF CompleteInv, OrderInv
<1>1. ASSUME Stage' = Stage, Confirmed' = Confirmed
      PROVE  UNCHANGED Contract!vars
  BY <1>1 DEF Stage, Confirmed, Contract!vars
<1>2. ASSUME NEW s \in Senders, Confirming(s)
      PROVE  Contract!Next
  <2>1. PICK d \in Deliveries, i \in 1 .. NumParts : d = cur[s] /\ i = idx[s]
    BY <1>0, <1>2, ConfirmingConfirms
  <2>2. Contract!Confirm(d, i)
    BY <1>0, <1>2, <2>1, ConfirmingConfirms DEF Contract!Confirm, Stage, Confirmed
  <2>3. QED BY <2>2 DEF Contract!Next
<1>3. ASSUME NEW s \in Callers, NEW d \in Deliveries, Enqueue(s, d), row[d].status = "absent"
      PROVE  Contract!Next
  <2>1. Contract!Accept(d)
    BY <1>0, <1>3, EnqueueAccepts DEF Contract!Accept, Stage, Confirmed
  <2>2. QED BY <2>1 DEF Contract!Next
<1>4. ASSUME NEW s \in Senders, RecordResult(s), row'[cur[s]].status \notin Open
      PROVE  Contract!Next
  <2> DEFINE outcome == StageOf(row'[cur[s]].status)
  <2>1. Contract!Settle(cur[s], outcome)
    BY <1>4, ResultSettles DEF Contract!Settle, Stage, Confirmed
  <2>2. cur[s] \in Deliveries /\ outcome \in Contract!Settlements
    BY <1>4, ResultSettles DEF Contract!Settlements
  <2> HIDE DEF outcome
  <2>3. QED BY <2>1, <2>2 DEF Contract!Next
<1>5. ASSUME \A s \in Senders : ~Confirming(s),
             \A s \in Callers, d \in Deliveries : ~(Enqueue(s, d) /\ row[d].status = "absent"),
             \A s \in Senders : RecordResult(s) => row'[cur[s]].status \in Open
      PROVE  Stage' = Stage /\ Confirmed' = Confirmed
  <2>1. Confirmed' = Confirmed
    BY <1>0, <1>5, ConfirmedKept
  <2>2. ASSUME NEW d \in Deliveries
        PROVE  Stage'[d] = Stage[d]
    <3>1. ASSUME NEW s \in Senders, RecordResult(s), cur[s] = d
          PROVE  Stage'[d] = Stage[d]
      <4>1. row[d].status = "sending" /\ row'[d].status \in Open
        BY <1>0, <1>5, <3>1 DEF RecordResult, Inv, ExclusiveSender, InRound
      <4>2. QED BY <4>1 DEF Stage, StageOf, Open, Claimable
    <3>2. QED BY <1>0, <1>5, <3>1, StageKept
  <2>3. QED BY <2>1, <2>2 DEF Stage
<1>6. QED BY <1>1, <1>2, <1>3, <1>4, <1>5

(* Every behaviour of the outbox is a behaviour of the abstract queue, for   *)
(* any number of deliveries, callers, parts, attempts and crashes.           *)
THEOREM OutboxImplementsContract == Spec => ImplementsContract
<1>1. Init => Contract!Init
  BY InitContract
<1>2. CompleteInv /\ [Next]_vars => [Contract!Next]_(Contract!vars)
  BY StepContract
<1>3. QED BY <1>1, <1>2, CompleteInvCorrect, PTL DEF Spec, ImplementsContract, Contract!Spec

-----------------------------------------------------------------------------
(* Answers and sends                                                       *)

(* What deliver() told a caller is only revised by the caller's next call. *)
LEMMA AnswerStep ==
  ASSUME Inv, AnswerIsTrue, [Next]_vars
  PROVE  AnswerIsTrue'
<1> DEFINE True(a, status) == /\ a \in {"delivered", "suppressed"} => status = a
                              /\ a = "failed" => status \in {"failed", "ambiguous"}
<1> SUFFICES ASSUME NEW t \in Callers
             PROVE  True(answer'[t], row'[cur'[t]].status)
  BY DEF AnswerIsTrue
<1>0. /\ cur \in [Senders -> Deliveries] /\ row \in [Deliveries -> Rows]
      /\ answer \in [Senders -> {"none", "delivered", "suppressed", "deferred", "failed"}]
      /\ Worker \in Senders /\ Worker \notin Callers /\ t \in Senders /\ Callers \subseteq Senders
  BY SendersAssumption DEF Inv, TypeInv, TypeOK, TablesOK, TasksOK, Senders
<1>1. ASSUME cur'[t] = cur[t], answer'[t] = answer[t]
      PROVE  True(answer'[t], row'[cur'[t]].status)
  <2>1. True(answer[t], row[cur[t]].status)
    BY DEF AnswerIsTrue
  <2>2. CASE row[cur[t]].status \in Terminal
    BY <1>0, <1>1, <2>1, <2>2, SettledStep
  <2>3. CASE row[cur[t]].status \notin Terminal
    BY <1>0, <1>1, <2>1, <2>3 DEF Terminal
  <2>4. QED BY <2>2, <2>3
<1>2. CASE \E s \in Callers, d \in Deliveries : Enqueue(s, d)
  BY <1>0, <1>1, <1>2 DEF Enqueue
<1>3. CASE \E s \in Callers : Claim(s)
  BY <1>0, <1>1, <1>3 DEF Claim, ClaimRow
<1>4. CASE WorkerPoll
  BY <1>0, <1>1, <1>4 DEF WorkerPoll, LoadDue, ClaimNext, ClaimRow
<1>5. CASE \E s \in Senders : InnerStep(s)
  BY <1>1, <1>5, InnerStepFrame DEF Inv
<1>6. ASSUME NEW s \in Senders, RecordResult(s)
      PROVE  True(answer'[t], row'[cur'[t]].status)
  <2> DEFINE status == RowStatusAfter(res[s], row[cur[s]].attempts + 1)
  <2>1. /\ row'[cur[s]].status = status /\ cur' = cur
        /\ answer' = [answer EXCEPT ![s] = Answered(res[s], status)]
    BY <1>0, <1>6 DEF RecordResult
  <2>2. CASE t = s
    <3>1. True(Answered(res[s], status), status)
      BY DEF Answered, RowStatusAfter
    <3>2. QED BY <1>0, <2>1, <2>2, <3>1
  <2>3. QED BY <1>0, <1>1, <2>1, <2>2
<1>7. CASE \E d \in Deliveries : BackoffElapses(d)
  BY <1>1, <1>7 DEF BackoffElapses, tasks
<1>8. CASE \E s \in Callers : CancelCaller(s)
  BY <1>1, <1>8 DEF CancelCaller
<1>9. CASE CrashRestart
  <2>1. answer' = [s \in Senders |-> "none"]
    BY <1>9, Zenon DEF CrashRestart
  <2>2. QED BY <1>0, <2>1
<1>10. CASE UNCHANGED vars
  BY <1>1, <1>10 DEF vars
<1>11. QED
  BY <1>2, <1>3, <1>4, <1>5, <1>6, <1>7, <1>8, <1>9, <1>10
  DEF Next, Round, InnerStep, Environment

(* A caller that is told 'delivered', 'suppressed' or 'failed' is told what  *)
(* the row says then and ever after, whatever the other senders do.          *)
THEOREM AnswersAreTrue == Spec => []AnswerIsTrue
<1>1. Init => AnswerIsTrue
  BY DEF Init, AnswerIsTrue, Senders
<1>2. Inv /\ AnswerIsTrue /\ [Next]_vars => AnswerIsTrue'
  BY AnswerStep
<1>3. QED BY <1>1, <1>2, InvCorrect, PTL DEF Spec

-----------------------------------------------------------------------------
(* Duplicates.  A part that may be sent again has not been taken in this    *)
(* life of the process, unless its row is on the way to 'ambiguous'.        *)

Startable == {"absent", "pending", "retry"}

(* The sender's round ends in doubt: its result will close the row. *)
InDoubt(s) == pc[s] = "finish" /\ res[s] = "ambiguous"

(* Every round on d is one that ends in doubt; a cancelled one is none. *)
LeftInDoubt(d) == \A s \in Senders : InRound(s) /\ cur[s] = d => InDoubt(s)

Unsent ==
  \A d \in Deliveries, i \in Parts : part[d][i].status \in Startable =>
    \/ accepted[d][i] <= crashes
    \/ row[d].status = "ambiguous"
    \/ row[d].status = "sending" /\ LeftInDoubt(d)

(* The adapter has not answered the sender yet, or has refused the part. *)
BeforeTaking(s) == pc[s] = "send" \/ (pc[s] = "recordpart" /\ reply[s] \in {"none", "refused"})

UnsentAtSend == \A s \in Senders : BeforeTaking(s) => accepted[cur[s]][idx[s]] <= crashes

(* A part is 'sending' only under a round that stands at it, or under none. *)
Standing(d, i) ==
  \A s \in Senders : InRound(s) /\ cur[s] = d => pc[s] \in {"send", "recordpart"} /\ idx[s] = i

SendingIsHeld ==
  \A d \in Deliveries, i \in Parts :
    part[d][i].status = "sending" => row[d].status = "sending" /\ Standing(d, i)

DupInv == OrderInv /\ SendingIsHeld /\ Unsent /\ UnsentAtSend /\ DuplicatesNeedCrash

(* The types that the steps below read. *)
LEMMA DupTyped ==
  ASSUME Inv
  PROVE  /\ accepted \in [Deliveries -> [Parts -> Nat]] /\ crashes \in Nat
         /\ row \in [Deliveries -> Rows]
         /\ reply \in [Senders -> {"none"} \cup Outcomes]
         /\ res \in [Senders -> {"none"} \cup RoundResults]
         /\ Worker \in Senders /\ Callers \subseteq Senders
BY DEF Inv, TypeInv, TypeOK, TablesOK, TasksOK, Senders

(* Only the adapter call makes the platform take a part. *)
LEMMA AcceptedKept ==
  ASSUME Inv, [Next]_vars, ~CrashRestart,
         \A s \in Senders, o \in Outcomes, taken \in BOOLEAN : ~Send(s, o, taken)
  PROVE  accepted' = accepted /\ crashes' = crashes
<1>1. CASE \E s \in Senders : InnerStep(s) \/ RecordResult(s)
  BY <1>1 DEF InnerStep, Unroutable, Suppress, PlanParts, SkipDelivered, StartPart, StopAtSettled,
     RecordPart, AllPartsDone, RecordResult, world
<1>2. CASE ~\E s \in Senders : InnerStep(s) \/ RecordResult(s)
  BY <1>2 DEF Next, Round, InnerStep, Enqueue, Claim, WorkerPoll, LoadDue, ClaimNext, Environment,
     BackoffElapses, CancelCaller, vars, world
<1>3. QED BY <1>1, <1>2

(* What a step of the sender s leaves alone of another sender. *)
LEMMA OtherSender ==
  ASSUME Inv, NEW s \in Senders, InnerStep(s) \/ RecordResult(s), NEW t \in Senders, t # s
  PROVE  pc'[t] = pc[t] /\ cur'[t] = cur[t] /\ idx'[t] = idx[t] /\ reply'[t] = reply[t]
         /\ res'[t] = res[t]
<1>0. Inv /\ pc \in [Senders -> {"idle", "claim", "prepare", "part", "send", "recordpart", "finish"}]
      /\ idx \in [Senders -> 1 .. NumParts + 1]
  BY Typed
<1>1. CASE Unroutable(s) \/ Suppress(s) \/ AllPartsDone(s)
             \/ \E r \in {"failed", "ambiguous"} : StopAtSettled(s, r)
  BY <1>0, <1>1, DupTyped DEF Unroutable, Suppress, AllPartsDone, StopAtSettled
<1>2. CASE \/ \E n \in PlanSizes : PlanParts(s, n)
           \/ SkipDelivered(s) \/ StartPart(s)
           \/ \E o \in Outcomes, taken \in BOOLEAN : Send(s, o, taken)
  BY <1>0, <1>2, DupTyped DEF PlanParts, SkipDelivered, StartPart, Send
<1>3. CASE RecordPart(s)
  BY <1>0, <1>3, DupTyped DEF RecordPart
<1>4. CASE RecordResult(s)
  BY <1>0, <1>4, DupTyped DEF RecordResult, ForgetRound
<1>5. QED BY <1>1, <1>2, <1>3, <1>4 DEF InnerStep

(* A part that is being sent stays under the round that sends it.           *)
LEMMA SendingIsHeldStep ==
  ASSUME OrderInv, SendingIsHeld, [Next]_vars
  PROVE  SendingIsHeld'
<1> SUFFICES ASSUME NEW d \in Deliveries, NEW i \in Parts, part'[d][i].status = "sending"
             PROVE  row'[d].status = "sending" /\ Standing(d, i)'
  BY DEF SendingIsHeld
<1>0. Inv
  BY DEF OrderInv
<1>1. CASE part[d][i].status # "sending"
  <2>1. PICK s \in Senders : StartPart(s)
    BY <1>0, <1>1, NextCases, PartKept, PlanPartsStatus, RecordPartStatus, CrashStatus
    DEF Reopened, PartStatusAfter
  <2>2. /\ d = cur[s] /\ i = idx[s] /\ pc[s] = "part" /\ row' = row /\ cur' = cur /\ idx' = idx
        /\ pc'[s] = "send"
    BY <1>0, <1>1, <2>1, StartPartStatus, Typed DEF StartPart
  <2>3. row[d].status = "sending"
    BY <1>0, <2>2 DEF Inv, ExclusiveSender, InRound
  <2>4. \A t \in Senders \ {s} : InRound(t)' => cur'[t] # d
    BY <1>0, <2>1, <2>2, OtherSender DEF InnerStep, Inv, ExclusiveSender, InRound
  <2>5. QED BY <2>2, <2>3, <2>4 DEF Standing
<1>2. CASE part[d][i].status = "sending"
  <2>0. row[d].status = "sending" /\ Standing(d, i)
    BY <1>2 DEF SendingIsHeld
  <2>1. CASE \E s \in Callers, e \in Deliveries : Enqueue(s, e)
    BY <1>0, <2>0, <2>1, Typed, DupTyped DEF Enqueue, Inserted, Rows, Standing, InRound
  <2>2. ASSUME NEW s \in Senders, NEW e \in Deliveries, ClaimRow(s, e)
        PROVE  e # d /\ row'[d] = row[d] /\ cur'[s] # d
               /\ \A t \in Senders \ {s} : cur'[t] = cur[t] /\ pc'[t] = pc[t]
    BY <1>0, <2>0, <2>2, Typed, DupTyped DEF ClaimRow, Claimable
  <2>3. CASE \E s \in Callers : Claim(s)
    BY <1>0, <2>0, <2>2, <2>3, Typed, DupTyped DEF Claim, Standing, InRound
  <2>4. CASE WorkerPoll
    BY <1>0, <2>0, <2>2, <2>4, Typed, DupTyped
    DEF WorkerPoll, LoadDue, ClaimNext, tables, Standing, InRound
  <2>5. ASSUME NEW s \in Senders, InnerStep(s)
        PROVE  row'[d].status = "sending" /\ Standing(d, i)'
    <3>1. row' = row /\ cur' = cur /\ pc[s] \in InRoundPc
      BY <1>0, <2>5, InnerStepFrame DEF Inv
    <3>2. CASE cur[s] # d
      BY <1>0, <2>0, <2>5, <3>1, <3>2, OtherSender DEF Standing, InRound
    <3>3. CASE cur[s] = d
      <4>1. pc[s] \in {"send", "recordpart"} /\ idx[s] = i
        BY <2>0, <3>1, <3>3 DEF Standing, InRound, InRoundPc
      <4>2. ~RecordPart(s)
        BY <1>0, <3>3, <4>1, RecordPartStatus DEF PartStatusAfter
      <4>3. PICK o \in Outcomes, taken \in BOOLEAN : Send(s, o, taken)
        BY <2>5, <4>1, <4>2 DEF InnerStep, Unroutable, Suppress, PlanParts, SkipDelivered,
           StartPart, StopAtSettled, AllPartsDone
      <4>4. pc'[s] = "recordpart" /\ idx' = idx
        BY <1>0, <4>3, Typed DEF Send
      <4>5. QED BY <1>0, <2>0, <2>5, <3>1, <4>1, <4>4, OtherSender DEF Standing, InRound
    <3>4. QED BY <3>2, <3>3
  <2>6. ASSUME NEW s \in Senders, RecordResult(s)
        PROVE  row'[d].status = "sending" /\ Standing(d, i)'
    <3>1. pc[s] = "finish" /\ pc'[s] \in {"idle", "claim"} /\ cur' = cur
      BY <1>0, <2>6, Typed DEF RecordResult, AfterRound
    <3>2. cur[s] # d
      BY <2>0, <3>1 DEF Standing, InRound
    <3>3. row'[d] = row[d]
      BY <1>0, <2>6, <3>2, DupTyped DEF RecordResult
    <3>4. QED BY <1>0, <2>0, <2>6, <3>1, <3>3, OtherSender DEF Standing, InRound
  <2>7. CASE \E e \in Deliveries : BackoffElapses(e)
    BY <1>0, <2>0, <2>7, DupTyped DEF BackoffElapses, Rows, tasks, Standing, InRound
  <2>8. CASE \E s \in Callers : CancelCaller(s)
    BY <1>0, <2>0, <2>8, Typed, DupTyped DEF CancelCaller, ForgetRound, tables, Standing, InRound
  <2>9. CASE CrashRestart
    BY <1>0, <2>9, CrashStatus DEF Reopened
  <2>10. CASE UNCHANGED vars
    BY <2>0, <2>10 DEF vars, Standing, InRound
  <2>11. QED
    BY <2>1, <2>3, <2>4, <2>5, <2>6, <2>7, <2>8, <2>9, <2>10
    DEF Next, Round, InnerStep, Environment
<1>3. QED BY <1>1, <1>2

(* A part that could be sent before the step stays clear of duplicates.     *)
LEMMA UnsentStays ==
  ASSUME DupInv, [Next]_vars, ~CrashRestart, NEW d \in Deliveries, NEW i \in Parts,
         part[d][i].status \in Startable
  PROVE  \/ accepted'[d][i] <= crashes'
         \/ row'[d].status = "ambiguous"
         \/ row'[d].status = "sending" /\ LeftInDoubt(d)'
<1>0. Inv /\ OrderInv
  BY DEF DupInv, OrderInv
<1>1. ASSUME NEW s \in Senders, NEW o \in Outcomes, NEW taken \in BOOLEAN, Send(s, o, taken),
             cur[s] = d
      PROVE  accepted'[d][i] <= crashes'
  <2>1. pc[s] = "send" /\ idx[s] # i
    BY <1>0, <1>1 DEF Send, OrderInv, RoundInOrder, AtOperation, Startable
  <2>2. accepted'[d][i] = accepted[d][i] /\ crashes' = crashes
    BY <1>0, <1>1, <2>1, DupTyped DEF Send
  <2>3. row[d].status = "sending" /\ ~LeftInDoubt(d)
    BY <1>0, <1>1, <2>1 DEF Inv, ExclusiveSender, InRound, LeftInDoubt, InDoubt
  <2>4. QED BY <2>2, <2>3 DEF DupInv, Unsent
<1>2. ASSUME \A s \in Senders, o \in Outcomes, taken \in BOOLEAN : Send(s, o, taken) => cur[s] # d
      PROVE  accepted'[d][i] = accepted[d][i] /\ crashes' = crashes
  <2>1. CASE \E s \in Senders, o \in Outcomes, taken \in BOOLEAN : Send(s, o, taken)
    BY <1>0, <1>2, <2>1, DupTyped, Typed DEF Send
  <2>2. QED BY <1>0, <2>1, AcceptedKept
<1>3. CASE accepted[d][i] <= crashes
  BY <1>1, <1>2, <1>3
<1>4. CASE row[d].status = "ambiguous"
  <2>1. row'[d] = row[d]
    BY <1>0, <1>4, SettledStep DEF Terminal
  <2>2. QED BY <1>4, <2>1
<1>5. CASE row[d].status = "sending" /\ LeftInDoubt(d)
  <2>1. CASE \E s \in Callers, e \in Deliveries : Enqueue(s, e)
    BY <1>0, <1>5, <2>1, Typed, DupTyped
    DEF Enqueue, Inserted, Rows, LeftInDoubt, InDoubt, InRound
  <2>2. ASSUME NEW s \in Senders, NEW e \in Deliveries, ClaimRow(s, e)
        PROVE  e # d /\ row'[d] = row[d] /\ cur'[s] # d
               /\ \A t \in Senders \ {s} : cur'[t] = cur[t] /\ pc'[t] = pc[t]
    BY <1>0, <1>5, <2>2, Typed, DupTyped DEF ClaimRow, Claimable
  <2>3. CASE \E s \in Callers : Claim(s)
    BY <1>0, <1>5, <2>2, <2>3, Typed, DupTyped DEF Claim, LeftInDoubt, InDoubt, InRound
  <2>4. CASE WorkerPoll
    BY <1>0, <1>5, <2>2, <2>4, Typed, DupTyped
    DEF WorkerPoll, LoadDue, ClaimNext, tables, LeftInDoubt, InDoubt, InRound
  <2>5. ASSUME NEW s \in Senders, InnerStep(s)
        PROVE  row'[d].status = "sending" /\ LeftInDoubt(d)'
    <3>1. row' = row /\ cur' = cur /\ pc[s] \in InRoundPc
      BY <1>0, <2>5, InnerStepFrame DEF Inv
    <3>2. pc[s] # "finish"
      BY <2>5 DEF InnerStep, Unroutable, Suppress, PlanParts, SkipDelivered, StartPart,
         StopAtSettled, Send, RecordPart, AllPartsDone
    <3>3. cur[s] # d
      BY <1>5, <3>1, <3>2 DEF LeftInDoubt, InDoubt, InRound, InRoundPc
    <3>4. QED BY <1>0, <1>5, <2>5, <3>1, <3>3, OtherSender DEF LeftInDoubt, InDoubt, InRound
  <2>6. ASSUME NEW s \in Senders, RecordResult(s)
        PROVE  \/ row'[d].status = "ambiguous"
               \/ row'[d].status = "sending" /\ LeftInDoubt(d)'
    <3>1. pc[s] = "finish" /\ pc'[s] \in {"idle", "claim"} /\ cur' = cur
      BY <1>0, <2>6, Typed DEF RecordResult, AfterRound
    <3>2. CASE cur[s] = d
      <4>1. res[s] = "ambiguous"
        BY <1>5, <3>1, <3>2 DEF LeftInDoubt, InDoubt, InRound
      <4>2. QED BY <1>0, <2>6, <3>2, <4>1, DupTyped DEF RecordResult, RowStatusAfter
    <3>3. CASE cur[s] # d
      <4>1. row'[d] = row[d]
        BY <1>0, <2>6, <3>3, DupTyped DEF RecordResult
      <4>2. QED BY <1>0, <1>5, <2>6, <3>1, <3>3, <4>1, OtherSender DEF LeftInDoubt, InDoubt, InRound
    <3>4. QED BY <3>2, <3>3
  <2>7. CASE \E e \in Deliveries : BackoffElapses(e)
    BY <1>0, <1>5, <2>7, DupTyped DEF BackoffElapses, Rows, tasks, LeftInDoubt, InDoubt, InRound
  <2>8. CASE \E s \in Callers : CancelCaller(s)
    BY <1>0, <1>5, <2>8, Typed, DupTyped
    DEF CancelCaller, ForgetRound, tables, LeftInDoubt, InDoubt, InRound
  <2>9. CASE UNCHANGED vars
    BY <1>5, <2>9 DEF vars, LeftInDoubt, InDoubt, InRound
  <2>10. QED
    BY <2>1, <2>3, <2>4, <2>5, <2>6, <2>7, <2>8, <2>9 DEF Next, Round, InnerStep, Environment
<1>6. QED BY <1>3, <1>4, <1>5 DEF DupInv, Unsent

(* The parts that a step reopens: none, unless its reply was no timeout.    *)
LEMMA UnsentStep ==
  ASSUME DupInv, [Next]_vars, "silent" \notin Outcomes
  PROVE  Unsent'
<1> SUFFICES ASSUME NEW d \in Deliveries, NEW i \in Parts, part'[d][i].status \in Startable
             PROVE  \/ accepted'[d][i] <= crashes'
                    \/ row'[d].status = "ambiguous"
                    \/ row'[d].status = "sending" /\ LeftInDoubt(d)'
  BY DEF Unsent
<1>0. Inv /\ OrderInv
  BY DEF DupInv, OrderInv
<1>1. CASE CrashRestart
  <2>1. accepted' = accepted /\ crashes' = crashes + 1
    BY <1>1, Zenon DEF CrashRestart
  <2>2. QED BY <2>1, <1>0, DupTyped DEF DupInv, DuplicatesNeedCrash
<1>2. ASSUME ~CrashRestart, part[d][i].status \notin Startable
      PROVE  \/ accepted'[d][i] <= crashes'
             \/ row'[d].status = "sending" /\ LeftInDoubt(d)'
  <2>1. PICK s \in Senders : RecordPart(s)
    BY <1>0, <1>2, NextCases, PartKept, PlanPartsStatus, StartPartStatus DEF Startable
  <2>2. d = cur[s] /\ i = idx[s] /\ PartStatusAfter(reply[s], part[d][i].attempts + 1) \in Startable
    BY <1>0, <1>2, <2>1, RecordPartStatus
  <2>3. reply[s] \in {"none"} \cup Outcomes /\ reply[s] \notin {"ok", "timeout"}
    BY <1>0, <2>2, DupTyped DEF PartStatusAfter, Startable
  <2>4. /\ row' = row /\ cur' = cur /\ accepted' = accepted /\ crashes' = crashes
        /\ pc[s] = "recordpart"
    BY <2>1 DEF RecordPart, world
  <2>5. CASE reply[s] \in {"none", "refused"}
    BY <2>2, <2>4, <2>5 DEF DupInv, UnsentAtSend, BeforeTaking
  <2>6. CASE reply[s] = "raised"
    <3>1. row'[d].status = "sending"
      BY <1>0, <2>2, <2>4 DEF Inv, ExclusiveSender, InRound
    <3>2. pc'[s] = "finish" /\ res'[s] = "ambiguous"
      BY <1>0, <2>1, <2>6, Typed, DupTyped DEF RecordPart, ResultOf
    <3>3. \A t \in Senders \ {s} : InRound(t)' => cur'[t] # d
      BY <1>0, <2>1, <2>2, <2>4, OtherSender DEF InnerStep, Inv, ExclusiveSender, InRound
    <3>4. QED BY <3>1, <3>2, <3>3 DEF LeftInDoubt, InDoubt, InRound
  <2>7. reply[s] \in {"none", "refused", "raised"}
    BY <2>3, OutcomesAssumption
  <2>8. QED BY <2>5, <2>6, <2>7
<1>3. QED BY <1>1, <1>2, UnsentStays

(* What a sender knows of its part before the platform may have taken it.   *)
LEMMA UnsentAtSendStep ==
  ASSUME DupInv, [Next]_vars
  PROVE  UnsentAtSend'
<1> SUFFICES ASSUME NEW t \in Senders, BeforeTaking(t)'
             PROVE  accepted'[cur'[t]][idx'[t]] <= crashes'
  BY DEF UnsentAtSend
<1>0. /\ Inv /\ OrderInv /\ cur[t] \in Deliveries
  BY Typed DEF DupInv, OrderInv
<1>1. ASSUME accepted' = accepted, crashes' = crashes,
             pc'[t] = pc[t], cur'[t] = cur[t], idx'[t] = idx[t], reply'[t] = reply[t]
      PROVE  accepted'[cur'[t]][idx'[t]] <= crashes'
  BY <1>1 DEF DupInv, UnsentAtSend, BeforeTaking
<1>2. CASE \E s \in Callers, d \in Deliveries : Enqueue(s, d)
  BY <1>0, <1>1, <1>2, Typed DEF Enqueue, world, BeforeTaking
<1>3. CASE \E s \in Callers : Claim(s)
  BY <1>0, <1>1, <1>3, Typed DEF Claim, ClaimRow, world, BeforeTaking
<1>4. CASE WorkerPoll
  BY <1>0, <1>1, <1>4, Typed DEF WorkerPoll, LoadDue, ClaimNext, ClaimRow, world, BeforeTaking
<1>5. ASSUME NEW s \in Senders, InnerStep(s), s # t
      PROVE  accepted'[cur'[t]][idx'[t]] <= crashes'
  <2>1. pc'[t] = pc[t] /\ cur'[t] = cur[t] /\ idx'[t] = idx[t] /\ reply'[t] = reply[t]
    BY <1>0, <1>5, OtherSender
  <2>2. crashes' = crashes /\ pc[s] \in InRoundPc
    BY <1>0, <1>5, InnerStepFrame DEF Inv
  <2>3. InRound(t)
    BY <2>1 DEF BeforeTaking, InRound
  <2>4. cur[s] # cur[t]
    BY <1>0, <1>5, <2>2, <2>3 DEF Inv, ExclusiveSender, InRound, InRoundPc
  <2>5. accepted'[cur[t]] = accepted[cur[t]]
    BY <1>0, <1>5, <2>4, DupTyped
    DEF InnerStep, Unroutable, Suppress, PlanParts, SkipDelivered, StartPart, StopAtSettled,
        Send, RecordPart, AllPartsDone, world
  <2>6. QED BY <2>1, <2>2, <2>5 DEF DupInv, UnsentAtSend, BeforeTaking
<1>6. CASE StartPart(t)
  <2>1. /\ pc[t] = "part" /\ cur' = cur /\ idx' = idx /\ accepted' = accepted /\ crashes' = crashes
    BY <1>6 DEF StartPart, world
  <2>2. part[cur[t]][idx[t]].status \in Startable \cup {"sending"} /\ idx[t] \in Parts
    BY <1>0, <1>6, Typed, AtOperationTyped DEF StartPart, Record, PartStatuses, Startable
  <2>3. row[cur[t]].status = "sending" /\ ~LeftInDoubt(cur[t])
    BY <1>0, <2>1 DEF Inv, ExclusiveSender, InRound, LeftInDoubt, InDoubt
  <2>4. part[cur[t]][idx[t]].status # "sending"
    BY <1>0, <2>1, <2>2 DEF DupInv, SendingIsHeld, Standing, InRound
  <2>5. QED BY <1>0, <2>1, <2>2, <2>3, <2>4 DEF DupInv, Unsent
<1>7. ASSUME NEW o \in Outcomes, NEW taken \in BOOLEAN, Send(t, o, taken)
      PROVE  accepted'[cur'[t]][idx'[t]] <= crashes'
  <2>1. pc[t] = "send" /\ pc'[t] = "recordpart" /\ reply'[t] = o
    BY <1>0, <1>7, Typed, DupTyped DEF Send
  <2>2. ~taken
    BY <1>7, <2>1, OutcomesAssumption DEF Send, BeforeTaking
  <2>3. UNCHANGED <<accepted, crashes, cur, idx>>
    BY <1>7, <2>2 DEF Send
  <2>4. QED BY <2>1, <2>3 DEF DupInv, UnsentAtSend, BeforeTaking
<1>8. ASSUME InnerStep(t), ~StartPart(t),
             \A o \in Outcomes, taken \in BOOLEAN : ~Send(t, o, taken)
      PROVE  FALSE
  BY <1>0, <1>8, Typed
  DEF InnerStep, Unroutable, Suppress, PlanParts, SkipDelivered, StopAtSettled, RecordPart,
      AllPartsDone, BeforeTaking
<1>9. ASSUME NEW s \in Senders, RecordResult(s)
      PROVE  accepted'[cur'[t]][idx'[t]] <= crashes'
  <2>1. s # t
    BY <1>0, <1>9, Typed DEF RecordResult, AfterRound, BeforeTaking
  <2>2. QED BY <1>0, <1>1, <1>9, <2>1, OtherSender DEF RecordResult, world
<1>10. CASE \E d \in Deliveries : BackoffElapses(d)
  BY <1>1, <1>10 DEF BackoffElapses, tasks, world
<1>11. CASE \E s \in Callers : CancelCaller(s)
  BY <1>0, <1>1, <1>11, Typed, DupTyped DEF CancelCaller, ForgetRound, world, BeforeTaking
<1>12. CASE CrashRestart
  <2>1. pc' = [s \in Senders |-> "idle"]
    BY <1>12, Zenon DEF CrashRestart
  <2>2. QED BY <2>1 DEF BeforeTaking
<1>13. CASE UNCHANGED vars
  BY <1>1, <1>13 DEF vars
<1>14. QED
  BY <1>2, <1>3, <1>4, <1>5, <1>6, <1>7, <1>8, <1>9, <1>10, <1>11, <1>12, <1>13
  DEF Next, Round, InnerStep, Environment

(* The platform takes a part once more only when it has not in this life.   *)
LEMMA DuplicatesStep ==
  ASSUME DupInv, [Next]_vars
  PROVE  DuplicatesNeedCrash'
<1> SUFFICES ASSUME NEW d \in Deliveries, NEW i \in Parts
             PROVE  accepted'[d][i] <= 1 + crashes'
  BY DEF DuplicatesNeedCrash
<1>0. Inv /\ accepted[d][i] <= 1 + crashes /\ accepted[d][i] \in Nat /\ crashes \in Nat
  BY DupTyped DEF DupInv, OrderInv, DuplicatesNeedCrash
<1>1. CASE CrashRestart
  <2>1. accepted' = accepted /\ crashes' = crashes + 1
    BY <1>1, Zenon DEF CrashRestart
  <2>2. QED BY <1>0, <2>1
<1>2. ASSUME NEW s \in Senders, NEW o \in Outcomes, NEW taken \in BOOLEAN, Send(s, o, taken)
      PROVE  accepted'[d][i] <= 1 + crashes'
  <2>1. crashes' = crashes /\ accepted[cur[s]][idx[s]] <= crashes
    BY <1>2 DEF Send, DupInv, UnsentAtSend, BeforeTaking
  <2>2. cur[s] \in Deliveries /\ idx[s] \in Parts
    BY <1>0, <1>2, AtOperationTyped DEF Send
  <2>3. \/ accepted'[d][i] = accepted[d][i]
        \/ d = cur[s] /\ i = idx[s] /\ accepted'[d][i] = accepted[d][i] + 1
    BY <1>0, <1>2, <2>2, DupTyped DEF Send
  <2>4. QED BY <1>0, <2>1, <2>3
<1>3. QED BY <1>0, <1>1, <1>2, AcceptedKept

(* Nothing has been taken and nobody sends when the process first starts. *)
LEMMA InitDup == Init => SendingIsHeld /\ Unsent /\ UnsentAtSend /\ DuplicatesNeedCrash
BY DEF Init, SendingIsHeld, Unsent, UnsentAtSend, BeforeTaking, DuplicatesNeedCrash

(* As long as no adapter answers a timeout with a text that hides it, the    *)
(* platform takes every part at most once in each life of the process, for  *)
(* any number of callers, deliveries, parts, attempts and cancelled tasks.  *)
THEOREM SentOncePerLife ==
  ASSUME "silent" \notin Outcomes
  PROVE  Spec => []DuplicatesNeedCrash
<1>1. Init => DupInv
  BY InitType, InitExclusive, InitOrder, InitDup DEF DupInv, OrderInv, Inv
<1>2. DupInv /\ [Next]_vars => DupInv'
  BY NextType, NextExclusive, PartsInOrderStep, RoundInOrderStep, SendingIsHeldStep, UnsentStep,
     UnsentAtSendStep, DuplicatesStep DEF DupInv, OrderInv, Inv
<1>3. DupInv => DuplicatesNeedCrash
  BY DEF DupInv
<1>4. QED BY <1>1, <1>2, <1>3, PTL DEF Spec
=============================================================================
