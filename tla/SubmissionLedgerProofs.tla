---------------------- MODULE SubmissionLedgerProofs ----------------------
(***************************************************************************)
(* Proofs about the durable ledger of Submission for any requests,         *)
(* payloads and numbers of jobs and crashes: a durable id runs once per    *)
(* life, with the payload its row records, what was answered 'completed'   *)
(* is on disk, and what is on record never runs again.                     *)
(***************************************************************************)
EXTENDS SubmissionWorkerProofs, FiniteSetTheorems

Row(j) == ledger[req[j]]
OnDisk(j) == j <= Len(req) /\ req[j] \in Durable

(* How far a job is: its id claimed, its turn under way, its turn over.    *)
Early(j) == stage[j] \in {"queued", "start"} \/ (lock = j /\ claimed[j] = "new")
Mid(j) == stage[j] \in {"turn", "persist"}
Late(j) == stage[j] \in {"deliver", "sending", "final"}
Active(j) == Early(j) \/ Mid(j) \/ Late(j)

Rows == [status : LedgerRows, hash : Hashes \cup {NoRow.hash}]
OutRecords == [status : {"none"} \cup Outcomes, response : BOOLEAN, deferred : BOOLEAN]
Futures == {"none", "pending", "shared", "rejected", "accepted", "lost"} \cup Outcomes

LedgerTypes ==
  /\ ledger \in [Requests -> Rows]
  /\ pay \in Seq(Payloads) /\ Len(pay) = Len(req)
  /\ out \in [Jobs -> OutRecords]
  /\ future \in [Jobs -> Futures]
  /\ crashes \in Nat

(* What has not been called, or waits for its claim, has no answer yet.    *)
NotAnswered == \A j \in Jobs : j > Len(req) \/ j = lock => future[j] = "none"

(* After its turn a job has an outcome.                                    *)
OutcomeKnown == \A j \in Jobs : stage[j] = "persist" \/ Late(j) => out[j].status \in Outcomes

(* The row of an active job says how far it is, and has its payload.       *)
RowOfJob ==
  \A j \in Jobs : OnDisk(j) =>
    /\ Early(j) => Row(j).status = "accepted"
    /\ Mid(j) => Row(j).status = "running"
    /\ Late(j) => Row(j).status = "running" \/ Settled(Row(j))
    /\ Active(j) => Row(j).hash = HashOf[pay[j]]

(* Two active jobs have the same id only when its row is on record.        *)
ActiveAlone ==
  \A i, j \in Jobs :
    OnDisk(i) /\ OnDisk(j) /\ req[i] = req[j] /\ Active(i) /\ Active(j) /\ i # j => Settled(Row(j))

(* What the claim under the lock returned is still so.                     *)
ClaimTrue ==
  lock # 0 =>
    /\ OnDisk(lock)
    /\ claimed[lock] = "resume" => Settled(Row(lock)) /\ Row(lock).hash = HashOf[pay[lock]]
    /\ claimed[lock] \in TerminalRows => Row(lock).status \in TerminalRows /\ Row(lock).hash = HashOf[pay[lock]]

(* A turn of this life is counted from the moment the row says it runs.    *)
Unstarted == {"absent", "accepted", "retryable"}
TurnsCounted ==
  \A r \in Durable :
    /\ ledger[r].status = "absent" => TurnsOf(r) = {}
    /\ ledger[r].status \in Unstarted => Cardinality(TurnsOf(r)) <= crashes
    /\ Cardinality(TurnsOf(r)) <= 1 + crashes

LedgerInv ==
  /\ LedgerTypes /\ NotAnswered /\ OutcomeKnown /\ RowOfJob /\ ActiveAlone /\ ClaimTrue /\ TurnsCounted
  /\ TurnsRunTheRecordedPayload /\ CompletedIsDurable

------------------------------------------------------------------------------
(* Statuses of rows *)

LEMMA RowKinds ==
  /\ \A row : row.status \in {"absent", "accepted", "running", "retryable"} => ~Settled(row)
  /\ \A row : row.status \in TerminalRows \cup {"conversation_completed"} => Settled(row)
  /\ TerminalRows \subseteq LedgerRows /\ TerminalRows \cap Unstarted = {}
  /\ {"absent", "accepted", "running", "retryable", "conversation_completed"} \cap TerminalRows = {}
  BY DEF Settled, TerminalRows, LedgerRows, Unstarted

(* The turns of an id, when the calls or the turns grow.                   *)
LEMMA TurnsOfKept ==
  ASSUME WorkerInv, Longer, UNCHANGED turns
  PROVE  \A r : TurnsOf(r)' = TurnsOf(r)
<1>1. \A a \in DOMAIN turns : turns[a] \in Jobs /\ req'[turns[a]] = req[turns[a]]
  BY ElementOfSeq, SessionKept DEF WorkerInv, FreshJobs, Types
<1>2. QED BY <1>1 DEF TurnsOf

LEMMA TurnsOfGrow ==
  ASSUME WorkerInv, UNCHANGED req, NEW j \in Jobs, turns' = Append(turns, j)
  PROVE  /\ \A r : r # req[j] => TurnsOf(r)' = TurnsOf(r)
         /\ TurnsOf(req[j])' = TurnsOf(req[j]) \cup {Len(turns) + 1}
         /\ Len(turns) + 1 \notin TurnsOf(req[j]) /\ turns'[Len(turns) + 1] = j
<1>1. /\ turns \in Seq(Jobs) /\ DOMAIN turns = 1 .. Len(turns) /\ Len(turns) \in Nat
      /\ DOMAIN turns' = 1 .. Len(turns) + 1 /\ turns'[Len(turns) + 1] = j
      /\ \A a \in DOMAIN turns : turns'[a] = turns[a]
  BY DEF WorkerInv, Types
<1>2. DOMAIN turns' = DOMAIN turns \cup {Len(turns) + 1} /\ Len(turns) + 1 \notin DOMAIN turns
  BY <1>1
<1>3. QED BY <1>1, <1>2 DEF TurnsOf

LEMMA TurnsOfFinite ==
  ASSUME WorkerInv, NEW r
  PROVE  IsFiniteSet(TurnsOf(r)) /\ Cardinality(TurnsOf(r)) \in Nat
<1>1. TurnsOf(r) \subseteq 1 .. Len(turns) /\ Len(turns) \in Nat
  BY DEF TurnsOf, WorkerInv, Types
<1>2. IsFiniteSet(1 .. Len(turns))
  BY <1>1, FS_Interval
<1>3. IsFiniteSet(TurnsOf(r))
  BY <1>1, <1>2, FS_Subset
<1>4. QED BY <1>3, FS_CardinalityType

------------------------------------------------------------------------------
(* Steps that write no row *)

(* A job whose id was found on record takes up its delivery.               *)
Resumes(j) ==
  ~Early(j)' /\ ~Mid(j)' /\ Settled(Row(j)) /\ Row(j).hash = HashOf[pay[j]]

PayLonger ==
  pay' \in Seq(Payloads) /\ Len(pay') = Len(req') /\ \A i \in 1 .. Len(req) : pay'[i] = pay[i]

LEMMA KeepStep ==
  ASSUME WorkerInv, LedgerInv, Longer, PayLonger, UNCHANGED <<ledger, crashes>>,
         UNCHANGED turns \/ \E j \in Jobs : turns' = Append(turns, j) /\ req[j] \notin Durable /\ UNCHANGED req,
         out' \in [Jobs -> OutRecords], future' \in [Jobs -> Futures],
         NotAnswered', OutcomeKnown', ClaimTrue',
         \A j \in Jobs : OnDisk(j)' =>
           /\ Active(j)' => j <= Len(req)
           /\ \/ (Early(j)' => Early(j)) /\ (Mid(j)' => Mid(j)) /\ (Late(j)' => Late(j))
              \/ Resumes(j)
           /\ future'[j] = "completed" =>
                \/ j <= Len(req) /\ future[j] = "completed"
                \/ ledger[req'[j]].status \in TerminalRows /\ ledger[req'[j]].hash = HashOf[pay'[j]]
  PROVE  LedgerInv'
<1> USE DEF LedgerInv
<1>1. \A j \in Jobs : j <= Len(req) => j <= Len(req') /\ req'[j] = req[j] /\ pay'[j] = pay[j]
                                  /\ (OnDisk(j)' <=> OnDisk(j)) /\ Row(j)' = Row(j)
  BY SessionKept DEF WorkerInv, PayLonger, OnDisk, Row, Jobs
<1>2. \A j \in Jobs : OnDisk(j)' /\ Active(j)' => j <= Len(req) /\ (Active(j) \/ Resumes(j))
  BY DEF Active
<1>3. LedgerTypes'
  BY DEF LedgerTypes, PayLonger
<1>4. RowOfJob'
  <2>1. ASSUME NEW j \in Jobs, OnDisk(j)', Active(j)'
        PROVE  /\ Early(j)' => Row(j)'.status = "accepted"
               /\ Mid(j)' => Row(j)'.status = "running"
               /\ Late(j)' => Row(j)'.status = "running" \/ Settled(Row(j)')
               /\ Row(j)'.hash = HashOf[pay'[j]]
    <3>1. j <= Len(req) /\ OnDisk(j) /\ Row(j)' = Row(j) /\ pay'[j] = pay[j]
      BY <1>1, <1>2, <2>1
    <3>2. CASE Resumes(j)
      BY <3>1, <3>2 DEF Resumes
    <3>3. CASE (Early(j)' => Early(j)) /\ (Mid(j)' => Mid(j)) /\ (Late(j)' => Late(j))
      BY <2>1, <3>1, <3>3 DEF RowOfJob, Active
    <3>4. QED BY <2>1, <3>2, <3>3
  <2>2. \A row : Settled(row)' <=> Settled(row)
    BY DEF Settled
  <2>3. QED BY <2>1, <2>2 DEF RowOfJob, Active, Settled
<1>5. ActiveAlone'
  <2>1. ASSUME NEW i \in Jobs, NEW j \in Jobs, OnDisk(i)', OnDisk(j)', req'[i] = req'[j],
               Active(i)', Active(j)', i # j
        PROVE  Settled(Row(j)')
    <3>1. /\ OnDisk(i) /\ OnDisk(j) /\ req[i] = req[j] /\ Row(i) = Row(j) /\ Row(j)' = Row(j)
          /\ (Active(i) \/ Resumes(i)) /\ (Active(j) \/ Resumes(j))
      BY <1>1, <1>2, <2>1 DEF Row
    <3>2. QED BY <2>1, <3>1 DEF ActiveAlone, Resumes
  <2>2. QED BY <2>1 DEF ActiveAlone, Settled
<1>6. \A r \in Durable : TurnsOf(r)' = TurnsOf(r)
  BY TurnsOfKept, TurnsOfGrow
<1>7. TurnsCounted' /\ TurnsRunTheRecordedPayload'
  <2>1. TurnsCounted'
    BY <1>6 DEF TurnsCounted
  <2>2. \A a \in DOMAIN turns : turns'[a] = turns[a] /\ turns[a] \in Jobs /\ pay'[turns[a]] = pay[turns[a]]
    <3>1. \A a \in DOMAIN turns : turns[a] \in Jobs /\ pay'[turns[a]] = pay[turns[a]]
      BY <1>1, ElementOfSeq DEF WorkerInv, Types, FreshJobs
    <3>2. \A a \in DOMAIN turns : turns'[a] = turns[a]
      <4>1. CASE UNCHANGED turns
        BY <4>1
      <4>2. ASSUME NEW j \in Jobs, turns' = Append(turns, j) PROVE \A a \in DOMAIN turns : turns'[a] = turns[a]
        BY <4>2 DEF WorkerInv, Types
      <4>3. QED BY <4>1, <4>2
    <3>3. QED BY <3>1, <3>2
  <2>3. \A r \in Durable : \A a \in TurnsOf(r) : a \in DOMAIN turns
    BY DEF TurnsOf
  <2>4. TurnsRunTheRecordedPayload'
    BY <1>6, <2>2, <2>3 DEF TurnsRunTheRecordedPayload
  <2>5. QED BY <2>1, <2>4
<1>8. CompletedIsDurable'
  <2>1. ASSUME NEW j \in 1 .. Len(req'), future'[j] = "completed", req'[j] \in Durable
        PROVE  ledger[req'[j]].status \in TerminalRows /\ ledger[req'[j]].hash = HashOf[pay'[j]]
    <3>1. j \in Jobs /\ OnDisk(j)'
      BY <2>1, BoundsAssumption DEF Longer, OnDisk, Jobs
    <3>2. CASE j <= Len(req) /\ future[j] = "completed"
      BY <1>1, <2>1, <3>1, <3>2 DEF CompletedIsDurable, Jobs
    <3>3. QED BY <2>1, <3>1, <3>2
  <2>2. QED BY <2>1 DEF CompletedIsDurable
<1>9. QED BY <1>3, <1>4, <1>5, <1>6, <1>7, <1>8

------------------------------------------------------------------------------
(* Every step keeps the invariant *)

(* The job that has just been called.                                      *)
LEMMA CalledFacts ==
  ASSUME WorkerInv, LedgerInv, NEW r \in Requests, NEW p \in Payloads, Called(r, p)
  PROVE  /\ Longer /\ PayLonger /\ NextJob \in Jobs /\ lock = 0 /\ NextJob = Len(req')
         /\ req'[NextJob] = r /\ pay'[NextJob] = p /\ stage[NextJob] = "none"
         /\ \A j \in Jobs : OnDisk(j)' /\ j # NextJob => OnDisk(j) /\ j <= Len(req)
         /\ \A j \in Jobs : j > Len(req) => stage[j] = "none"
<1>1. Calls(r)
  BY DEF Called, Calls
<1>2. Longer /\ Len(req') = NextJob /\ req'[NextJob] = r /\ Fresh(NextJob) /\ lock = 0
  BY <1>1, CallsLonger
<1>3. PayLonger /\ pay'[NextJob] = p
  BY <1>2 DEF LedgerInv, LedgerTypes, Called, PayLonger, WorkerInv, Types, NextJob
<1>4. \A j \in Jobs : OnDisk(j)' /\ j # NextJob => OnDisk(j) /\ j <= Len(req)
  BY <1>2 DEF OnDisk, Longer, WorkerInv, Types, NextJob, Jobs
<1>5. QED BY <1>1, <1>2, <1>3, <1>4 DEF Calls, Fresh, WorkerInv, FreshJobs

LEMMA CallOnly ==
  ASSUME WorkerInv, LedgerInv, NEW r \in Requests, NEW p \in Payloads,
         SubmitRefused(r, p) \/ SubmitDuplicate(r, p)
  PROVE  LedgerInv'
<1>1. /\ Called(r, p) /\ UNCHANGED <<ledger, lock, stage, claimed, out, crashes, turns>>
      /\ \E x \in {"rejected", "shared"} : future' = [future EXCEPT ![NextJob] = x]
  BY DEF SubmitRefused, SubmitDuplicate, Called, Answer
<1>2. /\ Longer /\ PayLonger /\ lock = 0
      /\ \A j \in Jobs : OnDisk(j)' /\ j # NextJob => OnDisk(j) /\ j <= Len(req)
      /\ \A j \in Jobs : j > Len(req) => stage[j] = "none"
      /\ NextJob \in Jobs /\ NextJob > Len(req) /\ NextJob = Len(req')
  BY <1>1, CalledFacts DEF NextJob, WorkerInv, Types
<1>3. future' \in [Jobs -> Futures] /\ \A j \in Jobs : future'[j] = "completed" => future[j] = "completed" /\ j # NextJob
  BY <1>1, <1>2 DEF LedgerInv, LedgerTypes, Futures
<1>4. OutcomeKnown' /\ ClaimTrue' /\ out' \in [Jobs -> OutRecords] /\ NotAnswered'
  <2>1. OutcomeKnown' /\ ClaimTrue' /\ out' \in [Jobs -> OutRecords]
    BY <1>1, <1>2 DEF LedgerInv, LedgerTypes, OutcomeKnown, Late, ClaimTrue
  <2>2. NotAnswered'
    BY <1>1, <1>2 DEF LedgerInv, NotAnswered, LedgerTypes, NextJob, Jobs, WorkerInv, Types
  <2>3. QED BY <2>1, <2>2
<1>5. \A j \in Jobs : (Active(j)' => j # NextJob) /\ (Early(j)' <=> Early(j)) /\ (Mid(j)' <=> Mid(j)) /\ (Late(j)' <=> Late(j))
  BY <1>1, <1>2 DEF Active, Early, Mid, Late, Jobs
<1>6. QED BY <1>1, <1>2, <1>3, <1>4, <1>5, KeepStep

(* What Admit does to a job: a stage, and a handle that waits.             *)
LEMMA AdmitFacts ==
  ASSUME NEW j \in Jobs, NEW r, Admit(j, r)
  PROVE  /\ \E x \in {"queued", "start"} : stage' = [stage EXCEPT ![j] = x]
         /\ future' = [future EXCEPT ![j] = "pending"]
  BY DEF Admit, Answer

LEMMA PlainStep ==
  ASSUME WorkerInv, LedgerInv, NEW r \in Requests, NEW p \in Payloads, SubmitPlain(r, p)
  PROVE  LedgerInv'
<1>1. /\ Called(r, p) /\ UNCHANGED <<ledger, lock, claimed, out, crashes, turns>>
      /\ Admit(NextJob, r) /\ r \notin Durable
  BY DEF SubmitPlain
<1>2. /\ Longer /\ PayLonger /\ NextJob \in Jobs /\ lock = 0 /\ NextJob = Len(req') /\ req'[NextJob] = r
      /\ \A j \in Jobs : OnDisk(j)' /\ j # NextJob => OnDisk(j) /\ j <= Len(req)
  BY <1>1, CalledFacts
<1>3. /\ \A j \in Jobs : j # NextJob => stage'[j] = stage[j] /\ future'[j] = future[j]
      /\ stage'[NextJob] \in {"queued", "start"} /\ future' \in [Jobs -> Futures]
  BY <1>1, <1>2, AdmitFacts DEF LedgerInv, LedgerTypes, Futures, WorkerInv, Types
<1>4. OutcomeKnown' /\ ClaimTrue' /\ out' \in [Jobs -> OutRecords] /\ NotAnswered'
  <2>1. OutcomeKnown' /\ ClaimTrue' /\ out' \in [Jobs -> OutRecords]
    BY <1>1, <1>2, <1>3 DEF LedgerInv, LedgerTypes, OutcomeKnown, Late, ClaimTrue
  <2>2. NotAnswered'
    BY <1>1, <1>2, <1>3 DEF LedgerInv, NotAnswered, NextJob, Jobs, WorkerInv, Types
  <2>3. QED BY <2>1, <2>2
<1>5. \A j \in Jobs : OnDisk(j)' => j # NextJob
  BY <1>1, <1>2 DEF OnDisk
<1>6. \A j \in Jobs : j # NextJob => (Early(j)' <=> Early(j)) /\ (Mid(j)' <=> Mid(j)) /\ (Late(j)' <=> Late(j))
  BY <1>1, <1>3 DEF Early, Mid, Late
<1>7. QED BY <1>1, <1>2, <1>3, <1>4, <1>5, <1>6, KeepStep

(* A claim that writes no row.                                             *)
LEMMA ClaimOnly ==
  ASSUME WorkerInv, LedgerInv, ClaimKnown, NEW r \in Requests, NEW p \in Payloads, SubmitDurable(r, p),
         ClaimKind(ledger[r], p) # "new"
  PROVE  LedgerInv'
<1>1. /\ Called(r, p) /\ r \in Durable /\ lock' = NextJob
      /\ claimed' = [claimed EXCEPT ![NextJob] =
            IF ClaimKind(ledger[r], p) = "cached" THEN ledger[r].status ELSE ClaimKind(ledger[r], p)]
      /\ UNCHANGED <<ledger, stage, out, future, crashes, turns>>
  BY DEF SubmitDurable
<1>2. /\ Longer /\ PayLonger /\ NextJob \in Jobs /\ lock = 0 /\ NextJob = Len(req') /\ req'[NextJob] = r
      /\ pay'[NextJob] = p /\ stage[NextJob] = "none" /\ NextJob > Len(req)
      /\ \A j \in Jobs : OnDisk(j)' /\ j # NextJob => OnDisk(j) /\ j <= Len(req)
      /\ \A j \in Jobs : j > Len(req) => stage[j] = "none"
  BY <1>1, CalledFacts DEF NextJob, WorkerInv, Types
<1>3. /\ claimed'[NextJob] # "new"
      /\ claimed'[NextJob] = "resume" => Settled(ledger[r]) /\ ledger[r].hash = HashOf[p]
      /\ claimed'[NextJob] \in TerminalRows => ledger[r].status \in TerminalRows /\ ledger[r].hash = HashOf[p]
  <2>1. claimed'[NextJob] = IF ClaimKind(ledger[r], p) = "cached" THEN ledger[r].status ELSE ClaimKind(ledger[r], p)
    BY <1>1, <1>2 DEF ClaimKnown
  <2>2. QED BY <2>1, ClaimKinds, RowKinds
<1>4. ClaimTrue'
  BY <1>1, <1>2, <1>3 DEF ClaimTrue, OnDisk, Row
<1>5. OutcomeKnown' /\ out' \in [Jobs -> OutRecords] /\ future' \in [Jobs -> Futures]
  BY <1>1 DEF LedgerInv, LedgerTypes, OutcomeKnown, Late
<1>6. \A j \in Jobs : (Early(j)' => Early(j)) /\ (Mid(j)' <=> Mid(j)) /\ (Late(j)' <=> Late(j))
                   /\ (Active(j)' => j # NextJob)
  BY <1>1, <1>2, <1>3 DEF Active, Early, Mid, Late, Jobs
<1>7. NotAnswered' /\ future[NextJob] # "completed"
  BY <1>1, <1>2 DEF LedgerInv, NotAnswered, WorkerInv, Types, Longer, Jobs
<1>8. QED BY <1>1, <1>2, <1>4, <1>5, <1>6, <1>7, KeepStep

(* A step that writes the status of the row of a job that is active.       *)
LEMMA WriteStep ==
  ASSUME WorkerInv, LedgerInv, NEW j \in Jobs, OnDisk(j), Active(j), NEW status \in LedgerRows,
         ledger' = [ledger EXCEPT ![req[j]].status = status],
         UNCHANGED <<req, pay, lock, claimed, crashes>>,
         out' \in [Jobs -> OutRecords], future' \in [Jobs -> Futures],
         NotAnswered', OutcomeKnown', TurnsCounted',
         \A a \in DOMAIN turns' : \/ a \in DOMAIN turns /\ turns'[a] = turns[a]
                                  \/ turns'[a] = j,
         Settled(Row(j)) => status \in TerminalRows,
         Early(j)' => status = "accepted", Mid(j)' => status = "running",
         Late(j)' => status \in TerminalRows \cup {"running", "conversation_completed"},
         \A i \in Jobs : i # j => (Early(i)' <=> Early(i)) /\ (Mid(i)' <=> Mid(i)) /\ (Late(i)' <=> Late(i)),
         \A i \in Jobs : future'[i] = "completed" =>
            future[i] = "completed" \/ (i = j /\ status \in TerminalRows)
  PROVE  LedgerInv'
<1> USE DEF LedgerInv
<1>1. /\ req[j] \in Requests /\ req[j] \in Durable /\ j <= Len(req) /\ Row(j) = ledger[req[j]]
      /\ ledger'[req[j]].status = status /\ ledger'[req[j]].hash = ledger[req[j]].hash
      /\ ledger' \in [Requests -> Rows]
      /\ \A r \in Requests : r # req[j] => ledger'[r] = ledger[r]
  <2>1. /\ req[j] \in Requests /\ req[j] \in Durable /\ j <= Len(req) /\ Row(j) = ledger[req[j]]
    BY DEF OnDisk, Row, WorkerInv, Types, Jobs
  <2>2. ledger \in [Requests -> Rows]
    BY DEF LedgerTypes
  <2>3. ledger[req[j]] \in Rows
    BY <2>1, <2>2
  <2>4. [ledger[req[j]] EXCEPT !.status = status] \in Rows
    BY <2>3 DEF Rows
  <2>5. ledger' = [ledger EXCEPT ![req[j]] = [ledger[req[j]] EXCEPT !.status = status]]
    BY <2>1, <2>2
  <2>6. [ledger[req[j]] EXCEPT !.status = status].status = status
        /\ [ledger[req[j]] EXCEPT !.status = status].hash = ledger[req[j]].hash
    BY <2>3 DEF Rows
  <2>7. QED BY <2>1, <2>2, <2>4, <2>5, <2>6
<1>2. \A i \in Jobs : (OnDisk(i)' <=> OnDisk(i)) /\ (OnDisk(i) => req[i] \in Requests /\ req[i] \in Durable)
  BY DEF OnDisk, WorkerInv, Types, Jobs
<1>3. \A i \in Jobs : OnDisk(i) => Row(i)'.hash = Row(i).hash
                        /\ (req[i] # req[j] => Row(i)' = Row(i))
                        /\ (req[i] = req[j] => Row(i)'.status = status /\ Row(i) = Row(j))
  BY <1>1, <1>2 DEF Row
<1>4. \A i \in Jobs : (Row(i)').status \in TerminalRows \cup {"conversation_completed"} <=> Settled(Row(i))'
  BY DEF Settled
<1>5. (status \in TerminalRows => Settled(Row(j))') /\ (status = "conversation_completed" => Settled(Row(j))')
  BY <1>1, <1>3, <1>4
<1>6. \A i \in Jobs : OnDisk(i) /\ Settled(Row(i)) => Settled(Row(i))'
  BY <1>3, <1>4
<1>7. \A i \in Jobs : OnDisk(i) /\ Row(i).status \in TerminalRows => Row(i)'.status \in TerminalRows
  BY <1>3, RowKinds
<1>8. LedgerTypes'
  BY <1>1 DEF LedgerTypes
<1>9. RowOfJob'
  <2>1. ASSUME NEW i \in Jobs, OnDisk(i), i # j, req[i] = req[j], Active(i)
        PROVE  Settled(Row(j)) /\ ~Early(i) /\ ~Mid(i)
    <3>1. Settled(Row(j)) /\ Row(i) = Row(j)
      BY <1>3, <2>1 DEF ActiveAlone
    <3>2. QED BY <2>1, <3>1, RowKinds DEF RowOfJob
  <2>2. ASSUME NEW i \in Jobs, OnDisk(i)', i # j
        PROVE  /\ Early(i)' => Row(i)'.status = "accepted"
               /\ Mid(i)' => Row(i)'.status = "running"
               /\ Late(i)' => Row(i)'.status = "running" \/ Settled(Row(i))'
               /\ Active(i)' => Row(i)'.hash = HashOf[pay[i]]
    <3>1. OnDisk(i) /\ (Active(i)' => Active(i))
      BY <1>2, <2>2 DEF Active
    <3>2. CASE req[i] # req[j]
      BY <1>3, <2>2, <3>1, <3>2 DEF RowOfJob, Settled
    <3>3. CASE req[i] = req[j]
      BY <1>3, <1>6, <2>1, <2>2, <3>1, <3>3 DEF RowOfJob, Active
    <3>4. QED BY <3>2, <3>3
  <2>3. /\ Early(j)' => Row(j)'.status = "accepted"
        /\ Mid(j)' => Row(j)'.status = "running"
        /\ Late(j)' => Row(j)'.status = "running" \/ Settled(Row(j))'
        /\ Active(j)' => Row(j)'.hash = HashOf[pay[j]]
    BY <1>3, <1>5 DEF RowOfJob
  <2>4. QED BY <2>2, <2>3 DEF RowOfJob
<1>10. ActiveAlone'
  <2>1. \A i \in Jobs : OnDisk(i)' /\ Active(i)' => OnDisk(i) /\ Active(i)
    BY <1>2 DEF Active
  <2>2. QED BY <1>6, <2>1 DEF ActiveAlone
<1>11. ClaimTrue'
  <2>1. CASE lock # 0
    <3>1. lock \in Jobs
      BY <2>1 DEF WorkerInv, Types
    <3>2. QED BY <1>2, <1>3, <1>6, <1>7, <2>1, <3>1 DEF ClaimTrue
  <2>2. QED BY <2>1 DEF ClaimTrue
<1>12. TurnsRunTheRecordedPayload'
  <2>1. ASSUME NEW r \in Durable, NEW a \in TurnsOf(r)' PROVE HashOf[pay[turns'[a]]] = ledger'[r].hash
    <3>1. a \in DOMAIN turns' /\ req[turns'[a]] = r
      BY <2>1 DEF TurnsOf
    <3>2. CASE turns'[a] = j
      BY <1>1, <3>1, <3>2 DEF RowOfJob
    <3>3. CASE a \in DOMAIN turns /\ turns'[a] = turns[a]
      <4>1. HashOf[pay[turns[a]]] = ledger[r].hash
        BY <3>1, <3>3 DEF TurnsRunTheRecordedPayload, TurnsOf
      <4>2. r \in Requests
        BY RequestsAssumption
      <4>3. QED BY <1>1, <3>3, <4>1, <4>2
    <3>4. QED BY <3>1, <3>2, <3>3
  <2>2. QED BY <2>1 DEF TurnsRunTheRecordedPayload
<1>13. CompletedIsDurable'
  <2>1. ASSUME NEW i \in 1 .. Len(req), future'[i] = "completed", req[i] \in Durable
        PROVE  ledger'[req[i]].status \in TerminalRows /\ ledger'[req[i]].hash = HashOf[pay[i]]
    <3>1. i \in Jobs /\ OnDisk(i) /\ Row(i)' = ledger'[req[i]] /\ Row(i) = ledger[req[i]]
      BY <2>1, BoundsAssumption DEF OnDisk, Row, Jobs, WorkerInv, Types
    <3>2. CASE future[i] = "completed"
      BY <1>3, <1>7, <2>1, <3>1, <3>2 DEF CompletedIsDurable
    <3>3. CASE i = j /\ status \in TerminalRows
      BY <1>1, <3>3 DEF RowOfJob
    <3>4. QED BY <2>1, <3>1, <3>2, <3>3
  <2>2. QED BY <2>1 DEF CompletedIsDurable
<1>14. QED BY <1>8, <1>9, <1>10, <1>11, <1>12, <1>13

------------------------------------------------------------------------------
(* The steps of the pipeline *)

(* A job that has a stage, moved to another one.                           *)
LEMMA Moved ==
  ASSUME WorkerInv, NEW j \in Jobs, stage[j] # "none", NEW x \in Stages, UNCHANGED <<lock, claimed, req, pay>>,
         stage' = [stage EXCEPT ![j] = x]
  PROVE  /\ j <= Len(req) /\ j # lock /\ (OnDisk(j) <=> req[j] \in Durable) /\ Longer
         /\ stage'[j] = x /\ \A i \in Jobs : i # j => stage'[i] = stage[i]
         /\ \A i \in Jobs : i # j => (Early(i)' <=> Early(i)) /\ (Mid(i)' <=> Mid(i)) /\ (Late(i)' <=> Late(i))
         /\ (Early(j)' <=> x \in {"queued", "start"}) /\ (Mid(j)' <=> x \in {"turn", "persist"})
         /\ (Late(j)' <=> x \in {"deliver", "sending", "final"})
         /\ (Early(j) <=> stage[j] \in {"queued", "start"})
<1>1. j <= Len(req) /\ j # lock
  BY DEF WorkerInv, FreshJobs, Fresh, Types, Jobs
<1>2. Longer /\ (OnDisk(j) <=> req[j] \in Durable)
  BY <1>1 DEF WorkerInv, Types, Longer, OnDisk, Jobs
<1>3. stage'[j] = x /\ \A i \in Jobs : i # j => stage'[i] = stage[i]
  BY DEF WorkerInv, Types
<1>4. QED BY <1>1, <1>2, <1>3 DEF Early, Mid, Late

LEMMA PayKept == ASSUME LedgerInv, UNCHANGED <<req, pay>> PROVE PayLonger
  BY DEF PayLonger, LedgerInv, LedgerTypes

(* A job moves within its class, or backwards from no class at all; no row *)
(* is written and no turn starts.                                          *)
LEMMA ShiftStep ==
  ASSUME WorkerInv, LedgerInv, NEW j \in Jobs, stage[j] # "none", NEW x \in Stages,
         UNCHANGED <<ledger, lock, claimed, req, pay, turns, crashes>>, stage' = [stage EXCEPT ![j] = x],
         Early(j)' => Early(j), Mid(j)' => Mid(j), Late(j)' => Late(j),
         out' \in [Jobs -> OutRecords], \A i \in Jobs : i # j => out'[i] = out[i],
         x = "persist" \/ Late(j)' => out'[j].status \in Outcomes,
         future' \in [Jobs -> Futures], \A i \in Jobs : future[i] = "none" => future'[i] = "none",
         \A i \in Jobs : OnDisk(i) /\ future'[i] = "completed" => future[i] = "completed"
  PROVE  LedgerInv'
<1>1. /\ Longer /\ PayLonger
      /\ stage'[j] = x /\ \A i \in Jobs : i # j => stage'[i] = stage[i]
      /\ \A i \in Jobs : (Early(i)' => Early(i)) /\ (Mid(i)' => Mid(i)) /\ (Late(i)' => Late(i))
  BY Moved, PayKept
<1>2. NotAnswered' /\ ClaimTrue'
  BY DEF LedgerInv, NotAnswered, ClaimTrue, OnDisk, Row
<1>3. OutcomeKnown'
  <2>1. \A i \in Jobs : i # j /\ (stage'[i] = "persist" \/ Late(i)') => out'[i].status \in Outcomes
    BY <1>1 DEF LedgerInv, OutcomeKnown
  <2>2. QED BY <1>1, <2>1 DEF OutcomeKnown
<1>4. \A i \in Jobs : OnDisk(i)' => i <= Len(req) /\ OnDisk(i)
  BY DEF OnDisk
<1>5. QED BY <1>1, <1>2, <1>3, <1>4, KeepStep

LEMMA TakeLedger ==
  ASSUME WorkerInv, LedgerInv, NEW w \in Jobs, TakeNext(w)
  PROVE  LedgerInv'
<1>1. PICK q \in Jobs : q = task[w].queue /\ items[q] # <<>>
  <2>1. task[w].state \in {"created", "waiting"} /\ items[task[w].queue] # <<>>
    BY DEF TakeNext
  <2>2. task[w].queue \in Jobs
    BY <2>1, WorkerPlace DEF Live
  <2>3. QED BY <2>1, <2>2
<1>2. PICK j \in Jobs : j = Head(items[q]) /\ stage[j] = "queued"
  BY <1>1 DEF WorkerInv, Types, QueuedInOrder
<1>3. \E x \in {"over", "start"} : stage' = [stage EXCEPT ![j] = x]
  BY <1>1, <1>2 DEF TakeNext
<1>4. UNCHANGED <<ledger, lock, claimed, req, pay, turns, crashes, out, future>>
  BY DEF TakeNext, static
<1>5. QED BY <1>2, <1>3, <1>4, Moved, ShiftStep DEF LedgerInv, LedgerTypes, Stages

(* The row and the count when the turn of a durable job starts.            *)
LEMMA StartLedger ==
  ASSUME WorkerInv, LedgerInv, NEW j \in Jobs, StartTurn(j)
  PROVE  LedgerInv'
<1>1. /\ stage[j] = "start" /\ stage' = [stage EXCEPT ![j] = "turn"] /\ ledger' = SetRow(j, "running")
      /\ turns' = IF req[j] \in Immediate THEN turns ELSE Append(turns, j)
      /\ UNCHANGED <<lock, claimed, req, pay, out, future, crashes>>
  BY DEF StartTurn, static
<1>2. /\ j <= Len(req) /\ (OnDisk(j) <=> req[j] \in Durable) /\ Longer /\ PayLonger /\ Early(j)
      /\ stage'[j] = "turn" /\ \A i \in Jobs : i # j => stage'[i] = stage[i]
      /\ \A i \in Jobs : i # j => (Early(i)' <=> Early(i)) /\ (Mid(i)' <=> Mid(i)) /\ (Late(i)' <=> Late(i))
      /\ ~Early(j)' /\ Mid(j)' /\ ~Late(j)'
  BY <1>1, Moved, PayKept DEF Stages
<1>3. out' \in [Jobs -> OutRecords] /\ future' \in [Jobs -> Futures] /\ NotAnswered' /\ OutcomeKnown'
  <2>1. out' \in [Jobs -> OutRecords] /\ future' \in [Jobs -> Futures] /\ NotAnswered'
    BY <1>1 DEF LedgerInv, LedgerTypes, NotAnswered
  <2>2. OutcomeKnown'
    BY <1>1, <1>2 DEF LedgerInv, OutcomeKnown
  <2>3. QED BY <2>1, <2>2
<1>4. CASE req[j] \notin Durable
  <2>1. UNCHANGED ledger /\ (UNCHANGED turns \/ turns' = Append(turns, j))
    BY <1>1, <1>4 DEF SetRow
  <2>2. ClaimTrue'
    BY <1>1, <2>1 DEF LedgerInv, ClaimTrue, OnDisk, Row
  <2>3. \A i \in Jobs : OnDisk(i)' => i # j /\ i <= Len(req)
    BY <1>1, <1>4 DEF OnDisk
  <2>4. QED BY <1>1, <1>2, <1>3, <1>4, <2>1, <2>2, <2>3, KeepStep
<1>5. CASE req[j] \in Durable
  <2>1. ledger' = [ledger EXCEPT ![req[j]].status = "running"] /\ Active(j) /\ OnDisk(j)
    BY <1>1, <1>2, <1>5 DEF SetRow, Active
  <2>2. Row(j).status = "accepted" /\ ~Settled(Row(j))
    BY <1>2, <2>1, RowKinds DEF LedgerInv, RowOfJob
  <2>3. \A a \in DOMAIN turns' : (a \in DOMAIN turns /\ turns'[a] = turns[a]) \/ turns'[a] = j
    BY <1>1 DEF WorkerInv, Types
  <2>4. TurnsCounted'
    <3>1. ASSUME NEW r \in Durable, r # req[j] PROVE ledger'[r] = ledger[r] /\ TurnsOf(r)' = TurnsOf(r)
      <4>1. TurnsOf(r)' = TurnsOf(r)
        BY <1>1, <1>2, <3>1, TurnsOfGrow, TurnsOfKept
      <4>2. ledger'[r] = ledger[r]
        BY <2>1, <3>1, RequestsAssumption DEF LedgerInv, LedgerTypes
      <4>3. QED BY <4>1, <4>2
    <3>2. /\ Cardinality(TurnsOf(req[j])) <= crashes /\ Cardinality(TurnsOf(req[j])) \in Nat /\ crashes \in Nat
          /\ IsFiniteSet(TurnsOf(req[j]))
      BY <1>5, <2>2, TurnsOfFinite DEF LedgerInv, TurnsCounted, Unstarted, Row, LedgerTypes
    <3>3. Cardinality(TurnsOf(req[j])') <= 1 + crashes
      <4>1. CASE req[j] \in Immediate
        <5>1. TurnsOf(req[j])' = TurnsOf(req[j])
          BY <1>1, <1>2, <4>1, TurnsOfKept
        <5>2. QED BY <3>2, <5>1
      <4>2. CASE req[j] \notin Immediate
        <5>1. TurnsOf(req[j])' = TurnsOf(req[j]) \cup {Len(turns) + 1} /\ Len(turns) + 1 \notin TurnsOf(req[j])
          BY <1>1, <4>2, TurnsOfGrow
        <5>2. Cardinality(TurnsOf(req[j]) \cup {Len(turns) + 1}) = Cardinality(TurnsOf(req[j])) + 1
          BY <3>2, <5>1, FS_AddElement
        <5>3. QED BY <3>2, <5>1, <5>2
      <4>3. QED BY <4>1, <4>2
    <3>4. ledger'[req[j]].status = "running" /\ "running" \notin Unstarted /\ "running" # "absent"
      BY <2>1, <1>5, RequestsAssumption DEF LedgerInv, LedgerTypes, Unstarted, Rows
    <3>5. ASSUME NEW r \in Durable
          PROVE  /\ ledger'[r].status = "absent" => TurnsOf(r)' = {}
                 /\ ledger'[r].status \in Unstarted => Cardinality(TurnsOf(r)') <= crashes
                 /\ Cardinality(TurnsOf(r)') <= 1 + crashes
      <4>1. CASE r = req[j]
        <5>1. TurnsOf(r)' = TurnsOf(req[j])'
          BY <1>1, <4>1 DEF TurnsOf
        <5>2. QED BY <3>3, <3>4, <4>1, <5>1
      <4>2. CASE r # req[j]
        BY <3>1, <4>2 DEF LedgerInv, TurnsCounted
      <4>3. QED BY <4>1, <4>2
    <3>6. QED BY <1>1, <3>5 DEF TurnsCounted
  <2>5. "running" \in LedgerRows
    BY DEF LedgerRows
  <2>6. QED BY <1>1, <1>2, <1>3, <2>1, <2>2, <2>3, <2>4, <2>5, WriteStep
<1>6. QED BY <1>4, <1>5

LEMMA EndTurnLedger ==
  ASSUME WorkerInv, LedgerInv, NEW j \in Jobs, NEW status \in Outcomes, NEW response \in BOOLEAN,
         EndTurn(j, status, response)
  PROVE  LedgerInv'
<1>1. /\ stage[j] = "turn" /\ stage' = [stage EXCEPT ![j] = "persist"]
      /\ out' = [out EXCEPT ![j] = [status |-> status, response |-> response, deferred |-> FALSE]]
      /\ UNCHANGED <<ledger, lock, claimed, req, pay, turns, crashes, future>>
  BY DEF EndTurn, static
<1>2. [status |-> status, response |-> response, deferred |-> FALSE] \in OutRecords
  BY DEF OutRecords
<1>3. out' \in [Jobs -> OutRecords] /\ out'[j].status = status /\ \A i \in Jobs : i # j => out'[i] = out[i]
  BY <1>1, <1>2 DEF LedgerInv, LedgerTypes
<1>4. Mid(j) /\ ~Early(j)' /\ ~Late(j)'
  BY <1>1, Moved DEF Mid, Stages
<1>5. "persist" \in Stages /\ future' \in [Jobs -> Futures]
  BY <1>1 DEF LedgerInv, LedgerTypes, Stages
<1>6. QED BY <1>1, <1>3, <1>4, <1>5, ShiftStep

LEMMA SetRowCases ==
  ASSUME NEW j, NEW status
  PROVE  /\ req[j] \in Durable => SetRow(j, status) = [ledger EXCEPT ![req[j]].status = status]
         /\ req[j] \notin Durable => SetRow(j, status) = ledger
  BY DEF SetRow

LEMMA PersistLedger ==
  ASSUME WorkerInv, LedgerInv, NEW j \in Jobs, PersistConversation(j)
  PROVE  LedgerInv'
<1>1. /\ stage[j] = "persist" /\ UNCHANGED <<lock, claimed, req, pay, turns, crashes, future, out>>
      /\ ledger' \in {ledger, SetRow(j, "conversation_completed")}
      /\ stage' = [stage EXCEPT ![j] = IF req[j] \in Deliver /\ out[j].response THEN "deliver" ELSE "final"]
  BY DEF PersistConversation, static
<1>2. PICK x \in {"deliver", "final"} : stage' = [stage EXCEPT ![j] = x]
  BY <1>1
<1>3. /\ j <= Len(req) /\ (OnDisk(j) <=> req[j] \in Durable) /\ Mid(j)
      /\ stage'[j] = x /\ \A i \in Jobs : i # j => stage'[i] = stage[i]
      /\ \A i \in Jobs : i # j => (Early(i)' <=> Early(i)) /\ (Mid(i)' <=> Mid(i)) /\ (Late(i)' <=> Late(i))
      /\ ~Early(j)' /\ ~Mid(j)' /\ Late(j)'
  BY <1>1, <1>2, Moved DEF Stages, Mid
<1>4. out[j].status \in Outcomes /\ out' \in [Jobs -> OutRecords] /\ future' \in [Jobs -> Futures]
  BY <1>1 DEF LedgerInv, LedgerTypes, OutcomeKnown
<1>5. OutcomeKnown' /\ NotAnswered'
  BY <1>1, <1>3, <1>4 DEF LedgerInv, OutcomeKnown, NotAnswered
<1>6. CASE ledger' # ledger
  <2>1. ledger' = [ledger EXCEPT ![req[j]].status = "conversation_completed"] /\ req[j] \in Durable
    BY <1>1, <1>6, SetRowCases
  <2>2. OnDisk(j) /\ Active(j) /\ ~Settled(Row(j)) /\ Row(j) = ledger[req[j]]
    BY <1>3, <2>1, RowKinds DEF Active, LedgerInv, RowOfJob, Row
  <2>3. TurnsCounted'
    <3>1. \A r \in Durable : TurnsOf(r)' = TurnsOf(r)
      BY <1>1 DEF TurnsOf
    <3>2. \A r \in Durable : ledger'[r].status \notin Unstarted \/ ledger'[r] = ledger[r]
      BY <2>1, RequestsAssumption DEF LedgerInv, LedgerTypes, Unstarted, Rows
    <3>3. "absent" \in Unstarted
      BY DEF Unstarted
    <3>4. QED BY <1>1, <3>1, <3>2, <3>3 DEF LedgerInv, TurnsCounted
  <2>4. "conversation_completed" \in LedgerRows
    BY DEF LedgerRows
  <2>5. QED BY <1>1, <1>3, <1>4, <1>5, <2>1, <2>2, <2>3, <2>4, WriteStep
<1>7. CASE ledger' = ledger
  <2>1. CASE OnDisk(j)
    <3>1. Row(j).status = "running" /\ ledger[req[j]] = Row(j) /\ req[j] \in Durable /\ req[j] \in Requests
      BY <1>3, <2>1, RequestsAssumption DEF LedgerInv, RowOfJob, Row, OnDisk
    <3>2. ledger[req[j]] \in Rows /\ ledger \in [Requests -> Rows]
      BY <3>1 DEF LedgerInv, LedgerTypes
    <3>3. [ledger[req[j]] EXCEPT !.status = "running"] = ledger[req[j]]
      BY <3>1, <3>2 DEF Rows
    <3>4. ledger' = [ledger EXCEPT ![req[j]].status = "running"]
      BY <1>7, <3>1, <3>2, <3>3
    <3>5. TurnsCounted'
      BY <1>1, <1>7 DEF LedgerInv, TurnsCounted, TurnsOf
    <3>6. "running" \in LedgerRows /\ ~Settled(Row(j)) /\ Active(j)
      BY <1>3, <3>1, RowKinds DEF LedgerRows, Active
    <3>7. QED BY <1>1, <1>3, <1>4, <1>5, <2>1, <3>4, <3>5, <3>6, WriteStep
  <2>2. CASE ~OnDisk(j)
    <3>1. Longer /\ PayLonger
      BY <1>1, <1>2, Moved, PayKept DEF Stages
    <3>2. ClaimTrue'
      BY <1>1, <1>7 DEF LedgerInv, ClaimTrue, OnDisk, Row
    <3>3. \A i \in Jobs : OnDisk(i)' => i # j /\ i <= Len(req)
      BY <1>1, <2>2 DEF OnDisk
    <3>4. QED BY <1>1, <1>3, <1>4, <1>5, <1>7, <3>1, <3>2, <3>3, KeepStep
  <2>3. QED BY <2>1, <2>2
<1>8. QED BY <1>6, <1>7

LEMMA DeliveryLedger ==
  ASSUME WorkerInv, LedgerInv, NEW j \in Jobs,
         BeginDelivery(j) \/ \E result \in Results, deferred \in BOOLEAN : EndDelivery(j, result, deferred)
  PROVE  LedgerInv'
<1>1. /\ stage[j] \in {"deliver", "sending"}
      /\ UNCHANGED <<ledger, lock, claimed, req, pay, turns, crashes, future>>
  BY DEF BeginDelivery, EndDelivery, static
<1>2. PICK x \in {"sending", "final"} : stage' = [stage EXCEPT ![j] = x]
  BY DEF BeginDelivery, EndDelivery
<1>3. Late(j) /\ out[j].status \in Outcomes /\ out[j] \in OutRecords /\ out \in [Jobs -> OutRecords]
  BY <1>1 DEF Late, LedgerInv, OutcomeKnown, LedgerTypes
<1>4. \E status \in Outcomes, deferred \in BOOLEAN :
        out' = [out EXCEPT ![j] = [out[j] EXCEPT !.deferred = deferred, !.status = status]]
  <2>1. ASSUME BeginDelivery(j) PROVE \E deferred \in BOOLEAN : out' = [out EXCEPT ![j].deferred = deferred]
    BY <2>1 DEF BeginDelivery
  <2>2. ASSUME NEW deferred \in BOOLEAN, out' = [out EXCEPT ![j].deferred = deferred]
        PROVE  out' = [out EXCEPT ![j] = [out[j] EXCEPT !.deferred = deferred, !.status = out[j].status]]
    BY <1>3, <2>2 DEF OutRecords
  <2>3. ASSUME NEW result \in Results, NEW deferred \in BOOLEAN, EndDelivery(j, result, deferred)
        PROVE  \E status \in Outcomes :
                 out' = [out EXCEPT ![j] = [out[j] EXCEPT !.deferred = deferred, !.status = status]]
    <3>1. out' = [out EXCEPT ![j] = [out[j] EXCEPT !.deferred = deferred,
                 !.status = IF result = "undelivered" /\ ~deferred THEN "failed" ELSE out[j].status]]
      BY <1>3, <2>3 DEF EndDelivery, OutRecords
    <3>2. "failed" \in Outcomes
      BY DEF Outcomes
    <3>3. QED BY <1>3, <3>1, <3>2
  <2>4. QED BY <1>3, <2>1, <2>2, <2>3
<1>5. out' \in [Jobs -> OutRecords] /\ out'[j].status \in Outcomes /\ \A i \in Jobs : i # j => out'[i] = out[i]
  BY <1>3, <1>4 DEF OutRecords
<1>6. ~Early(j)' /\ ~Mid(j)' /\ x \in Stages /\ stage[j] # "none"
  BY <1>1, <1>2, Moved DEF Stages
<1>7. future' \in [Jobs -> Futures]
  BY <1>1 DEF LedgerInv, LedgerTypes
<1>8. QED BY <1>1, <1>2, <1>3, <1>5, <1>6, <1>7, ShiftStep

LEMMA StoreLedger ==
  ASSUME WorkerInv, LedgerInv, NEW j \in Jobs, NEW stored \in BOOLEAN, StoreFinal(j, stored)
  PROVE  LedgerInv'
<1>1. /\ stage[j] = "final" /\ stage' = [stage EXCEPT ![j] = "over"]
      /\ ledger' = IF stored THEN SetRow(j, FinalRow(j)) ELSE ledger
      /\ future' = [future EXCEPT ![j] = IF @ = "pending" THEN Told(j, stored) ELSE @]
      /\ out' = [out EXCEPT ![j] = NoOutcome]
      /\ UNCHANGED <<lock, claimed, req, pay, turns, crashes>>
  BY DEF StoreFinal, static
<1>2. /\ j <= Len(req) /\ (OnDisk(j) <=> req[j] \in Durable) /\ Late(j)
      /\ stage'[j] = "over" /\ \A i \in Jobs : i # j => stage'[i] = stage[i]
      /\ \A i \in Jobs : i # j => (Early(i)' <=> Early(i)) /\ (Mid(i)' <=> Mid(i)) /\ (Late(i)' <=> Late(i))
      /\ ~Early(j)' /\ ~Mid(j)' /\ ~Late(j)'
  BY <1>1, Moved DEF Stages, Late
<1>3. out[j].status \in Outcomes
  BY <1>2 DEF LedgerInv, OutcomeKnown
<1>4. out' \in [Jobs -> OutRecords] /\ \A i \in Jobs : i # j => out'[i] = out[i]
  BY <1>1 DEF LedgerInv, LedgerTypes, OutRecords, NoOutcome
<1>5. /\ Told(j, stored) \in Outcomes /\ ("none" \notin Outcomes) /\ "pending" # "none"
      /\ future' \in [Jobs -> Futures]
      /\ \A i \in Jobs : i # j \/ future[j] # "pending" => future'[i] = future[i]
      /\ future'[j] # future[j] => future'[j] = Told(j, stored)
  <2>1. Told(j, stored) \in Outcomes /\ Outcomes \subseteq Futures /\ "none" \notin Outcomes
    BY <1>3 DEF Told, Outcomes, Futures
  <2>2. future \in [Jobs -> Futures]
    BY DEF LedgerInv, LedgerTypes
  <2>3. QED BY <1>1, <2>1, <2>2
<1>6. OutcomeKnown' /\ NotAnswered'
  <2>1. OutcomeKnown'
    BY <1>2, <1>4 DEF LedgerInv, OutcomeKnown
  <2>2. NotAnswered'
    BY <1>1, <1>5 DEF LedgerInv, NotAnswered
  <2>3. QED BY <2>1, <2>2
<1>7. CASE stored /\ req[j] \in Durable
  <2>1. ledger' = [ledger EXCEPT ![req[j]].status = FinalRow(j)] /\ OnDisk(j) /\ Active(j)
    BY <1>1, <1>2, <1>7 DEF SetRow, Active
  <2>2. FinalRow(j) \in TerminalRows
    BY <1>3 DEF FinalRow, TerminalRows, Outcomes
  <2>3. TurnsCounted'
    <3>1. \A r \in Durable : TurnsOf(r)' = TurnsOf(r)
      BY <1>1 DEF TurnsOf
    <3>2. \A r \in Durable : ledger'[r].status \notin Unstarted \/ ledger'[r] = ledger[r]
      <4>1. FinalRow(j) \notin Unstarted
        BY <2>2, RowKinds
      <4>2. QED BY <2>1, <4>1, RequestsAssumption DEF LedgerInv, LedgerTypes, Rows
    <3>3. "absent" \in Unstarted
      BY DEF Unstarted
    <3>4. QED BY <1>1, <3>1, <3>2, <3>3 DEF LedgerInv, TurnsCounted
  <2>4. \A a \in DOMAIN turns' : a \in DOMAIN turns /\ turns'[a] = turns[a]
    BY <1>1
  <2>5. FinalRow(j) \in LedgerRows
    BY <2>2, RowKinds
  <2>6. \A i \in Jobs : future'[i] = "completed" => future[i] = "completed" \/ i = j
    BY <1>5
  <2>7. QED BY <1>1, <1>2, <1>4, <1>5, <1>6, <2>1, <2>2, <2>3, <2>4, <2>5, <2>6, WriteStep
<1>8. CASE ~(stored /\ req[j] \in Durable)
  <2>1. ledger' = ledger
    BY <1>1, <1>8, SetRowCases
  <2>2. req[j] \in Durable => Told(j, stored) = "failed"
    BY <1>8 DEF Told
  <2>3. \A i \in Jobs : future[i] = "none" => future'[i] = "none"
    BY <1>5
  <2>4. \A i \in Jobs : OnDisk(i) /\ future'[i] = "completed" => future[i] = "completed"
    BY <1>2, <1>5, <2>2
  <2>5. "over" \in Stages /\ stage[j] # "none"
    BY <1>1 DEF Stages
  <2>6. QED BY <1>1, <1>2, <1>4, <1>5, <2>1, <2>3, <2>4, <2>5, ShiftStep
<1>9. QED BY <1>7, <1>8

------------------------------------------------------------------------------
(* Claims, cancelled handles, close() and a crash *)

(* A claim that inserts the row, or takes over an interrupted one.         *)
LEMMA ClaimNew ==
  ASSUME WorkerInv, LedgerInv, ClaimKnown, NEW r \in Requests, NEW p \in Payloads, SubmitDurable(r, p),
         ClaimKind(ledger[r], p) = "new"
  PROVE  LedgerInv'
<1> USE DEF LedgerInv
<1>0. PICK n \in Jobs : n = NextJob
  BY DEF SubmitDurable, Called
<1>1. /\ Called(r, p) /\ r \in Durable /\ lock' = n /\ claimed' = [claimed EXCEPT ![n] = "new"]
      /\ ledger' = [ledger EXCEPT ![r] = [status |-> "accepted", hash |-> HashOf[p]]]
      /\ UNCHANGED <<stage, out, future, crashes, turns>>
  BY <1>0 DEF SubmitDurable
<1>2. /\ Longer /\ PayLonger /\ n \in Jobs /\ lock = 0 /\ n = Len(req') /\ req'[n] = r
      /\ pay'[n] = p /\ stage[n] = "none" /\ n > Len(req)
      /\ \A i \in Jobs : OnDisk(i)' /\ i # n => OnDisk(i) /\ i <= Len(req)
      /\ \A i \in Jobs : i > Len(req) => stage[i] = "none"
  BY <1>0, <1>1, CalledFacts DEF NextJob, WorkerInv, Types
<1>3. /\ ledger' \in [Requests -> Rows]
      /\ ledger'[r].status = "accepted" /\ ledger'[r].hash = HashOf[p]
      /\ \A s \in Requests : s # r => ledger'[s] = ledger[s]
  BY <1>1, HashAssumption DEF LedgerTypes, Rows, LedgerRows
<1>4. /\ ledger[r].status \in {"absent", "retryable"} /\ ledger[r].status \in Unstarted
      /\ ledger[r].status = "retryable" => ledger[r].hash = HashOf[p]
      /\ ~Settled(ledger[r]) /\ ledger[r].status \notin TerminalRows
  BY ClaimKinds, RowKinds DEF Unstarted
<1>5. \A i \in Jobs : i <= Len(req) =>
        /\ req'[i] = req[i] /\ pay'[i] = pay[i] /\ (OnDisk(i)' <=> OnDisk(i))
        /\ (OnDisk(i) => req[i] \in Requests)
  BY <1>2, SessionKept DEF WorkerInv, PayLonger, OnDisk, Types, Jobs
<1>6. \A i \in Jobs : i # n => (Early(i)' <=> Early(i)) /\ (Mid(i)' <=> Mid(i)) /\ (Late(i)' <=> Late(i))
  BY <1>1, <1>2 DEF Early, Mid, Late, Jobs
<1>7. ~Mid(n)' /\ ~Late(n)' /\ OnDisk(n)' /\ Row(n)' = ledger'[r]
  BY <1>1, <1>2 DEF Mid, Late, OnDisk, Row
<1>8. \A i \in Jobs : OnDisk(i) /\ req[i] = r => ~Active(i)
  BY <1>4 DEF RowOfJob, Row, Active
<1>9. \A i \in Jobs : i # n /\ OnDisk(i)' /\ Active(i)' =>
        OnDisk(i) /\ i <= Len(req) /\ Active(i) /\ req'[i] = req[i] /\ req[i] # r /\ Row(i)' = Row(i)
  BY <1>2, <1>3, <1>5, <1>6, <1>8 DEF Active, Row
<1>10. LedgerTypes'
  BY <1>1, <1>2, <1>3 DEF LedgerTypes, PayLonger
<1>11. NotAnswered' /\ future[n] = "none"
  BY <1>1, <1>2 DEF NotAnswered, WorkerInv, Types, Longer, Jobs
<1>12. OutcomeKnown'
  BY <1>1 DEF OutcomeKnown, Late
<1>13. RowOfJob'
  <2>1. ASSUME NEW i \in Jobs, OnDisk(i)'
        PROVE  /\ Early(i)' => Row(i)'.status = "accepted"
               /\ Mid(i)' => Row(i)'.status = "running"
               /\ Late(i)' => Row(i)'.status = "running" \/ Settled(Row(i))'
               /\ Active(i)' => Row(i)'.hash = HashOf[pay'[i]]
    <3>1. CASE i = n
      BY <1>2, <1>3, <1>7, <3>1
    <3>2. CASE i # n
      BY <1>5, <1>6, <1>9, <2>1, <3>2 DEF RowOfJob, Active, Settled
    <3>3. QED BY <3>1, <3>2
  <2>2. QED BY <2>1 DEF RowOfJob
<1>14. ActiveAlone'
  <2>1. ASSUME NEW i \in Jobs, NEW j \in Jobs, OnDisk(i)', OnDisk(j)', req'[i] = req'[j],
               Active(i)', Active(j)', i # j
        PROVE  Settled(Row(j))'
    <3>1. i # n /\ j # n
      BY <1>2, <1>9, <2>1
    <3>2. QED BY <1>9, <2>1, <3>1 DEF ActiveAlone, Settled
  <2>2. QED BY <2>1 DEF ActiveAlone
<1>15. ClaimTrue'
  <2>1. claimed'[n] = "new" /\ "new" \notin TerminalRows /\ "new" # "resume"
    BY <1>1, <1>2 DEF ClaimKnown, TerminalRows
  <2>2. QED BY <1>1, <1>7, <2>1 DEF ClaimTrue
<1>16. \A s \in Durable : TurnsOf(s)' = TurnsOf(s)
  BY <1>1, <1>2, TurnsOfKept
<1>17. TurnsCounted'
  BY <1>1, <1>3, <1>4, <1>16, RequestsAssumption DEF TurnsCounted
<1>18. TurnsRunTheRecordedPayload'
  <2>1. ASSUME NEW s \in Durable, NEW a \in TurnsOf(s)' PROVE HashOf[pay'[turns[a]]] = ledger'[s].hash
    <3>1. a \in TurnsOf(s) /\ a \in DOMAIN turns /\ s \in Requests
      BY <1>16, <2>1, RequestsAssumption DEF TurnsOf
    <3>2. turns[a] \in Jobs /\ turns[a] <= Len(req)
      BY <3>1, ElementOfSeq DEF WorkerInv, Types, FreshJobs
    <3>3. HashOf[pay'[turns[a]]] = ledger[s].hash
      BY <1>5, <3>1, <3>2 DEF TurnsRunTheRecordedPayload
    <3>4. CASE s = r
      <4>1. ledger[r].status = "retryable"
        BY <1>4, <3>1, <3>4 DEF TurnsCounted
      <4>2. QED BY <1>3, <1>4, <3>3, <3>4, <4>1
    <3>5. CASE s # r
      BY <1>3, <3>1, <3>3, <3>5
    <3>6. QED BY <3>4, <3>5
  <2>2. QED BY <1>1, <2>1 DEF TurnsRunTheRecordedPayload
<1>19. CompletedIsDurable'
  <2>1. ASSUME NEW i \in 1 .. Len(req'), future'[i] = "completed", req'[i] \in Durable
        PROVE  ledger'[req'[i]].status \in TerminalRows /\ ledger'[req'[i]].hash = HashOf[pay'[i]]
    <3>1. i \in Jobs /\ i # n /\ i \in 1 .. Len(req)
      BY <1>1, <1>2, <1>11, <2>1, BoundsAssumption DEF Longer, Jobs, WorkerInv, Types
    <3>2. /\ req'[i] = req[i] /\ pay'[i] = pay[i] /\ req[i] \in Requests
          /\ ledger[req[i]].status \in TerminalRows /\ ledger[req[i]].hash = HashOf[pay[i]]
      BY <1>1, <1>5, <2>1, <3>1, RequestsAssumption DEF CompletedIsDurable
    <3>3. QED BY <1>3, <1>4, <3>2
  <2>2. QED BY <2>1 DEF CompletedIsDurable
<1>20. QED BY <1>10, <1>11, <1>12, <1>13, <1>14, <1>15, <1>17, <1>18, <1>19

(* submit() goes on with what the claim returned.                          *)
LEMMA ReturnsLedger ==
  ASSUME WorkerInv, LedgerInv, ClaimKnown, NEW j \in Jobs, ClaimReturns(j)
  PROVE  LedgerInv'
<1>1. /\ lock = j /\ lock' = 0 /\ j = Len(req) /\ stage[j] = "none" /\ claimed[j] \in Kinds
      /\ UNCHANGED <<ledger, req, pay, turns, crashes>>
      /\ OnDisk(j)
  <2>1. lock = j /\ lock' = 0 /\ UNCHANGED <<ledger, req, pay, turns, crashes>>
    BY DEF ClaimReturns, static
  <2>2. j # 0
    BY DEF Jobs
  <2>3. QED BY <2>1, <2>2 DEF ClaimKnown, WorkerInv, FreshJobs, Fresh, LedgerInv, ClaimTrue
<1>2. Longer /\ PayLonger /\ ClaimTrue'
  BY <1>1, PayKept DEF WorkerInv, Types, Longer, Jobs, ClaimTrue
<1>3. ASSUME NEW x \in Futures, future' = [future EXCEPT ![j] = x]
      PROVE  NotAnswered' /\ future' \in [Jobs -> Futures] /\ future'[j] = x
             /\ \A i \in Jobs : i # j => future'[i] = future[i]
  BY <1>1, <1>3 DEF LedgerInv, LedgerTypes, NotAnswered, WorkerInv, Types, Jobs
<1>4. ASSUME \A i \in Jobs : i # j => stage'[i] = stage[i]
      PROVE  \A i \in Jobs : i # j => (Early(i)' <=> Early(i)) /\ (Mid(i)' <=> Mid(i)) /\ (Late(i)' <=> Late(i))
  BY <1>1, <1>4 DEF Early, Mid, Late, Jobs
<1>5. \A i \in Jobs : OnDisk(i)' => i <= Len(req) /\ OnDisk(i)
  BY <1>1 DEF OnDisk
<1>6. CASE claimed[j] = "new"
  <2>1. Admit(j, req[j]) /\ UNCHANGED out
    BY <1>6 DEF ClaimReturns, TerminalRows
  <2>2. PICK x \in {"queued", "start"} : stage' = [stage EXCEPT ![j] = x]
    BY <2>1, AdmitFacts
  <2>3. stage'[j] = x /\ \A i \in Jobs : i # j => stage'[i] = stage[i]
    BY <2>2 DEF WorkerInv, Types
  <2>4. "pending" \in Futures /\ future' = [future EXCEPT ![j] = "pending"]
    BY <2>1, AdmitFacts DEF Futures
  <2>5. Early(j) /\ ~Mid(j)' /\ ~Late(j)'
    BY <1>1, <1>6, <2>3 DEF Early, Mid, Late
  <2>6. OutcomeKnown' /\ out' \in [Jobs -> OutRecords]
    BY <2>1, <2>3 DEF OutcomeKnown, LedgerInv, LedgerTypes, Late
  <2>7. QED BY <1>1, <1>2, <1>3, <1>4, <1>5, <2>3, <2>4, <2>5, <2>6, KeepStep
<1>7. CASE claimed[j] = "resume"
  <2>1. /\ stage' = [stage EXCEPT ![j] = "deliver"] /\ future' = [future EXCEPT ![j] = "pending"]
        /\ out' = [out EXCEPT ![j] = [status |-> "completed", response |-> TRUE, deferred |-> FALSE]]
    BY <1>7 DEF ClaimReturns, Answer, TerminalRows
  <2>2. stage'[j] = "deliver" /\ \A i \in Jobs : i # j => stage'[i] = stage[i]
    BY <2>1 DEF WorkerInv, Types
  <2>3. /\ out' \in [Jobs -> OutRecords] /\ out'[j].status \in Outcomes
        /\ \A i \in Jobs : i # j => out'[i] = out[i]
    BY <2>1 DEF LedgerInv, LedgerTypes, OutRecords, Outcomes
  <2>4. OutcomeKnown'
    BY <2>2, <2>3 DEF LedgerInv, OutcomeKnown, Late
  <2>5. Resumes(j)
    <3>1. Settled(Row(j)) /\ Row(j).hash = HashOf[pay[j]]
      BY <1>1, <1>7 DEF LedgerInv, ClaimTrue, Jobs
    <3>2. ~Early(j)' /\ ~Mid(j)'
      BY <1>1, <2>2 DEF Early, Mid, Jobs
    <3>3. QED BY <3>1, <3>2 DEF Resumes
  <2>6. "pending" \in Futures
    BY DEF Futures
  <2>7. QED BY <1>1, <1>2, <1>3, <1>4, <1>5, <2>1, <2>2, <2>3, <2>4, <2>5, <2>6, KeepStep
<1>8. CASE claimed[j] \in Kinds \ {"new", "resume"}
  <2>1. UNCHANGED <<stage, out>> /\ \E x \in Futures : future' = [future EXCEPT ![j] = x]
    <3>1. CASE claimed[j] \in TerminalRows
      <4>1. UNCHANGED <<stage, out>> /\ future' = [future EXCEPT ![j] = Cached(claimed[j])]
        BY <1>8, <3>1, ClaimKinds DEF ClaimReturns, Answer
      <4>2. Cached(claimed[j]) \in Futures
        BY <3>1 DEF Cached, TerminalRows, Futures, Outcomes
      <4>3. QED BY <4>1, <4>2
    <3>2. CASE claimed[j] \in {"active", "conflict"}
      BY <3>2 DEF ClaimReturns, Answer, TerminalRows, Futures
    <3>3. QED BY <1>8, <3>1, <3>2 DEF Kinds
  <2>2. future'[j] = "completed" => ledger[req[j]].status \in TerminalRows /\ ledger[req[j]].hash = HashOf[pay[j]]
    <3>1. CASE claimed[j] \in TerminalRows
      BY <1>1, <3>1 DEF LedgerInv, ClaimTrue, Row, Jobs
    <3>2. CASE claimed[j] \in {"active", "conflict"}
      <4>1. future' = [future EXCEPT ![j] = IF claimed[j] = "active" THEN "accepted" ELSE "rejected"]
        BY <3>2 DEF ClaimReturns, Answer, TerminalRows
      <4>2. QED BY <4>1 DEF LedgerInv, LedgerTypes
    <3>3. QED BY <1>8, <3>1, <3>2 DEF Kinds
  <2>3. stage'[j] = "none" /\ \A i \in Jobs : i # j => stage'[i] = stage[i]
    BY <1>1, <2>1
  <2>4. ~Early(j)' /\ ~Mid(j)' /\ ~Late(j)'
    BY <1>1, <2>3 DEF Early, Mid, Late, Jobs
  <2>5. OutcomeKnown' /\ out' \in [Jobs -> OutRecords]
    BY <2>1 DEF OutcomeKnown, LedgerInv, LedgerTypes, Late
  <2>6. QED BY <1>1, <1>2, <1>3, <1>4, <1>5, <2>1, <2>2, <2>3, <2>4, <2>5, KeepStep
<1>9. QED BY <1>1, <1>6, <1>7, <1>8

(* submit() ends without an answer of the ledger.                          *)
LEMMA LostLedger ==
  ASSUME WorkerInv, LedgerInv, ClaimKnown, NEW j \in Jobs, ClaimLost(j)
  PROVE  LedgerInv'
<1>1. /\ lock = j /\ lock' = 0 /\ j = Len(req) /\ stage[j] = "none"
      /\ future' = [future EXCEPT ![j] = "lost"]
      /\ UNCHANGED <<ledger, stage, out, req, pay, turns, crashes>>
  <2>1. /\ lock = j /\ lock' = 0 /\ future' = [future EXCEPT ![j] = "lost"]
        /\ UNCHANGED <<ledger, stage, out, req, pay, turns, crashes>>
    BY DEF ClaimLost, Answer, static
  <2>2. j # 0
    BY DEF Jobs
  <2>3. QED BY <2>1, <2>2 DEF WorkerInv, FreshJobs, Fresh
<1>2. Longer /\ PayLonger /\ ClaimTrue'
  BY <1>1, PayKept DEF WorkerInv, Types, Longer, Jobs, ClaimTrue
<1>3. /\ NotAnswered' /\ future' \in [Jobs -> Futures]
      /\ \A i \in Jobs : future'[i] = "completed" => future[i] = "completed"
  BY <1>1 DEF LedgerInv, LedgerTypes, NotAnswered, Futures, WorkerInv, Types, Jobs
<1>4. OutcomeKnown' /\ out' \in [Jobs -> OutRecords]
  BY <1>1 DEF LedgerInv, LedgerTypes, OutcomeKnown, Late
<1>5. \A i \in Jobs : /\ OnDisk(i)' => i <= Len(req)
                      /\ (Early(i)' => Early(i)) /\ (Mid(i)' => Mid(i)) /\ (Late(i)' => Late(i))
  BY <1>1 DEF OnDisk, Early, Mid, Late, Jobs
<1>6. QED BY <1>1, <1>2, <1>3, <1>4, <1>5, KeepStep

LEMMA CancelLedger ==
  ASSUME WorkerInv, LedgerInv, NEW j \in Jobs, CancelHandle(j)
  PROVE  LedgerInv'
<1>1. /\ future[j] = "pending" /\ future' = [future EXCEPT ![j] = "cancelled"]
      /\ UNCHANGED <<ledger, lock, claimed, stage, out, req, pay, turns, crashes>>
  BY DEF CancelHandle, Answer, static
<1>2. Longer /\ PayLonger
  BY <1>1, PayKept DEF WorkerInv, Types, Longer
<1>3. future' \in [Jobs -> Futures] /\ NotAnswered' /\ \A i \in Jobs : future'[i] = "completed" => future[i] = "completed"
  BY <1>1 DEF LedgerInv, LedgerTypes, NotAnswered, Futures, Outcomes
<1>4. OutcomeKnown' /\ ClaimTrue' /\ out' \in [Jobs -> OutRecords]
  BY <1>1 DEF LedgerInv, LedgerTypes, OutcomeKnown, Late, ClaimTrue, OnDisk, Row
<1>5. \A i \in Jobs : /\ OnDisk(i)' => i <= Len(req)
                      /\ (Early(i)' <=> Early(i)) /\ (Mid(i)' <=> Mid(i)) /\ (Late(i)' <=> Late(i))
  BY <1>1 DEF OnDisk, Early, Mid, Late
<1>6. QED BY <1>1, <1>2, <1>3, <1>4, <1>5, KeepStep

LEMMA CloseLedger ==
  ASSUME WorkerInv, LedgerInv, Close
  PROVE  LedgerInv'
<1>1. /\ future' = [j \in Jobs |-> IF j \in Cancelled THEN "cancelled" ELSE future[j]]
      /\ stage' = [j \in Jobs |-> IF stage[j] = "queued" THEN "over" ELSE stage[j]]
      /\ UNCHANGED <<ledger, lock, claimed, out, req, pay, turns, crashes>>
  BY DEF Close, static
<1>2. Longer /\ PayLonger
  BY <1>1, PayKept DEF WorkerInv, Types, Longer
<1>3. \A i \in Cancelled : future[i] = "pending"
  BY DEF Cancelled
<1>4. future' \in [Jobs -> Futures] /\ NotAnswered' /\ \A i \in Jobs : future'[i] = "completed" => future[i] = "completed"
  <2>1. \A i \in Jobs : future'[i] = "cancelled" \/ future'[i] = future[i]
    BY <1>1
  <2>2. \A i \in Jobs : future[i] = "none" => future'[i] = "none"
    BY <1>1, <1>3
  <2>3. QED BY <1>1, <2>1, <2>2 DEF LedgerInv, LedgerTypes, NotAnswered, Futures, Outcomes
<1>5. \A i \in Jobs : stage'[i] \in {"over", stage[i]}
  BY <1>1
<1>6. OutcomeKnown' /\ ClaimTrue' /\ out' \in [Jobs -> OutRecords]
  BY <1>1, <1>5 DEF LedgerInv, LedgerTypes, OutcomeKnown, Late, ClaimTrue, OnDisk, Row
<1>7. \A i \in Jobs : /\ OnDisk(i)' => i <= Len(req)
                      /\ (Early(i)' => Early(i)) /\ (Mid(i)' => Mid(i)) /\ (Late(i)' => Late(i))
  BY <1>1, <1>5 DEF OnDisk, Early, Mid, Late
<1>8. QED BY <1>1, <1>2, <1>4, <1>6, <1>7, KeepStep DEF Active

(* After a crash nothing is active, and what was interrupted may be redone.*)
LEMMA CrashLedger ==
  ASSUME WorkerInv, LedgerInv, CrashRestart
  PROVE  LedgerInv'
<1> USE DEF LedgerInv
<1>1. /\ crashes' = crashes + 1 /\ lock' = 0 /\ UNCHANGED <<req, pay, turns>>
      /\ ledger' = [r \in Requests |-> IF ledger[r].status \in Interrupted
                                       THEN [ledger[r] EXCEPT !.status = "retryable"] ELSE ledger[r]]
      /\ stage' = [j \in Jobs |-> IF j < NextJob THEN "over" ELSE "none"]
      /\ out' = [j \in Jobs |-> NoOutcome]
      /\ future' = [j \in Jobs |-> IF future[j] = "pending" THEN "lost" ELSE future[j]]
  BY DEF CrashRestart, static
<1>2. \A r \in Requests :
        /\ ledger'[r] \in Rows /\ ledger'[r].hash = ledger[r].hash
        /\ ledger[r].status \notin Interrupted => ledger'[r] = ledger[r]
        /\ ledger[r].status \in Interrupted => ledger'[r].status = "retryable"
  BY <1>1 DEF LedgerTypes, Rows, LedgerRows
<1>3. LedgerTypes'
  <2>1. ledger' \in [Requests -> Rows]
    BY <1>1, <1>2
  <2>2. future' \in [Jobs -> Futures] /\ out' \in [Jobs -> OutRecords] /\ crashes' \in Nat
    BY <1>1 DEF LedgerTypes, Futures, OutRecords, NoOutcome
  <2>3. QED BY <1>1, <2>1, <2>2 DEF LedgerTypes
<1>4. NotAnswered' /\ \A i \in Jobs : future'[i] = "completed" => future[i] = "completed"
  BY <1>1 DEF NotAnswered, Jobs
<1>5. \A i \in Jobs : ~Early(i)' /\ ~Mid(i)' /\ ~Late(i)' /\ ~Active(i)' /\ stage'[i] # "persist"
  BY <1>1 DEF Early, Mid, Late, Active, Jobs
<1>6. OutcomeKnown' /\ RowOfJob' /\ ActiveAlone' /\ ClaimTrue'
  BY <1>1, <1>5 DEF OutcomeKnown, RowOfJob, ActiveAlone, ClaimTrue
<1>7. \A r \in Durable : TurnsOf(r)' = TurnsOf(r)
  BY <1>1 DEF TurnsOf
<1>8. TurnsCounted'
  <2>1. ASSUME NEW r \in Durable
        PROVE  /\ ledger'[r].status = "absent" => TurnsOf(r) = {}
               /\ Cardinality(TurnsOf(r)) <= 1 + crashes /\ 1 + crashes <= 1 + crashes'
    BY <1>1, <1>2, <2>1, RequestsAssumption DEF TurnsCounted, LedgerTypes
  <2>2. \A r \in Durable : Cardinality(TurnsOf(r)) \in Nat
    BY TurnsOfFinite
  <2>3. crashes \in Nat
    BY DEF LedgerTypes
  <2>4. QED BY <1>1, <1>7, <2>1, <2>2, <2>3 DEF TurnsCounted
<1>9. TurnsRunTheRecordedPayload'
  BY <1>1, <1>2, <1>7, RequestsAssumption DEF TurnsRunTheRecordedPayload
<1>10. CompletedIsDurable'
  <2>1. TerminalRows \cap Interrupted = {}
    BY DEF TerminalRows, Interrupted
  <2>2. 1 .. Len(req) \subseteq Jobs
    BY BoundsAssumption DEF WorkerInv, Types, Jobs
  <2>3. QED BY <1>1, <1>2, <1>4, <2>1, <2>2, RequestsAssumption DEF CompletedIsDurable
<1>11. QED BY <1>3, <1>4, <1>6, <1>8, <1>9, <1>10

LEMMA FrameLedger ==
  ASSUME WorkerInv, LedgerInv,
         UNCHANGED <<ledger, lock, claimed, stage, out, future, req, pay, turns, crashes>>
  PROVE  LedgerInv'
<1>1. Longer /\ PayLonger
  BY PayKept DEF WorkerInv, Types, Longer
<1>2. OutcomeKnown' /\ ClaimTrue' /\ NotAnswered' /\ out' \in [Jobs -> OutRecords] /\ future' \in [Jobs -> Futures]
  BY DEF LedgerInv, LedgerTypes, OutcomeKnown, Late, ClaimTrue, OnDisk, Row, NotAnswered
<1>3. \A i \in Jobs : /\ OnDisk(i)' => i <= Len(req)
                      /\ (Early(i)' <=> Early(i)) /\ (Mid(i)' <=> Mid(i)) /\ (Late(i)' <=> Late(i))
  BY DEF OnDisk, Early, Mid, Late
<1>4. QED BY <1>1, <1>2, <1>3, KeepStep

LEMMA LedgerInit == Init => LedgerInv
<1> SUFFICES ASSUME Init PROVE LedgerInv
  OBVIOUS
<1> USE DEF Init
<1>1. LedgerTypes
  BY DEF LedgerTypes, Rows, LedgerRows, NoRow, OutRecords, NoOutcome, Futures
<1>2. NotAnswered /\ OutcomeKnown /\ RowOfJob /\ ActiveAlone /\ ClaimTrue
  BY DEF NotAnswered, OutcomeKnown, RowOfJob, ActiveAlone, ClaimTrue, OnDisk, Early, Mid, Late, Active, Jobs
<1>3. \A r : TurnsOf(r) = {}
  BY DEF TurnsOf
<1>4. TurnsCounted
  <2>1. \A r : Cardinality(TurnsOf(r)) = 0
    BY <1>3, FS_EmptySet
  <2>2. crashes = 0
    OBVIOUS
  <2>3. QED BY <1>3, <2>1, <2>2 DEF TurnsCounted
<1>5. TurnsRunTheRecordedPayload /\ CompletedIsDurable
  BY <1>3 DEF TurnsRunTheRecordedPayload, CompletedIsDurable
<1>6. QED BY <1>1, <1>2, <1>4, <1>5 DEF LedgerInv

LEMMA LedgerStep ==
  ASSUME WorkerInv, ClaimKnown, LedgerInv, [Next]_vars
  PROVE  LedgerInv'
<1>1. CASE Submit
  BY <1>1, CallOnly, PlainStep, ClaimOnly, ClaimNew DEF Submit
<1>2. ASSUME NEW j \in Jobs, ClaimReturns(j) \/ ClaimLost(j) \/ CancelHandle(j) PROVE LedgerInv'
  BY <1>2, ReturnsLedger, LostLedger, CancelLedger
<1>3. ASSUME NEW j \in Jobs, Pipeline(j) PROVE LedgerInv'
  BY <1>3, StartLedger, EndTurnLedger, PersistLedger, DeliveryLedger, StoreLedger DEF Pipeline
<1>4. ASSUME NEW w \in Jobs, WorkerTask(w) PROVE LedgerInv'
  BY <1>4, TakeLedger, FrameLedger DEF WorkerTask, LeaveOrLoop, static
<1>5. CASE Close \/ CrashRestart
  BY <1>5, CloseLedger, CrashLedger
<1>6. CASE CloseReturns \/ UNCHANGED vars
  BY <1>6, FrameLedger DEF CloseReturns, vars, static
<1>7. ASSUME NEW r, NEW result, WorkerRetries(r, result) PROVE LedgerInv'
  BY <1>7, FrameLedger DEF WorkerRetries, volatile, static
<1>8. QED BY <1>1, <1>2, <1>3, <1>4, <1>5, <1>6, <1>7 DEF Next

(* The ledger, the turns and the answers agree in every reachable state.   *)
THEOREM LedgerAgrees == Spec => [](WorkerInv /\ ClaimKnown /\ LedgerInv)
<1>1. Init => WorkerInv /\ ClaimKnown /\ LedgerInv
  BY WorkerInit, LedgerInit
<1>2. WorkerInv /\ ClaimKnown /\ LedgerInv /\ [Next]_vars => (WorkerInv /\ ClaimKnown /\ LedgerInv)'
  BY WorkerStep, ClaimStep, LedgerStep
<1>3. QED BY <1>1, <1>2, PTL DEF Spec

(* A durable request runs the model at most once per process life, however *)
(* often its id is submitted: DurableSubmissionLedger.claim lets one       *)
(* submission of an id through, and a second only after a restart.         *)
THEOREM OncePerLife == Spec => []OneTurnPerLife
<1>1. LedgerInv => OneTurnPerLife
  BY DEF LedgerInv, TurnsCounted, OneTurnPerLife
<1>2. QED BY LedgerAgrees, <1>1, PTL

(* Every turn of a durable request runs a payload of the hash that its     *)
(* ledger row records, also when an interrupted id is taken over.          *)
THEOREM RecordedPayloadRuns == Spec => []TurnsRunTheRecordedPayload
<1>1. LedgerInv => TurnsRunTheRecordedPayload
  BY DEF LedgerInv
<1>2. QED BY LedgerAgrees, <1>1, PTL

(* If equal hashes meant equal payloads, a durable id would run one        *)
(* payload only, as docs/plugins.md has it: the intent that payload_hash   *)
(* leaves out is all that the promise lacks.                               *)
THEOREM DistinctHashesOnePayload ==
  ASSUME \A p, q \in Payloads : HashOf[p] = HashOf[q] => p = q
  PROVE  Spec => []OnePayloadPerRequest
<1>1. ASSUME WorkerInv, LedgerInv PROVE OnePayloadPerRequest
  <2>1. ASSUME NEW r \in Durable, NEW a \in TurnsOf(r), NEW b \in TurnsOf(r)
        PROVE  pay[turns[a]] = pay[turns[b]]
    <3>1. /\ a \in DOMAIN turns /\ turns[a] \in Jobs /\ turns[a] <= Len(req)
          /\ b \in DOMAIN turns /\ turns[b] \in Jobs /\ turns[b] <= Len(req)
          /\ pay \in Seq(Payloads) /\ Len(pay) = Len(req)
      BY <1>1 DEF WorkerInv, Types, FreshJobs, LedgerInv, LedgerTypes, TurnsOf
    <3>2. pay[turns[a]] \in Payloads /\ pay[turns[b]] \in Payloads
      BY <3>1, BoundsAssumption DEF Jobs
    <3>3. HashOf[pay[turns[a]]] = ledger[r].hash /\ HashOf[pay[turns[b]]] = ledger[r].hash
      BY <1>1, <2>1 DEF LedgerInv, TurnsRunTheRecordedPayload
    <3>4. QED BY <3>2, <3>3
  <2>2. QED BY <2>1 DEF OnePayloadPerRequest
<1>2. QED BY LedgerAgrees, <1>1, PTL

(* Who was told 'completed' finds it in the ledger: store_final comes      *)
(* before the future, and its failure answers 'failed' instead.            *)
THEOREM ToldIsDurable == Spec => []CompletedIsDurable
<1>1. LedgerInv => CompletedIsDurable
  BY DEF LedgerInv
<1>2. QED BY LedgerAgrees, <1>1, PTL

------------------------------------------------------------------------------
(* What is on record stays, and never runs again *)

KeepsRecord ==
  \A r \in Durable : Settled(ledger[r]) =>
    Settled(ledger'[r]) /\ \A a \in DOMAIN turns' \ DOMAIN turns : req[turns'[a]] # r

LEMMA RecordStep ==
  ASSUME WorkerInv, ClaimKnown, LedgerInv, [Next]_vars
  PROVE  KeepsRecord
<1>1. CASE UNCHANGED <<ledger, turns>>
  BY <1>1 DEF KeepsRecord
<1>2. ASSUME NEW r \in Requests, NEW p \in Payloads, SubmitDurable(r, p) PROVE KeepsRecord
  <2>1. CASE ClaimKind(ledger[r], p) = "new"
    <3>1. ~Settled(ledger[r])
      BY <2>1, ClaimKinds, RowKinds
    <3>2. UNCHANGED turns /\ ledger' = [ledger EXCEPT ![r] = [status |-> "accepted", hash |-> HashOf[p]]]
      BY <1>2, <2>1 DEF SubmitDurable
    <3>3. \A s \in Requests : s # r => ledger'[s] = ledger[s]
      BY <3>2 DEF LedgerInv, LedgerTypes
    <3>4. QED BY <3>1, <3>2, <3>3, RequestsAssumption DEF KeepsRecord
  <2>2. QED BY <1>1, <1>2, <2>1 DEF SubmitDurable
<1>3. ASSUME NEW j \in Jobs, stage[j] # "none", NEW status, ledger' = SetRow(j, status),
             UNCHANGED turns \/ (turns' = Append(turns, j) /\ stage[j] = "start"),
             OnDisk(j) => ~Settled(Row(j)) \/ status \in TerminalRows
      PROVE  KeepsRecord
  <2>1. j <= Len(req) /\ (OnDisk(j) <=> req[j] \in Durable) /\ Row(j) = ledger[req[j]]
    BY <1>3 DEF WorkerInv, FreshJobs, Fresh, Types, OnDisk, Row, Jobs
  <2>2. ASSUME NEW r \in Durable, Settled(ledger[r]) PROVE Settled(ledger'[r])
    <3>1. CASE req[j] # r \/ req[j] \notin Durable
      <4>1. ledger'[r] = ledger[r]
        BY <1>3, <3>1, SetRowCases, RequestsAssumption DEF LedgerInv, LedgerTypes
      <4>2. QED BY <2>2, <4>1
    <3>2. CASE req[j] = r
      <4>1. status \in TerminalRows
        BY <1>3, <2>1, <2>2, <3>2
      <4>2. ledger'[r].status = status
        <5>1. ledger \in [Requests -> Rows] /\ r \in Requests
          BY <2>2, RequestsAssumption DEF LedgerInv, LedgerTypes
        <5>2. ledger[r] \in Rows /\ ledger' = [ledger EXCEPT ![r].status = status]
          BY <1>3, <2>2, <3>2, <5>1, SetRowCases
        <5>3. ledger'[r] = [ledger[r] EXCEPT !.status = status]
          BY <5>1, <5>2
        <5>4. QED BY <5>2, <5>3 DEF Rows
      <4>3. QED BY <4>1, <4>2, RowKinds
    <3>3. QED BY <3>1, <3>2
  <2>3. ASSUME NEW r \in Durable, Settled(ledger[r]), NEW a \in DOMAIN turns' \ DOMAIN turns
        PROVE  req[turns'[a]] # r
    <3>1. turns'[a] = j /\ stage[j] = "start"
      BY <1>3, <2>3 DEF WorkerInv, Types
    <3>2. req[j] \in Durable => ~Settled(ledger[req[j]])
      BY <2>1, <3>1, RowKinds DEF LedgerInv, RowOfJob, Early
    <3>3. QED BY <2>3, <3>1, <3>2
  <2>4. QED BY <2>2, <2>3 DEF KeepsRecord
<1>4. ASSUME NEW j \in Jobs, Pipeline(j) PROVE KeepsRecord
  <2>1. CASE StartTurn(j)
    <3>1. OnDisk(j) => ~Settled(Row(j))
      BY <2>1, RowKinds DEF StartTurn, LedgerInv, RowOfJob, Early
    <3>2. QED BY <1>3, <2>1, <3>1 DEF StartTurn
  <2>2. CASE PersistConversation(j)
    <3>1. OnDisk(j) => ~Settled(Row(j))
      BY <2>2, RowKinds DEF PersistConversation, LedgerInv, RowOfJob, Mid
    <3>2. CASE ledger' = SetRow(j, "conversation_completed")
      BY <1>3, <2>2, <3>1, <3>2 DEF PersistConversation
    <3>3. QED BY <1>1, <2>2, <3>2 DEF PersistConversation
  <2>3. ASSUME NEW stored \in BOOLEAN, StoreFinal(j, stored) PROVE KeepsRecord
    <3>1. out[j].status \in Outcomes
      BY <2>3 DEF StoreFinal, LedgerInv, OutcomeKnown, Late
    <3>2. FinalRow(j) \in TerminalRows
      BY <3>1 DEF FinalRow, TerminalRows, Outcomes
    <3>3. CASE stored
      BY <1>3, <2>3, <3>2, <3>3 DEF StoreFinal
    <3>4. QED BY <1>1, <2>3, <3>3 DEF StoreFinal
  <2>4. CASE BeginDelivery(j)
    BY <1>1, <2>4 DEF BeginDelivery
  <2>5. ASSUME NEW status, NEW response, EndTurn(j, status, response) PROVE KeepsRecord
    BY <1>1, <2>5 DEF EndTurn
  <2>6. ASSUME NEW result, NEW deferred, EndDelivery(j, result, deferred) PROVE KeepsRecord
    BY <1>1, <2>6 DEF EndDelivery
  <2>7. QED BY <1>4, <2>1, <2>2, <2>3, <2>4, <2>5, <2>6 DEF Pipeline
<1>5. CASE CrashRestart
  <2>1. UNCHANGED turns
    BY <1>5 DEF CrashRestart
  <2>2. ASSUME NEW r \in Durable, Settled(ledger[r]) PROVE ledger'[r] = ledger[r]
    <3>1. ledger[r].status \notin Interrupted
      BY <2>2, RowKinds DEF Interrupted
    <3>2. QED BY <1>5, <2>2, <3>1, RequestsAssumption DEF CrashRestart
  <2>3. QED BY <2>1, <2>2 DEF KeepsRecord
<1>6. CASE Submit
  BY <1>1, <1>2, <1>6 DEF Submit, SubmitRefused, SubmitDuplicate, SubmitPlain
<1>7. ASSUME NEW j \in Jobs, ClaimReturns(j) \/ ClaimLost(j) \/ CancelHandle(j) \/ WorkerTask(j)
      PROVE  KeepsRecord
  BY <1>1, <1>7 DEF ClaimReturns, ClaimLost, CancelHandle, WorkerTask, TakeNext, LeaveOrLoop
<1>8. CASE Close \/ CloseReturns \/ UNCHANGED vars
  BY <1>1, <1>8 DEF Close, CloseReturns, vars
<1>9. ASSUME NEW r, NEW result, WorkerRetries(r, result) PROVE KeepsRecord
  BY <1>1, <1>9 DEF WorkerRetries
<1>10. QED BY <1>4, <1>5, <1>6, <1>7, <1>8, <1>9 DEF Next

(* Once a conversation is on record its row is never reopened and no turn  *)
(* of its id starts, whatever is submitted, resumed or restarted.          *)
THEOREM RecordedIsFinal == Spec => RecordedNeverReruns
<1>1. WorkerInv /\ ClaimKnown /\ LedgerInv /\ [Next]_vars =>
        [\A r \in Durable : Settled(ledger[r]) =>
           /\ Settled(ledger'[r])
           /\ \A a \in DOMAIN turns' \ DOMAIN turns : req[turns'[a]] # r]_vars
  BY RecordStep DEF KeepsRecord
<1>2. QED BY LedgerAgrees, <1>1, PTL DEF Spec, RecordedNeverReruns
------------------------------------------------------------------------------
(* close() *)

(* A job that runs off no immediate task is the current job of a worker.   *)
Accompanied ==
  \A j \in Jobs : Busy(j) /\ ~OffQueue(j) => \E w \in Jobs : task[w].state = "busy" /\ task[w].job = j

(* Who waits for an answer waits for a job that is queued or runs.         *)
Waits == \A j \in Jobs : future[j] = "pending" => stage[j] = "queued" \/ Busy(j)

(* From close() on nothing is admitted, and what still runs is awaited.    *)
Winding ==
  phase # "accepting" =>
    /\ lock = 0 /\ \A q \in Jobs : items[q] = <<>> /\ stage[q] # "queued"
    /\ \A j \in Jobs : Live(j) \/ (Busy(j) /\ OffQueue(j)) => j \in awaited

CloseInv == Accompanied /\ Waits /\ Winding /\ ClosedIsQuiet

LEMMA BusyCalled ==
  ASSUME WorkerInv
  PROVE  /\ \A j \in Jobs : Busy(j) \/ Live(j) \/ stage[j] = "queued" => j <= Len(req) /\ j # lock
         /\ \A j \in Jobs : j # 0
<1>1. \A j \in Jobs : j > Len(req) \/ j = lock => stage[j] = "none" /\ task[j].state = "none"
  BY DEF WorkerInv, FreshJobs, Fresh, Jobs
<1>2. Len(req) \in Nat
  BY DEF WorkerInv, Types
<1>. QED BY <1>1, <1>2 DEF Busy, Live, Jobs

(* The jobs that were called before, in a step that calls another.         *)
LEMMA OffQueueKept ==
  ASSUME WorkerInv, Longer, NEW j \in Jobs, j <= Len(req), claimed'[j] = claimed[j]
  PROVE  OffQueue(j)' <=> OffQueue(j)
  BY SessionKept DEF WorkerInv, OffQueue

(* A job that is not yet anywhere is admitted.                             *)
AdmitsOne(j) ==
  /\ \/ stage' = [stage EXCEPT ![j] = "queued"]
     \/ stage' = [stage EXCEPT ![j] = "start"] /\ req'[j] \in Immediate
  /\ task' = task \/ \E t : task' = [task EXCEPT ![j] = t]
  /\ future' = [future EXCEPT ![j] = "pending"]

LEMMA AdmitEffect ==
  ASSUME NEW j \in Jobs, NEW r, Admit(j, r), req'[j] = r
  PROVE  AdmitsOne(j)
  BY DEF Admit, AdmitsOne, Answer
LEMMA AccompaniedStep ==
  ASSUME WorkerInv, ClaimKnown, LedgerInv, Accompanied, [Next]_vars
  PROVE  Accompanied'
<1>1. /\ task \in [Jobs -> TaskRecord] /\ stage \in [Jobs -> Stages] /\ claimed \in [Jobs -> Kinds \cup {"none"}]
      /\ \A j \in Jobs : Busy(j) => j <= Len(req) /\ j # lock
  BY BusyCalled DEF WorkerInv, Types, ClaimKnown
<1>2. ASSUME UNCHANGED <<task, claimed, req>>, \A j \in Jobs : Busy(j)' => Busy(j) PROVE Accompanied'
  BY <1>2 DEF Accompanied, OffQueue
<1>3. ASSUME NEW r \in Requests, NEW p \in Payloads, Called(r, p), UNCHANGED <<task, stage>>,
             \A j \in Jobs : j # NextJob => claimed'[j] = claimed[j]
      PROVE  Accompanied'
  <2>1. Longer /\ stage[NextJob] = "none"
    BY <1>3, CalledFacts
  <2>2. ASSUME NEW j \in Jobs, Busy(j)', ~OffQueue(j)' PROVE Busy(j) /\ ~OffQueue(j)
    <3>1. Busy(j) /\ j # NextJob /\ j <= Len(req)
      BY <1>1, <1>3, <2>1, <2>2 DEF Busy
    <3>. QED BY <1>3, <2>1, <2>2, <3>1, OffQueueKept
  <2>. QED BY <1>3, <2>2 DEF Accompanied
<1>4. ASSUME NEW j \in Jobs, AdmitsOne(j), task[j].state = "none", stage[j] = "none", Longer,
             \A k \in Jobs : k # j => claimed'[k] = claimed[k]
      PROVE  Accompanied'
  <2>1. ASSUME NEW k \in Jobs, Busy(k)', ~OffQueue(k)' PROVE k # j /\ Busy(k) /\ ~OffQueue(k)
    <3>1. k # j
      BY <1>1, <1>4, <2>1 DEF AdmitsOne, Busy, OffQueue
    <3>2. Busy(k) /\ k <= Len(req)
      BY <1>1, <1>4, <2>1, <3>1 DEF AdmitsOne, Busy
    <3>. QED BY <1>4, <2>1, <3>1, <3>2, OffQueueKept
  <2>2. ASSUME NEW w \in Jobs, task[w].state = "busy" PROVE task'[w] = task[w]
    BY <1>1, <1>4, <2>2 DEF AdmitsOne
  <2>. QED BY <2>1, <2>2 DEF Accompanied
<1>5. CASE Submit
  <2>1. PICK r \in Requests, p \in Payloads :
          SubmitRefused(r, p) \/ SubmitDuplicate(r, p) \/ SubmitPlain(r, p) \/ SubmitDurable(r, p)
    BY <1>5 DEF Submit
  <2>2. CASE SubmitRefused(r, p) \/ SubmitDuplicate(r, p)
    BY <1>3, <2>2 DEF SubmitRefused, SubmitDuplicate
  <2>3. CASE SubmitDurable(r, p)
    BY <1>1, <1>3, <2>3 DEF SubmitDurable
  <2>4. CASE SubmitPlain(r, p)
    <3>1. Called(r, p) /\ Admit(NextJob, r) /\ UNCHANGED claimed
      BY <2>4 DEF SubmitPlain
    <3>2. Longer /\ req'[NextJob] = r /\ NextJob \in Jobs /\ Fresh(NextJob)
      BY <3>1, CalledFacts, CallsLonger DEF Called, Calls
    <3>. QED BY <1>4, <3>1, <3>2, AdmitEffect DEF Fresh
  <2>. QED BY <2>1, <2>2, <2>3, <2>4
<1>6. ASSUME NEW j \in Jobs, ClaimReturns(j) PROVE Accompanied'
  <2>1. /\ Fresh(j) /\ UNCHANGED req /\ Longer
        /\ \A k \in Jobs : k # j => claimed'[k] = claimed[k]
        /\ claimed'[j] = IF claimed[j] = "resume" THEN "resume" ELSE "none"
    BY <1>1, <1>6, BusyCalled DEF ClaimReturns, static, WorkerInv, FreshJobs, Types, Longer
  <2>2. \/ Admit(j, req[j])
        \/ stage' = [stage EXCEPT ![j] = "deliver"] /\ task' = task /\ claimed[j] = "resume"
        \/ stage' = stage /\ task' = task
    <3>1. claimed[j] \in Kinds
      BY <1>6, BusyCalled DEF ClaimKnown, ClaimReturns
    <3>. QED BY <1>6, <3>1 DEF ClaimReturns, Kinds
  <2>3. CASE Admit(j, req[j])
    BY <1>4, <2>1, <2>3, AdmitEffect DEF Fresh
  <2>4. CASE ((stage' = [stage EXCEPT ![j] = "deliver"] /\ claimed[j] = "resume") \/ stage' = stage) /\ task' = task
    <3>1. ASSUME NEW k \in Jobs, Busy(k)', ~OffQueue(k)' PROVE Busy(k) /\ ~OffQueue(k)
      <4>1. k # j
        BY <1>1, <2>1, <2>4, <3>1 DEF Busy, OffQueue, Fresh
      <4>2. Busy(k) /\ k <= Len(req)
        BY <1>1, <2>1, <2>4, <3>1, <4>1 DEF Busy
      <4>. QED BY <2>1, <3>1, <4>1, <4>2, OffQueueKept
    <3>. QED BY <2>4, <3>1 DEF Accompanied
  <2>. QED BY <2>2, <2>3, <2>4
<1>7. ASSUME NEW j \in Jobs, NEW stored, StoreFinal(j, stored) PROVE Accompanied'
  <2>1. stage' = [stage EXCEPT ![j] = "over"] /\ Release(j) /\ UNCHANGED <<req, claimed>>
    BY <1>7 DEF StoreFinal, static
  <2>2. ASSUME NEW k \in Jobs, Busy(k)', ~OffQueue(k)' PROVE k # j /\ Busy(k) /\ ~OffQueue(k)
    BY <1>1, <2>1, <2>2 DEF Busy, OffQueue
  <2>3. ASSUME NEW w \in Jobs, task[w].job # j PROVE task'[w] = task[w]
    BY <2>1, <2>3 DEF Release
  <2>. QED BY <2>2, <2>3 DEF Accompanied
<1>8. ASSUME NEW w \in Jobs, TakeNext(w) PROVE Accompanied'
  <2>. PICK j \in Jobs : j = Head(items[task[w].queue])
    <3>1. task[w].queue \in Jobs /\ items[task[w].queue] # <<>>
      BY <1>8, WorkerPlace DEF TakeNext, Live
    <3>. QED BY <3>1, HeadTailProperties DEF WorkerInv, Types
  <2>1. /\ task[w].state \in {"created", "waiting"} /\ UNCHANGED <<req, claimed>>
        /\ \/ stage' = [stage EXCEPT ![j] = "over"] /\ task' = [task EXCEPT ![w].state = "leaving"]
           \/ stage' = [stage EXCEPT ![j] = "start"] /\ task' = [task EXCEPT ![w].state = "busy", ![w].job = j]
    BY <1>8 DEF TakeNext, static
  <2>2. \A v \in Jobs : v # w => task'[v] = task[v]
    BY <1>1, <2>1
  <2>3. ASSUME NEW k \in Jobs, Busy(k)', ~OffQueue(k)', k # j PROVE Busy(k) /\ ~OffQueue(k)
    BY <1>1, <2>1, <2>3 DEF Busy, OffQueue
  <2>4. ASSUME Busy(j)' PROVE task'[w].state = "busy" /\ task'[w].job = j
    <3>1. stage'[j] # "over"
      BY <2>4 DEF Busy
    <3>. QED BY <1>1, <2>1, <2>4, <3>1 DEF TaskRecord
  <2>. QED BY <2>1, <2>2, <2>3, <2>4 DEF Accompanied
<1>9. ASSUME NEW w \in Jobs, LeaveOrLoop(w) PROVE Accompanied'
  <2>1. /\ task[w].state = "leaving" /\ UNCHANGED <<req, claimed, stage>>
        /\ \/ task' = [task EXCEPT ![w].state = "done", ![w].queue = 0]
           \/ task' = [task EXCEPT ![w].state = "waiting"]
    BY <1>9 DEF LeaveOrLoop, static
  <2>2. \A v \in Jobs : v # w => task'[v] = task[v]
    BY <1>1, <2>1
  <2>. QED BY <2>1, <2>2 DEF Accompanied, Busy, OffQueue
<1>10. CASE CrashRestart
  BY <1>10 DEF CrashRestart, Accompanied, Busy, Jobs
<1>11. ASSUME NEW j \in Jobs, Pipeline(j) PROVE Accompanied'
  <2>1. CASE StartTurn(j)
    BY <1>1, <1>2, <2>1 DEF StartTurn, static, Busy
  <2>2. ASSUME NEW status, NEW response, EndTurn(j, status, response) PROVE Accompanied'
    BY <1>1, <1>2, <2>2 DEF EndTurn, static, Busy
  <2>3. CASE PersistConversation(j)
    BY <1>1, <1>2, <2>3 DEF PersistConversation, static, Busy
  <2>4. CASE BeginDelivery(j)
    BY <1>1, <1>2, <2>4 DEF BeginDelivery, static, Busy
  <2>5. ASSUME NEW result, NEW deferred, EndDelivery(j, result, deferred) PROVE Accompanied'
    BY <1>1, <1>2, <2>5 DEF EndDelivery, static, Busy
  <2>. QED BY <1>7, <1>11, <2>1, <2>2, <2>3, <2>4, <2>5 DEF Pipeline
<1>12. CASE Close
  BY <1>1, <1>2, <1>12 DEF Close, static, Busy
<1>13. CASE CloseReturns \/ UNCHANGED vars
  BY <1>2, <1>13 DEF CloseReturns, vars, static, Busy
<1>14. ASSUME NEW r, NEW result, WorkerRetries(r, result) PROVE Accompanied'
  BY <1>2, <1>14 DEF WorkerRetries, volatile, static, Busy
<1>15. ASSUME NEW j \in Jobs, CancelHandle(j) PROVE Accompanied'
  BY <1>2, <1>15 DEF CancelHandle, static, Busy
<1>16. ASSUME NEW j \in Jobs, ClaimLost(j) PROVE Accompanied'
  <2>1. /\ stage[j] = "none" /\ UNCHANGED <<req, stage, task>> /\ Longer
        /\ \A k \in Jobs : k # j => claimed'[k] = claimed[k]
    BY <1>1, <1>16 DEF ClaimLost, static, WorkerInv, FreshJobs, Fresh, Types, Longer, Jobs
  <2>2. ASSUME NEW k \in Jobs, Busy(k)', ~OffQueue(k)' PROVE Busy(k) /\ ~OffQueue(k)
    <3>1. Busy(k) /\ k # j /\ k <= Len(req)
      BY <1>1, <2>1, <2>2 DEF Busy
    <3>. QED BY <2>1, <2>2, <3>1, OffQueueKept
  <2>. QED BY <2>1, <2>2 DEF Accompanied
<1>. QED
  BY <1>5, <1>6, <1>8, <1>9, <1>10, <1>11, <1>12, <1>13, <1>14, <1>15, <1>16 DEF Next, WorkerTask
LEMMA WaitsStep ==
  ASSUME WorkerInv, ClaimKnown, LedgerInv, Waits, [Next]_vars
  PROVE  Waits'
<1>1. stage \in [Jobs -> Stages] /\ future \in [Jobs -> Futures]
  BY DEF WorkerInv, Types, LedgerInv, LedgerTypes
<1>2. ASSUME \A j \in Jobs : future'[j] = "pending" => future[j] = "pending",
             \A j \in Jobs : stage[j] = "queued" \/ Busy(j) => stage'[j] = "queued" \/ Busy(j)'
      PROVE  Waits'
  BY <1>2 DEF Waits
<1>3. ASSUME NEW j \in Jobs, AdmitsOne(j) PROVE Waits'
  BY <1>1, <1>3 DEF Waits, AdmitsOne, Busy
<1>4. CASE Submit
  <2>1. PICK r \in Requests, p \in Payloads :
          SubmitRefused(r, p) \/ SubmitDuplicate(r, p) \/ SubmitPlain(r, p) \/ SubmitDurable(r, p)
    BY <1>4 DEF Submit
  <2>2. CASE SubmitRefused(r, p) \/ SubmitDuplicate(r, p)
    <3>1. stage' = stage /\ \E x \in {"rejected", "shared"} : future' = [future EXCEPT ![NextJob] = x]
      BY <2>2 DEF SubmitRefused, SubmitDuplicate, Answer
    <3>. QED BY <1>1, <1>2, <3>1 DEF Busy
  <2>3. CASE SubmitDurable(r, p)
    BY <1>2, <2>3 DEF SubmitDurable, Busy
  <2>4. CASE SubmitPlain(r, p)
    <3>1. Called(r, p) /\ Admit(NextJob, r)
      BY <2>4 DEF SubmitPlain
    <3>2. req'[NextJob] = r /\ NextJob \in Jobs
      BY <3>1, CalledFacts
    <3>. QED BY <1>3, <3>1, <3>2, AdmitEffect
  <2>. QED BY <2>1, <2>2, <2>3, <2>4
<1>5. ASSUME NEW j \in Jobs, ClaimReturns(j) PROVE Waits'
  <2>1. claimed[j] \in Kinds /\ req' = req
    BY <1>5, BusyCalled DEF ClaimKnown, ClaimReturns, static
  <2>2. \/ Admit(j, req[j])
        \/ stage' = [stage EXCEPT ![j] = "deliver"] /\ future' = [future EXCEPT ![j] = "pending"]
        \/ stage' = stage /\ \E x \in Outcomes \cup {"accepted", "rejected"} : future' = [future EXCEPT ![j] = x]
    <3>1. \A x \in TerminalRows : Cached(x) \in Outcomes
      BY DEF Cached, TerminalRows, Outcomes
    <3>. QED BY <1>5, <2>1, <3>1 DEF ClaimReturns, Kinds, Answer
  <2>3. CASE Admit(j, req[j])
    BY <1>3, <2>1, <2>3, AdmitEffect
  <2>4. CASE stage' = [stage EXCEPT ![j] = "deliver"] /\ future' = [future EXCEPT ![j] = "pending"]
    BY <1>1, <2>4 DEF Waits, Busy
  <2>5. CASE stage' = stage /\ \E x \in Outcomes \cup {"accepted", "rejected"} : future' = [future EXCEPT ![j] = x]
    BY <1>1, <1>2, <2>5 DEF Busy, Outcomes
  <2>. QED BY <2>2, <2>3, <2>4, <2>5
<1>6. ASSUME NEW j \in Jobs, NEW stored, StoreFinal(j, stored) PROVE Waits'
  <2>1. /\ stage' = [stage EXCEPT ![j] = "over"]
        /\ future' = [future EXCEPT ![j] = IF @ = "pending" THEN Told(j, stored) ELSE @]
    BY <1>6 DEF StoreFinal
  <2>2. Told(j, stored) # "pending"
    BY <1>6 DEF StoreFinal, LedgerInv, OutcomeKnown, Late, Told, Outcomes
  <2>. QED BY <1>1, <2>1, <2>2 DEF Waits, Busy
<1>7. ASSUME NEW w \in Jobs, TakeNext(w) PROVE Waits'
  <2>1. /\ future' = future
        /\ \E j \in {Head(items[task[w].queue])} :
             \/ future[j] = "cancelled" /\ stage' = [stage EXCEPT ![j] = "over"]
             \/ stage' = [stage EXCEPT ![j] = "start"]
    BY <1>7 DEF TakeNext
  <2>. QED BY <1>1, <2>1 DEF Waits, Busy
<1>8. CASE Close
  <2>1. \A j \in Jobs : future'[j] = "pending" => future[j] = "pending" /\ stage[j] # "queued" /\ stage'[j] = stage[j]
    BY <1>8 DEF Close, Cancelled
  <2>. QED BY <2>1 DEF Waits, Busy
<1>9. CASE CrashRestart
  BY <1>9 DEF CrashRestart, Waits
<1>10. ASSUME NEW j \in Jobs, Pipeline(j) PROVE Waits'
  <2>1. CASE StartTurn(j)
    BY <1>1, <1>2, <2>1 DEF StartTurn, Busy
  <2>2. ASSUME NEW status, NEW response, EndTurn(j, status, response) PROVE Waits'
    BY <1>1, <1>2, <2>2 DEF EndTurn, Busy
  <2>3. CASE PersistConversation(j)
    BY <1>1, <1>2, <2>3 DEF PersistConversation, Busy
  <2>4. CASE BeginDelivery(j)
    BY <1>1, <1>2, <2>4 DEF BeginDelivery, Busy
  <2>5. ASSUME NEW result, NEW deferred, EndDelivery(j, result, deferred) PROVE Waits'
    BY <1>1, <1>2, <2>5 DEF EndDelivery, Busy
  <2>. QED BY <1>6, <1>10, <2>1, <2>2, <2>3, <2>4, <2>5 DEF Pipeline
<1>11. CASE CloseReturns \/ UNCHANGED vars
  BY <1>2, <1>11 DEF CloseReturns, vars, Busy
<1>12. ASSUME NEW r, NEW result, WorkerRetries(r, result) PROVE Waits'
  BY <1>2, <1>12 DEF WorkerRetries, volatile, Busy
<1>13. ASSUME NEW j \in Jobs, CancelHandle(j) \/ LeaveOrLoop(j) PROVE Waits'
  BY <1>1, <1>2, <1>13 DEF CancelHandle, LeaveOrLoop, Answer, Busy
<1>14. ASSUME NEW j \in Jobs, ClaimLost(j) PROVE Waits'
  <2>1. stage' = stage /\ future' = [future EXCEPT ![j] = "lost"]
    BY <1>14 DEF ClaimLost, Answer
  <2>. QED BY <1>1, <1>2, <2>1 DEF Busy
<1>. QED BY <1>4, <1>5, <1>7, <1>8, <1>9, <1>10, <1>11, <1>12, <1>13, <1>14 DEF Next, WorkerTask

(* What close() awaits when it begins.                                     *)
LEMMA CloseGathers ==
  ASSUME WorkerInv, Close
  PROVE  Winding'
<1>1. /\ lock' = 0 /\ items' = [q \in Jobs |-> <<>>] /\ awaited' = Gathered /\ UNCHANGED <<req, task, claimed>>
      /\ stage' = [j \in Jobs |-> IF stage[j] = "queued" THEN "over" ELSE stage[j]]
  BY DEF Close, static
<1>2. ASSUME NEW j \in Jobs, Live(j) PROVE j \in Gathered
  <2>1. workers[Session(j)] = j /\ j <= Len(req)
    BY <1>2 DEF WorkerInv, WorkerOfSession
  <2>2. Session(j) \in Sessions
    BY <2>1, SessionTyped DEF WorkerInv
  <2>. QED BY <2>1, <2>2 DEF Gathered
<1>3. ASSUME NEW j \in Jobs, Busy(j), OffQueue(j) PROVE j \in Gathered
  <2>1. j \in 1 .. Len(req)
    BY <1>3, BusyCalled DEF WorkerInv, Types, Jobs
  <2>. QED BY <1>3, <2>1 DEF Gathered
<1>4. \A j \in Jobs : Busy(j)' => Busy(j)
  BY <1>1 DEF Busy
<1>. QED BY <1>1, <1>2, <1>3, <1>4 DEF Winding, Live, OffQueue

(* After that only what is awaited moves, and nothing is taken up.         *)
LEMMA WindingStep ==
  ASSUME WorkerInv, ClaimKnown, LedgerInv, Accompanied, Waits, Winding, ClosedIsQuiet, [Next]_vars
  PROVE  Winding' /\ ClosedIsQuiet'
<1>1. /\ task \in [Jobs -> TaskRecord] /\ stage \in [Jobs -> Stages] /\ future \in [Jobs -> Futures]
      /\ \A j \in Jobs : (Busy(j) => j <= Len(req)) /\ j # 0
  BY BusyCalled DEF WorkerInv, Types, LedgerInv, LedgerTypes
<1>2. ASSUME UNCHANGED <<phase, awaited, lock, items>>, Longer \/ UNCHANGED req,
             \A j \in Jobs : claimed'[j] = claimed[j] \/ ~Busy(j)',
             \A j \in Jobs : (Live(j)' => Live(j)) /\ (Busy(j)' => Busy(j))
                             /\ (stage'[j] = "queued" => stage[j] = "queued"),
             \A j \in Jobs : future'[j] = "pending" => future[j] = "pending"
      PROVE  Winding' /\ ClosedIsQuiet'
  <2>1. \A j \in Jobs : Busy(j)' /\ OffQueue(j)' => Busy(j) /\ OffQueue(j)
    <3>1. \A j \in Jobs : Busy(j)' => j <= Len(req) /\ claimed'[j] = claimed[j]
      BY <1>1, <1>2
    <3>2. \A j \in Jobs : Busy(j)' => (OffQueue(j)' <=> OffQueue(j))
      <4>1. CASE Longer
        BY <3>1, <4>1, OffQueueKept
      <4>2. CASE UNCHANGED req
        BY <3>1, <4>2 DEF OffQueue
      <4>. QED BY <1>2, <4>1, <4>2
    <3>. QED BY <1>2, <3>2
  <2>. QED BY <1>2, <2>1 DEF Winding, ClosedIsQuiet
<1>3. ASSUME phase' = "accepting" PROVE Winding' /\ ClosedIsQuiet'
  BY <1>3 DEF Winding, ClosedIsQuiet
<1>4. CASE phase = "accepting" /\ phase' = phase
  BY <1>3, <1>4
<1>5. CASE Close
  BY <1>5, CloseGathers DEF Close, ClosedIsQuiet
<1>6. CASE CloseReturns
  <2>1. /\ phase = "closing" /\ UNCHANGED <<awaited, lock, items, task, req, stage, claimed, future>>
        /\ \A j \in awaited \ {0} : task[j].state \in {"none", "done"} /\ ~(Busy(j) /\ OffQueue(j))
    BY <1>6 DEF CloseReturns, static
  <2>2. \A j \in Jobs : ~Live(j) /\ ~(Busy(j) /\ OffQueue(j)) /\ stage[j] # "queued"
    BY <1>1, <2>1 DEF Winding, Live
  <2>3. \A j \in Jobs : ~Busy(j)
    BY <2>2 DEF Accompanied, Live
  <2>4. \A j \in Jobs : future[j] # "pending"
    BY <2>2, <2>3 DEF Waits
  <2>. QED BY <2>1, <2>2, <2>3, <2>4 DEF Winding, ClosedIsQuiet, Live, Busy, OffQueue
<1>7. CASE CrashRestart
  BY <1>3, <1>7 DEF CrashRestart
<1>8. CASE Submit
  <2>1. PICK r \in Requests, p \in Payloads :
          SubmitRefused(r, p) \/ SubmitDuplicate(r, p) \/ SubmitPlain(r, p) \/ SubmitDurable(r, p)
    BY <1>8 DEF Submit
  <2>2. CASE SubmitRefused(r, p)
    <3>1. /\ Called(r, p) /\ future' = [future EXCEPT ![NextJob] = "rejected"]
          /\ UNCHANGED <<phase, awaited, lock, items, task, stage, claimed>>
      BY <2>2 DEF SubmitRefused, Answer
    <3>2. Longer
      BY <3>1, CalledFacts
    <3>. QED BY <1>1, <1>2, <3>1, <3>2 DEF Live, Busy
  <2>. QED BY <1>4, <2>1, <2>2 DEF SubmitDuplicate, SubmitPlain, SubmitDurable
<1>9. ASSUME NEW j \in Jobs, ClaimReturns(j) \/ ClaimLost(j) PROVE Winding' /\ ClosedIsQuiet'
  BY <1>1, <1>4, <1>9 DEF ClaimReturns, ClaimLost, Winding
<1>10. ASSUME NEW j \in Jobs, Pipeline(j) PROVE Winding' /\ ClosedIsQuiet'
  <2>1. ASSUME NEW stored, StoreFinal(j, stored) PROVE Winding' /\ ClosedIsQuiet'
    <3>1. /\ stage' = [stage EXCEPT ![j] = "over"] /\ Release(j)
          /\ future' = [future EXCEPT ![j] = IF @ = "pending" THEN Told(j, stored) ELSE @]
          /\ UNCHANGED <<phase, awaited, lock, items, req, claimed>>
      BY <2>1 DEF StoreFinal, static
    <3>2. Told(j, stored) # "pending"
      BY <2>1 DEF StoreFinal, LedgerInv, OutcomeKnown, Late, Told, Outcomes
    <3>3. \A w \in Jobs : Live(w)' => Live(w)
      BY <3>1 DEF Release, Live
    <3>4. \A k \in Jobs : /\ Busy(k)' => Busy(k)
                          /\ stage'[k] = "queued" => stage[k] = "queued"
                          /\ future'[k] = "pending" => future[k] = "pending"
      BY <1>1, <3>1, <3>2 DEF Busy
    <3>. QED BY <1>2, <3>1, <3>3, <3>4
  <2>2. CASE StartTurn(j)
    BY <1>1, <1>2, <2>2 DEF StartTurn, static, Busy, Live
  <2>3. ASSUME NEW status, NEW response, EndTurn(j, status, response) PROVE Winding' /\ ClosedIsQuiet'
    BY <1>1, <1>2, <2>3 DEF EndTurn, static, Busy, Live
  <2>4. CASE PersistConversation(j)
    BY <1>1, <1>2, <2>4 DEF PersistConversation, static, Busy, Live
  <2>5. CASE BeginDelivery(j)
    BY <1>1, <1>2, <2>5 DEF BeginDelivery, static, Busy, Live
  <2>6. ASSUME NEW result, NEW deferred, EndDelivery(j, result, deferred) PROVE Winding' /\ ClosedIsQuiet'
    BY <1>1, <1>2, <2>6 DEF EndDelivery, static, Busy, Live
  <2>. QED BY <1>10, <2>1, <2>2, <2>3, <2>4, <2>5, <2>6 DEF Pipeline
<1>11. ASSUME NEW w \in Jobs, TakeNext(w) PROVE Winding' /\ ClosedIsQuiet'
  <2>1. task[w].queue \in Jobs /\ items[task[w].queue] # <<>> /\ phase' = phase
    BY <1>11, WorkerPlace DEF TakeNext, Live
  <2>. QED BY <1>4, <2>1 DEF Winding
<1>12. ASSUME NEW w \in Jobs, LeaveOrLoop(w) PROVE Winding' /\ ClosedIsQuiet'
  <2>1. /\ UNCHANGED <<phase, awaited, lock, items, req, stage, claimed, future>> /\ Live(w)
        /\ \/ task' = [task EXCEPT ![w].state = "done", ![w].queue = 0]
           \/ task' = [task EXCEPT ![w].state = "waiting"]
    BY <1>12 DEF LeaveOrLoop, static, Live
  <2>2. \A v \in Jobs : v # w => task'[v] = task[v]
    BY <1>1, <2>1
  <2>. QED BY <1>2, <2>1, <2>2 DEF Live, Busy
<1>13. ASSUME NEW j \in Jobs, CancelHandle(j) PROVE Winding' /\ ClosedIsQuiet'
  BY <1>1, <1>2, <1>13 DEF CancelHandle, Answer, static, Live, Busy
<1>14. ASSUME NEW r, NEW result, WorkerRetries(r, result) PROVE Winding' /\ ClosedIsQuiet'
  BY <1>2, <1>14 DEF WorkerRetries, volatile, static, Live, Busy
<1>15. CASE UNCHANGED vars
  BY <1>2, <1>15 DEF vars, Live, Busy
<1>. QED BY <1>5, <1>6, <1>7, <1>8, <1>9, <1>10, <1>11, <1>12, <1>13, <1>14, <1>15 DEF Next, WorkerTask

LEMMA CloseInit == Init => CloseInv
  BY DEF Init, CloseInv, Accompanied, Waits, Winding, ClosedIsQuiet, Busy, Live

(* Once close() has returned no worker and no job runs and nobody waits for *)
(* an answer: what it gathers is all that can still be running then.       *)
THEOREM ClosedStaysQuiet == Spec => []ClosedIsQuiet
<1>1. Init => WorkerInv /\ ClaimKnown /\ LedgerInv /\ CloseInv
  BY WorkerInit, LedgerInit, CloseInit
<1>2. WorkerInv /\ ClaimKnown /\ LedgerInv /\ CloseInv /\ [Next]_vars
        => (WorkerInv /\ ClaimKnown /\ LedgerInv /\ CloseInv)'
  BY WorkerStep, ClaimStep, LedgerStep, AccompaniedStep, WaitsStep, WindingStep DEF CloseInv
<1>3. CloseInv => ClosedIsQuiet
  BY DEF CloseInv
<1>. QED BY <1>1, <1>2, <1>3, PTL DEF Spec
=============================================================================
