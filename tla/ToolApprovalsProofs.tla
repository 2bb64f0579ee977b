------------------------ MODULE ToolApprovalsProofs ------------------------
(***************************************************************************)
(* Proofs about ToolApprovals for any tools, keys, lifetimes of a grant    *)
(* and sizes of a batch: its types, what stands behind a grant in force,   *)
(* and that a refused call stays refused.                                  *)
(***************************************************************************)
EXTENDS ToolApprovals, TLAPS

Busy == {"ready", "running", "retry", "again"}
Question == {"asking"} \cup Replies

(* One-time grants exist only where something will revoke them.            *)
GrantsTidy ==
  /\ held # {} => pc = "running"
  /\ \A i \in Calls : once[i] # {} => st[i] \in Busy

(* Where the question of the batch stands.                                 *)
AnswerPending ==
  /\ cands # {} => ~reviewer
  /\ pc = "idle" => cands = {} /\ refused = {} /\ \A i \in Calls : st[i] = "none"
  /\ pc \in Question => /\ answer = "none" /\ refused = IF pc = "deny" THEN cands ELSE {}
                       /\ \A i \in Calls : st[i] \in {"none", "waiting"}
  /\ \A i \in cands : st[i] \notin Question

(* Until the batch is answered, and after a refusal, each candidate misses *)
(* a key that no call outside the candidates could be granted.             *)
OnlyCandsNeed(k) == \A j \in DOMAIN batch : k \in KeysOf[batch[j]] => j \in cands
StillMissing ==
  pc \in Question \/ answer = "deny" =>
    \A i \in cands : \E k \in Missing(batch[i]) : OnlyCandsNeed(k)

(* A refused call is over, or a candidate that has not got further.        *)
RefusalKept ==
  \A i \in refused :
    \/ st[i] \in {"done", "deny"}
    \/ i \in cands /\ (pc = "deny" \/ answer = "deny") /\ st[i] \in {"waiting", "checking"}

Inv == TypeOK /\ GrantsTidy /\ AnswerPending /\ StillMissing /\ RefusalKept /\ GrantsAreBacked

------------------------------------------------------------------------------
(* Steps of a call, by what they do *)

Over(i) == Finish(i) /\ UNCHANGED refused
Steps(i) ==
  \E x \in Busy \cup Question :
    /\ Move(i, x) /\ UNCHANGED grantVars
    /\ refused' = IF x = "deny" THEN refused \cup {i} ELSE refused
    /\ x = "asking" => st[i] = "checking" /\ i \notin cands
    /\ x \in Replies => st[i] = "asking"
    /\ x \in Busy => st[i] \in Busy \/ (st[i] = "checking" /\ Missing(batch[i]) = {})
Gets(i) ==
  /\ st[i] \in {"checking", "allow", "always"} /\ ~(i \in cands /\ answer = "deny")
  /\ \E ans \in {"allow", "always"} : Allowed(i, ans)
Breaks(i) == CallRaises(i) /\ st[i] \in Busy \cup {"checking"}

(* What the steps of a call come to: it is over, refused, moves on without *)
(* a change of the grants, is granted its keys, which a candidate of a     *)
(* refused batch is not, or breaks off.                                    *)
LEMMA CallCases ==
  ASSUME Inv, NEW i \in Calls,
         \/ CallRejected(i) \/ CallClear(i) \/ CallRecalls(i) \/ CallReviewed(i) \/ CallAsks(i)
         \/ UserAnswers(i) \/ AnswerArrives(i) \/ QuestionLost(i)
         \/ Dispatch(i) \/ HandlerFails(i) \/ HandlerEnds(i) \/ CallRaises(i)
  PROVE  /\ SameBatch
         /\ st[i] \in Busy \cup Question \cup {"checking"} /\ pc = "running" /\ i \in DOMAIN batch
         /\ Over(i) \/ Refused(i) \/ Steps(i) \/ Gets(i) \/ Breaks(i)
<1> USE DEF Inv
<1>1. st[i] \in Busy \cup Question \cup {"checking"} /\ SameBatch
  BY DEF CallRejected, CallClear, CallRecalls, CallReviewed, CallAsks, UserAnswers, AnswerArrives,
    QuestionLost, Dispatch, HandlerFails, HandlerEnds, CallRaises, MayRaise, Busy, Question
<1>2. pc = "running" /\ i \in DOMAIN batch
  BY <1>1 DEF TypeOK, AnswerPending, Busy, Question, Replies
<1>3. ASSUME CallRejected(i) \/ HandlerEnds(i) PROVE Over(i)
  BY <1>3 DEF CallRejected, HandlerEnds, Over
<1>4. ASSUME CallClear(i) \/ HandlerFails(i) PROVE Steps(i)
  <2>1. CASE CallClear(i)
    BY <2>1 DEF CallClear, Steps, Busy, Question, Replies
  <2>2. CASE HandlerFails(i)
    <3>1. st[i] \in Busy /\ Move(i, "retry") /\ UNCHANGED grantVars /\ refused' = refused
      BY <2>2 DEF HandlerFails, Busy
    <3>2. "retry" \in Busy \ Question /\ "retry" # "deny"
      BY DEF Busy, Question, Replies
    <3>3. QED BY <3>1, <3>2 DEF Steps, Question
  <2>3. QED BY <1>4, <2>1, <2>2
<1>5. ASSUME CallRecalls(i) PROVE Refused(i) \/ Gets(i)
  BY <1>5 DEF CallRecalls, Answered, Gets
<1>6. ASSUME CallReviewed(i) PROVE Refused(i) \/ Gets(i)
  <2>1. i \notin cands
    BY <1>6 DEF CallReviewed, AnswerPending
  <2>2. QED BY <1>6, <2>1 DEF CallReviewed, Answered, Gets
<1>7. ASSUME CallAsks(i) PROVE Refused(i) \/ Steps(i)
  BY <1>7 DEF CallAsks, Steps, Busy, Question, Replies
<1>8. ASSUME UserAnswers(i) PROVE Steps(i)
  BY <1>8 DEF UserAnswers, Steps, Busy, Question, Replies
<1>9. ASSUME AnswerArrives(i) PROVE Refused(i) \/ Gets(i)
  <2>1. i \notin cands
    BY <1>9 DEF AnswerArrives, AnswerPending, Question
  <2>2. QED BY <1>9, <2>1 DEF AnswerArrives, Answered, Gets, Replies
<1>12. ASSUME QuestionLost(i) PROVE Refused(i)
  BY <1>12 DEF QuestionLost
<1>13. ASSUME CallRaises(i) PROVE Breaks(i)
  BY <1>13 DEF CallRaises, Breaks, MayRaise, Busy
<1>10. ASSUME Dispatch(i) PROVE Over(i) \/ Steps(i)
  <2>1. CASE interrupted
    BY <1>10, <2>1 DEF Dispatch, Over
  <2>2. CASE ~interrupted
    <3>1. PICK x \in {"running", "again"} : Move(i, x)
      BY <1>10, <2>2 DEF Dispatch
    <3>2. st[i] \in Busy /\ UNCHANGED grantVars /\ refused' = refused
      BY <1>10, <2>2 DEF Dispatch, Busy
    <3>3. x \in Busy \ Question /\ x # "deny"
      BY DEF Busy, Question, Replies
    <3>4. QED BY <3>1, <3>2, <3>3 DEF Steps, Question
  <2>3. QED BY <2>1, <2>2
<1>14. QED
  BY <1>1, <1>2, <1>3, <1>4, <1>5, <1>6, <1>7, <1>8, <1>9, <1>10, <1>12, <1>13

------------------------------------------------------------------------------
(* Types *)

(* Revoking and granting leave a table of expiry times.                    *)
LEMMA GrantTables ==
  ASSUME grants \in [Keys -> Nat], promise \in [Keys -> Nat], now \in Nat
  PROVE  /\ \A keys : Revoked(grants, keys) \in [Keys -> Nat]
         /\ \A keys : Promised(keys) \in [Keys -> Nat]
         /\ \A t, ans : Granted(t, ans) \in [Keys -> Nat]
         /\ \A ans : BatchGranted(ans) \in [Keys -> Nat]
<1>1. now + Once \in Nat /\ now + Ttl \in Nat
  BY ApprovalsAssumption DEF Once
<1>2. QED BY <1>1 DEF Revoked, Promised, Granted, BatchGranted

(* The keys of some calls of the batch are keys.                           *)
LEMMA KeysTyped ==
  ASSUME TypeOK
  PROVE  /\ \A i \in DOMAIN batch : batch[i] \in Tools /\ KeysOf[batch[i]] \subseteq Keys
         /\ \A calls \in SUBSET DOMAIN batch : BatchKeys(calls) \subseteq Keys
<1>1. \A i \in DOMAIN batch : batch[i] \in Tools
  BY DEF TypeOK
<1>2. \A t \in Tools : KeysOf[t] \subseteq Keys
  BY ApprovalsAssumption
<1>3. QED BY <1>1, <1>2 DEF BatchKeys

(* The candidates are calls.                                               *)
LEMMA CandsAreCalls ==
  ASSUME TypeOK
  PROVE  cands \subseteq Calls
<1>1. DOMAIN batch = 1 .. Len(batch) /\ Len(batch) \in Nat /\ Len(batch) <= MaxCalls
  BY DEF TypeOK
<1>2. QED BY <1>1, ApprovalsAssumption DEF TypeOK, Calls

(* A call that moves to another stage keeps its place in the batch.        *)
LEMMA MoveType ==
  ASSUME TypeOK, NEW i \in Calls, i \in DOMAIN batch, NEW x \in Stages \ {"none"},
         Move(i, x), batch' = batch
  PROVE  /\ st' \in [Calls -> Stages]
         /\ \A j \in Calls : st'[j] # "none" <=> j \in DOMAIN batch'
BY DEF TypeOK, Move

(* The steps of a call keep the types.                                     *)
LEMMA CallType ==
  ASSUME Inv, CallStep
  PROVE  TypeOK'
<1>1. PICK i \in Calls :
        /\ SameBatch
        /\ st[i] \in Busy \cup Question \cup {"checking"} /\ pc = "running" /\ i \in DOMAIN batch
        /\ Over(i) \/ Refused(i) \/ Steps(i) \/ Gets(i) \/ Breaks(i)
  BY CallCases DEF CallStep
<1>2. TypeOK /\ KeysOf[batch[i]] \subseteq Keys
  BY <1>1, KeysTyped DEF Inv
<1>3. ASSUME NEW x \in Stages \ {"none"}, Move(i, x), grants' \in [Keys -> Nat],
             promise' \in [Keys -> Nat], held' = held, left' \subseteq Keys,
             once' \in [Calls -> SUBSET Keys], refused' \subseteq Calls
      PROVE  TypeOK'
  <2>1. /\ st' \in [Calls -> Stages]
        /\ \A j \in Calls : st'[j] # "none" <=> j \in DOMAIN batch'
    BY <1>1, <1>2, <1>3, MoveType DEF SameBatch
  <2>2. QED BY <1>1, <1>2, <1>3, <2>1 DEF TypeOK, SameBatch, flags
<1>4. ASSUME Finish(i), refused' \subseteq Calls PROVE TypeOK'
  <2>1. Revoked(grants, once[i]) \in [Keys -> Nat] /\ [once EXCEPT ![i] = {}] \in [Calls -> SUBSET Keys]
    BY <1>2, GrantTables DEF TypeOK
  <2>2. QED BY <1>2, <1>3, <1>4, <2>1 DEF Finish, TypeOK, Stages
<1>5. CASE Over(i) \/ Refused(i)
  <2>1. Finish(i) /\ refused' \subseteq Calls
    BY <1>2, <1>5 DEF Over, Refused, TypeOK
  <2>2. QED BY <1>4, <2>1
<1>6. CASE Steps(i)
  <2>1. PICK x \in Busy \cup Question :
          Move(i, x) /\ UNCHANGED grantVars /\ refused' \in {refused, refused \cup {i}}
    BY <1>6 DEF Steps
  <2>2. x \in Stages \ {"none"}
    BY <2>1 DEF Busy, Stages, Question, Replies
  <2>3. QED BY <1>2, <1>3, <2>1, <2>2 DEF TypeOK, grantVars
<1>7. CASE Gets(i)
  <2>1. PICK ans \in {"allow", "always"} : Allowed(i, ans)
    BY <1>7 DEF Gets
  <2>2. Granted(batch[i], ans) \in [Keys -> Nat] /\ Promised(KeysOf[batch[i]]) \in [Keys -> Nat]
    BY <1>2, GrantTables DEF TypeOK
  <2>3. once' \in [Calls -> SUBSET Keys] /\ promise' \in [Keys -> Nat] /\ grants' \in [Keys -> Nat]
    BY <1>2, <2>1, <2>2 DEF Allowed, TypeOK
  <2>4. Move(i, "ready") /\ held' = held /\ left' \subseteq left /\ refused' = refused
    BY <2>1 DEF Allowed
  <2>5. QED BY <1>2, <1>3, <2>3, <2>4 DEF TypeOK, Stages
<1>8. CASE Breaks(i)
  <2>1. /\ Move(i, "done") /\ UNCHANGED <<held, grants, promise, refused>>
        /\ left' = left \cup once[i] /\ once' = [once EXCEPT ![i] = {}]
    BY <1>8 DEF Breaks, CallRaises
  <2>2. left' \subseteq Keys /\ once' \in [Calls -> SUBSET Keys]
    BY <1>2, <2>1 DEF TypeOK
  <2>3. QED BY <1>2, <1>3, <2>1, <2>2 DEF TypeOK, Stages
<1>9. QED BY <1>1, <1>5, <1>6, <1>7, <1>8

(* The next group is made of waiting calls.                                *)
LEMMA GroupWaits ==
  ASSUME NEW first \in Waiting
  PROVE  Group(first) \subseteq Waiting
BY DEF Group

(* A new batch has the calls its sequence lists.                           *)
LEMMA NewBatchType ==
  ASSUME TypeOK, NewBatch
  PROVE  /\ batch' \in Seq(Tools) /\ Len(batch') <= MaxCalls
         /\ st' \in [Calls -> Stages]
         /\ \A i \in Calls : st'[i] # "none" <=> i \in DOMAIN batch'
         /\ \A i \in Calls : st'[i] \in {"none", "waiting"}
         /\ cands' \subseteq DOMAIN batch'
<1>1. PICK n \in Calls, calls \in [1 .. MaxCalls -> Tools] :
        /\ batch' = [i \in 1 .. n |-> calls[i]]
        /\ st' = [i \in Calls |-> IF i <= n THEN "waiting" ELSE "none"]
  BY DEF NewBatch
<1>2. n \in 1 .. MaxCalls /\ MaxCalls \in Nat
  BY ApprovalsAssumption DEF Calls
<1>3. \A i \in 1 .. n : calls[i] \in Tools
  BY <1>2
<1>4. batch' \in Seq(Tools) /\ Len(batch') = n /\ DOMAIN batch' = 1 .. n
  BY <1>1, <1>2, <1>3
<1>5. cands' \subseteq DOMAIN batch'
  BY DEF NewBatch, Candidates
<1>6. QED BY <1>1, <1>2, <1>4, <1>5 DEF Calls, Stages

(* Every step keeps the types.                                             *)
LEMMA NextType ==
  ASSUME Inv, [Next]_vars
  PROVE  TypeOK'
<1> USE DEF Inv
<1>1. CASE NewBatch
  <2>1. pc' \in {"idle", "asking", "running"} /\ used' \in [batches : Nat, stops : Nat]
    BY <1>1 DEF NewBatch, TypeOK
  <2>2. QED BY <1>1, <2>1, NewBatchType DEF NewBatch, TypeOK, grantVars
<1>2. CASE BatchAllowed
  <2>1. PICK ans \in {"allow", "always"} :
          /\ ans = pc /\ answer' = ans /\ grants' = BatchGranted(ans)
          /\ held' = BatchKeys({i \in cands : OneTime(batch[i], ans)})
          /\ \E keys : promise' = Promised(keys)
          /\ left' \subseteq left
    BY <1>2 DEF BatchAllowed
  <2>2. held' \subseteq Keys
    BY <2>1, KeysTyped DEF TypeOK
  <2>3. grants' \in [Keys -> Nat] /\ promise' \in [Keys -> Nat]
    BY <2>1, GrantTables DEF TypeOK
  <2>4. QED BY <1>2, <2>1, <2>2, <2>3 DEF BatchAllowed, TypeOK, flags
<1>3. CASE BatchRefused
  <2>1. cands \subseteq Calls
    BY CandsAreCalls
  <2>2. QED BY <1>3, <2>1 DEF BatchRefused, TypeOK, grantVars, flags
<1>4. CASE StartGroup
  <2>1. PICK first \in Waiting :
          st' = [i \in Calls |-> IF i \in Group(first) THEN "checking" ELSE st[i]]
    BY <1>4 DEF StartGroup
  <2>2. \A i \in Group(first) : st[i] = "waiting"
    BY GroupWaits DEF Waiting
  <2>3. st' \in [Calls -> Stages] /\ \A i \in Calls : st'[i] # "none" <=> i \in DOMAIN batch
    BY <2>1, <2>2 DEF TypeOK, Stages
  <2>4. QED BY <1>4, <2>3 DEF StartGroup, TypeOK, grantVars, flags
<1>5. CASE BatchDone
  <2>1. Revoked(grants, held) \in [Keys -> Nat]
    BY GrantTables DEF TypeOK
  <2>2. QED BY <1>5, <2>1, ApprovalsAssumption DEF BatchDone, TypeOK, NoCalls, Stages, flags
<1>6. CASE CallStep
  BY <1>6, CallType
<1>7. CASE Interrupt
  <2>1. interrupted' \in BOOLEAN
    BY <1>7 DEF Interrupt, Waits
  <2>2. used' \in [batches : Nat, stops : Nat]
    <3>1. used' = [used EXCEPT !.stops = used.stops + 1] /\ used \in [batches : Nat, stops : Nat]
      BY <1>7 DEF Interrupt, TypeOK
    <3>2. QED BY <3>1
  <2>3. QED BY <1>7, <2>1, <2>2 DEF Interrupt, TypeOK, batchVars, grantVars
<1>8. CASE OtherTurnBegins
  BY <1>8 DEF OtherTurnBegins, TypeOK, batchVars, grantVars
<1>9. CASE Cancel \/ BatchRaises
  <2>0. Abandoned
    BY <1>9 DEF Cancel, BatchRaises
  <2>1. Revoked(grants, held) \in [Keys -> Nat]
    BY GrantTables DEF TypeOK
  <2>2. UNION {once[i] : i \in Calls} \subseteq Keys
    BY DEF TypeOK
  <2>3. used' \in [batches : Nat, stops : Nat]
    <3>1. CASE Cancel
      BY <3>1 DEF Cancel, TypeOK
    <3>2. QED BY <1>9, <3>1 DEF BatchRaises, TypeOK
  <2>4. /\ batch' \in Seq(Tools) /\ Len(batch') <= MaxCalls /\ cands' \subseteq DOMAIN batch'
        /\ st' \in [Calls -> Stages] /\ \A i \in Calls : st'[i] # "none" <=> i \in DOMAIN batch'
    BY <2>0, ApprovalsAssumption DEF Abandoned, NoCalls, Stages
  <2>5. /\ grants' \in [Keys -> Nat] /\ left' \subseteq Keys /\ held' \subseteq Keys
        /\ once' \in [Calls -> SUBSET Keys]
    BY <2>0, <2>1, <2>2 DEF Abandoned, TypeOK
  <2>6. QED BY <2>0, <2>3, <2>4, <2>5 DEF Abandoned, TypeOK, flags
<1>10. CASE ClearGrants
  <2>1. used' \in [batches : Nat, stops : Nat]
    <3>1. used' = [used EXCEPT !.stops = used.stops + 1] /\ used \in [batches : Nat, stops : Nat]
      BY <1>10 DEF ClearGrants, TypeOK
    <3>2. QED BY <3>1
  <2>2. grants' \in [Keys -> Nat] /\ promise' \in [Keys -> Nat]
    BY <1>10 DEF ClearGrants
  <2>3. QED BY <1>10, <2>1, <2>2 DEF ClearGrants, TypeOK, batchVars, flags
<1>11. CASE Tick
  <2>1. /\ now' \in Nat /\ left' \subseteq Keys
        /\ grants' \in [Keys -> Nat] /\ promise' \in [Keys -> Nat]
    BY <1>11 DEF Tick, Pruned, TypeOK
  <2>2. QED BY <1>11, <2>1 DEF Tick, TypeOK, batchVars, flags
<1>12. CASE UNCHANGED vars
  BY <1>12 DEF vars, TypeOK, batchVars, grantVars, flags
<1>13. CASE BatchAnswered
  <2>1. cands \subseteq Calls
    BY CandsAreCalls
  <2>2. pc' \in Replies /\ refused' \in {cands, {}}
    BY <1>13 DEF BatchAnswered
  <2>3. QED BY <1>13, <2>1, <2>2 DEF BatchAnswered, TypeOK, grantVars, flags
<1>14. QED
  BY <1>1, <1>2, <1>3, <1>4, <1>5, <1>6, <1>7, <1>8, <1>9, <1>10, <1>11, <1>12, <1>13
  DEF Next, BatchStep

------------------------------------------------------------------------------
(* Grants *)

(* When a call is over its one-time grants are gone and no others change.  *)
LEMMA FinishBacked ==
  ASSUME Inv, NEW i \in Calls, Finish(i), now' = now
  PROVE  GrantsAreBacked'
<1> SUFFICES ASSUME NEW k \in Keys, grants'[k] > now'
             PROVE  (grants[k] <= promise[k] \/ k \in held \/ k \in left
                       \/ \E j \in Calls : k \in once[j])'
  BY DEF GrantsAreBacked
<1>1. k \notin once[i] /\ grants'[k] = grants[k] /\ grants[k] > now
  BY DEF Finish, Revoked, Inv, TypeOK
<1>2. grants[k] <= promise[k] \/ k \in held \/ k \in left \/ \E j \in Calls \ {i} : k \in once[j]
  BY <1>1 DEF Inv, GrantsAreBacked
<1>3. \A j \in Calls \ {i} : once'[j] = once[j]
  BY DEF Finish, Inv, TypeOK
<1>4. QED BY <1>1, <1>2, <1>3 DEF Finish

(* What a call is granted serves it once, or was promised for good.        *)
LEMMA AllowedBacked ==
  ASSUME Inv, NEW i \in Calls, i \in DOMAIN batch, st[i] \in {"checking", "allow", "always"},
         NEW ans \in {"allow", "always"}, Allowed(i, ans), now' = now
  PROVE  GrantsAreBacked'
<1> DEFINE t == batch[i]
<1> SUFFICES ASSUME NEW k \in Keys, grants'[k] > now'
             PROVE  (grants[k] <= promise[k] \/ k \in held \/ k \in left
                       \/ \E j \in Calls : k \in once[j])'
  BY DEF GrantsAreBacked
<1>1. once[i] = {} /\ TypeOK
  BY DEF Inv, GrantsTidy, Busy
<1>2. \A j \in Calls \ {i} : once'[j] = once[j]
  BY <1>1 DEF Allowed, TypeOK
<1>3. CASE k \notin KeysOf[t]
  <2>1. grants'[k] = grants[k] /\ promise'[k] = promise[k] /\ grants[k] > now
    BY <1>3 DEF Allowed, Granted, Promised
  <2>2. grants[k] <= promise[k] \/ k \in held \/ k \in left \/ \E j \in Calls \ {i} : k \in once[j]
    BY <1>1, <2>1 DEF Inv, GrantsAreBacked
  <2>3. held' = held /\ (k \in left => k \in left')
    BY <1>3 DEF Allowed
  <2>4. QED BY <1>2, <2>1, <2>2, <2>3
<1>4. CASE k \in KeysOf[t] /\ OneTime(t, ans)
  <2>1. k \in once'[i]
    BY <1>1, <1>4 DEF Allowed, TypeOK
  <2>2. QED BY <2>1
<1>5. CASE k \in KeysOf[t] /\ ~OneTime(t, ans)
  <2>1. grants'[k] = now + Ttl /\ promise'[k] = now + Ttl
    BY <1>5 DEF Allowed, Granted, Promised
  <2>2. QED BY <1>1, <2>1, ApprovalsAssumption DEF TypeOK
<1>6. QED BY <1>3, <1>4, <1>5

(* What the batch is granted is held to its end, or was promised for good. *)
LEMMA BatchBacked ==
  ASSUME Inv, BatchAllowed
  PROVE  GrantsAreBacked'
<1>1. PICK ans \in {"allow", "always"} :
        LET single == BatchKeys({i \in cands : OneTime(batch[i], ans)})
            lasting == BatchKeys({i \in cands : ~OneTime(batch[i], ans)})
        IN /\ grants' = BatchGranted(ans) /\ held' = single
           /\ promise' = Promised(lasting \ single)
           /\ left' = left \ BatchKeys(cands)
  BY DEF BatchAllowed
<1> DEFINE single == BatchKeys({i \in cands : OneTime(batch[i], ans)})
<1> DEFINE lasting == BatchKeys({i \in cands : ~OneTime(batch[i], ans)})
<1>2. held = {} /\ TypeOK /\ now' = now /\ once' = once
  BY DEF Inv, GrantsTidy, BatchAllowed
<1>3. BatchKeys(cands) = single \cup lasting
  BY DEF BatchKeys
<1> SUFFICES ASSUME NEW k \in Keys, grants'[k] > now'
             PROVE  (grants[k] <= promise[k] \/ k \in held \/ k \in left
                       \/ \E j \in Calls : k \in once[j])'
  BY DEF GrantsAreBacked
<1>4. CASE k \in single
  BY <1>1, <1>4
<1>5. CASE k \in lasting \ single
  <2>1. promise'[k] = now + Ttl
    BY <1>1, <1>5 DEF Promised
  <2>2. grants'[k] \in {now + Once, now + Ttl}
    BY <1>1, <1>3, <1>5 DEF BatchGranted
  <2>3. QED BY <1>2, <2>1, <2>2, ApprovalsAssumption DEF TypeOK, Once
<1>6. CASE k \notin single \cup lasting
  <2>1. grants'[k] = grants[k] /\ promise'[k] = promise[k] /\ (k \in left => k \in left')
    BY <1>1, <1>3, <1>6 DEF BatchGranted, Promised
  <2>2. grants[k] <= promise[k] \/ k \in left \/ \E j \in Calls : k \in once[j]
    BY <1>2, <2>1 DEF Inv, GrantsAreBacked
  <2>3. QED BY <1>2, <2>1, <2>2
<1>7. QED BY <1>4, <1>5, <1>6

(* The end of a batch and its cancellation revoke what the batch held; the *)
(* one-time grants of a call under way are left behind.                    *)
LEMMA BatchOverBacked ==
  ASSUME Inv, BatchDone \/ Abandoned
  PROVE  GrantsAreBacked'
<1> SUFFICES ASSUME NEW k \in Keys, grants'[k] > now'
             PROVE  (grants[k] <= promise[k] \/ k \in held \/ k \in left
                       \/ \E j \in Calls : k \in once[j])'
  BY DEF GrantsAreBacked
<1>1. grants' = Revoked(grants, held) /\ now' = now /\ promise' = promise /\ TypeOK
  BY DEF BatchDone, Abandoned, Inv
<1>2. k \notin held /\ grants'[k] = grants[k]
  BY <1>1 DEF Revoked, TypeOK
<1>3. grants[k] <= promise[k] \/ k \in left \/ \E j \in Calls : k \in once[j]
  BY <1>1, <1>2 DEF Inv, GrantsAreBacked
<1>4. CASE BatchDone
  BY <1>1, <1>2, <1>3, <1>4 DEF BatchDone
<1>5. CASE Abandoned
  <2>1. left' = left \cup UNION {once[i] : i \in Calls}
    BY <1>5 DEF Abandoned
  <2>2. k \in left' \/ grants[k] <= promise[k]
    BY <1>3, <2>1
  <2>3. QED BY <1>1, <1>2, <2>2
<1>6. QED BY <1>4, <1>5

(* A call that breaks off leaves its one-time grants behind.               *)
LEMMA BreakBacked ==
  ASSUME Inv, NEW i \in Calls, CallRaises(i)
  PROVE  GrantsAreBacked'
<1>1. /\ UNCHANGED <<held, grants, promise, now>> /\ left' = left \cup once[i]
      /\ once \in [Calls -> SUBSET Keys] /\ once' = [once EXCEPT ![i] = {}]
  BY DEF CallRaises, SameBatch, Inv, TypeOK
<1>2. \A k, j : j \in Calls /\ k \in once[j] => k \in left' \/ k \in once'[j]
  BY <1>1
<1>3. QED BY <1>1, <1>2 DEF Inv, GrantsAreBacked

(* Every step keeps something behind each grant in force.                  *)
LEMMA NextBacked ==
  ASSUME Inv, [Next]_vars
  PROVE  GrantsAreBacked'
<1>1. ASSUME UNCHANGED grantVars, now' = now PROVE GrantsAreBacked'
  BY <1>1 DEF Inv, GrantsAreBacked, grantVars
<1>2. CASE NewBatch \/ BatchAnswered \/ BatchRefused \/ StartGroup \/ Interrupt \/ OtherTurnBegins \/ UNCHANGED vars
  BY <1>1, <1>2 DEF NewBatch, BatchAnswered, BatchRefused, StartGroup, Interrupt, OtherTurnBegins, vars, grantVars
<1>3. CASE BatchAllowed
  BY <1>3, BatchBacked
<1>4. CASE BatchDone \/ Cancel \/ BatchRaises
  BY <1>4, BatchOverBacked DEF Cancel, BatchRaises
<1>5. CASE ClearGrants
  <2>1. \A k \in Keys : ~(grants'[k] > now')
    BY <1>5 DEF ClearGrants, Inv, TypeOK
  <2>2. QED BY <2>1 DEF GrantsAreBacked
<1>6. CASE CallStep
  <2>1. PICK i \in Calls :
          /\ SameBatch /\ i \in DOMAIN batch
          /\ Over(i) \/ Refused(i) \/ Steps(i) \/ Gets(i) \/ Breaks(i)
    BY <1>6, CallCases DEF CallStep
  <2>2. now' = now
    BY <2>1 DEF SameBatch
  <2>3. CASE Over(i) \/ Refused(i)
    BY <2>2, <2>3, FinishBacked DEF Over, Refused
  <2>4. CASE Steps(i)
    BY <1>1, <2>2, <2>4 DEF Steps
  <2>5. CASE Gets(i)
    BY <2>1, <2>2, <2>5, AllowedBacked DEF Gets
  <2>6. CASE Breaks(i)
    BY <2>6, BreakBacked DEF Breaks
  <2>7. QED BY <2>1, <2>3, <2>4, <2>5, <2>6
<1>7. CASE Tick
  <2>1. now \in Nat /\ now' = now + 1 /\ UNCHANGED <<held, once>>
    BY <1>7 DEF Tick, Inv, TypeOK
  <2>2. SUFFICES ASSUME NEW k \in Keys, grants'[k] > now'
                 PROVE  \/ grants'[k] <= promise'[k] \/ k \in held' \/ k \in left'
                        \/ \E i \in Calls : k \in once'[i]
    BY DEF GrantsAreBacked
  <2>3. grants'[k] = grants[k] /\ grants[k] > now'
    BY <1>7, <2>1, <2>2 DEF Tick, Pruned
  <2>4. grants[k] \in Nat /\ promise[k] \in Nat /\ grants[k] > now
    BY <2>1, <2>3 DEF Inv, TypeOK
  <2>5. CASE grants[k] <= promise[k]
    <3>1. promise'[k] = promise[k]
      BY <1>7, <2>1, <2>3, <2>4, <2>5 DEF Tick, Pruned
    <3>2. QED BY <2>3, <2>5, <3>1
  <2>6. CASE k \in left
    BY <1>7, <2>3, <2>6 DEF Tick
  <2>7. QED BY <2>1, <2>4, <2>5, <2>6 DEF Inv, GrantsAreBacked
<1>8. QED BY <1>2, <1>3, <1>4, <1>5, <1>6, <1>7 DEF Next, BatchStep

------------------------------------------------------------------------------
(* Refusals *)

(* A step of a call changes no other call's stage and no other's grants.   *)
LEMMA OthersStay ==
  ASSUME Inv, NEW i \in Calls, NEW x, Move(i, x)
  PROVE  st'[i] = x /\ \A j \in Calls \ {i} : st'[j] = st[j]
BY DEF Inv, TypeOK, Move

(* Every step keeps the one-time grants where they will be revoked.        *)
LEMMA NextTidy ==
  ASSUME Inv, [Next]_vars
  PROVE  GrantsTidy'
<1> USE DEF Inv, GrantsTidy
<1>1. CASE CallStep
  <2>1. PICK i \in Calls :
          /\ SameBatch /\ i \in DOMAIN batch /\ pc = "running"
          /\ st[i] \in Busy \cup Question \cup {"checking"}
          /\ Over(i) \/ Refused(i) \/ Steps(i) \/ Gets(i) \/ Breaks(i)
    BY <1>1, CallCases DEF CallStep
  <2>2. pc' = "running"
    BY <2>1 DEF SameBatch
  <2>3. once \in [Calls -> SUBSET Keys]
    BY DEF TypeOK
  <2>4. CASE Over(i) \/ Refused(i)
    <3>1. Finish(i)
      BY <2>4 DEF Over, Refused
    <3>2. once' = [once EXCEPT ![i] = {}] /\ \A j \in Calls \ {i} : st'[j] = st[j]
      BY <3>1, OthersStay DEF Finish
    <3>3. QED BY <2>2, <2>3, <3>2
  <2>5. CASE Steps(i)
    <3>1. PICK x \in Busy \cup Question :
            /\ Move(i, x) /\ UNCHANGED <<once, held>>
            /\ x \notin Busy => st[i] \notin Busy
      BY <2>5 DEF Steps, grantVars, Busy, Question, Replies
    <3>2. st'[i] = x /\ \A j \in Calls \ {i} : st'[j] = st[j]
      BY <3>1, OthersStay
    <3>3. QED BY <2>2, <3>1, <3>2 DEF Busy
  <2>6. CASE Gets(i)
    <3>1. Move(i, "ready") /\ \E keys : once' = [once EXCEPT ![i] = keys]
      BY <2>6 DEF Gets, Allowed
    <3>2. st'[i] = "ready" /\ \A j \in Calls \ {i} : st'[j] = st[j]
      BY <3>1, OthersStay
    <3>3. QED BY <2>2, <2>3, <3>1, <3>2 DEF Busy
  <2>7. CASE Breaks(i)
    <3>1. Move(i, "done") /\ once' = [once EXCEPT ![i] = {}]
      BY <2>7 DEF Breaks, CallRaises
    <3>2. once' = [once EXCEPT ![i] = {}] /\ \A j \in Calls \ {i} : st'[j] = st[j]
      BY <3>1, OthersStay
    <3>3. QED BY <2>2, <2>3, <3>2
  <2>8. QED BY <2>1, <2>4, <2>5, <2>6, <2>7
<1>2. CASE StartGroup
  <2>1. PICK first \in Waiting :
          st' = [i \in Calls |-> IF i \in Group(first) THEN "checking" ELSE st[i]]
    BY <1>2 DEF StartGroup
  <2>2. \A i \in Group(first) : once[i] = {}
    BY GroupWaits DEF Waiting, Busy
  <2>3. QED BY <1>2, <2>1, <2>2 DEF StartGroup, grantVars
<1>3. CASE NewBatch
  <2>1. held' = {} /\ once' = once /\ \A i \in Calls : once[i] = {}
    BY <1>3 DEF NewBatch, AnswerPending, grantVars, Busy
  <2>2. QED BY <2>1
<1>4. CASE BatchDone \/ Cancel \/ BatchRaises
  <2>1. held' = {} /\ \A i \in Calls : once'[i] = {}
    BY <1>4 DEF BatchDone, Cancel, BatchRaises, Abandoned, Busy
  <2>2. QED BY <2>1
<1>5. CASE BatchAnswered \/ BatchAllowed \/ BatchRefused
  BY <1>5 DEF BatchAnswered, BatchAllowed, BatchRefused, grantVars, Replies
<1>6. CASE Interrupt \/ OtherTurnBegins \/ ClearGrants \/ Tick \/ UNCHANGED vars
  BY <1>6 DEF Interrupt, OtherTurnBegins, ClearGrants, Tick, vars, batchVars, grantVars
<1>7. QED BY <1>1, <1>2, <1>3, <1>4, <1>5, <1>6 DEF Next, BatchStep

(* Every step keeps the question of the batch where it belongs.            *)
LEMMA NextPending ==
  ASSUME Inv, [Next]_vars
  PROVE  AnswerPending'
<1> USE DEF Inv, AnswerPending
<1>1. CASE CallStep
  <2>1. PICK i \in Calls :
          /\ SameBatch /\ i \in DOMAIN batch /\ pc = "running"
          /\ Over(i) \/ Refused(i) \/ Steps(i) \/ Gets(i) \/ Breaks(i)
    BY <1>1, CallCases DEF CallStep
  <2>2. cands' = cands /\ reviewer' = reviewer /\ pc' = "running"
    BY <2>1 DEF SameBatch, flags
  <2>3. cands \subseteq Calls
    BY CandsAreCalls
  <2>4. \E x : Move(i, x) /\ (x \in Question => i \notin cands)
    BY <2>1 DEF Over, Refused, Finish, Steps, Gets, Allowed, Breaks, CallRaises, Busy, Question, Replies
  <2>5. \A j \in cands : st'[j] \notin Question
    BY <2>3, <2>4, OthersStay
  <2>6. QED BY <2>2, <2>5 DEF Question, Replies
<1>2. CASE NewBatch
  <2>1. cands' # {} => ~reviewer' /\ pc' = "asking"
    BY <1>2 DEF NewBatch
  <2>2. \A i \in cands' : st'[i] \in {"none", "waiting"}
    <3>1. cands' \subseteq DOMAIN batch' /\ DOMAIN batch' = 1 .. Len(batch')
          /\ Len(batch') \in Nat /\ Len(batch') <= MaxCalls
      BY <1>2, NewBatchType
    <3>2. cands' \subseteq Calls
      BY <3>1, ApprovalsAssumption DEF Calls
    <3>3. QED BY <1>2, <3>2, NewBatchType
  <2>3. pc' \in {"asking", "running"} /\ answer' = "none" /\ refused' = {}
    BY <1>2 DEF NewBatch
  <2>4. QED BY <1>2, <2>1, <2>2, <2>3, NewBatchType DEF Question, Replies
<1>3. CASE StartGroup
  <2>1. \A i \in cands : i \in Calls /\ st'[i] \notin Question
    <3>1. cands \subseteq Calls
      BY CandsAreCalls
    <3>2. QED BY <1>3, <3>1 DEF StartGroup, Question, Replies
  <2>2. QED BY <1>3, <2>1 DEF StartGroup, flags, Question, Replies
<1>4. CASE BatchDone \/ Cancel \/ BatchRaises
  <2>1. cands' = {} /\ refused' = {} /\ pc' = "idle" /\ \A i \in Calls : st'[i] = "none"
    BY <1>4 DEF BatchDone, Cancel, BatchRaises, Abandoned, NoCalls
  <2>2. QED BY <2>1 DEF Question, Replies
<1>5. CASE BatchAnswered \/ BatchAllowed \/ BatchRefused
  BY <1>5 DEF BatchAnswered, BatchAllowed, BatchRefused, flags, Question, Replies
<1>6. CASE Interrupt \/ OtherTurnBegins \/ ClearGrants \/ Tick \/ UNCHANGED vars
  BY <1>6 DEF Interrupt, OtherTurnBegins, ClearGrants, Tick, vars, batchVars, flags
<1>7. QED BY <1>1, <1>2, <1>3, <1>4, <1>5, <1>6 DEF Next, BatchStep

(* A key that was missing stays so while the grants and the clock only     *)
(* move against it.                                                        *)
LEMMA StillMissingStays ==
  ASSUME Inv, UNCHANGED <<batch, cands>>,
         pc' \in Question \/ answer' = "deny" => pc \in Question \/ answer = "deny",
         \A k \in Keys : OnlyCandsNeed(k) /\ grants[k] <= now => grants'[k] <= now'
  PROVE  StillMissing'
<1>1. SUFFICES ASSUME pc' \in Question \/ answer' = "deny", NEW i \in cands
               PROVE  \E k \in KeysOf[batch[i]] : grants'[k] <= now' /\ OnlyCandsNeed(k)
  BY DEF StillMissing, Missing, OnlyCandsNeed
<1>2. PICK k \in Missing(batch[i]) : OnlyCandsNeed(k)
  BY <1>1 DEF Inv, StillMissing
<1>3. k \in KeysOf[batch[i]] /\ k \in Keys /\ grants[k] <= now
  BY <1>2, KeysTyped DEF Missing, Inv, TypeOK
<1>4. QED BY <1>2, <1>3

(* Every step keeps a key missing for each candidate that is refused or    *)
(* still to be answered.                                                   *)
LEMMA NextMissing ==
  ASSUME Inv, [Next]_vars
  PROVE  StillMissing'
<1>1. ASSUME UNCHANGED <<batch, cands, grants>>, now' \in {now, now + 1},
             pc' \in Question \/ answer' = "deny" => pc \in Question \/ answer = "deny"
      PROVE  StillMissing'
  <2>1. \A k \in Keys : grants[k] <= now => grants'[k] <= now'
    BY <1>1 DEF Inv, TypeOK
  <2>2. QED BY <1>1, <2>1, StillMissingStays
<1>2. CASE CallStep
  <2>1. PICK i \in Calls :
          /\ SameBatch /\ i \in DOMAIN batch /\ pc = "running"
          /\ Over(i) \/ Refused(i) \/ Steps(i) \/ Gets(i) \/ Breaks(i)
    BY <1>2, CallCases DEF CallStep
  <2>2. UNCHANGED <<batch, cands, answer, now, pc>>
    BY <2>1 DEF SameBatch
  <2>3. CASE Over(i) \/ Refused(i)
    <3>1. grants' = Revoked(grants, once[i]) /\ now' = now /\ now \in Nat
      BY <2>2, <2>3 DEF Over, Refused, Finish, Inv, TypeOK
    <3>2. \A k \in Keys : grants[k] <= now => grants'[k] <= now'
      BY <3>1 DEF Revoked
    <3>3. QED BY <2>2, <3>2, StillMissingStays
  <2>4. CASE Steps(i)
    BY <1>1, <2>2, <2>4 DEF Steps, grantVars
  <2>5. CASE Gets(i)
    <3>1. CASE answer = "deny"
      <4>1. i \notin cands
        BY <2>5, <3>1 DEF Gets
      <4>2. \A k \in Keys : OnlyCandsNeed(k) => k \notin KeysOf[batch[i]]
        BY <2>1, <4>1 DEF OnlyCandsNeed
      <4>3. \A k \in Keys : k \notin KeysOf[batch[i]] => grants'[k] = grants[k]
        BY <2>5 DEF Gets, Allowed, Granted
      <4>4. QED BY <2>2, <4>2, <4>3, StillMissingStays
    <3>2. CASE answer # "deny"
      BY <2>1, <2>2, <3>2 DEF StillMissing, Question, Replies
    <3>3. QED BY <3>1, <3>2
  <2>6. CASE Breaks(i)
    BY <1>1, <2>2, <2>6 DEF Breaks, CallRaises
  <2>7. QED BY <2>1, <2>3, <2>4, <2>5, <2>6
<1>3. CASE NewBatch
  <2>1. SUFFICES ASSUME NEW i \in cands'
                 PROVE  \E k \in Missing(batch[i])' : OnlyCandsNeed(k)'
    BY DEF StillMissing
  <2>2. cands' = Candidates(batch') /\ UNCHANGED <<grants, now>>
    BY <1>3, <2>1 DEF NewBatch, grantVars
  <2>3. PICK k \in KeysOf[batch'[i]] : grants[k] <= now
    BY <2>2 DEF Candidates, Asks, Missing
  <2>4. \A j \in DOMAIN batch' : k \in KeysOf[batch'[j]] => j \in cands'
    BY <2>2, <2>3 DEF Candidates, Asks, Missing
  <2>5. QED BY <2>2, <2>3, <2>4 DEF Missing, OnlyCandsNeed
<1>4. CASE BatchDone \/ Cancel \/ BatchRaises
  <2>1. cands' = {}
    BY <1>4 DEF BatchDone, Cancel, BatchRaises, Abandoned
  <2>2. QED BY <2>1 DEF StillMissing
<1>5. CASE BatchAllowed
  <2>1. pc' = "running" /\ answer' # "deny"
    BY <1>5 DEF BatchAllowed
  <2>2. QED BY <2>1 DEF StillMissing, Question, Replies
<1>6. CASE ClearGrants
  <2>1. UNCHANGED <<batch, cands, pc, answer, now>> /\ \A k \in Keys : grants'[k] = 0
    BY <1>6 DEF ClearGrants, batchVars
  <2>2. QED BY <2>1, StillMissingStays DEF Inv, TypeOK
<1>7. CASE BatchAnswered \/ BatchRefused \/ StartGroup \/ Interrupt \/ OtherTurnBegins \/ UNCHANGED vars
  BY <1>1, <1>7
  DEF BatchAnswered, BatchRefused, Question, StartGroup, Interrupt, OtherTurnBegins, vars, batchVars, grantVars
<1>8. CASE Tick
  <2>1. UNCHANGED <<batch, cands, pc, answer>> /\ now \in Nat /\ now' = now + 1
    BY <1>8 DEF Tick, batchVars, Inv, TypeOK
  <2>2. \A k \in Keys : grants[k] <= now => grants'[k] <= now'
    BY <1>8, <2>1 DEF Tick, Pruned, Inv, TypeOK
  <2>3. QED BY <2>1, <2>2, StillMissingStays
<1>9. QED BY <1>2, <1>3, <1>4, <1>5, <1>6, <1>7, <1>8 DEF Next, BatchStep

(* Every step leaves a refused call where it is, or at its end.            *)
LEMMA NextRefusal ==
  ASSUME Inv, [Next]_vars
  PROVE  RefusalKept'
<1> USE DEF Inv, RefusalKept
<1>1. refused \subseteq Calls
  BY DEF TypeOK
<1>2. CASE CallStep
  <2>1. PICK i \in Calls :
          /\ SameBatch /\ i \in DOMAIN batch /\ pc = "running"
          /\ st[i] \in Busy \cup Question \cup {"checking"}
          /\ Over(i) \/ Refused(i) \/ Steps(i) \/ Gets(i) \/ Breaks(i)
    BY <1>2, CallCases DEF CallStep
  <2>2. UNCHANGED <<batch, cands, answer, pc>>
    BY <2>1 DEF SameBatch
  <2>3. CASE Over(i) \/ Refused(i)
    <3>1. Move(i, "done") /\ refused' \subseteq refused \cup {i}
      BY <2>3 DEF Over, Refused, Finish
    <3>2. st'[i] = "done" /\ \A j \in Calls \ {i} : st'[j] = st[j]
      BY <3>1, OthersStay
    <3>3. QED BY <1>1, <2>2, <3>1, <3>2
  <2>4. CASE Steps(i)
    <3>1. PICK x \in Busy \cup Question :
            /\ Move(i, x) /\ refused' = IF x = "deny" THEN refused \cup {i} ELSE refused
            /\ x = "asking" => st[i] = "checking" /\ i \notin cands
            /\ x \in Replies => st[i] = "asking"
            /\ x \in Busy => st[i] \in Busy \/ (st[i] = "checking" /\ Missing(batch[i]) = {})
      BY <2>4 DEF Steps
    <3>2. i \in refused => FALSE
      <4>1. SUFFICES ASSUME i \in refused PROVE FALSE
        OBVIOUS
      <4>2. i \in cands /\ answer = "deny" /\ st[i] = "checking"
        BY <2>1, <3>1, <4>1 DEF Busy, Question, Replies
      <4>3. Missing(batch[i]) # {}
        BY <4>2 DEF StillMissing
      <4>4. QED BY <3>1, <4>2, <4>3 DEF Busy, Question
    <3>3. st'[i] = x /\ \A j \in Calls \ {i} : st'[j] = st[j]
      BY <3>1, OthersStay
    <3>4. QED BY <1>1, <2>2, <3>1, <3>2, <3>3
  <2>5. CASE Gets(i)
    <3>1. Move(i, "ready") /\ refused' = refused
      BY <2>5 DEF Gets, Allowed
    <3>2. i \notin refused
      BY <2>1, <2>5 DEF Gets
    <3>3. QED BY <1>1, <2>2, <3>1, <3>2, OthersStay
  <2>6. CASE Breaks(i)
    <3>1. Move(i, "done") /\ refused' = refused
      BY <2>6 DEF Breaks, CallRaises
    <3>2. st'[i] = "done" /\ \A j \in Calls \ {i} : st'[j] = st[j]
      BY <3>1, OthersStay
    <3>3. QED BY <1>1, <2>2, <3>1, <3>2
  <2>7. QED BY <2>1, <2>3, <2>4, <2>5, <2>6
<1>3. CASE StartGroup
  <2>1. PICK first \in Waiting :
          st' = [i \in Calls |-> IF i \in Group(first) THEN "checking" ELSE st[i]]
    BY <1>3 DEF StartGroup
  <2>2. \A i \in Group(first) : st[i] = "waiting"
    BY GroupWaits DEF Waiting
  <2>3. UNCHANGED <<cands, answer, pc, refused>>
    BY <1>3 DEF StartGroup
  <2>4. QED BY <1>1, <2>1, <2>2, <2>3
<1>4. CASE BatchAnswered \/ BatchRefused
  <2>1. /\ UNCHANGED <<cands, st>> /\ pc \in Question /\ refused' \in {cands, {}}
        /\ refused' # {} => pc' = "deny" \/ answer' = "deny"
    BY <1>4 DEF BatchAnswered, BatchRefused, Question
  <2>2. \A i \in cands : st[i] = "waiting"
    <3>1. \A i \in cands : i \in DOMAIN batch /\ i \in Calls
      BY CandsAreCalls DEF TypeOK
    <3>2. QED BY <2>1, <3>1 DEF TypeOK, AnswerPending
  <2>3. QED BY <2>1, <2>2
<1>5. CASE BatchAllowed
  <2>1. refused' = {}
    BY <1>5 DEF BatchAllowed, AnswerPending, Question, Replies
  <2>2. QED BY <2>1
<1>6. CASE NewBatch \/ BatchDone \/ Cancel \/ BatchRaises
  <2>1. refused' = {}
    BY <1>6 DEF NewBatch, BatchDone, Cancel, BatchRaises, Abandoned
  <2>2. QED BY <2>1
<1>7. CASE Interrupt \/ OtherTurnBegins \/ ClearGrants \/ Tick \/ UNCHANGED vars
  BY <1>7 DEF Interrupt, OtherTurnBegins, ClearGrants, Tick, vars, batchVars
<1>8. QED BY <1>2, <1>3, <1>4, <1>5, <1>6, <1>7 DEF Next, BatchStep

------------------------------------------------------------------------------
(* Theorems *)

(* The conjuncts hold when a session starts.                               *)
LEMMA InitInv == Init => Inv
<1> SUFFICES ASSUME Init PROVE Inv
  OBVIOUS
<1>1. TypeOK
  <2>1. batch \in Seq(Tools) /\ Len(batch) <= MaxCalls /\ DOMAIN batch = {}
    BY ApprovalsAssumption DEF Init
  <2>2. st \in [Calls -> Stages] /\ \A i \in Calls : st[i] = "none"
    BY DEF Init, NoCalls, Stages
  <2>3. grants \in [Keys -> Nat] /\ promise \in [Keys -> Nat] /\ once \in [Calls -> SUBSET Keys]
    BY DEF Init
  <2>4. QED BY <2>1, <2>2, <2>3 DEF Init, TypeOK
<1>2. GrantsTidy /\ AnswerPending /\ StillMissing /\ RefusalKept /\ GrantsAreBacked
  BY DEF Init, GrantsTidy, AnswerPending, StillMissing, RefusalKept, GrantsAreBacked, NoCalls, Question, Replies
<1>3. QED BY <1>1, <1>2 DEF Inv

(* They hold together in every state.                                      *)
THEOREM InvCorrect == Spec => []Inv
<1>1. Inv /\ [Next]_vars => Inv'
  BY NextType, NextBacked, NextTidy, NextPending, NextMissing, NextRefusal DEF Inv
<1>2. QED BY <1>1, InitInv, PTL DEF Spec

(* The state of a session and of its batch keeps its types: calls stand    *)
(* where execute_tool_calls can have put them.                             *)
THEOREM TypeCorrect == Spec => []TypeOK
<1>1. Inv => TypeOK
  BY DEF Inv
<1>2. QED BY <1>1, InvCorrect, PTL

(* A grant in force was given for good, or serves the batch or a call that *)
(* is under way, or was left behind by one that broke off: the revocations *)
(* of execute_tool_calls and of _finish forget no other.                   *)
THEOREM GrantsBacked == Spec => []GrantsAreBacked
<1>1. Inv => GrantsAreBacked
  BY DEF Inv
<1>2. QED BY <1>1, InvCorrect, PTL

(* A call that was refused is not dispatched, whatever the other calls are *)
(* granted, and whatever expires or is cleared before its turn comes.      *)
THEOREM RefusedStaysRefused == Spec => []RefusedNeverRuns
<1>1. Inv => RefusedNeverRuns
  BY DEF Inv, RefusalKept, RefusedNeverRuns
<1>2. QED BY <1>1, InvCorrect, PTL
=============================================================================
