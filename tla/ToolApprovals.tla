--------------------------- MODULE ToolApprovals ---------------------------
(***************************************************************************)
(* The tool calls of one session: execute_tool_calls runs a batch of calls *)
(* in order, parallel-safe neighbours together; each call is checked       *)
(* against the grants of the session, the user is asked for what is        *)
(* missing, and the answers become grants with an expiry.                  *)
(*                                                                         *)
(* A key is a tool identity or a resource outside the profile of the mode. *)
(* Time is counted in units of the one-time grants' life. No hook matches  *)
(* the tools and no handler calls other tools.                             *)
(***************************************************************************)
EXTENDS Integers, Sequences, FiniteSets

CONSTANTS
  Tools,       \* the names of the tools
  Keys,        \* the tool keys and the resource keys outside the profile
  KeysOf,      \* KeysOf[t]: the keys a call of t needs: what grant_prepared_call grants
  Prompt,      \* the tools with approval mode "prompt"
  Parallel,    \* the tools that are parallel-safe and not destructive
  Idempotent,  \* the tools that are retried once
  Ttl,         \* _security_grant_ttl_seconds; a one-time grant lives for 1
  MaxCalls,    \* bound on the calls of a batch
  MaxBatches,  \* bound on the batches
  MaxTime,     \* bound on the clock
  MaxStops     \* bound on the stops and on the clearings

ASSUME ApprovalsAssumption ==
  /\ KeysOf \in [Tools -> SUBSET Keys]
  /\ Prompt \cup Parallel \cup Idempotent \subseteq Tools
  /\ Ttl \in Nat \ {0} /\ MaxCalls \in Nat /\ MaxBatches \in Nat
  /\ MaxTime \in Nat /\ MaxStops \in Nat

Calls == 1 .. MaxCalls
Once == 1

VARIABLES
  batch,       \* the calls of the batch after deduplication, by their tools
  pc,          \* idle, asking (one question for the batch), its reply, running
  st,          \* st[i]: where call i stands; a reply, until it resumes with it
  cands,       \* the calls the batch was asked about
  answer,      \* the answer for them
  held,        \* one_time_tool_keys and one_time_resource_keys of the batch
  once,        \* once[i]: one_time_security_grants of call i
  grants,      \* grants[k]: expires_at of the session's grant, 0 without one
  now,         \* the clock
  reviewer,    \* approval_reviewer is enabled
  stopping,    \* agent._interrupt_requested
  interrupted, \* the executor's _interrupted, one for all sessions
  promise,     \* history: until when the user allowed a key for good
  refused,     \* history: the calls of the batch that were refused
  left,        \* history: keys whose one-time grants a call that broke off left behind
  used         \* history: batches, stops and clearings so far

batchVars == <<batch, pc, st, cands, answer>>
grantVars == <<held, once, grants, promise, left>>
flags == <<reviewer, stopping, interrupted>>
vars == <<batchVars, grantVars, now, flags, refused, used>>

NoCalls == [i \in Calls |-> "none"]

Init ==
  /\ batch = <<>> /\ pc = "idle" /\ st = NoCalls
  /\ cands = {} /\ answer = "none"
  /\ held = {} /\ once = [i \in Calls |-> {}]
  /\ grants = [k \in Keys |-> 0] /\ now = 0
  /\ reviewer \in BOOLEAN /\ stopping = FALSE /\ interrupted = FALSE
  /\ promise = [k \in Keys |-> 0] /\ refused = {} /\ left = {}
  /\ used = [batches |-> 0, stops |-> 0]

------------------------------------------------------------------------------
(* Grants *)

\* Wrong: one key in force is enough.
MissingUnlessAny(t) == IF \E k \in KeysOf[t] : grants[k] > now THEN {} ELSE KeysOf[t]

\* evaluate_tool_security: what the call would have to ask for.
Missing(t) == {k \in KeysOf[t] : grants[k] <= now}
Asks(t) == Missing(t) # {}

\* An "allow", and any answer for a tool that prompts every time, serves once.
OneTime(t, ans) == ans = "allow" \/ t \in Prompt

\* Wrong: nothing is revoked.
NotRevoked(g, keys) == g

\* revoke_grants.
Revoked(g, keys) == [k \in Keys |-> IF k \in keys THEN 0 ELSE g[k]]

\* grant_prepared_call for one call.
Granted(t, ans) ==
  [k \in Keys |-> IF k \notin KeysOf[t] THEN grants[k]
                  ELSE IF OneTime(t, ans) THEN now + Once ELSE now + Ttl]
Promised(keys) == [k \in Keys |-> IF k \in keys THEN now + Ttl ELSE promise[k]]

\* The same for the calls of a batch, one after the other: the last call that
\* needs a key decides how long its grant lives.
LastNeeding(k) ==
  CHOOSE i \in cands : /\ k \in KeysOf[batch[i]]
                       /\ \A j \in cands : k \in KeysOf[batch[j]] => j <= i
BatchKeys(calls) == UNION {KeysOf[batch[i]] : i \in calls}
BatchGranted(ans) ==
  [k \in Keys |-> IF k \notin BatchKeys(cands) THEN grants[k]
                  ELSE IF OneTime(batch[LastNeeding(k)], ans) THEN now + Once ELSE now + Ttl]

------------------------------------------------------------------------------
(* The batch *)

\* What _confirm_tool_decision looks at before it asks.
Stopped == stopping \/ interrupted

Replies == {"allow", "always", "deny"}
Candidates(calls) == {i \in DOMAIN calls : Asks(calls[i])}

\* A turn that was not stopped calls tools. _prepare_batch_confirmation: two calls
\* or more that need the user are put to him as one question, unless a reviewer
\* looks at each of them.
NewBatch ==
  /\ pc = "idle" /\ used.batches < MaxBatches
  /\ \E n \in Calls, calls \in [1 .. MaxCalls -> Tools] :
       /\ batch' = [i \in 1 .. n |-> calls[i]]
       /\ st' = [i \in Calls |-> IF i <= n THEN "waiting" ELSE "none"]
  /\ IF Cardinality(Candidates(batch')) >= 2 /\ ~reviewer
     THEN pc' = "asking" /\ cands' = Candidates(batch')
     ELSE pc' = "running" /\ cands' = {}
  /\ answer' = "none" /\ refused' = {}
  /\ stopping' = FALSE /\ interrupted' = FALSE
  /\ used' = [used EXCEPT !.batches = @ + 1]
  /\ UNCHANGED <<grantVars, now, reviewer>>

\* resolve_message: the future has its result before the batch resumes with it.
BatchAnswered ==
  /\ pc = "asking"
  /\ \E ans \in Replies :
       /\ pc' = ans
       /\ refused' = IF ans = "deny" THEN cands ELSE {}
  /\ UNCHANGED <<batch, st, cands, answer, grantVars, now, flags, used>>

BatchAllowed ==
  /\ pc \in {"allow", "always"}
  /\ LET single == BatchKeys({i \in cands : OneTime(batch[i], pc)})
         lasting == BatchKeys({i \in cands : ~OneTime(batch[i], pc)})
     IN /\ answer' = pc
        /\ grants' = BatchGranted(pc)
        /\ held' = single
        /\ promise' = Promised(lasting \ single)
        /\ left' = left \ BatchKeys(cands)
  /\ pc' = "running"
  /\ UNCHANGED <<batch, st, cands, once, now, flags, refused, used>>

\* A "deny"; or an interrupt, a timeout, a prompt that cannot be sent or a callback
\* that raises, for which an answer that has just been given is too late.
BatchRefused ==
  /\ pc \in {"asking"} \cup Replies
  /\ answer' = "deny" /\ refused' = cands
  /\ pc' = "running"
  /\ UNCHANGED <<batch, st, cands, grantVars, now, flags, used>>

\* A parallel-safe call that needs nothing from the user.
RunsAlongside(i) == batch[i] \in Parallel /\ ~Asks(batch[i])
Waiting == {i \in Calls : st[i] = "waiting"}

\* Wrong: a call that must run alone is never a group.
OnlyAlongside(first) == {i \in Waiting : \A j \in Waiting : j <= i => RunsAlongside(j)}

\* The next group: one call, or all the calls from there on that run alongside.
Group(first) ==
  IF RunsAlongside(first) THEN {i \in Waiting : \A j \in Waiting : j <= i => RunsAlongside(j)}
  ELSE {first}

StartGroup ==
  /\ pc = "running" /\ \A i \in Calls : st[i] \in {"none", "waiting", "done"}
  /\ \E first \in Waiting :
       /\ \A i \in Waiting : first <= i
       /\ st' = [i \in Calls |-> IF i \in Group(first) THEN "checking" ELSE st[i]]
  /\ UNCHANGED <<batch, pc, cands, answer, grantVars, now, flags, refused, used>>

BatchDone ==
  /\ pc = "running" /\ \A i \in Calls : st[i] \in {"none", "done"}
  /\ pc' = "idle" /\ st' = NoCalls /\ batch' = <<>>
  /\ cands' = {} /\ answer' = "none" /\ refused' = {}
  /\ grants' = Revoked(grants, held) /\ held' = {}
  /\ UNCHANGED <<once, now, flags, promise, left, used>>

------------------------------------------------------------------------------
(* One call *)

Move(i, state) == st' = [st EXCEPT ![i] = state]
SameBatch == UNCHANGED <<batch, pc, cands, answer, now, flags, used>>

\* _finish: the result is reported, the call's one-time grants are revoked.
Finish(i) ==
  /\ Move(i, "done")
  /\ grants' = Revoked(grants, once[i])
  /\ once' = [once EXCEPT ![i] = {}]
  /\ UNCHANGED <<held, promise, left>>

\* A guard rejects the call, its tool has the mode "deny", or it was interrupted.
CallRejected(i) ==
  /\ st[i] = "checking"
  /\ Finish(i)
  /\ UNCHANGED refused /\ SameBatch

CallClear(i) ==
  /\ st[i] = "checking" /\ ~interrupted
  /\ Missing(batch[i]) = {}
  /\ Move(i, "ready")
  /\ UNCHANGED <<grantVars, refused>> /\ SameBatch

\* The answer about call i: grants for all the keys of the call, and the guards
\* are evaluated again before anything else runs.
Allowed(i, ans) ==
  LET t == batch[i]
      keys == KeysOf[t]
  IN /\ Move(i, "ready")
     /\ grants' = Granted(t, ans)
     /\ once' = [once EXCEPT ![i] = IF OneTime(t, ans) THEN keys ELSE {}]
     /\ promise' = IF OneTime(t, ans) THEN promise ELSE Promised(keys)
     /\ left' = left \ keys
     /\ UNCHANGED <<held, refused>>

Refused(i) ==
  /\ Finish(i)
  /\ refused' = refused \cup {i}

Answered(i, ans) == IF ans \in {"allow", "always"} THEN Allowed(i, ans) ELSE Refused(i)

\* A call the batch was asked about takes the answer given for the batch.
CallRecalls(i) ==
  /\ st[i] = "checking" /\ i \in cands /\ Asks(batch[i])
  /\ Answered(i, IF Stopped THEN "interrupted" ELSE answer)
  /\ SameBatch

\* The reviewer answers, or leaves the question to the user.
CallReviewed(i) ==
  /\ st[i] = "checking" /\ reviewer /\ Asks(batch[i])
  /\ \E ans \in {"allow", "deny"} : Answered(i, ans)
  /\ SameBatch

\* One question is pending per session; a second one is refused at once.
CallAsks(i) ==
  /\ st[i] = "checking" /\ i \notin cands /\ Asks(batch[i])
  /\ IF Stopped \/ \E j \in Calls : st[j] = "asking"
     THEN Refused(i)
     ELSE Move(i, "asking") /\ UNCHANGED <<grantVars, refused>>
  /\ SameBatch

\* resolve_message: the future has its result before the call resumes with it.
UserAnswers(i) ==
  /\ st[i] = "asking"
  /\ \E ans \in Replies :
       /\ Move(i, ans)
       /\ refused' = IF ans = "deny" THEN refused \cup {i} ELSE refused
  /\ UNCHANGED grantVars /\ SameBatch

AnswerArrives(i) ==
  /\ st[i] \in Replies
  /\ Answered(i, st[i])
  /\ SameBatch

\* The wait ends without an answer, or before the one just given: a timeout, a
\* prompt that cannot be sent, a callback that raises, an interrupt (polled).
QuestionLost(i) ==
  /\ st[i] \in {"asking"} \cup Replies
  /\ Refused(i)
  /\ SameBatch

\* Before each attempt the interrupt is looked at, the grants are not.
Dispatch(i) ==
  /\ st[i] \in {"ready", "retry"}
  /\ IF interrupted THEN Finish(i)
     ELSE Move(i, IF st[i] = "ready" THEN "running" ELSE "again") /\ UNCHANGED grantVars
  /\ UNCHANGED refused /\ SameBatch

HandlerFails(i) ==
  /\ st[i] = "running" /\ batch[i] \in Idempotent
  /\ Move(i, "retry")
  /\ UNCHANGED <<grantVars, refused>> /\ SameBatch

\* It returned, timed out or failed for good.
HandlerEnds(i) ==
  /\ st[i] \in {"running", "again"}
  /\ Finish(i)
  /\ UNCHANGED refused /\ SameBatch

\* A hook, the event sink or the artifact store raises.
MayRaise(i) == st[i] \in {"checking", "ready", "running", "retry", "again"}

\* gather makes an error result of it, and the call's one-time grants stay.
CallRaises(i) ==
  /\ MayRaise(i) /\ batch[i] \in Parallel
  /\ Move(i, "done")
  /\ left' = left \cup once[i]
  /\ once' = [once EXCEPT ![i] = {}]
  /\ UNCHANGED <<held, grants, promise, refused>> /\ SameBatch

CallStep ==
  \E i \in Calls :
    \/ CallRejected(i) \/ CallClear(i) \/ CallRecalls(i) \/ CallReviewed(i) \/ CallAsks(i)
    \/ UserAnswers(i) \/ AnswerArrives(i) \/ QuestionLost(i)
    \/ Dispatch(i) \/ HandlerFails(i) \/ HandlerEnds(i) \/ CallRaises(i)

------------------------------------------------------------------------------
(* Around the batch *)

\* request_stop: the executor's flag is set only while it waits for a handler or
\* an answer, and taken back otherwise.
Waits ==
  \/ pc \in {"asking"} \cup Replies
  \/ \E i \in Calls : st[i] \in {"asking", "running", "again"} \cup Replies

Interrupt ==
  /\ pc # "idle" /\ used.stops < MaxStops
  /\ stopping' = TRUE /\ interrupted' = Waits
  /\ used' = [used EXCEPT !.stops = @ + 1]
  /\ UNCHANGED <<batchVars, grantVars, now, reviewer, refused>>

\* A turn of another session begins and clears the executor's flag.
OtherTurnBegins ==
  /\ interrupted
  /\ interrupted' = FALSE
  /\ UNCHANGED <<batchVars, grantVars, now, reviewer, stopping, refused, used>>

\* execute_tool_calls is left by an exception: the batch revokes its own one-time
\* grants on the way out, the calls do not.
Abandoned ==
  /\ pc' = "idle" /\ st' = NoCalls /\ batch' = <<>>
  /\ cands' = {} /\ answer' = "none" /\ refused' = {}
  /\ grants' = Revoked(grants, held) /\ held' = {}
  /\ left' = left \cup UNION {once[i] : i \in Calls}
  /\ once' = [i \in Calls |-> {}]
  /\ UNCHANGED <<now, flags, promise>>

\* The task of the turn is cancelled.
Cancel ==
  /\ pc # "idle" /\ used.stops < MaxStops
  /\ used' = [used EXCEPT !.stops = @ + 1]
  /\ Abandoned

\* A call that is not gathered with others raises.
BatchRaises ==
  /\ \E i \in Calls : MayRaise(i) /\ \A j \in Calls \ {i} : st[j] \in {"none", "waiting", "done"}
  /\ Abandoned
  /\ UNCHANGED used

\* set_mode and /deny all.
ClearGrants ==
  /\ used.stops < MaxStops
  /\ used' = [used EXCEPT !.stops = @ + 1]
  /\ grants' = [k \in Keys |-> 0]
  /\ promise' = [k \in Keys |-> 0] /\ left' = {}
  /\ UNCHANGED <<batchVars, held, once, now, flags, refused>>

\* prune_expired: every evaluation begins with it, and nothing else reads a grant.
Pruned(expiry, time) == [k \in Keys |-> IF expiry[k] > time THEN expiry[k] ELSE 0]

Tick ==
  /\ now < MaxTime
  /\ now' = now + 1
  /\ grants' = Pruned(grants, now') /\ promise' = Pruned(promise, now')
  /\ left' = {k \in left : grants[k] > now'}
  /\ UNCHANGED <<batchVars, held, once, flags, refused, used>>

BatchStep == BatchAnswered \/ BatchAllowed \/ BatchRefused \/ StartGroup \/ BatchDone \/ CallStep \/ BatchRaises
Next == NewBatch \/ BatchStep \/ Interrupt \/ OtherTurnBegins \/ Cancel \/ ClearGrants \/ Tick

\* Questions and handlers have timeouts, and the event loop runs what can run.
Spec == Init /\ [][Next]_vars /\ WF_vars(BatchStep)

------------------------------------------------------------------------------
(* Properties *)

Stages ==
  {"none", "waiting", "checking", "asking", "ready", "running", "retry", "again", "done"} \cup Replies

TypeOK ==
  /\ batch \in Seq(Tools) /\ Len(batch) <= MaxCalls
  /\ pc \in {"idle", "asking", "running"} \cup Replies /\ st \in [Calls -> Stages]
  /\ \A i \in Calls : st[i] # "none" <=> i \in DOMAIN batch
  /\ cands \subseteq DOMAIN batch /\ answer \in {"none", "allow", "always", "deny"}
  /\ held \subseteq Keys /\ left \subseteq Keys /\ once \in [Calls -> SUBSET Keys]
  /\ grants \in [Keys -> Nat] /\ promise \in [Keys -> Nat] /\ now \in Nat
  /\ {reviewer, stopping, interrupted} \subseteq BOOLEAN /\ refused \subseteq Calls
  /\ used \in [batches : Nat, stops : Nat]

\* A grant in force is one the user gave for good and that still runs, or serves
\* the batch or a call under way; only a call that broke off leaves another behind.
GrantsAreBacked ==
  \A k \in Keys : grants[k] > now =>
    grants[k] <= promise[k] \/ k \in held \/ k \in left \/ \E i \in Calls : k \in once[i]

\* A call that was refused, alone or with its batch, does not run, whatever is
\* granted to the other calls, expires or is revoked meanwhile, and however the
\* answer races the end of the wait for it.
RefusedNeverRuns == \A i \in refused : st[i] \notin {"ready", "running", "retry", "again"}

\* Every batch ends: with a result for each call, or cancelled.
EveryBatchEnds == pc # "idle" ~> pc = "idle"

------------------------------------------------------------------------------
(* What the documents say and the code does not do. *)

\* docs/configuration.md:386: what was allowed for good is not asked for again
\* before its time is over.
LastingGrantsLast == \A k \in Keys : promise[k] > now => grants[k] > now
=============================================================================
