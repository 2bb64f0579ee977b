------------------------------ MODULE AgentTurn ------------------------------
(***************************************************************************)
(* One conversation turn: ConversationService.run_turn_input_events, the   *)
(* loop of run_conversation, the steer signals of ActiveTurnRegistry, the  *)
(* compaction of the context while a turn runs, and what is saved.         *)
(*                                                                         *)
(* One session, whose turns the coordinator runs one after the other. A    *)
(* message is a record of its kind and a number: "ask" is the user message *)
(* of turn n, "steer" the message made of pending signals, "call" and      *)
(* "result" the tool_use and tool_result blocks of the turn's n-th batch,  *)
(* "told" a tool result reloaded as plain text.                            *)
(*                                                                         *)
(* `stored` is what SessionStore holds for the session id the compression  *)
(* chain resolves to. A checkpoint makes it a new window in one step: the  *)
(* chain is linked after the last row.                                     *)
(***************************************************************************)
EXTENDS Integers, Sequences, FiniteSets

CONSTANTS
  MaxIterations,  \* agent.max_iterations
  MaxTries,       \* RetryState's limits: MAX_INVALID_JSON, MAX_INVALID_TOOL, MAX_EMPTY_CONTENT
  MaxIdentical,   \* MAX_IDENTICAL_SUCCESSFUL_TOOL_CALLS
  MaxPending,     \* MAX_PENDING_PER_SESSION
  Compressor,     \* the agent has a context compressor
  ImageTurns,     \* the turns whose input carries an image
  Budgets,        \* how many messages back the tail and the retained user messages reach
  Earlier,        \* what the session holds at the start
  MaxTurns,       \* bound on the turns
  MaxSteers,      \* bound on the steer signals
  MaxStops        \* bound on the stops

Turns == 1 .. MaxTurns
Steers == 1 .. MaxSteers

\* A response that cannot be parsed, tool calls with empty arguments, no text and no tools.
Defects == {"json", "tool", "empty"}

ASSUME LimitsAssumption ==
  /\ {MaxIterations, MaxIdentical, MaxPending} \subseteq Nat \ {0}
  /\ MaxTries \in [Defects -> Nat]
  /\ {MaxTurns, MaxSteers, MaxStops} \subseteq Nat
  /\ Compressor \in BOOLEAN /\ ImageTurns \subseteq Nat
  /\ Budgets \subseteq [tail : Nat, users : Nat]

Kinds == {"ask", "steer", "note", "told", "summary", "call", "result", "say"}
Msg(k, n) == [k |-> k, n |-> n]
Messages == [k : Kinds, n : 0 .. MaxTurns + MaxSteers + MaxIterations]

\* The questions of earlier turns are none of the turns modelled.
ASSUME EarlierAssumption ==
  Earlier \in Seq(Messages) /\ \A i \in DOMAIN Earlier : Earlier[i].k = "ask" => Earlier[i].n = 0

VARIABLES
  stored,    \* the rows of the session, oldest first
  turn,      \* the number of the turn, 0 before the first
  pc,        \* where the turn stands
  ctx,       \* TurnContext: messages, previous_count, current_turn_user_idx, compaction
  loop,      \* the locals of run_conversation and the agent's RetryState
  interrupt, \* agent._interrupt_requested
  signal,    \* signal[i]: status of the i-th steer signal
  queue,     \* the session's pending signals, oldest first
  rows,      \* the messages save_transcript still has to write
  outcome,   \* how the turn ended: running, completed, stopped, failed, lost
  seen,      \* history: signals whose message a model request contained
  stops      \* history: stops so far

vars == <<stored, turn, pc, ctx, loop, interrupt, signal, queue, rows, outcome, seen, stops>>

Ask == Msg("ask", turn)
Say == Msg("say", 0)
Summary == Msg("summary", 0)

NoContext == [messages |-> <<>>, previous |-> 0, user |-> 1, first |-> FALSE, mid |-> FALSE, image |-> FALSE]
NewLoop ==
  [budget |-> MaxIterations, tries |-> [d \in Defects |-> 0], postTool |-> FALSE, ran |-> FALSE,
   final |-> FALSE, hook |-> FALSE, overflow |-> FALSE, compacted |-> -1, batch |-> 0, same |-> 0]

Init ==
  /\ stored = Earlier /\ turn = 0 /\ pc = "idle"
  /\ ctx = NoContext /\ loop = NewLoop
  /\ interrupt = FALSE
  /\ signal = [i \in Steers |-> "none"] /\ queue = <<>>
  /\ rows = <<>> /\ outcome = "running" /\ seen = {} /\ stops = 0

------------------------------------------------------------------------------
(* Histories *)

\* The indices in `keep` in order: the j-th is the one with j of them up to it.
InOrder[keep \in SUBSET Nat] ==
  [j \in 1 .. Cardinality(keep) |-> CHOOSE i \in keep : Cardinality({k \in keep : k <= i}) = j]

\* The messages of `ms` at the indices in `keep`, in order.
Pick(ms, keep) ==
  LET order == InOrder[keep] IN [j \in DOMAIN order |-> ms[order[j]]]

\* load_history: tool calls are dropped, tool results become plain text.
Loaded ==
  LET plain == Pick(stored, {i \in DOMAIN stored : stored[i].k # "call"})
  IN [i \in DOMAIN plain |-> IF plain[i].k = "result" THEN Msg("told", plain[i].n) ELSE plain[i]]

\* Wrong: the blocks are taken as they are.
AllOf(ms, keep) == keep

\* The indices of `keep` without the tool blocks whose other half is outside it.
CompletePairs(ms, keep) ==
  {i \in keep :
    /\ ms[i].k = "call" => \E j \in keep : ms[j] = Msg("result", ms[i].n)
    /\ ms[i].k = "result" => \E j \in keep : ms[j] = Msg("call", ms[i].n)}

\* ContextCompressor: a recent tail and the most recent user messages before it
\* are kept, and the summary is added.
Kept(ms, b) ==
  LET real == {i \in DOMAIN ms : ms[i].k # "summary"}
      users == {i \in DOMAIN ms : ms[i].k \in {"ask", "steer", "note", "told"}}
  IN CompletePairs(ms, {i \in real : i > Len(ms) - b.tail}) \cup {i \in users : i > Len(ms) - b.users}

Replacements(ms) ==
  {Append(Pick(ms, keep), Summary) : keep \in {Kept(ms, b) : b \in Budgets}}

\* build_stopped_turn_transcript: the turn's messages, without orphaned tool
\* blocks, closed by the stop text.
StoppedTranscript ==
  LET ms == ctx.messages
      same == {i \in DOMAIN ms : ms[i] = Ask}
      cur == IF ctx.user <= Len(ms) THEN SubSeq(ms, ctx.user, Len(ms))
             ELSE IF same # {} THEN SubSeq(ms, CHOOSE i \in same : \A j \in same : j <= i, Len(ms))
             ELSE <<Ask>>
  IN Append(Pick(cur, CompletePairs(cur, DOMAIN cur)), Say)

\* Wrong: what a checkpoint of the turn holds already is saved again.
WholeTranscript == <<Ask, Say>>

\* The messages of a turn that failed: the user's own, unless a checkpoint of
\* this turn holds it already, and the apology.
MinimalTranscript == IF ctx.mid THEN <<Say>> ELSE WholeTranscript

------------------------------------------------------------------------------
(* Ends of a turn *)

\* Wrong: the signals still pending stay so.
ClearTurn ==
  /\ pc' = "idle"
  /\ ctx' = NoContext /\ loop' = NewLoop
  /\ UNCHANGED signal /\ queue' = <<>>

\* ActiveTurnRegistry.end_turn: the signals still pending expire. The locals of
\* the turn are gone.
EndTurn ==
  /\ pc' = "idle"
  /\ signal' = [i \in Steers |-> IF signal[i] = "pending" THEN "expired" ELSE signal[i]]
  /\ queue' = <<>>
  /\ ctx' = NoContext /\ loop' = NewLoop

\* An exception or a cancellation nobody in the service catches: the
\* coordinator's finally ends the turn and nothing more is saved.
Lose ==
  /\ EndTurn
  /\ rows' = <<>> /\ outcome' = "lost"
  /\ UNCHANGED <<stored, turn, seen>>

\* Leaving run_conversation, with `ms` as the messages of the result.
Finish(status, ms) ==
  /\ ctx' = [ctx EXCEPT !.messages = ms]
  /\ outcome' = status
  /\ pc' = IF status = "completed" /\ ctx.mid /\ ~ctx.first THEN "window" ELSE "save"
  /\ rows' = IF status = "completed" THEN SubSeq(ms, ctx.previous + 1, Len(ms))
             ELSE IF status = "stopped" THEN StoppedTranscript
             ELSE MinimalTranscript
  /\ loop' = NewLoop
  /\ UNCHANGED <<stored, turn, signal, queue, seen>>

Complete(ms) == Finish("completed", Append(ms, Say))

\* A step of the turn itself.
NoStop == UNCHANGED <<interrupt, stops>>

------------------------------------------------------------------------------
(* Before the loop *)

BeginTurn ==
  /\ pc = "idle" /\ turn < MaxTurns
  /\ turn' = turn + 1
  /\ pc' = "hooks"
  /\ ctx' = [NoContext EXCEPT !.messages = Loaded, !.previous = Len(Loaded), !.image = turn' \in ImageTurns]
  /\ outcome' = "running"
  /\ UNCHANGED <<stored, loop, interrupt, signal, queue, rows, seen, stops>>

\* A session or prompt hook stops the turn before it has a context.
HookStops ==
  /\ pc = "hooks"
  /\ outcome' = "stopped" /\ pc' = "save" /\ rows' = <<Ask, Say>>
  /\ UNCHANGED <<stored, turn, ctx, loop, interrupt, signal, queue, seen, stops>>

\* build_turn_context resets the agent before its first await.
ResetAgent ==
  /\ pc = "hooks"
  /\ interrupt' = FALSE
  /\ loop' = NewLoop
  /\ pc' = "context"
  /\ UNCHANGED <<stored, turn, ctx, signal, queue, rows, outcome, seen, stops>>

\* The user message joins the history, which is compacted first when full; the
\* service commits the checkpoint before the loop runs.
BuildContext ==
  /\ pc = "context"
  /\ \/ ctx' = [ctx EXCEPT !.messages = Append(@, Ask), !.user = Len(ctx.messages) + 1]
        /\ UNCHANGED <<stored, loop>>
     \/ /\ Compressor /\ Len(ctx.messages) > 1
        /\ \E new \in Replacements(ctx.messages) :
             /\ stored' = new
             /\ ctx' = [ctx EXCEPT !.messages = Append(new, Ask), !.previous = Len(new),
                                   !.user = Len(new) + 1, !.first = TRUE]
             /\ loop' = [loop EXCEPT !.compacted = Len(new) + 1]
  /\ pc' = "loop"
  /\ UNCHANGED <<turn, interrupt, signal, queue, rows, outcome, seen, stops>>

------------------------------------------------------------------------------
(* run_conversation *)

\* _consume_steer: the pending signals become one user message.
Consumed(q) == [i \in Steers |-> IF \E j \in DOMAIN q : q[j] = i THEN "consumed" ELSE signal[i]]
Steered(ms) == IF queue = <<>> THEN ms ELSE Append(ms, Msg("steer", Head(queue)))
ConsumeSteer ==
  /\ signal' = Consumed(queue)
  /\ queue' = <<>>

\* Wrong: what a compaction has just produced is compacted again.
AnyHistory(ms) == Len(ms) > 1

\* A history that a compaction has not just produced.
FreshHistory(ms) == Len(ms) > 1 /\ Len(ms) # loop.compacted

\* `while budget > 0`: the interrupt, then the pending steers, then either a
\* compaction, when the request is over the threshold and the history has
\* changed since the last one, or the model call.
LoopStops ==
  /\ pc = "loop" /\ interrupt
  /\ Finish("stopped", ctx.messages)
  /\ NoStop

LoopTop ==
  /\ pc = "loop" /\ ~interrupt
  /\ ConsumeSteer
  /\ ctx' = [ctx EXCEPT !.messages = Steered(@)]
  /\ \/ pc' = "llm" /\ seen' = seen \cup {i \in Steers : signal'[i] = "consumed"}
     \/ /\ Compressor
        /\ FreshHistory(ctx'.messages)
        /\ pc' = "compact" /\ UNCHANGED seen
  /\ UNCHANGED <<stored, turn, loop, interrupt, rows, outcome, stops>>

\* _compact_active_context: the checkpoint is committed before the messages are
\* replaced; current_turn_user_idx then points past the end.
Compacted(new) ==
  /\ stored' = new
  /\ ctx' = [ctx EXCEPT !.messages = new, !.previous = Len(new), !.user = Len(new) + 1, !.mid = TRUE]
  /\ seen' = seen \cup {i \in Steers : signal[i] = "consumed"}

CompactMidTurn ==
  /\ pc = "compact"
  /\ \/ \E new \in Replacements(ctx.messages) :
          /\ Compacted(new)
          /\ loop' = [loop EXCEPT !.compacted = Len(new)]
          /\ pc' = "loop"
     \/ /\ pc' = "llm"
        /\ seen' = seen \cup {i \in Steers : signal[i] = "consumed"}
        /\ UNCHANGED <<stored, ctx, loop>>
  /\ UNCHANGED <<turn, interrupt, signal, queue, rows, outcome, stops>>

\* The compaction after the model refused the context as too large.
CompactOverflow ==
  /\ pc = "overflow"
  /\ \/ /\ Compressor /\ Len(ctx.messages) > 1
        /\ \E new \in Replacements(ctx.messages) :
             /\ Compacted(new)
             /\ loop' = [loop EXCEPT !.compacted = Len(new)]
        /\ pc' = "loop"
        /\ UNCHANGED <<turn, interrupt, signal, queue, rows, outcome, stops>>
     \/ Finish("failed", ctx.messages) /\ NoStop

Again(l) ==
  /\ loop' = l /\ pc' = "loop"
  /\ UNCHANGED <<stored, turn, ctx, interrupt, signal, queue, rows, outcome, seen, stops>>

\* The poll of the interrupt, every five seconds, while the model call runs.
ModelStops ==
  /\ pc = "llm" /\ interrupt
  /\ Finish("stopped", ctx.messages)
  /\ NoStop

ModelRefusesContext ==
  /\ pc = "llm" /\ ~loop.overflow
  /\ loop' = [loop EXCEPT !.overflow = TRUE]
  /\ pc' = "overflow"
  /\ UNCHANGED <<stored, turn, ctx, interrupt, signal, queue, rows, outcome, seen, stops>>

\* Rejected images are stripped, once.
ModelRejectsImages ==
  /\ pc = "llm" /\ ~loop.final /\ ctx.image
  /\ \E i \in DOMAIN ctx.messages : ctx.messages[i] = Ask
  /\ ctx' = [ctx EXCEPT !.messages = Append(@, Msg("note", 0)), !.image = FALSE]
  /\ pc' = "loop"
  /\ UNCHANGED <<stored, turn, loop, interrupt, signal, queue, rows, outcome, seen, stops>>

\* A defect is retried while its limit lasts; no answer right after tools is
\* first asked for without tools.
ModelDefect ==
  /\ pc = "llm" /\ ~loop.final
  /\ \E d \in Defects :
       /\ loop.tries[d] < MaxTries[d]
       /\ d = "empty" => ~loop.ran \/ loop.postTool
       /\ Again([loop EXCEPT !.tries[d] = @ + 1, !.ran = @ /\ d = "json"])

\* Any other exception: the fallback text ends a forced finalization, the rest
\* fails the turn.
ModelFails ==
  /\ pc = "llm"
  /\ IF loop.final THEN Complete(ctx.messages) ELSE Finish("failed", ctx.messages)
  /\ NoStop

ModelFinalizes ==
  /\ pc = "llm" /\ loop.final
  /\ Complete(ctx.messages)
  /\ NoStop

ModelEmptyAfterTools ==
  /\ pc = "llm" /\ ~loop.final
  /\ loop.ran /\ ~loop.postTool
  /\ Again([loop EXCEPT !.postTool = TRUE, !.final = TRUE, !.ran = FALSE])

ModelStaysEmpty ==
  /\ pc = "llm" /\ ~loop.final
  /\ ~loop.ran \/ loop.postTool
  /\ loop.tries["empty"] >= MaxTries["empty"]
  /\ Complete(ctx.messages)
  /\ NoStop

\* The call that has already succeeded MaxIdentical times.
ModelRepeats ==
  /\ pc = "llm" /\ ~loop.final /\ loop.same >= MaxIdentical
  /\ Again([loop EXCEPT !.final = TRUE, !.ran = FALSE])

\* A steer that came while the model answered continues the turn.
AnswerThen(ms, next) ==
  /\ ConsumeSteer
  /\ ctx' = [ctx EXCEPT !.messages = Append(ms, Msg("steer", Head(queue)))]
  /\ loop' = [loop EXCEPT !.ran = FALSE]
  /\ pc' = next
  /\ UNCHANGED <<stored, turn, rows, outcome, seen>>

\* Wrong: the turn goes to its end all the same.
SteerEndsTurn(ms) == AnswerThen(ms, "hook")

SteerContinues(ms) == AnswerThen(ms, "loop")

\* Text and no tools: a steer that came meanwhile continues the turn, otherwise
\* the stop hook runs, once.
ModelAnswers ==
  /\ pc = "llm" /\ ~loop.final
  /\ LET ms == Append(ctx.messages, Say)
     IN IF queue # <<>>
        THEN SteerContinues(ms)
        ELSE IF ~loop.hook
        THEN /\ pc' = "hook"
             /\ ctx' = [ctx EXCEPT !.messages = ms]
             /\ UNCHANGED <<stored, turn, loop, signal, queue, rows, outcome, seen>>
        ELSE Finish("completed", ms)
  /\ NoStop

StopHookContinues ==
  /\ pc = "hook"
  /\ Again([loop EXCEPT !.hook = TRUE, !.ran = FALSE])

StopHookAccepts ==
  /\ pc = "hook"
  /\ Finish("completed", ctx.messages)
  /\ NoStop

ModelCallsTools ==
  /\ pc = "llm" /\ ~loop.final
  /\ loop' = [loop EXCEPT !.batch = @ + 1]
  /\ ctx' = [ctx EXCEPT !.messages = Append(@, Msg("call", loop'.batch))]
  /\ pc' = "tools"
  /\ UNCHANGED <<stored, turn, interrupt, signal, queue, rows, outcome, seen, stops>>

\* execute_tool_calls appends every result as one message, then the outcome of
\* the batch decides: all calls lack a permission, a hard denial or the quota,
\* or an iteration is spent.
Results == Append(ctx.messages, Msg("result", loop.batch))

ToolsLackPermission ==
  /\ pc = "tools"
  /\ Complete(Results)
  /\ NoStop

ToolsHitLimit ==
  /\ pc = "tools"
  /\ ctx' = [ctx EXCEPT !.messages = Results]
  /\ loop' = [loop EXCEPT !.final = TRUE, !.ran = FALSE]
  /\ pc' = "loop"
  /\ UNCHANGED <<stored, turn, interrupt, signal, queue, rows, outcome, seen, stops>>

ToolsReturn ==
  /\ pc = "tools"
  /\ IF loop.budget > 1
     THEN /\ ctx' = [ctx EXCEPT !.messages = Results]
          /\ \E ok \in {0, 1} :
               loop' = [loop EXCEPT !.budget = @ - 1, !.ran = TRUE, !.same = @ + ok]
          /\ pc' = "loop"
          /\ UNCHANGED <<stored, turn, signal, queue, rows, outcome, seen>>
     ELSE Complete(Results)
  /\ NoStop

------------------------------------------------------------------------------
(* Saving *)

\* An exception before the save fails the turn with a minimal transcript.
Raise ==
  /\ pc \in {"hooks", "context", "compact", "overflow", "tools"}
  /\ Finish("failed", ctx.messages)
  /\ NoStop

\* save_transcript commits its rows one by one.
SaveRow ==
  /\ pc = "save" /\ rows # <<>>
  /\ stored' = Append(stored, Head(rows))
  /\ rows' = Tail(rows)
  /\ UNCHANGED <<turn, pc, ctx, loop, interrupt, signal, queue, outcome, seen, stops>>

\* create_compressed_session: a turn compacted only while it ran is completed
\* in a new window that holds all of its messages.
SaveWindow ==
  /\ pc = "window"
  /\ stored' = ctx.messages
  /\ rows' = <<>> /\ pc' = "save"
  /\ UNCHANGED <<turn, ctx, loop, interrupt, signal, queue, outcome, seen, stops>>

Saved ==
  /\ pc = "save" /\ rows = <<>>
  /\ EndTurn
  /\ UNCHANGED <<stored, turn, interrupt, rows, outcome, seen, stops>>

SaveFails ==
  /\ pc = "window" \/ (pc = "save" /\ rows # <<>>)
  /\ Lose /\ NoStop

------------------------------------------------------------------------------
(* The user *)

\* /steer while the turn runs; the oldest signal expires when the queue is full.
Steer ==
  /\ pc # "idle"
  /\ \E i \in Steers :
       /\ signal[i] = "none" /\ \A j \in Steers : j < i => signal[j] # "none"
       /\ IF Len(queue) >= MaxPending
          THEN /\ signal' = [signal EXCEPT ![i] = "pending", ![Head(queue)] = "expired"]
               /\ queue' = Append(Tail(queue), i)
          ELSE /\ signal' = [signal EXCEPT ![i] = "pending"]
               /\ queue' = Append(queue, i)
  /\ UNCHANGED <<stored, turn, pc, ctx, loop, interrupt, rows, outcome, seen, stops>>

\* /stop: request_stop marks every cached agent, and the turn of the session it
\* was sent in has its task cancelled too. Only the wait for the model catches
\* the cancellation.
Stop ==
  /\ pc # "idle" /\ stops < MaxStops
  /\ stops' = stops + 1
  /\ interrupt' = TRUE
  /\ UNCHANGED <<stored, turn, pc, ctx, loop, signal, queue, rows, outcome, seen>>

StopHere ==
  /\ pc # "idle" /\ stops < MaxStops
  /\ stops' = stops + 1 /\ interrupt' = TRUE
  /\ IF pc = "llm" THEN Finish("stopped", ctx.messages) ELSE Lose

------------------------------------------------------------------------------
TurnStep ==
  \/ HookStops \/ ResetAgent \/ BuildContext
  \/ LoopStops \/ LoopTop \/ CompactMidTurn \/ CompactOverflow
  \/ ModelStops \/ ModelRefusesContext \/ ModelRejectsImages \/ ModelDefect \/ ModelFails
  \/ ModelFinalizes \/ ModelEmptyAfterTools \/ ModelStaysEmpty \/ ModelRepeats \/ ModelAnswers
  \/ StopHookContinues \/ StopHookAccepts
  \/ ModelCallsTools \/ ToolsLackPermission \/ ToolsHitLimit \/ ToolsReturn
  \/ Raise \/ SaveRow \/ SaveWindow \/ Saved \/ SaveFails

Next == BeginTurn \/ TurnStep \/ Steer \/ Stop \/ StopHere

\* The event loop runs a turn that can run, and a model call or a tool returns
\* or fails: transports and handlers have timeouts.
Spec == Init /\ [][Next]_vars /\ WF_vars(TurnStep)

------------------------------------------------------------------------------
(* Properties *)

TypeOK ==
  /\ stored \in Seq(Messages) /\ rows \in Seq(Messages)
  /\ ctx \in [messages : Seq(Messages), previous : Nat, user : Nat, first : BOOLEAN, mid : BOOLEAN,
              image : BOOLEAN]
  /\ loop \in [budget : Nat, tries : [Defects -> Nat], postTool : BOOLEAN, ran : BOOLEAN, final : BOOLEAN,
               hook : BOOLEAN, overflow : BOOLEAN, compacted : Int, batch : Nat, same : Nat]
  /\ turn \in 0 .. MaxTurns /\ stops \in 0 .. MaxStops
  /\ pc \in {"idle", "hooks", "context", "loop", "compact", "overflow", "llm", "tools", "hook",
            "save", "window"}
  /\ ctx.previous \in 0 .. Len(ctx.messages) /\ ctx.user \in 1 .. Len(ctx.messages) + 1
  /\ interrupt \in BOOLEAN
  /\ loop.budget \in 1 .. MaxIterations /\ loop.batch \in 0 .. MaxIterations
  /\ signal \in [Steers -> {"none", "pending", "consumed", "expired"}]
  /\ queue \in Seq(Steers)
  /\ {i \in Steers : signal[i] = "pending"} = {queue[j] : j \in DOMAIN queue}
  /\ Len(queue) <= MaxPending /\ seen \subseteq Steers
  /\ outcome \in {"running", "completed", "stopped", "failed", "lost"}

\* Every tool_use of a model request is followed by its results and every result
\* follows its call, whatever was compacted, steered or retried in between: a
\* provider refuses the request otherwise.
ModelSeesPairedTools ==
  pc = "llm" =>
    \A i \in DOMAIN ctx.messages :
      LET m == ctx.messages[i] IN
      /\ m.k = "call" => i < Len(ctx.messages) /\ ctx.messages[i + 1] = Msg("result", m.n)
      /\ m.k = "result" => i > 1 /\ ctx.messages[i - 1] = Msg("call", m.n)

\* A turn that completes has shown the model every steer signal it consumed, in
\* a request or in the text of a checkpoint.
ConsumedSteerReachesModel ==
  outcome = "completed" => \A i \in Steers : signal[i] = "consumed" => i \in seen

\* A turn that completes, or that fails, leaves its user message in the session
\* once, or summarised by a checkpoint of the turn, and ends it with its reply.
EndedTurnIsRecorded ==
  pc = "save" /\ rows = <<>> /\ outcome \in {"completed", "failed"} =>
    LET asked == {i \in DOMAIN stored : stored[i] = Ask}
    IN /\ stored # <<>> /\ stored[Len(stored)] = Say
       /\ Cardinality(asked) <= 1
       /\ asked = {} => \E i \in DOMAIN stored : stored[i] = Summary

\* Every turn ends: each retry has its limit, a compaction is not repeated on
\* the history it produced, and a tool batch spends an iteration.
TurnEnds == pc # "idle" ~> pc = "idle"

------------------------------------------------------------------------------
(* What the documents say and the code does not do. *)

\* What save_transcript promises, "Save new messages only": no message of the
\* user is stored twice.
RecordedOnce ==
  \A i, j \in DOMAIN stored : stored[i].k = "ask" /\ stored[i] = stored[j] => i = j
=============================================================================
