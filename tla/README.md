# A TLA+ verification of luna-agent

luna-agent is a Python agent that talks to its user over chat platforms, a
terminal interface and plugins.  It runs on one asyncio event loop: everything
below interleaves at `await`s, at callbacks and at the thread hand-offs of the
database, and everything in memory goes when the process dies.  What survives
is a SQLite database and the plugin directory.

This directory holds TLA+ modules of the parts whose mistakes are hard to see
in a test, the TLC configurations that check them on small instances, and
proofs, checked by TLAPS, for every instance.  Paths below are relative to
`src/luna_agent/` unless they start with `docs/` or `tests/`.

## The system and its parts

| Part | State it keeps | Operations | What is hard | What makes it correct |
|---|---|---|---|---|
| **Delivery outbox** `delivery/` | tables `delivery_outbox` and `delivery_outbox_parts`; which task is in a round | `enqueue`, `claim`, `due`, `deliver_once`, `record_part_result`, `record_result`, recovery in `Database.initialize` | several senders, a crash between a send and its record, ambiguous answers, retries with backoff | one sender at a time, parts in order, no needless duplicate, truthful answers, settled rows stay, everything settles |
| **Conversation submission** `conversation/coordinator.py`, `ledger.py`, `submission.py` | futures, a bounded memory of request ids, a queue and a worker per session, the durable ledger | `submit`, `cancel`, the worker loop, `_complete_immediate`, `_resume_durable`, `close`, ledger writes | workers that leave while jobs arrive, a claim awaited under a lock, close at any time, restarts | one worker per session, order, one turn per id, nothing stranded, nothing after close |
| **Conversation service** `conversation/service.py` | the rows of a session, one turn's result | `run_turn_input_events`, `save_transcript`, checkpoints, `/steer`, `/stop` | a turn that ends in many ways, some after a checkpoint was stored | the history holds each question once and ends with its reply |
| **Steering** `conversation/steer.py` | a bounded queue of signals per session | `add`, `consume`, `end_turn` | a signal that comes while the model writes its last answer | what is consumed reaches the model |
| **Agent loop** `agent/loop.py`, `agent/transcript.py` | messages, retry counters, the interrupt flag | `run_conversation`, `build_turn_context`, `_compact_active_context` | retries, forced finalization, compaction under a running turn | every request is well formed; the turn ends |
| **Compression** `compression/` | none | choose what a summary replaces | tool blocks at the boundary | no half of a tool block remains |
| **Tools and permissions** `tools/executor.py`, `security/`, `gateway/confirmations.py` | grants of a session with an expiry, one-time grants of a call or a batch, pending questions | `execute_tool_calls`, `_prepare_batch_confirmation`, `grant_prepared_call`, `revoke_grants`, `request_stop` | answers that race expiry, stops and cancellation; calls side by side that share keys | what was refused never runs; every grant is backed by an answer |
| **Plugin generations** `plugins/core/manager.py`, `plugins/core/coordinator.py`, `plugins/runtime/`, `plugins/install/` | published capability snapshots and their leases, generations and plugin objects, installed packages, pending removals | install, reload, enable, disable, uninstall, lease, release, retire | retirement that runs later than the publication, rollbacks after publication, removal under leases | a leased generation runs, an unused one stops, one is active, packages on disk while needed |
| **Active plugins** `plugins/active/` | a root task and a watch task per generation, failure times, a circuit | `start_all`, `stop_all`, `enable`, `disable`, `restart`, `_supervise` | a restart during the delay of another one | one root task, only when wanted, always watched |
| **Plugin workers** `plugins/runtime/worker_supervisor.py` | Worker processes, recovery tasks | `worker_exited`, `_recover`, `stop` | state saved before a delay and put back after it | no recovery of a replaced generation |
| **MCP** `mcp/` | one runtime per server with its owner task, the retired ones, the tools on offer | `reconcile`, `replace_server`, `remove_server`, `retire_runtime`, `stop`, connect, refresh, reconnect | reconciliations that wait with what they read at their start; retirement under leases | a routed runtime runs, the tools on offer are those of the one in force, the replaced ones end, the servers are those the plugins want |
| **Sub-agents** `agents/` | running children, slots | spawn, wait, cancel | limits, cancellation | children end with their parent |
| **Gateway** `gateway/` | session keys, compression chain | route, rotate | stale session keys | a message reaches the session it belongs to |
| **Platforms** `platforms/`, `plugins/builtin/platforms/` | connections | receive, send | timeouts | seen here as the outcomes of a send |
| **Artifacts** `artifacts/`, `attachments/` | files with an expiry | store, materialize, clean up | cleanup that races a delivery | a pending delivery finds its file |
| **Memory** `memory/` | archive and review queue | store, review, recall | background review | nothing lost |
| **Hooks, cron, workflows, models, configuration, user interfaces** | little | callbacks, timers, I/O | little concurrency of their own | not modelled |

How they interact: a platform or a runner calls `ConversationCoordinator.submit`;
the session's worker leases a capability snapshot and runs the turn: the
service loads the history, the agent loop calls the model and hands batches of
tool calls to the executor, which asks the user through the gateway; `/steer`
and `/stop` reach into the running turn from outside.  The transcript is saved,
the ledger records the turn and the response goes to `DeliveryService.deliver`,
whose outbox the `DeliveryWorker` polls.  Plugin operations publish new
snapshots under the turns that run, and start and stop the plugins' root tasks.
Gateway and CLI share the coordinator, `runtime.py` starts and closes them in
order.

In the models these parts meet at narrow places: `Submission` sees a turn as
one step and a delivery as the status of one row, `AgentTurn` sees a batch of
tools as one step with several outcomes, `ToolApprovals` is that batch in
detail, `Outbox` is the delivery in detail, `PluginSupervision` is what
`PluginGenerations` sees as a generation that runs, and `McpServers` is the step
of a plugin operation that reconciles the servers, over the same snapshots and
leases.

## Modules

| Module | What it is |
|---|---|
| `DeliveryContract` | what the outbox promises: a message accepted is settled once, its confirmed parts only grow, "delivered" means that a whole plan of parts was confirmed |
| `Outbox` | the outbox, its callers and its worker in detail, with the refinement to `DeliveryContract` |
| `Submission` | `submit` to `store_final`, with ledger, workers, close and restart |
| `AgentTurn` | the turns of one session: history, loop, steers, stops, compaction, transcript |
| `ToolApprovals` | the tool calls of one session: batches, questions, grants |
| `PluginGenerations` | one plugin's generations, snapshots, leases and packages |
| `PluginSupervision` | one generation's root tasks, their watch tasks and the recovery of its Worker |
| `McpServers` | the runtimes of one MCP server, the operations that replace them and the leases that keep them |
| `MCOutbox`, `MCSubmission`, `MCAgentTurn`, `MCApprovals`, `MCGenerations`, `MCSupervision`, `MCMcp` | values of the constants for TLC |
| `OutboxProofs` | theorems of `Outbox` |
| `SubmissionWorkerProofs`, `SubmissionLedgerProofs` | theorems of `Submission` |
| `AgentTurnProofs` | theorems of `AgentTurn` |
| `ToolApprovalsProofs` | theorems of `ToolApprovals` |
| `PluginGenerationsProofs` | theorems of `PluginGenerations` |
| `PluginSupervisionProofs` | theorems of `PluginSupervision` |
| `McpServersProofs` | theorems of `McpServers` |

An operator under a comment that begins with "Wrong" is a plausible mistake in
the definition after it; no specification uses it.  PROJECT.json's "mutants"
puts each in place of the right one to see that a property notices.

### Outbox

`row` and `part` are the two tables.  `pc`, `cur`, `plan`, `idx`, `batch`,
`reply`, `res` and `answer` are the local variables of the tasks: every caller
of `deliver()` and the one task of `DeliveryWorker`.  One action is the code
between two awaits: `Enqueue`, `Claim`, `LoadDue`, `ClaimNext`, then a round
`Unroutable | Suppress | PlanParts`, per part `SkipDelivered | StopAtSettled |
StartPart; Send; RecordPart`, and `AllPartsDone; RecordResult`.  A send ends
as `ok`, `refused` (a definite error), `timeout` (recognised as ambiguous),
`raised` (the adapter raises) or `silent` (a timeout whose error text is
empty).  `accepted` is history: how often the platform took a part; an
ambiguous outcome may or may not count.  `CancelCaller` is a waiting caller
that is cancelled, `CrashRestart` loses the tasks and does what
`Database.initialize` does to the rows.

External, modelled from its use: the platform (the outcomes of `Send`) and the
size of a plan, which may grow or shrink between rounds with the platform's
capabilities (`PlanSizes`).  `DeliveredIsComplete` is therefore a property of
the step that settles a row: it calls a row delivered only when every part of
the plan of that round, the callers' or the worker's, has been confirmed.

### Submission

A call of `submit` is a job, numbered in order.  `memo` is `_submissions`,
`queues` and `items` are the asyncio queues (a queue is named by the job it was
created for), `workers` and `task` the session workers, `stage` the place of a
job in its pipeline, `claimed` what the ledger's claim returned while `lock` is
held, `ledger` and `box` the rows on disk of the ledger and, reduced to one
status, of the outbox.  `turns` is history: the turns that ran, in order.

A payload is what `_submission_identity` compares, the intent included
(`conversation/coordinator.py:287-302`); the ledger stores and compares its
`payload_hash`, which leaves the intent out (`conversation/ledger.py:174-192`).
`HashOf` is that hash; the kind and name of an attachment are taken to follow
from its id.  `Conflict` compares hashes, so a payload that differs in its intent alone
is no conflict once the cache has forgotten the id, and
`TurnsRunTheRecordedPayload` and `CompletedIsDurable` speak of the recorded hash.
That no id ever runs or reports another payload, `OnePayloadPerRequest`, fails
(see below) and is proved for a hash that tells all payloads apart.

`ClaimReturns` is the claim coming back; `ClaimLost` is a claim that raises, or
a caller cancelled while it waits: the row may then be 'accepted' without a job,
until a restart makes it retryable.  `Close` is `close(cancel_pending=True)`, which is how `runtime.py` calls it.

### AgentTurn

`stored` is what `SessionStore` holds for the session; a message is its kind
and a number.  `ctx` is the `TurnContext` (the messages, `previous_count`,
`current_turn_user_idx`, what was compacted), `loop` the locals of
`run_conversation` with its `RetryState`, `signal` and `queue` the steer
signals, `rows` what `save_transcript` still has to write.  `BeginTurn`,
`HookStops`, `ResetAgent` and `BuildContext` are what comes before the loop;
`LoopTop` and `LoopStops` its top; `CompactMidTurn` and `CompactOverflow` the
two compactions under a running turn; the actions `Model…` are the outcomes of
a model call, `Tools…` those of a batch; `SaveRow`, `SaveWindow`, `Saved` write
the transcript row by row.  `Raise`, `SaveFails` and `StopHere` (a cancellation)
leave at any await.  `seen` is history: the signals a request contained.

External, modelled from its use: what the model answers (every outcome the loop
tells apart), whether a request is over the threshold, and where a tail ends
(`Budgets`; token counts decide it in the code).

### ToolApprovals

`batch` and `st` are the calls of a batch and where each stands, `cands` and
`answer` the question for the batch, `held` and `once` the one-time keys of the
batch and of each call, `grants` the expiry of each key's grant.  Time is
counted in lives of a one-time grant (one minute); a `Tick` drops what has
expired, as every evaluation does before it looks.  `StartGroup` is the
executor's grouping of parallel calls; per call `CallRejected | CallClear |
CallRecalls | CallReviewed | CallAsks`, then `Dispatch`, `HandlerFails` (a
retry), `HandlerEnds`.

A question is a future with a deadline (`gateway/confirmations.py`).
`BatchAnswered` and `UserAnswers` set its result; the task that waits goes on
later, with the answer (`BatchAllowed | BatchRefused`, `AnswerArrives`) or
without it: `QuestionLost` and `BatchRefused` are also the timeout, the
interrupt, the prompt that cannot be sent, each of which may overtake an answer
that was just given.

A hook, the event sink or the artifact store may raise at any point of a call.
One that runs beside others ends as an error result (`CallRaises`, by `gather`);
one that runs alone takes the whole batch with it (`BatchRaises`), as does
`Cancel`.  Either way `_finish` does not run and the call's one-time grants stay
until they expire.  `Interrupt`, `OtherTurnBegins` (which clears the executor's
one flag), `ClearGrants` and `Tick` may come at any moment.  `promise`,
`refused` and `left` are history: what the user allowed for good, what he
refused, and the grants that a call broken off by an exception or a
cancellation leaves behind.

External: the user, the reviewer and the guards, whose verdicts are free.

### PluginGenerations

`routes[r]` is the generation that snapshot `r` routes to; `retired` and
`retiring` are the snapshots that wait for leases and for their retire task;
`gen` and `obj` are the generations and the `LoadedPlugin` objects, which are
not the same: enabling loads a new generation into the old object.  `op` is the
operation that holds the plugin's lock; installing unpacks the package
(`Prepare`) before it takes the lock, so operations that queued for it earlier
come first.  `wanted` is history: whether the last of install and uninstall was
an install.

An install publishes first and goes on with what may fail: the reconciliation of
the MCP servers and the first start of an active plugin
(`plugins/core/manager.py:944-957`).  `RecordInstall` is the end of one that
succeeds.  `InstallStrands` is a failure without a predecessor on record:
nothing is taken back and the package of the generation now routed is discarded.
`InstallUndone` is a failure with one, by `_rollback_to_runtime` (2225-2251):
the predecessor is ACTIVE and routed again, whatever it was before; when it is
STOPPED the rollback raises, and the new generation stays routed with its
package.  `unbacked` is history: the generations that no completed install
answers for, as their own install failed after publishing them, or they were
loaded from the package of an install that was still waiting for the lock.
`RoutedPackageOnDisk` promises a package to all the others.

Two races break an invariant, and `slips` records which have happened:

- "loaded over": an object is loaded again before the generation it held is
  retired, whose retirement then finds the new scope (`Enable`,
  `ReloadUnloaded`);
- "put back": an install fails and puts a predecessor that was draining back as
  ACTIVE, so that its retirement leaves it alone (`InstallFails`).

The invariants they break say what holds as long as they have not happened.

### PluginSupervision

`runner` is the sequence of the executions ever created, its end being
`plugin.active_runner`; `entry` is the generation's entry in `_watch_tasks`;
`proc` says where each task stands that works on a runner: the owner
(`start_all`, `stop_all`), an operation of the user, the Worker's recovery, and
the watch tasks.  `StartBy` and `StopBy` are `start` and `stop` up to their
first await; `StartCommits`, `StartFails`, `StopTimesOut` and `StopDone` are
what follows.  `WatchSees` and `WatchRestarts` are `_supervise` before and after
its delay, `ExitSeen` to `Recovered` the recovery, `Retire` the end of the
generation.

`StartCommits` waits for a watch task whose root task has ended.  That is the
event loop's order, not a guess: callbacks run first in, first out; a new root
task is created only when the old one is done, whose end has by then queued what
wakes its watch task, and `start` resumes only after the new root task has run
and set its event, which queues the wakeup of `start` after that of the watch.

Three races break an invariant, and `slips` records which have happened:

- "displaced": a restart, automatic or manual, takes the place of a root task
  another task has just started;
- "revived": a recovery makes a replaced generation ACTIVE again;
- "unwanted": a recovery starts a runner the owner no longer wants.

`RunsOnlyWhenWanted` and `RunningIsWatched` say what holds as long as none has
happened: every other order of the tasks is harmless.  `RetiredWorkerStops`
leaves out "revived" alone.

External: the Worker process (it dies at any time) and the root task (it is
ready, ends or fails at any time).

### McpServers

A runtime is a number, in the order of creation.  `at` is where its owner task
`_run` stands, `state` its `MCPRuntimeState`; the two differ, as a failing call
or `stop` sets the state from outside.  `shared` is `global_active`, `routed`
and `lease` are the runtimes that the current snapshot and each turn's snapshot
route to, `leaving` the snapshots whose retire task is due.  `op` is the step of
two plugin operations: "owner" belongs to the plugin that registers the server
and changes `desired` (`OwnerApplies` after the fact, `OwnerStages` before it, as
a reload does); "other" reconciles everything for the sake of another plugin.
`Connected` to `CallFails` are the owner task, `BeginStop`, `StopCancels` and
`StopReturns` are `stop`, `BeginReconcile` to `ReconcileRaises` are `reconcile`
with `replace_server` and `remove_server`.

External: the server, which answers with tools or without, fails for a while or
for good, and announces lists, at most `MaxFaults` times in all.

History says what the properties leave out, each part of it something the code
allows:

- `slips` has "overlap" when two reconciliations meet: each goes on with the
  configurations it read at its start, so the later one may bring back a server
  the other has removed, or an old configuration (`mcp/manager.py:91-107`);
- "not undone" when the reconciliation that takes back a failed reload fails
  itself: the staged servers stay (`plugins/core/manager.py:705-707`);
- "not applied" when a server that was to be added cannot be had: the operation
  raises after the plugin was registered;
- `orphans` are runtimes that were replaced or removed while no snapshot routed
  to them, for instance while still connecting.  Retirement starts from
  snapshots (`plugins/core/manager.py:2122-2163`), so nothing stops them, and
  they go on reconnecting until the application ends; `docs/architecture.md:218`
  has old instances stop when their last lease goes.

## Runs

Passing:

| Run | Bounds | Shows |
|---|---|---|
| `outbox` | 1 delivery, plans of 1 to 3 parts, two callers (one may be cancelled) and the worker, 2 attempts, 1 crash | exclusive senders, part order, complete deliveries, duplicates only by crashes, truthful answers, the contract |
| `outbox_live` | plans of 2 parts, no cancellation, silent timeouts | everything settles, as the contract states it |
| `submission` | one session, a durable and a plain request, 3 payloads of which 2 have one hash, 3 calls, a cache of one, 1 crash, failing ledger writes | one worker, no stranded job, order, one turn per life, payload, durability, no rerun of what is recorded |
| `submission_close` | one session, a plain request and a durable immediate command, 3 calls, close at any time | quiet after close, every submission answered |
| `agent_turn` | one turn with an image on a history with a tool batch, 2 iterations, one retry, a compressor, 1 steer, 1 stop | paired tool blocks in every request, a consumed steer reaches the model, what is stored, the turn ends |
| `approvals` | 2 tools with a key each and one in common, one of each kind, 2 batches of up to 3 calls, grants of 1 and 2 units, 2 ticks, 1 stop, cancellation or clearing, any exceptions | grants are backed, what is refused never runs, every batch ends |
| `generations` | every operation, one version, failing loads, starts and reconciliations, 3 generations, 5 snapshots, 2 turns | snapshots kept exactly while leased; a leased generation runs, a retired one stops; one active generation; the routed one is the registered one and its package is on disk |
| `generations_remove` | install and uninstall, 2 generations, 2 turns | a removal is carried out |
| `supervision` | 3 runners, 2 watch tasks, 2 failures open a circuit, a Worker that dies once | one root task and only when wanted, always watched; a retired generation leaves no process |
| `mcp` | 3 runtimes, 2 configurations, one turn, 1 operation of the owner and any number of others, 2 failures or announcements | what is routed to runs, what is on offer is in force, settled servers are those wanted, replaced runtimes end |

The bounds are the smallest at which the interesting cases meet.

- *Outbox.*  Two callers and the worker are three senders for one row, which is
  what a stale due list and a claim need.  With plans of one, two or three parts
  a retry may shrink below what was confirmed, or grow beyond it, and a shrunk
  plan may still have a part to go.
- *Submission.*  A cache of one makes every second id an eviction; three calls
  are a retry of an evicted id and one more in the queue.  Three payloads are one
  the ledger cannot tell from the first and one it can.
- *A turn.*  Two iterations are one that goes on and the last one; the tail of
  three messages ends inside a tool batch, so that a boundary cuts a block; a
  compaction may come before the turn, at its top and after an overflow.  A
  second turn adds nothing to what one turn on an earlier history can do.
- *Approvals.*  Three calls are two that are asked about as one and refused, and
  a third whose own question is answered and whose grant covers keys of theirs;
  two run side by side.  The second batch meets what the first one left.  A `Ttl`
  of two makes a lasting grant outlive a one-time one, and two ticks let both
  expire under a call.
- *Generations.*  Two turns tell the last lease of a snapshot from the last but
  one; three generations are an update after one that failed, and what one
  version of the package cannot show (a digest that differs) the proofs cover.
  `MaxRevisions` bounds the snapshots: `PublishOther` takes at most half, so
  that the operations on the plugin itself have room.
- *Supervision.*  Three runners are one, the one that replaces it, and one that
  comes between; two watch tasks are the old one in its delay and the new one.
- *MCP.*  Three runtimes are the one in force, a candidate, and the candidate
  that undoes it or that another operation makes meanwhile.  Two faults are a
  candidate that fails and a connection that is lost.  The safety properties
  also hold with two operations of the owner and with three faults, which take
  longer than a run should.

Turns, watch tasks and the two payloads of one hash are symmetric where no
liveness is checked.

Deadlock is checked for the outbox.  The other modules stop when their bounds
are used up and say `CHECK_DEADLOCK FALSE`.

Fairness: `outbox_live` takes weak fairness of each task's next step (the event
loop runs what is ready), of the worker's poll (`_run` loops for ever) and of a
backoff (time passes).  `submission_close` takes weak fairness of the pipelines,
the workers, the claim and close.  `agent_turn` and `approvals` take weak
fairness of the turn's and the batch's own steps: model calls, handlers and
questions all have timeouts, so each of them returns.  `generations_remove`
takes weak fairness of the release of a lease (turns end), of the retire tasks
and of an operation that has begun.  `supervision_comes_back` takes weak
fairness of starts and stops (both have timeouts), of watch tasks and of the
recovery's steps.  `mcp` takes weak fairness of each turn's release and of
what the owner tasks, stops and retire tasks do by themselves, taken together: requests and
closes have timeouts and delays run out; as failures are bounded, a server that
is tried again answers in the end.  Crashes, cancellations, stops, deaths of a Worker and what
the user does are never fair.

### Where documents and code disagree

These runs end in a violation, as a document or a test says one thing and the
code does another.

| Run | What happens |
|---|---|
| `submission_close_terminates` | `close(cancel_pending=True)` empties the queue under a worker that has not taken its first job and waits for it for ever |
| `supervision_comes_back` | a Worker that dies again before its recovery has ended is not recovered: `worker_exited` ignores it, and nothing looks again |

Small changes of a configuration show more of the kind, not kept as runs.
Deliveries and submissions:

- `NeverSentTwice` with `MaxCrashes = 0` and "silent" in `Outcomes`: a timeout
  is recognised by words in its text; the qq adapter's has none and the message
  is sent again.
- `NeverSentTwice` with `MaxCrashes = 1` and no silent timeouts: recovery turns
  a part in 'sending' back to 'retry' (`db/database.py:246-253`), against
  `BACKEND_INTERFACE.md:663`.  `DuplicatesNeedCrash` is what does hold.
- Rounds with the platform away count as attempts and end a row as 'failed'
  (`delivery/outbox.py:131-143`), against `docs/architecture.md:827`.
- A resumed submission whose row has settled is answered DEFERRED
  (`delivery/service.py:69-70`), against `docs/operations.md:173`.
- `NoPartLeftOver` with the constants of `MCOutbox`: a round whose plan is shorter
  than an earlier one's settles the row as delivered, while parts the earlier
  round planned stay 'pending' or 'retry' (`delivery/service.py:106-160`).
  Nothing sends them, and nothing was promised of them.
- `OnePayloadPerRequest` with the constants of `MCSubmission`: a plugin submits an
  intent durably with an empty text (`plugins/core/ports.py:67-91`).  Once the
  process was restarted, or the cache has dropped the id, another intent under
  the same id has the same hash: it takes over an interrupted row and runs, or is
  answered with the first one's result, against `docs/plugins.md:486` and
  `BACKEND_PROGRESS.md:216`, by which a conflicting payload is refused.
- `RunningIsRemembered` with two plain requests and `CacheSize = 1`: a cancelled
  handle's future is done, the id is evicted while its turn runs, and a retry
  runs the model twice.

Turns and tools:

- `RecordedOnce` with the constants of `MCAgentTurn`: a stop right after a
  compaction under a running turn.  `current_turn_user_idx` points past the end,
  so the stopped transcript looks for the question, or starts with a new copy of
  it, and what the checkpoint holds is stored again
  (`agent/loop.py:698`, `agent/transcript.py:82-99`), against
  `session_store.py:76` "Save new messages only".
- `LastingGrantsLast` with the constants of `MCApprovals`: where a one-time and a
  lasting answer share a key, the revocation of the first takes the grant of the
  second, whichever came later (`security/evaluator.py:162-179`), against `docs/configuration.md:386`, by which
  what is cached is not asked for again before its TTL is over.

Plugins:

- `RemovalWasAsked` with install, disable and uninstall: uninstall under a
  lease, reinstall, disable: the old removal deletes the new installation.
- `UninstallCompletes` with the same operations: disable, then uninstall:
  STOPPED to DRAINING is refused, the package stays pending.
- `RetiredGenerationStops` without "loaded over": an object enabled again
  before its old generation is retired never closes the old scope
  (`plugins/core/manager.py:2131-2133`).  Without "put back": an install that
  fails over a draining predecessor makes it ACTIVE, and its retirement leaves
  it alone (`plugins/core/manager.py:2131-2133`).
- `LeasedGenerationRuns` and `RoutedIsRegistered` without "loaded over": disabled,
  enabled and disabled again, the retirement of the first generation closes the
  scope of the second (`plugins/core/manager.py:2131-2150`).
- `RoutedPackageOnDisk` without `unbacked`: a first install whose MCP server
  cannot be had, or whose plugin fails to start, discards the package of the
  generation it has published (`plugins/core/manager.py:944-957`), as does one
  over a predecessor that was STOPPED and is off the record.  Without "put back":
  an object put back as ACTIVE while its removal is under way stays on record
  when the removal deletes its package, and the rollback of the next install
  routes to it again.
- `UninstallCompletes` with `LoadsFail`: a reconciliation that raises after the
  unload ends the uninstall before it deletes anything
  (`plugins/core/manager.py:765-772`, 1020-1080) and leaves that to a retirement;
  an install that fails after publishing keeps a generation on record, and the
  removal waits for it.
- `RunsOnlyWhenWanted` without `slips`: each of the three races above;
  `RetiredWorkerStops` without "revived": the revived generation's Worker stays.
- `SettledAsDesired` without "overlap" or "not undone", `ReplacedRuntimesEnd`
  without `orphans`: the cases listed under McpServers.

`UninstallCompletes` is why `generations_remove` leaves "disable" out and lets
nothing fail.

## Proofs

TLAPS proves, for all values of the constants that satisfy the modules'
assumptions (any number of deliveries, callers, parts, attempts and crashes; any
tools, keys, calls and batches; any sessions, requests, payloads and calls of
`submit`; any limits, budgets and earlier history of a turn, with any steers and
stops; any packages, generations, snapshots and turns of a plugin; any runners,
watch tasks, restarts and deaths of a Worker; any turns, configurations, runtimes
and faults of a server):

| Module | Theorem | States |
|---|---|---|
| `OutboxProofs` | `TypeCorrect` | `Spec => []TypeOK` |
| `OutboxProofs` | `SendersExclude` | `Spec => []ExclusiveSender` |
| `OutboxProofs` | `SettledStays` | `Spec => SettledIsFinal` |
| `OutboxProofs` | `PartsOrdered` | `Spec => []PartsInOrder` |
| `OutboxProofs` | `DeliveredComplete` | `Spec => DeliveredIsComplete` |
| `OutboxProofs` | `OutboxImplementsContract` | `Spec => ImplementsContract` |
| `OutboxProofs` | `AnswersAreTrue` | `Spec => []AnswerIsTrue` |
| `OutboxProofs` | `SentOncePerLife` | `Spec => []DuplicatesNeedCrash`, when no outcome is "silent" |
| `SubmissionWorkerProofs` | `WorkersExclude` | `Spec => []OneWorkerPerSession` |
| `SubmissionWorkerProofs` | `NobodyStranded` | `Spec => []NoStrandedJob` |
| `SubmissionWorkerProofs` | `TurnsOrdered` | `Spec => []TurnsInOrder` |
| `SubmissionLedgerProofs` | `OncePerLife` | `Spec => []OneTurnPerLife` |
| `SubmissionLedgerProofs` | `RecordedPayloadRuns` | `Spec => []TurnsRunTheRecordedPayload` |
| `SubmissionLedgerProofs` | `DistinctHashesOnePayload` | `Spec => []OnePayloadPerRequest`, when no two payloads have one hash |
| `SubmissionLedgerProofs` | `ToldIsDurable` | `Spec => []CompletedIsDurable` |
| `SubmissionLedgerProofs` | `RecordedIsFinal` | `Spec => RecordedNeverReruns` |
| `SubmissionLedgerProofs` | `ClosedStaysQuiet` | `Spec => []ClosedIsQuiet` |
| `AgentTurnProofs` | `TypeCorrect` | `Spec => []TypeOK` |
| `AgentTurnProofs` | `PairedAlways` | `Spec => []ModelSeesPairedTools` |
| `AgentTurnProofs` | `SteersShown` | `Spec => []ConsumedSteerReachesModel` |
| `AgentTurnProofs` | `TurnRecorded` | `Spec => []EndedTurnIsRecorded` |
| `ToolApprovalsProofs` | `TypeCorrect` | `Spec => []TypeOK` |
| `ToolApprovalsProofs` | `GrantsBacked` | `Spec => []GrantsAreBacked` |
| `ToolApprovalsProofs` | `RefusedStaysRefused` | `Spec => []RefusedNeverRuns` |
| `PluginGenerationsProofs` | `TypeCorrect` | `Spec => []TypeOK` |
| `PluginGenerationsProofs` | `LeasesAreKept` | `Spec => []KeptWhileLeased` |
| `PluginGenerationsProofs` | `LeasedRunsAlways` | `Spec => []LeasedGenerationRuns` |
| `PluginGenerationsProofs` | `RetiredAlways` | `Spec => []RetiredGenerationStops` |
| `PluginGenerationsProofs` | `OneActiveAlways` | `Spec => []OneActiveGeneration` |
| `PluginGenerationsProofs` | `RoutedAlways` | `Spec => []RoutedIsRegistered` |
| `PluginGenerationsProofs` | `PackageAlways` | `Spec => []RoutedPackageOnDisk` |
| `PluginSupervisionProofs` | `TypeCorrect` | `Spec => []TypeOK` |
| `PluginSupervisionProofs` | `WantedAlways` | `Spec => []RunsOnlyWhenWanted` |
| `PluginSupervisionProofs` | `WatchedAlways` | `Spec => []RunningIsWatched` |
| `PluginSupervisionProofs` | `RetiredAlways` | `Spec => []RetiredWorkerStops` |
| `McpServersProofs` | `TypeCorrect` | `Spec => []TypeOK` |
| `McpServersProofs` | `RoutedStayUp` | `Spec => []RoutedRuntimeLives` |
| `McpServersProofs` | `PublishedInForce` | `Spec => []PublishedIsCurrent` |
| `McpServersProofs` | `SettledAlways` | `Spec => []SettledAsDesired` |

Two of the assumptions are there for the proofs alone.  `EarlierAssumption`: the
questions in the history a session begins with are not those of the turns to
come.  `DigestsAssumption`: 0, which stands for no package, is no digest.

`SettledStays` and the types of `Outbox`, `ToolApprovals` and `McpServers` are
proved and no longer model-checked.

The arguments:

- *Exclusion.*  `ExclusiveSender` is almost inductive.  A sender enters a round
  only through `ClaimRow`, which needs a claimable row and leaves 'sending', and
  leaves it through `RecordResult`; the restart empties all rounds before it
  reopens rows.
- *Order and completeness.*  `PartsInOrder` says nothing of the sender between
  two parts, so the invariant adds where a sender stands: every part before
  `idx` is delivered (`RoundInOrder`), and who is about to record "delivered" has
  every part of its own plan confirmed (`ResultIsTrue`).  Exclusion makes these
  facts of one sender stable under the others.  `DeliveredIsComplete`, a property
  of steps, follows at `RecordResult`, the one step that settles a row as
  delivered.
- *Duplicates.*  `DupInv` counts what the platform took: a part that may still
  be started was taken at most `crashes` times, unless its row is, or is about
  to be, closed as ambiguous; the same holds of a part whose send has not been
  answered or was refused; and a part in 'sending' has no other sender than the
  one that stands at it.  A silent timeout breaks this, which is why the theorem
  excludes it.
- *Refinement.*  The initial states map by inspection.  Each action maps to
  `Accept`, `Confirm`, `Settle` or a stutter; the previous invariants supply
  that a row is open in a round and complete when it is called delivered.
- *Grants.*  `GrantsAreBacked` needs `GrantsTidy`: one-time keys exist only while
  the batch runs, or the call is past its answer.  A key in force is then the
  business of the last answer that touched it; a revocation takes away exactly
  what one answer gave, and where an exception skips it the keys go to `left`.
- *Refusal.*  `StillMissing`: until the batch resumes with its answer and after
  it was refused, each candidate misses a key that only candidates need, so no
  grant to another call can clear it.  `RefusalKept` then holds a refused call
  where it is: over, with the refusal in its future, or a candidate that has not
  got past its check.
- *Workers.*  `WorkerInv` says which worker serves which queue (a session's
  worker has the session's present queue and its busy job is of that session),
  that a queue holds its session's jobs in the order of their numbers, and that
  whoever still is to start a turn has a higher number than whoever has.  A job
  gets into a queue in the step that finds or creates the worker, and a worker
  leaves in a step that finds the queue empty; that is all `NoStrandedJob` needs.
  A durable claim does not disturb the order, as it keeps the lock.
- *Ledger.*  `LedgerInv` rests on `WorkerInv`.  `RowOfJob`: the row of an active
  job says how far it is and has its payload's hash.  `ActiveAlone`: two active jobs
  have one id only when its row is on record.  `ClaimTrue`: what the claim under
  the lock returned is still so.  `TurnsCounted`: an id has at most one turn more
  than there were crashes, and at most as many as crashes while its row says
  that no turn runs.  `RecordedNeverReruns` then follows, as a turn starts only
  at a row that is 'accepted'.
- *Close.*  `CloseInv` rests on both.  `Accompanied`: a job that runs off no
  immediate task is the current job of a worker.  `Waits`: who waits for an
  answer waits for a job that is queued or runs.  `Winding`: from `close` on the
  queues are empty, the lock is free, and every worker and pipeline that is left
  is among the tasks `close` waits for, so that nothing is left when it returns.
- *Tool blocks.*  `Blocks` says that the messages consist of whole blocks
  between the steps, that a batch number is used once and none is used ahead of
  its batch, and that the messages with the results of the running batch are
  whole.  A compaction keeps a subset of the messages in their order; that this
  is a sequence with exactly those messages (`PickPaired` and the lemmas before
  it) is shown with the least position that would not fit, as induction is not
  to be had.  A kept half finds its other half by its number.
- *Steers.*  `Steering`: what was consumed before a request is in it, and a turn
  completes only through a request that followed the last consumption.
- *What is stored.*  `Joins` relates the messages of a running turn to the rows:
  before a checkpoint the rows do not hold the question and the messages hold it
  first after the rows' part; after one the rows are a prefix of the messages and
  hold a summary.  `Recording` follows it into the saving, where what is stored
  and what is still to be written make the whole record together.
- *Generations.*  `Snaps`, `Registry`, `Ledger` and `Operation` are the types and
  `KeptWhileLeased`.  `Staging`: while a candidate is staged its predecessor
  serves and no snapshot a turn can hold routes to the candidate.  `OneServes`:
  a loaded ACTIVE object is the one registered and routed, or a candidate being
  discarded.  `Recorded`: the record of a generation outlives its snapshots.
  Unless an object was "loaded over" another, `Matched` adds that a record and
  its object belong together, so that a retirement meets the scope of its own
  generation and not a new one.  `CleanedUp`: what is forgotten was cleaned up,
  and what is neither routed nor waiting is forgotten.  `Distinct`: two objects
  never hold one generation, so that a rollback finds the predecessor's own.

  `Packs` rests on all of this, for `RoutedPackageOnDisk`.  A generation is in use
  when a snapshot that is kept routes to it, or when a rollback may yet route to
  it again, as it is on record and its object is the registered one, a candidate,
  or the predecessor of an install under way; the `unbacked` are left out.
  `Packaged`: the package of a generation in use is on disk and is none that a
  waiting or a running install may still discard.  `Stored` says the same of the
  packages on record, and `ActiveRouted` that an object in force is routed to, so
  that a removal, which looks at what is routed, deletes no package in use.
- *Supervision.*  `Shape` says that a watch task that lives is the entry's one.
  `OneRootTask`: the root task that runs is of the last runner, and unless it was
  asked to stop it is wanted and someone awaits it, watches it or is about to
  replace it.  `Retiring`: a replaced generation is not ACTIVE again, so that its
  retirement stops it and cancels its recovery; a process left then is one the
  cancelled recovery spawned, which stops it.
- *MCP.*  `InForce` adds to the two properties that a runtime not yet created is
  known to nobody, that a candidate under way is neither in force, retired,
  shared nor another operation's candidate, that the one in force is shared, and
  that what is told to stop is routed to by nobody and is neither in force nor
  shared.  `Retire` may stop a runtime because it is retired, which one in force
  never is, and because no snapshot routes to it, which no later step changes:
  only what is shared is published.

  `Settling` adds what an operation does as long as no other one disturbs it: it
  works for what is desired or will be, and has replaced nothing that was as
  desired.

Where an invariant names a race (`slips`), the theorem says the same: it holds
until that race happens.

Every invariant and every safety property of a step that the runs check is
proved.  Model-checked only is liveness (`EverySubmissionIsAnswered`, `TurnEnds`,
`EveryBatchEnds`, `UninstallCompletes`, `ReplacedRuntimesEnd`, and
`ImplementsFairContract` beyond its safety part), which needs ENABLED and is out
of TLAPS's reach, and the two disagreements of the violation runs, which only a
counterexample can show.  `Submission` has no type invariant of its own: `Types`
in `SubmissionWorkerProofs` and `LedgerTypes` in `SubmissionLedgerProofs` are its
types, but for `memo`.

## Not modelled

- *Outbox:* artifacts and their cleanup, database errors in the worker's poll
  (one ends the loop, `delivery/outbox.py:247`), the worker's stop.
- *Submission:* `interrupt`, `steer`, what an intent or a command does.
- *Agent turns:* prompts, memory prefetch, skills, reports, undo; the process
  that dies in the middle of a turn.
- *Tools:* hooks, artifacts and audit other than that they may raise, calls made
  by tools; a guard's rules are a verdict that may always be a rejection.
- *Plugins:* rollback to a digest, forced uninstall with dependents (a second
  instance of `PluginGenerations`, beyond what TLC explores with the leases),
  boot-scoped kinds, data revisions, an install that is not enabled; required
  MCP servers, `quiesce` and `resume` of a runner.
- *MCP:* the protocol, `restart_server`, disabled configurations, the end of the
  application, colliding tool names.
- *Sub-agents, gateway, memory, cron, hooks, workflows:* not begun.  Sub-agents
  and the compression chain of sessions have state worth a module.
- *Models, platforms, user interfaces, configuration, diagnostics, plugin
  isolation:* input and output, parsing and rendering, with no behaviour over
  time beyond what the modules above take from them.  They are most of the
  source's lines.

## Plan

What is there was built in this order: the outbox and its contract, the
submission of turns, plugin generations, a turn, its tool calls, supervision,
MCP servers; and the proofs, in the same order but for the plugins and the turn,
which came last.  What would come next:

1. An abstract specification of an idempotent submission, with `Submission`
   shown, by a run and by proof, to implement it.
2. `SubAgents`: children, their slots, cancellation by the parent.
3. `SessionChain`: rotation of sessions and the compression chain of
   `gateway/`, composed with `AgentTurn`.
4. The artifact store's cleanup against pending deliveries, with a database
   error in the worker's poll.
5. A second plugin that depends on the first; rollback to a digest.
