----------------------------- MODULE McpServers -----------------------------
(***************************************************************************)
(* The runtimes of one configured MCP server: MCPManager, which replaces   *)
(* and removes them when plugin operations reconcile, MCPServerRuntime,    *)
(* whose owner task connects, serves, refreshes and reconnects, and the    *)
(* leases of capability snapshots, which decide when a replaced runtime is *)
(* stopped.                                                                *)
(*                                                                         *)
(* Two plugin operations may be under way: "owner", on the plugin that     *)
(* registers the server, and "other", on another plugin, which reconciles  *)
(* every server with the configurations it read at its start.  Not         *)
(* modelled: disabled configurations, the end of the application, the      *)
(* names and schemas of tools, and `available`, which call_tool does not   *)
(* rely on.                                                                *)
(***************************************************************************)
EXTENDS Integers, FiniteSets

CONSTANTS
  Turns,       \* tasks that lease a snapshot
  Configs,     \* configurations of the server
  None,        \* no configuration: the server is not wanted
  First,       \* the configuration at the start
  MaxRuntimes, \* bound on the runtimes created
  MaxFaults,   \* bound on failures and on lists that are announced
  MaxChanges   \* bound on the operations of the owner

ASSUME ConfigAssumption == None \notin Configs /\ First \in Configs
ASSUME RuntimeBounds == MaxRuntimes \in Nat \ {0} /\ MaxFaults \in Nat /\ MaxChanges \in Nat

Runtimes == 1 .. MaxRuntimes
Ops == {"owner", "other"}

VARIABLES
  config,  \* per runtime: its configuration
  state,   \* MCPRuntimeState
  at,      \* where the owner task _run stands, "none" before start()
  tools,   \* the registrar holds tools
  shared,  \* _global_active: its tools are those of the tool registry
  stopper, \* its stop(): "none", "waiting" (_stop_event is set) or "over"
  made,    \* the runtimes created so far
  faults,  \* the failures and announcements so far
  current, \* _runtimes[name], 0 for none
  retired, \* _retired_runtimes
  orphans, \* history: those replaced while no snapshot routed to them
  routed,  \* the runtime the current snapshot routes to, 0 for none
  lease,   \* the runtime each turn's snapshot routes to, 0 for none
  leaving, \* runtimes whose last snapshot waits for its retire task
  desired, \* _desired_mcp_configs(): what the plugins register
  op,      \* per operation: its step, what it wants, its candidate
  changes, \* the operations of the owner so far
  slips    \* history: which of the known races have happened

owners == <<config, state, at, tools, shared, stopper, made, faults>>
routing == <<routed, lease, leaving>>
manager == <<current, retired, orphans>>
plans == <<desired, op, changes, slips>>
vars == <<config, state, at, tools, shared, stopper, made, faults, current, retired,
          orphans, routed, lease, leaving, desired, op, changes, slips>>

Idle == [kind |-> "none", step |-> "none", want |-> None, cand |-> 0]

Init ==
  /\ config = [r \in Runtimes |-> First]
  /\ state = [r \in Runtimes |-> IF r = 1 THEN "connecting" ELSE "stopped"]
  /\ at = [r \in Runtimes |-> IF r = 1 THEN "connect" ELSE "none"]
  /\ tools = [r \in Runtimes |-> FALSE]
  /\ shared = [r \in Runtimes |-> r = 1]
  /\ stopper = [r \in Runtimes |-> "none"]
  /\ made = 1 /\ faults = 0
  /\ current = 1 /\ retired = {} /\ orphans = {}
  /\ routed = 0 /\ lease = [t \in Turns |-> 0] /\ leaving = {}
  /\ desired = First
  /\ op = [o \in Ops |-> Idle]
  /\ changes = 0 /\ slips = {}

-----------------------------------------------------------------------------
(* Snapshots and their leases *)

(* Wrong: no lease is counted. *)
LeasesUncounted == {}

Leased == {lease[t] : t \in Turns}
Retained == {routed} \cup Leased

(* refresh_mcp_tools publishes what runtime r offers; 0 for no tools.  The  *)
(* replaced snapshot is retired at once when no turn leases it.             *)
Publish(r) ==
  /\ routed' = r
  /\ leaving' = IF routed \in {0, r} \cup Leased THEN leaving ELSE leaving \cup {routed}
  /\ UNCHANGED lease

Acquire(t) ==
  /\ lease[t] = 0 /\ routed # 0
  /\ lease' = [lease EXCEPT ![t] = routed]
  /\ UNCHANGED <<owners, manager, plans, routed, leaving>>

LastLease(t) == \A u \in Turns \ {t} : lease[u] # lease[t]

(* Wrong: a snapshot that is leased no more is not retired. *)
ReleaseForgetsSnapshot(t) ==
  /\ lease[t] # 0
  /\ lease' = [lease EXCEPT ![t] = 0]
  /\ UNCHANGED <<owners, manager, plans, routed, leaving>>

Release(t) ==
  /\ lease[t] # 0
  /\ lease' = [lease EXCEPT ![t] = 0]
  /\ leaving' = IF LastLease(t) /\ lease[t] # routed THEN leaving \cup {lease[t]} ELSE leaving
  /\ UNCHANGED <<owners, manager, plans, routed>>

-----------------------------------------------------------------------------
(* The owner task: _run and _ready_loop *)

Fault == faults < MaxFaults /\ faults' = faults + 1

Stopping(r) == stopper[r] # "none"

(* Wrong: published whether the tools are the global ones or not. *)
SyncPublishesAnyway(r, some) ==
  /\ tools' = [tools EXCEPT ![r] = some]
  /\ IF some # tools[r]
     THEN Publish(IF some THEN r ELSE 0)
     ELSE UNCHANGED routing

(* sync() found other tools than before and the registrar's are the global  *)
(* ones: they are published.                                                *)
Sync(r, some) ==
  /\ tools' = [tools EXCEPT ![r] = some]
  /\ IF shared[r] /\ some # tools[r]
     THEN Publish(IF some THEN r ELSE 0)
     ELSE UNCHANGED routing

Connected(r, some) ==
  /\ at[r] = "connect"
  /\ Sync(r, some)
  /\ state' = [state EXCEPT ![r] = "ready"]
  /\ at' = [at EXCEPT ![r] = "ready"]
  /\ UNCHANGED <<config, shared, stopper, made, faults, manager, plans>>

(* ValueError is permanent, anything else is tried again.                   *)
ConnectFails(r, permanent) ==
  /\ Fault
  /\ at[r] = "connect"
  /\ state' = [state EXCEPT ![r] = IF permanent THEN "failed" ELSE "reconnecting"]
  /\ at' = [at EXCEPT ![r] = IF permanent THEN "give up" ELSE "close"]
  /\ UNCHANGED <<config, tools, shared, stopper, made, manager, routing, plans>>

(* _wait_for_signal: stop wins over a reconnect, and both over a refresh.   *)
StopSeen(r) ==
  /\ at[r] = "ready" /\ Stopping(r)
  /\ at' = [at EXCEPT ![r] = "give up"]
  /\ UNCHANGED <<config, state, tools, shared, stopper, made, faults, manager, routing, plans>>

(* A call has failed, or the ping does.                                     *)
ConnectionLost(r) ==
  /\ Fault
  /\ at[r] = "ready" /\ ~Stopping(r)
  /\ state' = [state EXCEPT ![r] = "reconnecting"]
  /\ at' = [at EXCEPT ![r] = "close"]
  /\ UNCHANGED <<config, tools, shared, stopper, made, manager, routing, plans>>

RefreshSeen(r) ==
  /\ Fault
  /\ at[r] = "ready" /\ ~Stopping(r)
  /\ at' = [at EXCEPT ![r] = "refresh"]
  /\ UNCHANGED <<config, state, tools, shared, stopper, made, manager, routing, plans>>

(* The list arrives although a call may have failed, or stop() been called, *)
(* since it was asked for.                                                  *)
Refreshed(r, some) ==
  /\ at[r] = "refresh"
  /\ Sync(r, some)
  /\ state' = [state EXCEPT ![r] = "ready"]
  /\ at' = [at EXCEPT ![r] = "ready"]
  /\ UNCHANGED <<config, shared, stopper, made, faults, manager, plans>>

RefreshFails(r) ==
  /\ at[r] = "refresh"
  /\ state' = [state EXCEPT ![r] = "degraded"]
  /\ at' = [at EXCEPT ![r] = "ready"]
  /\ UNCHANGED <<config, tools, shared, stopper, made, faults, manager, routing, plans>>

Closed(r) ==
  /\ at[r] \in {"close", "give up"}
  /\ at' = [at EXCEPT ![r] = IF at[r] = "give up" \/ Stopping(r) THEN "end" ELSE "delay"]
  /\ UNCHANGED <<config, state, tools, shared, stopper, made, faults, manager, routing, plans>>

(* The delay is over; it waits for the stop event and for nothing else.     *)
Retry(r) ==
  /\ at[r] = "delay" /\ ~Stopping(r)
  /\ at' = [at EXCEPT ![r] = "connect"]
  /\ state' = [state EXCEPT ![r] = "reconnecting"]
  /\ UNCHANGED <<config, tools, shared, stopper, made, faults, manager, routing, plans>>

(* A turn's call fails or is cancelled, perhaps one made on an earlier      *)
(* connection.                                                              *)
CallFails(t) ==
  LET r == lease[t] IN
    /\ r # 0
    /\ Fault
    /\ state' = [state EXCEPT ![r] = "reconnecting"]
    /\ UNCHANGED <<config, at, tools, shared, stopper, made, manager, routing, plans>>

-----------------------------------------------------------------------------
(* stop() *)

(* The task is cancelled: a connection is closed, a delay or a close is cut. *)
CancelledAt(place) ==
  CASE place \in {"connect", "ready", "refresh"} -> "give up"
    [] OTHER -> "end"

(* Up to its wait for the owner task.  A runtime that is connecting has no  *)
(* other way to hear of it and is cancelled.                                *)
BeginStop(r) ==
  /\ stopper' = [stopper EXCEPT ![r] = "waiting"]
  /\ state' = [state EXCEPT ![r] = "stopping"]
  /\ at' = IF state[r] \in {"connecting", "reconnecting"}
           THEN [at EXCEPT ![r] = CancelledAt(@)]
           ELSE [at EXCEPT ![r] = IF @ = "delay" THEN "end" ELSE @]

(* The owner has ended, or its close has outlived two timeouts.             *)
StopReturns(r) ==
  /\ stopper[r] = "waiting"
  /\ at[r] \in {"end", "close", "give up"}
  /\ stopper' = [stopper EXCEPT ![r] = "over"]
  /\ state' = [state EXCEPT ![r] = "stopped"]
  /\ at' = [at EXCEPT ![r] = IF @ = "end" THEN @ ELSE "give up"]
  /\ tools' = [tools EXCEPT ![r] = FALSE]
  /\ IF shared[r] /\ tools[r] THEN Publish(0) ELSE UNCHANGED routing
  /\ UNCHANGED <<config, shared, made, faults, manager, plans>>

(* The refresh or the ping outlives the timeout.                            *)
StopCancels(r) ==
  /\ stopper[r] = "waiting" /\ at[r] \in {"ready", "refresh"}
  /\ at' = [at EXCEPT ![r] = CancelledAt(@)]
  /\ UNCHANGED <<config, state, tools, shared, stopper, made, faults, manager, routing, plans>>

(* The task that retires a snapshot, and the one it starts for a runtime    *)
(* that no snapshot routes to by then.                                      *)
Retire(r) ==
  /\ r \in leaving
  /\ leaving' = leaving \ {r}
  /\ IF r \in retired \ Retained
     THEN retired' = retired \ {r} /\ BeginStop(r)
     ELSE UNCHANGED <<retired, stopper, state, at>>
  /\ UNCHANGED <<config, tools, shared, made, faults, current, orphans, routed, lease, plans>>

-----------------------------------------------------------------------------
(* reconcile() *)

Forget == [shared EXCEPT ![current] = FALSE]

(* What is retired without a snapshot that routes to it has no retirement   *)
(* to wait for.                                                             *)
RetireCurrent ==
  /\ retired' = retired \cup {current}
  /\ orphans' = IF current \in Retained THEN orphans ELSE orphans \cup {current}

(* remove_server happens before the first wait.                             *)
BeginReconcile(o, kind, want) ==
  /\ op' = [op EXCEPT ![o] = [kind |-> kind, step |-> "visit", want |-> want, cand |-> 0]]
  /\ slips' = slips \cup {"overlap" : p \in {p \in Ops \ {o} : op[p].step # "none"}}
  /\ IF want = None /\ current # 0
     THEN /\ current' = 0
          /\ shared' = Forget
          /\ Publish(0)
          /\ RetireCurrent
     ELSE UNCHANGED <<manager, routing, shared>>
  /\ UNCHANGED <<config, state, at, tools, stopper, made, faults>>

(* enable, disable, a first install: the registrations have changed.        *)
OwnerApplies(c) ==
  /\ op["owner"] = Idle /\ changes < MaxChanges
  /\ c = None \/ desired = None
  /\ desired' = c /\ changes' = changes + 1
  /\ BeginReconcile("owner", "apply", c)

(* A reload or update: the candidate's servers are reconciled before its    *)
(* registrations take effect.                                               *)
OwnerStages(c) ==
  /\ op["owner"] = Idle /\ changes < MaxChanges
  /\ changes' = changes + 1
  /\ BeginReconcile("owner", "stage", c)
  /\ UNCHANGED desired

OtherReconciles ==
  /\ op["other"] = Idle
  /\ BeginReconcile("other", "apply", desired)
  /\ UNCHANGED <<desired, changes>>

AfterReconcile(o) ==
  op' = [op EXCEPT ![o] = IF @.kind = "stage" THEN [@ EXCEPT !.step = "publish"] ELSE Idle]

(* The loop reaches this server, perhaps after the servers before it.       *)
AsWanted(o) == op[o].want = None \/ (current # 0 /\ config[current] = op[o].want)

VisitAsWanted(o) ==
  /\ op[o].step = "visit" /\ AsWanted(o)
  /\ AfterReconcile(o)
  /\ UNCHANGED <<owners, manager, routing, desired, changes, slips>>

(* replace_server: a candidate that does not share its tools yet.           *)
VisitReplaces(o) ==
  LET r == made + 1 IN
    /\ op[o].step = "visit" /\ ~AsWanted(o)
    /\ r \in Runtimes
    /\ made' = r
    /\ config' = [config EXCEPT ![r] = op[o].want]
    /\ state' = [state EXCEPT ![r] = "connecting"]
    /\ at' = [at EXCEPT ![r] = "connect"]
    /\ op' = [op EXCEPT ![o].step = "wait", ![o].cand = r]
    /\ UNCHANGED <<tools, shared, stopper, faults, manager, routing, desired, changes, slips>>

(* _initial_attempt_done is set.                                            *)
Attempted(r) == state[r] # "connecting"

(* The previous runtime gives up the registry, the candidate takes it.      *)
Activate(c) == [r \in Runtimes |-> IF r = c THEN TRUE ELSE IF r = current THEN FALSE ELSE shared[r]]

CandidateTakesOver(o) ==
  LET c == op[o].cand IN
    /\ op[o].step = "wait" /\ Attempted(c) /\ state[c] # "failed"
    /\ shared' = Activate(c)
    /\ current' = c
    /\ IF tools[c] THEN Publish(c) ELSE UNCHANGED routing
    /\ IF current = 0 THEN UNCHANGED <<retired, orphans>> ELSE RetireCurrent
    /\ AfterReconcile(o)
    /\ UNCHANGED <<config, state, at, tools, stopper, made, faults, desired, changes, slips>>

CandidateFails(o) ==
  LET c == op[o].cand IN
    /\ op[o].step = "wait" /\ Attempted(c) /\ state[c] = "failed"
    /\ BeginStop(c)
    /\ op' = [op EXCEPT ![o].step = "discard"]
    /\ UNCHANGED <<config, tools, shared, made, faults, manager, routing, desired, changes, slips>>

(* reconcile() raises; what was only staged is rolled back.                 *)
Slip(kind) == IF kind = "undo" THEN "not undone" ELSE "not applied"

ReconcileRaises(o) ==
  /\ op[o].step = "discard" /\ stopper[op[o].cand] = "over"
  /\ IF op[o].kind = "stage"
     THEN BeginReconcile(o, "undo", desired)
     ELSE /\ op' = [op EXCEPT ![o] = Idle]
          /\ slips' = slips \cup {Slip(op[o].kind)}
          /\ UNCHANGED <<owners, manager, routing>>
  /\ UNCHANGED <<desired, changes>>

StagePublished ==
  /\ op["owner"].step = "publish"
  /\ desired' = op["owner"].want
  /\ op' = [op EXCEPT !["owner"] = Idle]
  /\ UNCHANGED <<owners, manager, routing, changes, slips>>

(* Wrong: the servers are left as they are. *)
StageFailsQuietly ==
  /\ op["owner"].step = "publish"
  /\ op' = [op EXCEPT !["owner"] = Idle]
  /\ UNCHANGED <<owners, manager, routing, desired, changes, slips>>

(* The candidate plugin fails after its servers were reconciled.            *)
StageFails ==
  /\ op["owner"].step = "publish"
  /\ BeginReconcile("owner", "undo", desired)
  /\ UNCHANGED <<desired, changes>>

-----------------------------------------------------------------------------
OwnerTask(r) ==
  \/ \E some \in BOOLEAN : Connected(r, some) \/ Refreshed(r, some)
  \/ \E permanent \in BOOLEAN : ConnectFails(r, permanent)
  \/ StopSeen(r) \/ ConnectionLost(r) \/ RefreshSeen(r) \/ RefreshFails(r)
  \/ Closed(r) \/ Retry(r)

Reconciliation ==
  \/ \E c \in Configs \cup {None} : OwnerApplies(c) \/ OwnerStages(c)
  \/ OtherReconciles \/ StagePublished \/ StageFails
  \/ \E o \in Ops : VisitAsWanted(o) \/ VisitReplaces(o) \/ CandidateTakesOver(o)
                      \/ CandidateFails(o) \/ ReconcileRaises(o)

Next ==
  \/ \E t \in Turns : Acquire(t) \/ Release(t) \/ CallFails(t)
  \/ \E r \in Runtimes : OwnerTask(r) \/ StopCancels(r) \/ StopReturns(r) \/ Retire(r)
  \/ Reconciliation

Spec == Init /\ [][Next]_vars

(* What the owner task does without waiting for anybody: attempts, requests *)
(* and closes end, delays run out.                                         *)
Onward(r) ==
  \/ \E some \in BOOLEAN : Connected(r, some) \/ Refreshed(r, some)
  \/ \E permanent \in BOOLEAN : ConnectFails(r, permanent)
  \/ StopSeen(r) \/ RefreshFails(r) \/ Closed(r) \/ Retry(r)

(* Turns end, timeouts and tasks run.  Once the failures are over a server  *)
(* that is tried again answers.                                             *)
Fairness ==
  /\ \A t \in Turns : WF_vars(Release(t))
  /\ WF_vars(\E r \in Runtimes : Onward(r) \/ StopReturns(r) \/ Retire(r))

FairSpec == Spec /\ Fairness

-----------------------------------------------------------------------------
States == {"stopped", "connecting", "ready", "degraded", "reconnecting", "failed", "stopping"}
Places == {"none", "connect", "ready", "refresh", "close", "give up", "delay", "end"}

TypeOK ==
  /\ config \in [Runtimes -> Configs] /\ state \in [Runtimes -> States]
  /\ at \in [Runtimes -> Places] /\ tools \in [Runtimes -> BOOLEAN]
  /\ shared \in [Runtimes -> BOOLEAN]
  /\ stopper \in [Runtimes -> {"none", "waiting", "over"}]
  /\ made \in Runtimes /\ faults \in Nat /\ current \in Runtimes \cup {0}
  /\ retired \subseteq Runtimes /\ orphans \subseteq Runtimes /\ leaving \subseteq Runtimes
  /\ routed \in Runtimes \cup {0} /\ lease \in [Turns -> Runtimes \cup {0}]
  /\ desired \in Configs \cup {None}
  /\ op \in [Ops -> [kind : {"none", "apply", "stage", "undo"}, want : Configs \cup {None},
                     step : {"none", "visit", "wait", "discard", "publish"},
                     cand : Runtimes \cup {0}]]
  /\ changes \in Nat /\ slips \subseteq {"overlap", "not undone", "not applied"}

(* No runtime is told to stop while a turn, or a turn to come, may call it. *)
RoutedRuntimeLives ==
  \A r \in Runtimes : r = routed \/ (\E t \in Turns : lease[t] = r) => stopper[r] = "none"

(* What the snapshot and the tool registry offer is the runtime in force,   *)
(* whatever replaces, refreshes or loses tools in between.                  *)
PublishedIsCurrent ==
  /\ \A r \in Runtimes : shared[r] => r = current
  /\ current = 0 => routed = 0
  /\ current # 0 => (tools[current] => routed = current)

(* With no operation under way the server runs, or not, as the plugins have *)
(* it, whether reloads succeed or fail; unless two reconciliations met, one *)
(* could not be taken back, or a server that was added could not be had.    *)
SettledAsDesired ==
  (\A o \in Ops : op[o] = Idle) /\ slips \cap {"overlap", "not undone"} = {} =>
    IF current = 0 THEN desired = None \/ "not applied" \in slips ELSE config[current] = desired

(* Whoever is told to stop, and whoever is replaced and routed to by no     *)
(* snapshot any more, ends; except what was replaced while unrouted.        *)
Going == (retired \ (orphans \cup {routed})) \cup {r \in Runtimes : Stopping(r)}

ReplacedRuntimesEnd == (\E r \in Going : at[r] # "end") ~> (\A r \in Going : at[r] = "end")
=============================================================================
