------------------------- MODULE PluginSupervision -------------------------
(***************************************************************************)
(* One generation of an active plugin: the root task that ActiveSupervisor *)
(* starts, watches and restarts, and the Worker process that               *)
(* WorkerSupervisor brings back when it dies.                              *)
(*                                                                         *)
(* plugin.active_runner is always the runner created last, so `runner` is  *)
(* the sequence of the runners ever created and its end the current one.   *)
(* Four kinds of tasks run these methods at the same time: the owner of    *)
(* the active plugins (start_all and stop_all, under _lifecycle_lock), an  *)
(* operation of the user (one at a time per plugin), the recovery of the   *)
(* Worker, and the watch tasks. The plugin requires no MCP server.         *)
(***************************************************************************)
EXTENDS Integers, Sequences, FiniteSets

CONSTANTS
  Policy,        \* restart_policy: never, on_failure, always
  FailureLimit,  \* failures within the window that open the active circuit (5)
  WorkerLimit,   \* plugin_worker_restart_failure_limit
  Isolated,      \* a Worker process carries the plugin
  Watchers,      \* names for the watch tasks alive at once
  MaxRunners,    \* bound on the runners created
  MaxExits       \* bound on the deaths of Workers

ASSUME SupervisionAssumption ==
  /\ Policy \in {"never", "on_failure", "always"}
  /\ {FailureLimit, WorkerLimit, MaxRunners} \subseteq Nat \ {0}
  /\ MaxExits \in Nat /\ Isolated \in BOOLEAN
  /\ Watchers \intersect {"owner", "op", "worker", "none"} = {}

VARIABLES
  owner,     \* owner_running
  enabled,   \* active_enabled
  runner,    \* the runners: root task, readiness, control._stop
  failures,  \* active_failure_times within the window
  circuit,   \* active_circuit_open
  entry,     \* _watch_tasks[runtime_instance_id]
  proc,      \* where each task stands, and the runner it works on
  place,     \* the generation is registered, replaced by a newer one, or retired
  gen,       \* runtime_state
  up,        \* the Worker process lives
  exited,    \* its exit has not been seen by the event loop yet
  worker,    \* worker_state
  wfail,     \* worker_failure_times
  saved,     \* recovery_state of the running recovery
  should,    \* should_restart_active of the running recovery
  exits,     \* history: deaths of Workers
  slips      \* history: the races that already happened

active == <<owner, enabled, runner, failures, circuit, entry, proc>>
recovery == <<gen, up, exited, worker, wfail, saved, should, exits>>
vars == <<active, place, recovery, slips>>

Procs == Watchers \cup {"owner", "op", "worker"}
At(a, r) == [at |-> a, r |-> r]
Idle == At("idle", 0)
\* A new execution takes the place of a root task that still runs.
Displacing == IF runner[Len(runner)].task = "running" THEN slips \cup {"displaced"} ELSE slips
NewRunner == [task |-> "none", ready |-> FALSE, stop |-> FALSE]

Init ==
  /\ owner = FALSE /\ enabled \in BOOLEAN
  /\ runner = <<NewRunner>>
  /\ failures = 0 /\ circuit = FALSE /\ entry = "none"
  /\ proc = [p \in Procs |-> Idle]
  /\ place = "registered" /\ gen = "active"
  /\ up = Isolated /\ exited = FALSE /\ worker = "running"
  /\ wfail = 0 /\ saved = "active" /\ should = FALSE
  /\ exits = 0 /\ slips = {}

------------------------------------------------------------------------------
(* start, stop and watch *)

Live(rs, r) == rs[r].task = "running"
CurrentLive == Live(runner, Len(runner))
Set(p, state) == proc' = [proc EXCEPT ![p] = state]

\* start(plugin) in task p, up to the wait for readiness: nothing for a disabled
\* plugin or a live root task, a new execution in place of one that ended.
Executions(rs) == IF rs[Len(rs)].task = "none" THEN rs ELSE Append(rs, NewRunner)
StartBy(p, rs) ==
  IF ~enabled' \/ Live(rs, Len(rs))
  THEN runner' = rs /\ Set(p, Idle)
  ELSE LET started == Executions(rs) IN
       /\ Len(started) <= MaxRunners
       /\ runner' = [started EXCEPT ![Len(started)].task = "running"]
       /\ Set(p, At("ready", Len(started)))

\* runner.stop: the stop is requested, then the root task is awaited.
StopRunner(p, r, at) ==
  /\ runner' = [runner EXCEPT ![r].stop = TRUE]
  /\ Set(p, IF Live(runner, r) THEN At(at, r) ELSE Idle)

\* stop(plugin): nothing when the current runner was never started.
StopBy(p) ==
  IF runner[Len(runner)].task = "none"
  THEN Set(p, Idle) /\ UNCHANGED runner
  ELSE StopRunner(p, Len(runner), "stop")

\* wait_ready returned: the runner is committed and watched, unless a watch task
\* of the generation is still there. One whose root task ended wakes up first: the
\* event loop serves its callbacks in order, and the end of the old root task
\* comes before the new one is created.
StartCommits ==
  /\ \A w \in Watchers : proc[w].at = "watch" => Live(runner, proc[w].r)
  /\ \E p \in Procs :
       /\ proc[p].at = "ready" /\ runner[proc[p].r].ready
       /\ IF entry # "none"
          THEN Set(p, Idle) /\ UNCHANGED entry
          ELSE LET w == CHOOSE x \in Watchers : proc[x] = Idle IN
               /\ \E x \in Watchers : proc[x] = Idle
               /\ proc' = [proc EXCEPT ![p] = Idle, ![w] = At("watch", proc[p].r)]
               /\ entry' = w
  /\ UNCHANGED <<owner, enabled, runner, failures, circuit, place, recovery, slips>>

\* The root task ended before it was ready, or startup_timeout passed.
StartFails ==
  /\ \E p \in Procs :
       /\ proc[p].at = "ready" /\ ~runner[proc[p].r].ready
       /\ StopRunner(p, proc[p].r, "abort")
  /\ UNCHANGED <<owner, enabled, failures, circuit, entry, place, recovery, slips>>

\* shutdown_timeout: the root task is cancelled.
StopTimesOut ==
  /\ \E p \in Procs :
       /\ proc[p].at \in {"stop", "restop", "abort"} /\ Live(runner, proc[p].r)
       /\ runner' = [runner EXCEPT ![proc[p].r].task = "failed"]
  /\ UNCHANGED <<owner, enabled, failures, circuit, entry, proc, place, recovery, slips>>

StopDone ==
  /\ \E p \in Procs :
       /\ proc[p].at = "abort" \/ (proc[p].at = "stop" /\ p # "worker")
       /\ ~Live(runner, proc[p].r)
       /\ Set(p, Idle)
  /\ UNCHANGED <<owner, enabled, runner, failures, circuit, entry, place, recovery, slips>>

------------------------------------------------------------------------------
(* The root task *)

RunnerReady ==
  /\ Isolated => up
  /\ \E r \in DOMAIN runner :
       /\ Live(runner, r) /\ ~runner[r].ready /\ ~runner[r].stop
       /\ runner' = [runner EXCEPT ![r].ready = TRUE]
  /\ UNCHANGED <<owner, enabled, failures, circuit, entry, proc, place, recovery, slips>>

RunnerEnds ==
  /\ \E r \in DOMAIN runner, how \in {"ended", "failed"} :
       /\ Live(runner, r)
       /\ runner' = [runner EXCEPT ![r].task = how]
  /\ UNCHANGED <<owner, enabled, failures, circuit, entry, proc, place, recovery, slips>>

------------------------------------------------------------------------------
(* The watch task *)

\* _supervise after its root task ended: whether the runner is to be restarted.
Restartable(r) ==
  /\ ~runner[r].stop /\ owner /\ place = "registered" /\ enabled
  /\ Policy = "always" \/ (Policy = "on_failure" /\ runner[r].task = "failed")

CircuitOpens(n) == n >= FailureLimit

\* Wrong: the entry stays when its watch task ends.
KeepEntry == UNCHANGED entry

\* _discard_watch: a watch task that ends takes its entry away.
Discard == entry' = "none"

WatchSees ==
  /\ \E w \in Watchers :
       /\ proc[w].at = "watch" /\ ~Live(runner, proc[w].r)
       /\ IF Restartable(proc[w].r)
          THEN /\ failures' = failures + 1
               /\ circuit' = (circuit \/ CircuitOpens(failures'))
               /\ IF CircuitOpens(failures') THEN Set(w, Idle) /\ Discard
                  ELSE Set(w, At("backoff", proc[w].r)) /\ UNCHANGED entry
          ELSE Set(w, Idle) /\ Discard /\ UNCHANGED <<failures, circuit>>
  /\ UNCHANGED <<owner, enabled, runner, place, recovery, slips>>

\* Wrong: only the identity of the plugin is looked at.
StillRegistered == place = "registered"

\* The watch task gives up its entry before it starts the new execution.
HandOver == entry' = "none"

\* After the delay only the owner and the identity of the plugin are looked at
\* again; the new execution takes the place of whatever runs by then.
StillWanted == owner /\ place = "registered"

WatchRestarts ==
  /\ \E w \in Watchers :
       /\ proc[w].at = "backoff"
       /\ HandOver
       /\ UNCHANGED enabled
       /\ IF StillWanted
          THEN /\ Len(runner) < MaxRunners
               /\ StartBy(w, Append(runner, NewRunner))
               /\ slips' = Displacing
          ELSE Set(w, Idle) /\ UNCHANGED <<runner, slips>>
  /\ UNCHANGED <<owner, failures, circuit, place, recovery>>

\* The failures of more than five minutes ago are forgotten.
FailuresAge ==
  /\ failures > 0 /\ \A w \in Watchers : proc[w].at # "backoff"
  /\ failures' = 0
  /\ UNCHANGED <<owner, enabled, runner, circuit, entry, proc, place, recovery, slips>>

------------------------------------------------------------------------------
(* The owner and the operations *)

OwnerStarts ==
  /\ proc["owner"] = Idle /\ ~owner
  /\ owner' = TRUE /\ UNCHANGED enabled
  /\ IF place = "registered" THEN StartBy("owner", runner) ELSE UNCHANGED <<runner, proc>>
  /\ UNCHANGED <<failures, circuit, entry, place, recovery, slips>>

OwnerStops ==
  /\ proc["owner"] = Idle /\ owner
  /\ owner' = FALSE
  /\ IF place # "retired" THEN StopBy("owner") ELSE UNCHANGED <<runner, proc>>
  /\ UNCHANGED <<enabled, failures, circuit, entry, place, recovery, slips>>

SetActive ==
  /\ proc["op"] = Idle /\ place = "registered"
  /\ enabled' \in BOOLEAN
  /\ IF ~owner THEN UNCHANGED <<runner, proc>>
     ELSE IF enabled' THEN StartBy("op", runner) ELSE StopBy("op")
  /\ UNCHANGED <<owner, failures, circuit, entry, place, recovery, slips>>

\* restart, after its stop: circuit and failures are cleared.
Renew ==
  LET renewed == Append(runner, NewRunner) IN
  /\ Len(renewed) <= MaxRunners
  /\ circuit' = FALSE /\ failures' = 0
  /\ slips' = Displacing
  /\ UNCHANGED enabled
  /\ IF owner THEN StartBy("op", renewed) ELSE runner' = renewed /\ Set("op", Idle)

Restart ==
  /\ proc["op"] = Idle /\ place = "registered" /\ enabled
  /\ IF CurrentLive
     THEN StopRunner("op", Len(runner), "restop") /\ UNCHANGED <<enabled, failures, circuit, slips>>
     ELSE Renew
  /\ UNCHANGED <<owner, entry, place, recovery>>

RestartGoesOn ==
  /\ proc["op"].at = "restop" /\ ~Live(runner, proc["op"].r)
  /\ Renew
  /\ UNCHANGED <<owner, entry, place, recovery>>

\* A reload publishes a new generation and stops the runner of this one.
Replace ==
  /\ proc["op"] = Idle /\ place = "registered"
  /\ place' = "replaced" /\ gen' = "draining"
  /\ StopBy("op")
  /\ UNCHANGED <<owner, enabled, failures, circuit, entry, up, exited, worker, wfail, saved,
                 should, exits, slips>>

------------------------------------------------------------------------------
(* The Worker *)

WorkerExits ==
  /\ up /\ exits < MaxExits
  /\ up' = FALSE /\ exited' = TRUE /\ exits' = exits + 1
  /\ UNCHANGED <<active, place, gen, worker, wfail, saved, should, slips>>

\* _recover up to its first await.
BeginRecovery ==
  /\ saved' = gen /\ gen' = "failed"
  /\ worker' = "recovering"
  /\ Set("worker", At("closing", 0))

\* worker_exited: nothing for a stopped generation, nor while a recovery task of
\* it is not done.
ExitSeen ==
  /\ exited /\ exited' = FALSE
  /\ IF proc["worker"] = Idle /\ gen # "stopped" THEN BeginRecovery ELSE UNCHANGED <<saved, gen, worker, proc>>
  /\ UNCHANGED <<owner, enabled, runner, failures, circuit, entry, place, up, wfail, should,
                 exits, slips>>

\* One more failure of the Worker: the circuit opens or the delay begins.
CountFailure ==
  /\ wfail' = wfail + 1
  /\ IF wfail' >= WorkerLimit
     THEN worker' = "circuit_open" /\ Set("worker", Idle)
     ELSE Set("worker", At("backoff", 0)) /\ UNCHANGED worker

\* The dead process is closed; a root task that still runs is stopped.
RecoveryStops ==
  /\ proc["worker"].at = "closing"
  /\ should' = (enabled /\ owner /\ place = "registered")
  /\ IF CurrentLive
     THEN StopRunner("worker", Len(runner), "stop") /\ UNCHANGED <<wfail, worker>>
     ELSE CountFailure /\ UNCHANGED runner
  /\ UNCHANGED <<owner, enabled, failures, circuit, entry, place, gen, up, exited, saved, exits, slips>>

RecoveryStopped ==
  /\ proc["worker"].at = "stop" /\ ~Live(runner, proc["worker"].r)
  /\ CountFailure
  /\ UNCHANGED <<owner, enabled, runner, failures, circuit, entry, place, gen, up, exited, saved,
                 should, exits, slips>>

\* After the delay a new process is spawned in a thread.
WorkerSpawned ==
  /\ proc["worker"].at = "backoff"
  /\ up' = TRUE /\ Set("worker", At("spawned", 0))
  /\ UNCHANGED <<owner, enabled, runner, failures, circuit, entry, place, gen, exited, worker,
                 wfail, saved, should, exits, slips>>

\* It does not start, or offers other capabilities: the next recovery begins.
SpawnFails ==
  /\ proc["worker"].at = "backoff"
  /\ BeginRecovery
  /\ UNCHANGED <<owner, enabled, runner, failures, circuit, entry, place, up, exited, wfail, should,
                 exits, slips>>

\* The generation gets back the state it had before, and its runner starts if
\* it was wanted before.
Recovered ==
  /\ proc["worker"].at = "spawned"
  /\ worker' = "running" /\ gen' = saved
  /\ UNCHANGED enabled
  /\ IF should THEN StartBy("worker", runner) ELSE Set("worker", Idle) /\ UNCHANGED runner
  /\ slips' = slips \cup (IF place = "replaced" /\ saved = "active" THEN {"revived"} ELSE {})
                    \cup (IF runner' # runner /\ ~StillWanted THEN {"unwanted"} ELSE {})
  /\ UNCHANGED <<owner, failures, circuit, entry, place, up, exited, wfail, saved, should, exits>>

\* Wrong: the recovery goes on.
NotCancelled(at) == proc["worker"]

\* A recovery that is cancelled stops the process it spawns.
Cancelled(at) == IF at \in {"backoff", "spawned"} THEN At("cancelled", 0) ELSE Idle

\* _retire_snapshot, when the last lease is gone. The generation is forgotten
\* whatever its state, and stopped unless it is ACTIVE.
Retire ==
  /\ place = "replaced" /\ proc["op"] = Idle
  /\ place' = "retired"
  /\ IF gen = "active" THEN UNCHANGED <<gen, up, exited, worker, proc>>
     ELSE /\ gen' = "stopped" /\ worker' = "stopped"
          /\ up' = (up /\ proc["worker"].at = "spawned") /\ exited' = FALSE
          /\ Set("worker", Cancelled(proc["worker"].at))
  /\ UNCHANGED <<owner, enabled, runner, failures, circuit, entry, wfail, saved, should, exits, slips>>

LateWorkerStops ==
  /\ proc["worker"].at = "cancelled"
  /\ up' = FALSE /\ Set("worker", Idle)
  /\ UNCHANGED <<owner, enabled, runner, failures, circuit, entry, place, gen, exited, worker,
                 wfail, saved, should, exits, slips>>

------------------------------------------------------------------------------
Starting == StartCommits \/ StartFails \/ StopTimesOut \/ StopDone \/ RestartGoesOn
Watching == WatchSees \/ WatchRestarts
Recovering ==
  ExitSeen \/ RecoveryStops \/ RecoveryStopped \/ WorkerSpawned \/ Recovered \/ LateWorkerStops

Next ==
  \/ Starting \/ Watching \/ Recovering
  \/ RunnerReady \/ RunnerEnds \/ FailuresAge
  \/ OwnerStarts \/ OwnerStops \/ SetActive \/ Restart \/ Replace
  \/ WorkerExits \/ SpawnFails \/ Retire

\* The event loop runs what can run: delays pass, and starts and stops have
\* timeouts.
Spec ==
  Init /\ [][Next]_vars /\ WF_vars(Starting) /\ WF_vars(Watching) /\ WF_vars(Recovering)

------------------------------------------------------------------------------
(* Properties *)

TypeOK ==
  /\ {owner, enabled, circuit, up, exited, should} \subseteq BOOLEAN
  /\ runner \in Seq([task : {"none", "running", "ended", "failed"}, ready : BOOLEAN, stop : BOOLEAN])
  /\ Len(runner) \in 1 .. MaxRunners
  /\ {failures, wfail, exits} \subseteq Nat
  /\ proc \in [Procs -> [at : {"idle", "ready", "stop", "restop", "abort", "watch", "backoff",
                               "closing", "spawned", "cancelled"}, r : 0 .. MaxRunners]]
  /\ entry \in Watchers \cup {"none"}
  /\ entry # "none" => proc[entry].at \in {"watch", "backoff"}
  /\ place \in {"registered", "replaced", "retired"}
  /\ {gen, saved} \subseteq {"active", "draining", "failed", "stopped"}
  /\ worker \in {"running", "recovering", "circuit_open", "stopped"}
  /\ slips \subseteq {"displaced", "revived", "unwanted"}

Free(r) == Live(runner, r) /\ ~runner[r].stop

\* Unless one of the races happened, only the current runner has a root task
\* that nobody asked to stop, and only while the owner runs, the plugin is
\* enabled and the generation is the registered one.
RunsOnlyWhenWanted ==
  slips = {} => \A r \in DOMAIN runner : Free(r) =>
    r = Len(runner) /\ owner /\ enabled /\ place = "registered"

\* A root task that runs is awaited by the task that starts it, or watched, or a
\* restart is due that replaces it: none fails unnoticed, unless a race happened.
RunningIsWatched ==
  slips = {} => \A r \in DOMAIN runner : Free(r) =>
    \/ \E p \in Procs : proc[p].r = r /\ proc[p].at \in {"ready", "watch"}
    \/ \E w \in Watchers : proc[w].at = "backoff"

\* A retired generation leaves no Worker process behind, unless its recovery
\* made the replaced generation ACTIVE again.
RetiredWorkerStops ==
  place = "retired" /\ "revived" \notin slips => ~up \/ proc["worker"].at = "cancelled"

------------------------------------------------------------------------------
(* What the documents say and the code does not do. *)

\* docs/plugins.md:217: a Worker that exits is restarted, until its circuit opens.
WorkerComesBack == Isolated /\ ~up /\ place = "registered" ~> up \/ worker = "circuit_open" \/ place # "registered"
=============================================================================
