----------------------- MODULE PluginSupervisionProofs -----------------------
(***************************************************************************)
(* Proofs about PluginSupervision for any number of runners, watch tasks   *)
(* and deaths of a Worker: types, which root tasks run and who watches     *)
(* them as long as no race has happened, and what a retired generation     *)
(* leaves behind.                                                          *)
(***************************************************************************)
EXTENDS PluginSupervision, SequenceTheorems, TLAPS

Tasks == {"none", "running", "ended", "failed"}
Runners == [task : Tasks, ready : BOOLEAN, stop : BOOLEAN]
Positions == {"idle", "ready", "stop", "restop", "abort", "watch", "backoff", "closing", "spawned",
              "cancelled"}
Whereabouts == [at : Positions, r : 0 .. MaxRunners]

(* A watch task that has not ended is the one of the entry.                 *)
OneWatch == \A w \in Watchers : proc[w].at \in {"watch", "backoff"} => entry = w

(* Who waits for a runner waits for one there is.                           *)
OnRunner ==
  \A p \in Procs :
    proc[p].at \in {"ready", "stop", "restop", "abort", "watch"} => proc[p].r \in 1 .. Len(runner)

(* A restart holds the plugin's lock, so that no reload comes in between.   *)
RestartKeepsPlace == proc["op"].at = "restop" => place = "registered"

Shape == TypeOK /\ OneWatch /\ OnRunner /\ RestartKeepsPlace

-----------------------------------------------------------------------------
(* Sequences of runners *)

LEMMA Records ==
  ASSUME NEW x \in Runners, NEW task \in Tasks
  PROVE  /\ [x EXCEPT !.stop = TRUE] \in Runners /\ [x EXCEPT !.ready = TRUE] \in Runners
         /\ [x EXCEPT !.task = task] \in Runners
         /\ [x EXCEPT !.stop = TRUE].stop /\ [x EXCEPT !.stop = TRUE].task = x.task
         /\ [x EXCEPT !.ready = TRUE].task = x.task /\ [x EXCEPT !.ready = TRUE].stop = x.stop
         /\ [x EXCEPT !.task = task].task = task
  BY DEF Runners

(* One runner of the sequence is replaced.                                  *)
Changed(rs, r, x) ==
  /\ runner' \in Seq(Runners) /\ Len(runner') = Len(rs)
  /\ runner'[r] = x /\ \A k \in 1 .. Len(rs) : k # r => runner'[k] = rs[k]

LEMMA ChangeOne ==
  ASSUME NEW rs \in Seq(Runners), NEW r \in 1 .. Len(rs), NEW x \in Runners,
         runner' = [rs EXCEPT ![r] = x]
  PROVE  Changed(rs, r, x)
  BY ExceptSeq DEF Changed

LEMMA StopsOne ==
  ASSUME NEW rs \in Seq(Runners), NEW r \in 1 .. Len(rs), runner' = [rs EXCEPT ![r].stop = TRUE]
  PROVE  Changed(rs, r, [rs[r] EXCEPT !.stop = TRUE])
<1>1. rs[r] \in Runners
  BY ElementOfSeq
<1>2. [rs[r] EXCEPT !.stop = TRUE] \in Runners
  BY <1>1, Records DEF Tasks
<1>. QED BY <1>2, ChangeOne

LEMMA ReadiesOne ==
  ASSUME NEW rs \in Seq(Runners), NEW r \in 1 .. Len(rs), runner' = [rs EXCEPT ![r].ready = TRUE]
  PROVE  Changed(rs, r, [rs[r] EXCEPT !.ready = TRUE])
<1>1. rs[r] \in Runners
  BY ElementOfSeq
<1>2. [rs[r] EXCEPT !.ready = TRUE] \in Runners
  BY <1>1, Records DEF Tasks
<1>. QED BY <1>2, ChangeOne

LEMMA TasksOne ==
  ASSUME NEW rs \in Seq(Runners), NEW r \in 1 .. Len(rs), NEW task \in Tasks,
         runner' = [rs EXCEPT ![r].task = task]
  PROVE  Changed(rs, r, [rs[r] EXCEPT !.task = task])
<1>1. rs[r] \in Runners
  BY ElementOfSeq
<1>2. [rs[r] EXCEPT !.task = task] \in Runners
  BY <1>1, Records
<1>. QED BY <1>2, ChangeOne

(* A new execution is one more runner, which does not run yet.              *)
LEMMA OneMore ==
  ASSUME NEW rs \in Seq(Runners)
  PROVE  /\ Append(rs, NewRunner) \in Seq(Runners)
         /\ Len(Append(rs, NewRunner)) = Len(rs) + 1 /\ Len(rs) \in Nat
         /\ \A k \in 1 .. Len(rs) : Append(rs, NewRunner)[k] = rs[k]
         /\ Append(rs, NewRunner)[Len(rs) + 1] = NewRunner
         /\ NewRunner \in Runners /\ NewRunner.task = "none"
<1>1. NewRunner \in Runners /\ NewRunner.task = "none"
  BY DEF NewRunner, Runners, Tasks
<1>. QED BY <1>1, AppendProperties, LenProperties

(* What start(plugin) does: nothing, or it runs the last execution.         *)
Refused(p, rs) ==
  (~enabled' \/ Live(rs, Len(rs))) /\ runner' = rs /\ proc' = [proc EXCEPT ![p] = Idle]

Runs(p, rs) ==
  LET n == Len(runner') IN
    /\ enabled' /\ ~Live(rs, Len(rs))
    /\ runner' \in Seq(Runners) /\ n \in 1 .. MaxRunners /\ n \in {Len(rs), Len(rs) + 1}
    /\ runner'[n].task = "running"
    /\ \A k \in 1 .. Len(rs) : k # n => runner'[k] = rs[k]
    /\ proc' = [proc EXCEPT ![p] = At("ready", n)]

LEMMA StartEffect ==
  ASSUME NEW rs \in Seq(Runners), rs # <<>>, NEW p, StartBy(p, rs)
  PROVE  Refused(p, rs) \/ Runs(p, rs)
<1>1. Len(rs) \in Nat \ {0}
  BY EmptySeq
<1>2. CASE ~enabled' \/ Live(rs, Len(rs))
  BY <1>2 DEF StartBy, Refused, Set
<1>3. CASE enabled' /\ ~Live(rs, Len(rs))
  <2>. DEFINE started == Executions(rs)
              n == Len(started)
  <2>1. /\ n <= MaxRunners /\ runner' = [started EXCEPT ![n].task = "running"]
        /\ proc' = [proc EXCEPT ![p] = At("ready", n)]
    BY <1>3 DEF StartBy, Set
  <2>2. /\ started \in Seq(Runners) /\ n \in {Len(rs), Len(rs) + 1}
        /\ \A k \in 1 .. Len(rs) : started[k] = rs[k]
    BY <1>1, OneMore DEF Executions
  <2>3. n \in 1 .. n /\ n \in 1 .. MaxRunners
    BY <1>1, <2>1, <2>2, SupervisionAssumption
  <2>. HIDE DEF started, n
  <2>4. Changed(started, n, [started[n] EXCEPT !.task = "running"])
    BY <2>1, <2>2, <2>3, TasksOne DEF Tasks, n
  <2>5. started[n] \in Runners
    BY <2>2, <2>3, ElementOfSeq DEF n
  <2>6. /\ runner' \in Seq(Runners) /\ Len(runner') = n
        /\ runner'[n].task = "running"
        /\ \A k \in 1 .. n : k # n => runner'[k] = started[k]
    BY <2>4, <2>5, Records DEF Changed, Tasks, n
  <2>7. \A k \in 1 .. Len(rs) : k # n => runner'[k] = rs[k]
    BY <1>1, <2>2, <2>3, <2>6
  <2>. QED BY <1>3, <2>1, <2>2, <2>3, <2>6, <2>7 DEF Runs
<1>. QED BY <1>2, <1>3 DEF StartBy

-----------------------------------------------------------------------------
(* Types and places *)

LEMMA Typed ==
  ASSUME TypeOK
  PROVE  /\ {owner, enabled, circuit, up, exited, should} \subseteq BOOLEAN
         /\ runner \in Seq(Runners) /\ Len(runner) \in 1 .. MaxRunners /\ runner # <<>>
         /\ proc \in [Procs -> Whereabouts]
         /\ {"owner", "op", "worker"} \subseteq Procs /\ Watchers \subseteq Procs
         /\ {"owner", "op", "worker", "none"} \cap Watchers = {}
         /\ Idle \in Whereabouts /\ Idle.at = "idle"
         /\ MaxRunners \in Nat \ {0}
  BY SupervisionAssumption, EmptySeq
  DEF TypeOK, Runners, Tasks, Whereabouts, Positions, Procs, Idle, At

(* The counters and states other than runners and tasks.                    *)
Flags ==
  /\ owner \in BOOLEAN /\ enabled \in BOOLEAN /\ circuit \in BOOLEAN
  /\ up \in BOOLEAN /\ exited \in BOOLEAN /\ should \in BOOLEAN

States ==
  /\ {failures, wfail, exits} \subseteq Nat
  /\ place \in {"registered", "replaced", "retired"}
  /\ {gen, saved} \subseteq {"active", "draining", "failed", "stopped"}
  /\ worker \in {"running", "recovering", "circuit_open", "stopped"}
  /\ slips \subseteq {"displaced", "revived", "unwanted"}

(* The runners, and where each task stands.                                 *)
Places ==
  /\ runner \in Seq(Runners) /\ Len(runner) \in 1 .. MaxRunners
  /\ proc \in [Procs -> Whereabouts]
  /\ entry \in Watchers \cup {"none"}
  /\ entry # "none" => proc[entry].at \in {"watch", "backoff"}
  /\ OneWatch /\ OnRunner /\ RestartKeepsPlace

LEMMA ShapeParts == Shape <=> Flags /\ States /\ Places
  BY DEF Shape, TypeOK, Flags, States, Places, Runners, Tasks, Whereabouts, Positions

LEMMA FlagsStep ==
  ASSUME Shape, [Next]_vars
  PROVE  Flags'
<1>1. /\ owner \in BOOLEAN /\ enabled \in BOOLEAN /\ circuit \in BOOLEAN
      /\ up \in BOOLEAN /\ exited \in BOOLEAN /\ should \in BOOLEAN
  BY ShapeParts DEF Flags
<1>. USE DEF Next, vars, active, recovery, Starting, Watching, Recovering, StartCommits,
         StartFails, StopTimesOut, StopDone, RestartGoesOn, WatchSees, WatchRestarts, ExitSeen,
         RecoveryStops, RecoveryStopped, WorkerSpawned, Recovered, LateWorkerStops, RunnerReady,
         RunnerEnds, FailuresAge, OwnerStarts, OwnerStops, SetActive, Restart, Replace, WorkerExits,
         SpawnFails, Retire, Renew, BeginRecovery
<1>2. owner' \in BOOLEAN
  BY <1>1, Zenon
<1>3. enabled' \in BOOLEAN
  BY <1>1, Zenon
<1>4. circuit' \in BOOLEAN
  BY <1>1, Zenon
<1>5. up' \in BOOLEAN
  BY <1>1, Zenon
<1>6. exited' \in BOOLEAN
  BY <1>1, Zenon
<1>7. should' \in BOOLEAN
  BY <1>1, Zenon
<1>. QED BY <1>2, <1>3, <1>4, <1>5, <1>6, <1>7 DEF Flags

LEMMA StatesStep ==
  ASSUME Shape, [Next]_vars
  PROVE  States'
<1>1. States
  BY ShapeParts
<1>2. CASE UNCHANGED vars
  BY <1>1, <1>2 DEF vars, active, recovery, States
<1>3. CASE Starting \/ Watching
  <2>1. CASE StartCommits \/ StartFails \/ StopTimesOut \/ StopDone
    BY <1>1, <2>1 DEF StartCommits, StartFails, StopTimesOut, StopDone, States, recovery
  <2>2. CASE RestartGoesOn
    BY <1>1, <2>2 DEF RestartGoesOn, Renew, Displacing, States, recovery
  <2>3. CASE WatchSees
    BY <1>1, <2>3 DEF WatchSees, States, recovery, CircuitOpens
  <2>4. CASE WatchRestarts
    BY <1>1, <2>4 DEF WatchRestarts, HandOver, Displacing, States, recovery
  <2>. QED BY <1>3, <2>1, <2>2, <2>3, <2>4 DEF Starting, Watching
<1>4. CASE Recovering \/ SpawnFails
  <2>1. CASE ExitSeen \/ SpawnFails
    BY <1>1, <2>1 DEF ExitSeen, SpawnFails, BeginRecovery, States
  <2>2. CASE RecoveryStops \/ RecoveryStopped
    <3>1. wfail' = wfail \/ wfail' = wfail + 1
      BY <2>2, Zenon DEF RecoveryStops, RecoveryStopped, CountFailure
    <3>2. worker' = worker \/ worker' = "circuit_open"
      BY <2>2, Zenon DEF RecoveryStops, RecoveryStopped, CountFailure
    <3>3. UNCHANGED <<failures, exits, place, gen, saved, slips>>
      BY <2>2, Zenon DEF RecoveryStops, RecoveryStopped
    <3>. QED BY <1>1, <3>1, <3>2, <3>3 DEF States
  <2>3. CASE WorkerSpawned \/ LateWorkerStops
    BY <1>1, <2>3 DEF WorkerSpawned, LateWorkerStops, States
  <2>4. CASE Recovered
    BY <1>1, <2>4 DEF Recovered, States
  <2>. QED BY <1>4, <2>1, <2>2, <2>3, <2>4 DEF Recovering
<1>5. CASE RunnerReady \/ RunnerEnds \/ FailuresAge
  BY <1>1, <1>5 DEF RunnerReady, RunnerEnds, FailuresAge, States, recovery
<1>6. CASE OwnerStarts \/ OwnerStops \/ SetActive
  BY <1>1, <1>6 DEF OwnerStarts, OwnerStops, SetActive, States, recovery
<1>7. CASE Restart
  <2>1. failures' = 0 \/ failures' = failures
    BY <1>7, Zenon DEF Restart, Renew
  <2>2. slips' = slips \/ slips' = Displacing
    BY <1>7, Zenon DEF Restart, Renew
  <2>3. UNCHANGED <<wfail, exits, place, gen, saved, worker>>
    BY <1>7, Zenon DEF Restart, recovery
  <2>4. slips' \subseteq {"displaced", "revived", "unwanted"}
    BY <1>1, <2>2 DEF Displacing, States
  <2>. QED BY <1>1, <2>1, <2>2, <2>3, <2>4 DEF States
<1>8. CASE Replace \/ WorkerExits \/ Retire
  <2>1. CASE Replace
    BY <1>1, <2>1 DEF Replace, States
  <2>2. CASE WorkerExits
    <3>1. exits' = exits + 1 /\ UNCHANGED <<failures, wfail, place, gen, saved, worker, slips>>
      BY <2>2, Zenon DEF WorkerExits, active
    <3>. QED BY <1>1, <3>1 DEF States
  <2>3. CASE Retire
    <3>1. gen' = gen \/ gen' = "stopped"
      BY <2>3, Zenon DEF Retire
    <3>2. worker' = worker \/ worker' = "stopped"
      BY <2>3, Zenon DEF Retire
    <3>3. place' = "retired" /\ UNCHANGED <<failures, wfail, exits, saved, slips>>
      BY <2>3, Zenon DEF Retire
    <3>. QED BY <1>1, <3>1, <3>2, <3>3 DEF States
  <2>. QED BY <1>8, <2>1, <2>2, <2>3
<1>. QED BY <1>2, <1>3, <1>4, <1>5, <1>6, <1>7, <1>8 DEF Next

(* A task goes on to a place where no watch task is: what is known of the   *)
(* tasks and their runners stays so.                                        *)
LEMMA Moves ==
  ASSUME Places, NEW p \in Procs, NEW pos \in Whereabouts, proc' = [proc EXCEPT ![p] = pos],
         runner' \in Seq(Runners), Len(runner') \in Len(runner) .. MaxRunners,
         entry' \in {entry, "none"},
         entry' = "none" => entry \in {p, "none"},
         p = entry => entry' = "none",
         pos.at \notin {"watch", "backoff"} \/ p \notin Watchers,
         pos.at \in {"ready", "stop", "restop", "abort", "watch"} => pos.r \in 1 .. Len(runner'),
         pos.at = "restop" /\ p = "op" => place' = "registered",
         place' = place \/ p = "op" \/ proc["op"] = Idle
  PROVE  Places'
<1>1. /\ runner \in Seq(Runners) /\ Len(runner) \in 1 .. MaxRunners /\ Len(runner') \in 1 .. MaxRunners
      /\ \A k \in 1 .. Len(runner) : k \in 1 .. Len(runner')
  BY SupervisionAssumption DEF Places
<1>2. proc' \in [Procs -> Whereabouts] /\ proc'[p] = pos /\ \A q \in Procs : q # p => proc'[q] = proc[q]
  BY DEF Places
<1>3. /\ entry' \in Watchers \cup {"none"} /\ "none" \notin Watchers
      /\ Watchers \subseteq Procs /\ "op" \in Procs /\ "op" \notin Watchers
  BY SupervisionAssumption DEF Places, Procs
<1>4. entry' # "none" => proc'[entry'].at \in {"watch", "backoff"}
  BY <1>2, <1>3 DEF Places
<1>5. OneWatch'
  BY <1>2, <1>3 DEF Places, OneWatch
<1>6. OnRunner'
  BY <1>1, <1>2 DEF Places, OnRunner
<1>7. RestartKeepsPlace'
  BY <1>2, <1>3 DEF Places, RestartKeepsPlace, Idle, At
<1>. QED BY <1>1, <1>2, <1>3, <1>4, <1>5, <1>6, <1>7 DEF Places
LEMMA TypeParts == TypeOK /\ Places => Shape
  BY DEF Places, Shape

(* Who is not watching is not the entry.                                    *)
LEMMA NotEntry ==
  ASSUME Places, NEW p \in Procs, proc[p].at \notin {"watch", "backoff"}
  PROVE  p # entry
  BY SupervisionAssumption DEF Places, Procs

(* A place without a runner, for any task but a watch task.                 *)
LEMMA Waits ==
  ASSUME Shape, NEW p \in Procs, NEW pos \in Whereabouts, proc' = [proc EXCEPT ![p] = pos],
         pos.at \in {"idle", "closing", "spawned", "cancelled"} \/ (p = "worker" /\ pos.at = "backoff"),
         proc[p].at \notin {"watch", "backoff"} \/ p = "worker",
         UNCHANGED <<runner, entry>>, place' = place \/ p = "op" \/ proc["op"] = Idle
  PROVE  Places'
<1>1. Places /\ TypeOK
  BY ShapeParts DEF Shape
<1>2. p # entry /\ "worker" \notin Watchers /\ entry # "worker"
  BY <1>1, NotEntry, Typed DEF Places
<1>3. runner' \in Seq(Runners) /\ Len(runner') \in Len(runner) .. MaxRunners
  BY <1>1, Typed
<1>. QED BY <1>1, <1>2, <1>3, Moves

LEMMA RunnersChange ==
  ASSUME Shape, runner' \in Seq(Runners), Len(runner') = Len(runner), UNCHANGED <<proc, entry>>,
         place' = place \/ proc["op"] = Idle
  PROVE  Places'
<1>1. Places /\ TypeOK
  BY ShapeParts DEF Shape
<1>. QED BY <1>1, Typed DEF Places, OneWatch, OnRunner, RestartKeepsPlace

LEMMA StopPlaces ==
  ASSUME Shape, NEW p \in Procs, NEW r \in 1 .. Len(runner), NEW at \in {"stop", "restop", "abort"},
         StopRunner(p, r, at), proc[p].at \notin {"watch", "backoff"}, entry' = entry,
         at = "restop" /\ p = "op" => place' = "registered", place' = place \/ p = "op" \/ proc["op"] = Idle
  PROVE  Places'
<1>1. Places /\ TypeOK
  BY ShapeParts DEF Shape
<1>2. Changed(runner, r, [runner[r] EXCEPT !.stop = TRUE])
  BY <1>1, Typed, StopsOne DEF StopRunner
<1>3. runner' \in Seq(Runners) /\ Len(runner') \in Len(runner) .. MaxRunners /\ Len(runner') = Len(runner)
  BY <1>1, <1>2, Typed DEF Changed
<1>4. p # entry
  BY <1>1, NotEntry
<1>5. /\ At(at, r) \in Whereabouts /\ At(at, r).at = at /\ At(at, r).r = r
      /\ Idle \in Whereabouts /\ Idle.at = "idle"
  BY <1>1, Typed DEF At, Whereabouts, Positions
<1>6. CASE proc' = [proc EXCEPT ![p] = At(at, r)]
  BY <1>1, <1>3, <1>4, <1>5, <1>6, Moves
<1>7. CASE proc' = [proc EXCEPT ![p] = Idle]
  BY <1>1, <1>3, <1>4, <1>5, <1>7, Moves
<1>. QED BY <1>6, <1>7 DEF StopRunner, Set

LEMMA StartPlaces ==
  ASSUME Shape, NEW p \in Procs, NEW rs \in {runner, Append(runner, NewRunner)},
         Len(rs) <= MaxRunners, StartBy(p, rs),
         entry' \in {entry, "none"}, entry' = "none" => entry \in {p, "none"},
         p = entry => entry' = "none", place' = place
  PROVE  Places'
<1>1. Places /\ TypeOK
  BY ShapeParts DEF Shape
<1>2. /\ runner \in Seq(Runners) /\ Len(runner) \in 1 .. MaxRunners /\ MaxRunners \in Nat
      /\ rs \in Seq(Runners) /\ Len(rs) \in {Len(runner), Len(runner) + 1} /\ rs # <<>>
  BY <1>1, Typed, OneMore, EmptySeq
<1>3. CASE Refused(p, rs)
  <2>1. Idle \in Whereabouts /\ Idle.at = "idle" /\ Len(rs) \in Len(runner) .. MaxRunners
    BY <1>1, <1>2, Typed
  <2>. QED BY <1>1, <1>2, <1>3, <2>1, Moves DEF Refused
<1>4. CASE Runs(p, rs)
  <2>. DEFINE n == Len(runner')
  <2>1. /\ runner' \in Seq(Runners) /\ n \in Len(runner) .. MaxRunners /\ n \in 1 .. MaxRunners
        /\ proc' = [proc EXCEPT ![p] = At("ready", n)]
    BY <1>2, <1>4 DEF Runs
  <2>2. At("ready", n) \in Whereabouts /\ At("ready", n).at = "ready" /\ At("ready", n).r = n
    BY <2>1 DEF At, Whereabouts, Positions
  <2>3. n \in 1 .. Len(runner')
    BY <2>1
  <2>. HIDE DEF n
  <2>. QED BY <1>1, <2>1, <2>2, <2>3, Moves DEF n
<1>. QED BY <1>2, <1>3, <1>4, StartEffect
LEMMA RenewPlaces ==
  ASSUME Shape, Renew, proc["op"].at \in {"idle", "restop"}, UNCHANGED <<entry, place>>
  PROVE  Places'
<1>. DEFINE renewed == Append(runner, NewRunner)
<1>1. Places /\ TypeOK
  BY ShapeParts DEF Shape
<1>2. "op" \in Procs /\ "op" # entry
  BY <1>1, Typed, NotEntry
<1>3. Len(renewed) <= MaxRunners
  BY DEF Renew
<1>4. CASE StartBy("op", renewed)
  BY <1>2, <1>3, <1>4, StartPlaces
<1>5. CASE runner' = renewed /\ Set("op", Idle)
  <2>1. /\ runner' \in Seq(Runners) /\ Len(runner') \in Len(runner) .. MaxRunners
        /\ Idle \in Whereabouts /\ Idle.at = "idle"
    BY <1>1, <1>3, <1>5, Typed, OneMore
  <2>2. proc' = [proc EXCEPT !["op"] = Idle]
    BY <1>5 DEF Set
  <2>. QED BY <1>1, <1>2, <2>1, <2>2, Moves
<1>. QED BY <1>4, <1>5 DEF Renew

LEMMA StartingPlaces == ASSUME Shape, Starting PROVE Places'
<1>1. Places /\ TypeOK
  BY ShapeParts DEF Shape
<1>2. CASE StartCommits
  <2>1. PICK p \in Procs :
          /\ proc[p].at = "ready" /\ runner[proc[p].r].ready
          /\ IF entry # "none"
             THEN Set(p, Idle) /\ UNCHANGED entry
             ELSE LET w == CHOOSE x \in Watchers : proc[x] = Idle IN
                  /\ \E x \in Watchers : proc[x] = Idle
                  /\ proc' = [proc EXCEPT ![p] = Idle, ![w] = At("watch", proc[p].r)]
                  /\ entry' = w
    BY <1>2 DEF StartCommits
  <2>2. UNCHANGED <<runner, place>>
    BY <1>2 DEF StartCommits
  <2>3. CASE entry # "none"
    BY <1>1, <2>1, <2>2, <2>3, Typed, Waits DEF Set
  <2>4. CASE entry = "none"
    <3>1. PICK w \in Watchers :
            /\ proc[w] = Idle /\ entry' = w
            /\ proc' = [proc EXCEPT ![p] = Idle, ![w] = At("watch", proc[p].r)]
      BY <2>1, <2>4
    <3>. DEFINE pos == At("watch", proc[p].r)
    <3>2. proc[p].r \in 1 .. Len(runner)
      BY <1>1, <2>1 DEF Places, OnRunner
    <3>3. /\ Watchers \subseteq Procs /\ "op" \in Procs /\ "op" \notin Watchers /\ "none" \notin Watchers
          /\ proc \in [Procs -> Whereabouts] /\ Idle \in Whereabouts /\ Idle.at = "idle"
          /\ Len(runner) \in 1 .. MaxRunners /\ MaxRunners \in Nat
      BY <1>1, Typed
    <3>4. w # p
      BY <2>1, <3>1, <3>3
    <3>5. pos \in Whereabouts /\ pos.at = "watch" /\ pos.r \in 1 .. Len(runner)
      BY <3>2, <3>3 DEF At, Whereabouts, Positions
    <3>. HIDE DEF pos
    <3>6. /\ proc' \in [Procs -> Whereabouts] /\ proc'[p] = Idle /\ proc'[w] = pos
          /\ \A q \in Procs : q # p /\ q # w => proc'[q] = proc[q]
      BY <3>1, <3>3, <3>4, <3>5 DEF pos
    <3>7. \A v \in Watchers : proc[v].at \notin {"watch", "backoff"}
      BY <1>1, <2>4, <3>3 DEF Places, OneWatch
    <3>8. OneWatch'
      BY <3>1, <3>3, <3>6, <3>7 DEF OneWatch
    <3>9. OnRunner'
      BY <1>1, <2>2, <3>3, <3>5, <3>6 DEF Places, OnRunner
    <3>10. RestartKeepsPlace'
      BY <1>1, <2>2, <3>1, <3>3, <3>5, <3>6 DEF Places, RestartKeepsPlace
    <3>. QED BY <1>1, <2>2, <3>1, <3>5, <3>6, <3>8, <3>9, <3>10 DEF Places
  <2>. QED BY <2>3, <2>4
<1>3. CASE StartFails
  <2>1. PICK p \in Procs : proc[p].at = "ready" /\ StopRunner(p, proc[p].r, "abort")
    BY <1>3 DEF StartFails
  <2>2. proc[p].r \in 1 .. Len(runner) /\ UNCHANGED <<entry, place>>
    BY <1>1, <1>3, <2>1 DEF StartFails, Places, OnRunner
  <2>. QED BY <2>1, <2>2, StopPlaces
<1>4. CASE StopTimesOut
  <2>1. PICK p \in Procs :
          /\ proc[p].at \in {"stop", "restop", "abort"}
          /\ runner' = [runner EXCEPT ![proc[p].r].task = "failed"]
    BY <1>4 DEF StopTimesOut
  <2>2. proc[p].r \in 1 .. Len(runner) /\ UNCHANGED <<proc, entry, place>>
    BY <1>1, <1>4, <2>1 DEF StopTimesOut, Places, OnRunner
  <2>3. Changed(runner, proc[p].r, [runner[proc[p].r] EXCEPT !.task = "failed"])
    BY <1>1, <2>1, <2>2, Typed, TasksOne DEF Tasks
  <2>. QED BY <2>2, <2>3, RunnersChange DEF Changed
<1>5. CASE StopDone
  <2>1. PICK p \in Procs : proc[p].at \in {"abort", "stop"} /\ Set(p, Idle)
    BY <1>5 DEF StopDone
  <2>2. UNCHANGED <<runner, entry, place>>
    BY <1>5 DEF StopDone
  <2>. QED BY <1>1, <2>1, <2>2, Typed, Waits DEF Set
<1>6. CASE RestartGoesOn
  BY <1>6, RenewPlaces DEF RestartGoesOn
<1>. QED BY <1>2, <1>3, <1>4, <1>5, <1>6 DEF Starting

LEMMA WatchingPlaces == ASSUME Shape, Watching PROVE Places'
<1>1. Places /\ TypeOK
  BY ShapeParts DEF Shape
<1>2. /\ Watchers \subseteq Procs /\ "op" \in Procs /\ "op" \notin Watchers /\ "none" \notin Watchers
      /\ proc \in [Procs -> Whereabouts] /\ Idle \in Whereabouts /\ Idle.at = "idle"
      /\ runner \in Seq(Runners) /\ Len(runner) \in 1 .. MaxRunners /\ MaxRunners \in Nat
  BY <1>1, Typed
<1>3. CASE WatchSees
  <2>1. PICK w \in Watchers :
          /\ proc[w].at = "watch"
          /\ \/ Set(w, Idle) /\ Discard
             \/ Set(w, At("backoff", proc[w].r)) /\ UNCHANGED entry
    <3>. SUFFICES \A w \in Watchers :
           (IF Restartable(proc[w].r)
            THEN /\ failures' = failures + 1
                 /\ circuit' = (circuit \/ CircuitOpens(failures'))
                 /\ IF CircuitOpens(failures') THEN Set(w, Idle) /\ Discard
                    ELSE Set(w, At("backoff", proc[w].r)) /\ UNCHANGED entry
            ELSE Set(w, Idle) /\ Discard /\ UNCHANGED <<failures, circuit>>)
           => \/ Set(w, Idle) /\ Discard
              \/ Set(w, At("backoff", proc[w].r)) /\ UNCHANGED entry
      BY <1>3, Zenon DEF WatchSees
    <3>. QED BY Zenon
  <2>2. UNCHANGED <<runner, place>>
    BY <1>3 DEF WatchSees
  <2>3. entry = w
    BY <1>1, <2>1 DEF Places, OneWatch
  <2>4. CASE Set(w, Idle) /\ Discard
    <3>1. /\ proc' = [proc EXCEPT ![w] = Idle] /\ entry' = "none" /\ w \in Procs
          /\ runner' \in Seq(Runners) /\ Len(runner') \in Len(runner) .. MaxRunners
      BY <1>2, <2>2, <2>4 DEF Set, Discard
    <3>. QED BY <1>1, <1>2, <2>2, <2>3, <3>1, Moves
  <2>5. CASE Set(w, At("backoff", proc[w].r)) /\ UNCHANGED entry
    <3>. DEFINE pos == At("backoff", proc[w].r)
    <3>1. proc[w] \in Whereabouts
      BY <1>2
    <3>2. pos \in Whereabouts /\ pos.at = "backoff"
      BY <3>1 DEF At, Whereabouts, Positions
    <3>3. proc' = [proc EXCEPT ![w] = pos]
      BY <2>5 DEF Set
    <3>. HIDE DEF pos
    <3>4. /\ proc' \in [Procs -> Whereabouts] /\ proc'[w] = pos
          /\ \A q \in Procs : q # w => proc'[q] = proc[q]
      BY <1>2, <3>2, <3>3
    <3>. QED BY <1>1, <1>2, <2>2, <2>3, <2>5, <3>2, <3>4
             DEF Places, OneWatch, OnRunner, RestartKeepsPlace
  <2>. QED BY <2>1, <2>4, <2>5
<1>4. CASE WatchRestarts
  <2>1. PICK w \in Watchers :
          /\ proc[w].at = "backoff" /\ entry' = "none"
          /\ \/ Len(runner) < MaxRunners /\ StartBy(w, Append(runner, NewRunner))
             \/ Set(w, Idle) /\ UNCHANGED runner
    BY <1>4, Zenon DEF WatchRestarts, HandOver
  <2>2. entry = w /\ place' = place
    BY <1>1, <1>4, <2>1 DEF WatchRestarts, HandOver, Places, OneWatch
  <2>3. CASE Set(w, Idle) /\ UNCHANGED runner
    <3>1. /\ proc' = [proc EXCEPT ![w] = Idle] /\ w \in Procs
          /\ runner' \in Seq(Runners) /\ Len(runner') \in Len(runner) .. MaxRunners
      BY <1>2, <2>3 DEF Set
    <3>. QED BY <1>1, <1>2, <2>1, <2>2, <3>1, Moves
  <2>4. CASE Len(runner) < MaxRunners /\ StartBy(w, Append(runner, NewRunner))
    <3>1. Len(Append(runner, NewRunner)) <= MaxRunners
      BY <1>2, <2>4, OneMore
    <3>. QED BY <1>2, <2>1, <2>2, <2>4, <3>1, StartPlaces
  <2>. QED BY <2>1, <2>3, <2>4
<1>. QED BY <1>3, <1>4 DEF Watching
LEMMA RecoveringPlaces == ASSUME Shape, Recovering \/ SpawnFails PROVE Places'
<1>1. Places /\ TypeOK
  BY ShapeParts DEF Shape
<1>2. /\ "worker" \in Procs /\ Idle \in Whereabouts /\ Idle.at = "idle"
      /\ \A at \in {"closing", "spawned", "backoff"} : At(at, 0) \in Whereabouts /\ At(at, 0).at = at
  BY <1>1, Typed DEF At, Whereabouts, Positions
<1>3. CASE ExitSeen \/ SpawnFails
  <2>1. UNCHANGED <<runner, entry, place>>
    BY <1>3, Zenon DEF ExitSeen, SpawnFails
  <2>2. Set("worker", At("closing", 0)) \/ UNCHANGED proc
    BY <1>3, Zenon DEF ExitSeen, SpawnFails, BeginRecovery
  <2>. QED BY <1>1, <1>2, <2>1, <2>2, Typed, Waits, RunnersChange DEF Set
<1>4. CASE RecoveryStops
  <2>1. UNCHANGED <<entry, place>> /\ proc["worker"].at = "closing"
    BY <1>4, Zenon DEF RecoveryStops
  <2>2. \/ StopRunner("worker", Len(runner), "stop")
        \/ Set("worker", Idle) /\ UNCHANGED runner
        \/ Set("worker", At("backoff", 0)) /\ UNCHANGED runner
    BY <1>4, Zenon DEF RecoveryStops, CountFailure
  <2>3. Len(runner) \in 1 .. Len(runner)
    BY <1>1, Typed
  <2>. QED BY <1>2, <2>1, <2>2, <2>3, StopPlaces, Waits DEF Set
<1>5. CASE RecoveryStopped
  <2>1. UNCHANGED <<runner, entry, place>>
    BY <1>5, Zenon DEF RecoveryStopped
  <2>2. Set("worker", Idle) \/ Set("worker", At("backoff", 0))
    BY <1>5, Zenon DEF RecoveryStopped, CountFailure
  <2>. QED BY <1>2, <2>1, <2>2, Waits DEF Set
<1>6. CASE WorkerSpawned \/ LateWorkerStops
  <2>1. UNCHANGED <<runner, entry, place>>
    BY <1>6, Zenon DEF WorkerSpawned, LateWorkerStops
  <2>2. Set("worker", Idle) \/ Set("worker", At("spawned", 0))
    BY <1>6, Zenon DEF WorkerSpawned, LateWorkerStops
  <2>. QED BY <1>2, <2>1, <2>2, Waits DEF Set
<1>7. CASE Recovered
  <2>1. UNCHANGED <<entry, place>> /\ proc["worker"].at = "spawned"
    BY <1>7, Zenon DEF Recovered
  <2>2. StartBy("worker", runner) \/ (Set("worker", Idle) /\ UNCHANGED runner)
    BY <1>7, Zenon DEF Recovered
  <2>3. "worker" # entry /\ Len(runner) <= MaxRunners
    BY <1>1, <1>2, <2>1, Typed, NotEntry
  <2>. QED BY <1>2, <2>1, <2>2, <2>3, Waits, StartPlaces DEF Set
<1>. QED BY <1>3, <1>4, <1>5, <1>6, <1>7 DEF Recovering

LEMMA OthersPlaces ==
  ASSUME Shape,
         \/ RunnerReady \/ RunnerEnds \/ FailuresAge
         \/ OwnerStarts \/ OwnerStops \/ SetActive \/ Restart \/ Replace
         \/ WorkerExits \/ Retire \/ UNCHANGED vars
  PROVE  Places'
<1>1. Places /\ TypeOK
  BY ShapeParts DEF Shape
<1>2. /\ {"owner", "op", "worker"} \subseteq Procs /\ Idle \in Whereabouts /\ Idle.at = "idle"
      /\ runner \in Seq(Runners) /\ Len(runner) <= MaxRunners /\ Len(runner) \in 1 .. Len(runner)
  BY <1>1, Typed
<1>3. CASE RunnerReady
  <2>1. PICK r \in DOMAIN runner : runner' = [runner EXCEPT ![r].ready = TRUE]
    BY <1>3 DEF RunnerReady
  <2>2. UNCHANGED <<proc, entry, place>> /\ r \in 1 .. Len(runner)
    BY <1>2, <1>3, LenProperties DEF RunnerReady
  <2>. QED BY <1>2, <2>1, <2>2, ReadiesOne, RunnersChange DEF Changed
<1>4. CASE RunnerEnds
  <2>1. PICK r \in DOMAIN runner, how \in {"ended", "failed"} : runner' = [runner EXCEPT ![r].task = how]
    BY <1>4 DEF RunnerEnds
  <2>2. UNCHANGED <<proc, entry, place>> /\ r \in 1 .. Len(runner) /\ how \in Tasks
    BY <1>2, <1>4, LenProperties DEF RunnerEnds, Tasks
  <2>. QED BY <1>2, <2>1, <2>2, TasksOne, RunnersChange DEF Changed
<1>5. CASE FailuresAge \/ WorkerExits \/ UNCHANGED vars
  <2>1. UNCHANGED <<runner, proc, entry, place>>
    BY <1>5, Zenon DEF FailuresAge, WorkerExits, vars, active
  <2>. QED BY <1>2, <2>1, RunnersChange
<1>6. CASE OwnerStarts
  <2>1. UNCHANGED <<entry, place>> /\ proc["owner"] = Idle
    BY <1>6, Zenon DEF OwnerStarts
  <2>2. StartBy("owner", runner) \/ UNCHANGED <<runner, proc>>
    BY <1>6, Zenon DEF OwnerStarts
  <2>3. "owner" # entry
    BY <1>1, <1>2, <2>1, NotEntry
  <2>. QED BY <1>2, <2>1, <2>2, <2>3, StartPlaces, RunnersChange
<1>7. CASE OwnerStops
  <2>1. UNCHANGED <<entry, place>> /\ proc["owner"] = Idle
    BY <1>7, Zenon DEF OwnerStops
  <2>2. StopBy("owner") \/ UNCHANGED <<runner, proc>>
    BY <1>7, Zenon DEF OwnerStops
  <2>. QED BY <1>2, <2>1, <2>2, StopPlaces, Waits, RunnersChange DEF StopBy, Set
<1>8. CASE SetActive
  <2>1. UNCHANGED <<entry, place>> /\ proc["op"] = Idle
    BY <1>8, Zenon DEF SetActive
  <2>2. StopBy("op") \/ StartBy("op", runner) \/ UNCHANGED <<runner, proc>>
    BY <1>8, Zenon DEF SetActive
  <2>3. "op" # entry
    BY <1>1, <1>2, <2>1, NotEntry
  <2>4. CASE StopBy("op")
    BY <1>2, <2>1, <2>4, StopPlaces, Waits DEF StopBy, Set
  <2>. QED BY <1>2, <2>1, <2>2, <2>3, <2>4, StartPlaces, RunnersChange
<1>9. CASE Restart
  <2>1. UNCHANGED <<entry, place>> /\ proc["op"] = Idle /\ place = "registered"
    BY <1>9, Zenon DEF Restart
  <2>2. StopRunner("op", Len(runner), "restop") \/ Renew
    BY <1>9, Zenon DEF Restart
  <2>. QED BY <1>2, <2>1, <2>2, StopPlaces, RenewPlaces
<1>10. CASE Replace
  <2>1. UNCHANGED entry /\ proc["op"] = Idle /\ StopBy("op")
    BY <1>10, Zenon DEF Replace
  <2>. QED BY <1>2, <2>1, StopPlaces, Waits DEF StopBy, Set
<1>11. CASE Retire
  <2>1. UNCHANGED <<runner, entry>> /\ proc["op"] = Idle
    BY <1>11, Zenon DEF Retire
  <2>2. UNCHANGED proc \/ Set("worker", Cancelled(proc["worker"].at))
    BY <1>11, Zenon DEF Retire
  <2>3. Cancelled(proc["worker"].at) \in Whereabouts /\ Cancelled(proc["worker"].at).at \in {"idle", "cancelled"}
    BY <1>1, Typed DEF Cancelled, At, Whereabouts, Positions
  <2>. QED BY <1>2, <2>1, <2>2, <2>3, Waits, RunnersChange DEF Set
<1>. QED BY <1>3, <1>4, <1>5, <1>6, <1>7, <1>8, <1>9, <1>10, <1>11

(***************************************************************************)
(* Every variable keeps its type, a watch task that has not ended is the   *)
(* one _watch_tasks knows, and who waits for a runner waits for one there  *)
(* is.                                                                     *)
(***************************************************************************)
LEMMA ShapeStep == ASSUME Shape, [Next]_vars PROVE Shape'
<1>1. Places'
  BY StartingPlaces, WatchingPlaces, RecoveringPlaces, OthersPlaces DEF Next
<1>2. Flags' /\ States'
  BY FlagsStep, StatesStep
<1>. QED BY <1>1, <1>2, ShapeParts, PTL

LEMMA ShapeInit == ASSUME Init PROVE Shape
<1>1. /\ Idle \in Whereabouts /\ Idle.at = "idle" /\ Watchers \subseteq Procs /\ "none" \notin Watchers
      /\ {"owner", "op", "worker"} \subseteq Procs
  BY SupervisionAssumption DEF Idle, At, Whereabouts, Positions, Procs
<1>2. <<NewRunner>> \in Seq(Runners) /\ Len(<<NewRunner>>) = 1
  BY DEF NewRunner, Runners, Tasks
<1>3. Places
  BY <1>1, <1>2, SupervisionAssumption DEF Init, Places, OneWatch, OnRunner, RestartKeepsPlace
<1>4. States
  BY DEF Init, States
<1>5. up \in BOOLEAN
  BY SupervisionAssumption, Zenon DEF Init
<1>6. Flags
  BY <1>5, Zenon DEF Init, Flags
<1>. QED BY <1>3, <1>4, <1>6, ShapeParts

THEOREM TypeCorrect == Spec => []TypeOK
<1>1. Spec => []Shape
  BY ShapeInit, ShapeStep, PTL DEF Spec
<1>2. Shape => TypeOK
  BY DEF Shape
<1>. QED BY <1>1, <1>2, PTL
-----------------------------------------------------------------------------
(* Which root tasks run *)

Wanted == owner /\ enabled /\ place = "registered"

(* Somebody waits for the current runner, or is about to replace it.        *)
Awaited ==
  \/ \E p \in Procs : proc[p].r = Len(runner) /\ proc[p].at \in {"ready", "watch"}
  \/ \E w \in Watchers : proc[w].at = "backoff"

(* No root task but the current one runs, and that one, unless it was asked *)
(* to stop, is wanted and watched.                                          *)
OneRootTask ==
  slips = {} =>
    /\ \A r \in 1 .. Len(runner) : Live(runner, r) => r = Len(runner)
    /\ Free(Len(runner)) => Wanted /\ Awaited

(* A race that happened is remembered.                                      *)
LEMMA SlipsStay ==
  ASSUME [Next]_vars
  PROVE  slips' = {} => slips = {}
  BY Zenon DEF Next, vars, active, recovery, Starting, Watching, Recovering, StartCommits,
     StartFails, StopTimesOut, StopDone, RestartGoesOn, WatchSees, WatchRestarts, ExitSeen,
     RecoveryStops, RecoveryStopped, WorkerSpawned, Recovered, LateWorkerStops, RunnerReady,
     RunnerEnds, FailuresAge, OwnerStarts, OwnerStops, SetActive, Restart, Replace, WorkerExits,
     SpawnFails, Retire, Renew, Displacing

(* No root task begins to run, and what runs stays wanted and watched.      *)
LEMMA NothingBegins ==
  ASSUME Shape, OneRootTask, slips' = {} => slips = {}, Len(runner') = Len(runner),
         \A r \in 1 .. Len(runner) : Live(runner', r) => Live(runner, r),
         slips = {} /\ Live(runner', Len(runner)) /\ ~runner'[Len(runner)].stop => Wanted' /\ Awaited'
  PROVE  OneRootTask'
  BY DEF OneRootTask, Free

(* Who was waiting for no runner can go anywhere.                           *)
LEMMA StillAwaited ==
  ASSUME Shape, Awaited, Len(runner') = Len(runner), NEW p \in Procs, NEW pos,
         proc' = [proc EXCEPT ![p] = pos],
         proc[p].at \notin {"ready", "watch"}, proc[p].at # "backoff" \/ p \notin Watchers
  PROVE  Awaited'
<1>1. Watchers \subseteq Procs /\ \A q \in Procs : q # p => proc'[q] = proc[q]
  BY Typed DEF Shape
<1>. QED BY <1>1 DEF Awaited

(* The current runner is asked to stop.                                     *)
LEMMA StopsCurrent ==
  ASSUME Shape, OneRootTask, slips' = {} => slips = {}, NEW p, NEW at,
         StopRunner(p, Len(runner), at) \/ StopBy(p)
  PROVE  OneRootTask'
<1>1. runner \in Seq(Runners) /\ Len(runner) \in 1 .. Len(runner) /\ runner[Len(runner)] \in Runners
  BY Typed, ElementOfSeq DEF Shape
<1>2. CASE runner' = [runner EXCEPT ![Len(runner)].stop = TRUE]
  <2>1. Changed(runner, Len(runner), [runner[Len(runner)] EXCEPT !.stop = TRUE])
    BY <1>1, <1>2, StopsOne
  <2>2. runner'[Len(runner)].stop /\ runner'[Len(runner)].task = runner[Len(runner)].task
    BY <1>1, <2>1, Records DEF Changed, Tasks
  <2>3. Len(runner') = Len(runner) /\ \A r \in 1 .. Len(runner) : runner'[r].task = runner[r].task
    BY <2>1, <2>2 DEF Changed
  <2>. QED BY <2>2, <2>3, NothingBegins DEF Live
<1>3. CASE UNCHANGED runner /\ runner[Len(runner)].task = "none"
  BY <1>3, NothingBegins DEF Live
<1>. QED BY <1>2, <1>3 DEF StopRunner, StopBy

(* start(plugin) on the current runner.                                     *)
LEMMA StartsCurrent ==
  ASSUME Shape, OneRootTask, slips' = {} => slips = {}, NEW p \in Procs, StartBy(p, runner),
         proc[p].at \notin {"ready", "watch"}, proc[p].at # "backoff" \/ p \notin Watchers,
         Wanted => Wanted', slips' = {} /\ runner' # runner => owner' /\ place' = "registered"
  PROVE  OneRootTask'
<1>1. runner \in Seq(Runners) /\ runner # <<>> /\ Len(runner) \in Nat \ {0} /\ proc \in [Procs -> Whereabouts]
  BY Typed DEF Shape
<1>2. CASE Refused(p, runner)
  <2>1. Awaited => Awaited'
    BY <1>2, StillAwaited DEF Refused
  <2>. QED BY <1>2, <2>1, NothingBegins DEF Refused, OneRootTask, Free
<1>3. CASE Runs(p, runner)
  <2>. DEFINE n == Len(runner')
  <2>1. /\ enabled' /\ ~Live(runner, Len(runner)) /\ n \in {Len(runner), Len(runner) + 1}
        /\ Live(runner', n)
        /\ \A k \in 1 .. Len(runner) : k # n => runner'[k] = runner[k]
        /\ proc' = [proc EXCEPT ![p] = At("ready", n)]
    BY <1>3 DEF Runs, Live
  <2>2. runner' # runner
    BY <2>1 DEF Live
  <2>3. Awaited'
    <3>1. proc'[p].at = "ready" /\ proc'[p].r = n
      BY <1>1, <2>1 DEF At
    <3>. QED BY <3>1 DEF Awaited
  <2>4. ASSUME slips' = {}, NEW r \in 1 .. n, Live(runner', r) PROVE r = n
    <3>1. \A k \in 1 .. Len(runner) : ~Live(runner, k)
      BY <2>1, <2>4 DEF OneRootTask
    <3>. QED BY <1>1, <2>1, <2>4, <3>1 DEF Live
  <2>. QED BY <2>1, <2>2, <2>3, <2>4 DEF OneRootTask, Wanted
<1>. QED BY <1>1, <1>2, <1>3, StartEffect

(* start(plugin) on a new runner, or no start: the one before has ended,    *)
(* or the race is remembered.                                               *)
LEMMA StartsNew ==
  ASSUME Shape, OneRootTask, slips' = Displacing, NEW p \in Procs,
         \/ StartBy(p, Append(runner, NewRunner)) /\ owner' /\ place' = "registered"
         \/ runner' = Append(runner, NewRunner)
  PROVE  OneRootTask'
<1>. DEFINE rs == Append(runner, NewRunner)
<1>1. /\ runner \in Seq(Runners) /\ Len(runner) \in Nat \ {0} /\ proc \in [Procs -> Whereabouts]
      /\ rs \in Seq(Runners) /\ rs # <<>> /\ Len(rs) = Len(runner) + 1
      /\ \A k \in 1 .. Len(runner) : rs[k] = runner[k]
      /\ rs[Len(rs)].task = "none"
  BY Typed, OneMore, EmptySeq DEF Shape
<1>2. SUFFICES ASSUME slips' = {} PROVE OneRootTask'
  BY DEF OneRootTask
<1>3. slips = {} /\ ~Live(runner, Len(runner))
  BY <1>2 DEF Displacing, Live
<1>4. \A k \in 1 .. Len(runner) : ~Live(runner, k)
  BY <1>3 DEF OneRootTask
<1>5. \A k \in 1 .. Len(rs) : ~Live(rs, k)
  BY <1>1, <1>4 DEF Live
<1>. HIDE DEF rs
<1>6. CASE runner' = rs
  <2>1. Len(rs) \in 1 .. Len(rs)
    BY <1>1
  <2>. QED BY <1>5, <1>6, <2>1 DEF OneRootTask, Free
<1>7. CASE Runs(p, rs) /\ owner' /\ place' = "registered"
  <2>. DEFINE n == Len(runner')
  <2>1. /\ enabled' /\ n \in {Len(rs), Len(rs) + 1}
        /\ \A k \in 1 .. Len(rs) : k # n => runner'[k] = rs[k]
        /\ proc' = [proc EXCEPT ![p] = At("ready", n)]
    BY <1>7 DEF Runs
  <2>2. Awaited'
    <3>1. proc'[p].at = "ready" /\ proc'[p].r = n
      BY <1>1, <2>1 DEF At
    <3>. QED BY <3>1 DEF Awaited
  <2>3. ASSUME NEW r \in 1 .. n, Live(runner', r) PROVE r = n
    BY <1>1, <1>5, <2>1, <2>3 DEF Live
  <2>. QED BY <1>7, <2>1, <2>2, <2>3 DEF OneRootTask, Wanted
<1>. QED BY <1>1, <1>6, <1>7, StartEffect DEF Refused, rs
(* A task that waits for no runner moves on; nothing else changes.          *)
LEMMA MovesOn ==
  ASSUME Shape, OneRootTask, UNCHANGED <<owner, enabled, runner, place, slips>>,
         NEW p \in Procs, NEW pos, proc' = [proc EXCEPT ![p] = pos],
         proc[p].at \notin {"ready", "watch"}, proc[p].at # "backoff" \/ p \notin Watchers
  PROVE  OneRootTask'
<1>1. Awaited => Awaited'
  BY StillAwaited
<1>. QED BY <1>1, NothingBegins DEF OneRootTask, Free, Wanted

(* A root task ends.                                                        *)
LEMMA TaskEnds ==
  ASSUME Shape, OneRootTask, UNCHANGED <<owner, enabled, proc, place, slips>>,
         NEW r \in 1 .. Len(runner), NEW how \in Tasks \ {"running"},
         runner' = [runner EXCEPT ![r].task = how]
  PROVE  OneRootTask'
<1>1. runner \in Seq(Runners) /\ runner[r] \in Runners /\ Len(runner) \in 1 .. Len(runner)
  BY Typed, ElementOfSeq DEF Shape
<1>2. Changed(runner, r, [runner[r] EXCEPT !.task = how])
  BY <1>1, TasksOne
<1>3. /\ Len(runner') = Len(runner) /\ runner'[r].task # "running"
      /\ \A k \in 1 .. Len(runner) : k # r => runner'[k] = runner[k]
  BY <1>1, <1>2, Records DEF Changed
<1>4. \A k \in 1 .. Len(runner) : Live(runner', k) => Live(runner, k) /\ runner'[k] = runner[k]
  BY <1>3 DEF Live
<1>5. Awaited => Awaited'
  BY <1>3 DEF Awaited
<1>. QED BY <1>1, <1>3, <1>4, <1>5, NothingBegins DEF OneRootTask, Free, Wanted

LEMMA RenewRoots ==
  ASSUME Shape, OneRootTask, Renew, UNCHANGED <<owner, place>>, place = "registered"
  PROVE  OneRootTask'
<1>1. "op" \in Procs
  BY Typed DEF Shape
<1>2. slips' = Displacing
  BY Zenon DEF Renew
<1>3. \/ owner /\ StartBy("op", Append(runner, NewRunner))
      \/ runner' = Append(runner, NewRunner)
  BY Zenon DEF Renew
<1>. QED BY <1>1, <1>2, <1>3, StartsNew

LEMMA StartingRoots == ASSUME Shape, OneRootTask, Starting PROVE OneRootTask'
<1>1. /\ runner \in Seq(Runners) /\ Len(runner) \in Nat \ {0} /\ proc \in [Procs -> Whereabouts]
      /\ Watchers \subseteq Procs /\ "op" \in Procs /\ "op" \notin Watchers
      /\ Idle \in Whereabouts /\ Idle.at = "idle"
  BY Typed DEF Shape
<1>2. CASE StartCommits
  <2>1. PICK p \in Procs :
          /\ proc[p].at = "ready"
          /\ IF entry # "none"
             THEN Set(p, Idle)
             ELSE \E w \in Watchers :
                    /\ proc[w] = Idle
                    /\ proc' = [proc EXCEPT ![p] = Idle, ![w] = At("watch", proc[p].r)]
    BY <1>2 DEF StartCommits
  <2>2. UNCHANGED <<runner, owner, enabled, place, slips>>
    BY <1>2, Zenon DEF StartCommits, recovery
  <2>3. ASSUME slips = {}, Free(Len(runner)) PROVE Awaited'
    <3>1. Awaited
      BY <2>3 DEF OneRootTask
    <3>2. \A w \in Watchers : proc[w].at = "watch" => proc[w].r = Len(runner)
      <4>1. \A w \in Watchers : proc[w].at = "watch" => proc[w].r \in 1 .. Len(runner) /\ Live(runner, proc[w].r)
        BY <1>1, <1>2 DEF StartCommits, Shape, OnRunner
      <4>. QED BY <2>3, <4>1 DEF OneRootTask
    <3>3. CASE entry # "none"
      <4>1. entry \in Watchers /\ proc[entry].at \in {"watch", "backoff"}
        BY <3>3 DEF Shape, TypeOK
      <4>2. proc'[entry] = proc[entry]
        BY <1>1, <2>1, <3>3, <4>1 DEF Set
      <4>. QED BY <1>1, <2>2, <3>2, <4>1, <4>2 DEF Awaited
    <3>4. CASE entry = "none"
      <4>1. PICK w \in Watchers :
              /\ proc[w] = Idle
              /\ proc' = [proc EXCEPT ![p] = Idle, ![w] = At("watch", proc[p].r)]
        BY <2>1, <3>4
      <4>2. w # p /\ proc'[w] = At("watch", proc[p].r) /\ \A q \in Procs : q # p /\ q # w => proc'[q] = proc[q]
        BY <1>1, <2>1, <4>1
      <4>3. proc'[w].at = "watch" /\ proc'[w].r = proc[p].r
        BY <4>2 DEF At
      <4>. QED BY <1>1, <2>1, <2>2, <3>1, <4>1, <4>2, <4>3 DEF Awaited
    <3>. QED BY <3>3, <3>4
  <2>. QED BY <2>2, <2>3, NothingBegins DEF OneRootTask, Free, Wanted
<1>3. CASE StartFails
  <2>1. PICK p \in Procs : proc[p].at = "ready" /\ StopRunner(p, proc[p].r, "abort")
    BY <1>3 DEF StartFails
  <2>. DEFINE r == proc[p].r
  <2>2. r \in 1 .. Len(runner)
    BY <2>1 DEF Shape, OnRunner
  <2>3. UNCHANGED <<owner, enabled, place, slips>>
    BY <1>3, Zenon DEF StartFails, recovery
  <2>4. CASE r = Len(runner)
    BY <2>1, <2>3, <2>4, StopsCurrent
  <2>5. CASE r # Len(runner)
    <3>1. Changed(runner, r, [runner[r] EXCEPT !.stop = TRUE]) /\ runner[r] \in Runners
      BY <1>1, <2>1, <2>2, StopsOne, ElementOfSeq DEF StopRunner
    <3>2. /\ Len(runner') = Len(runner) /\ runner'[r].task = runner[r].task
          /\ \A k \in 1 .. Len(runner) : k # r => runner'[k] = runner[k]
      BY <1>1, <3>1, Records DEF Changed, Tasks
    <3>3. Len(runner) \in 1 .. Len(runner) /\ runner'[Len(runner)] = runner[Len(runner)]
      BY <1>1, <2>5, <3>2
    <3>4. \A q \in Procs : q # p => proc'[q] = proc[q]
      BY <1>1, <2>1 DEF StopRunner, Set
    <3>5. Awaited => Awaited'
      BY <1>1, <2>1, <2>5, <3>2, <3>4 DEF Awaited
    <3>6. \A k \in 1 .. Len(runner) : Live(runner', k) => Live(runner, k)
      BY <3>2 DEF Live
    <3>7. Live(runner', Len(runner)) /\ ~runner'[Len(runner)].stop => Free(Len(runner))
      BY <3>3 DEF Free, Live
    <3>. QED BY <2>3, <3>2, <3>5, <3>6, <3>7, NothingBegins DEF OneRootTask, Wanted
  <2>. QED BY <2>4, <2>5
<1>4. CASE StopTimesOut
  <2>1. PICK p \in Procs :
          /\ proc[p].at \in {"stop", "restop", "abort"}
          /\ runner' = [runner EXCEPT ![proc[p].r].task = "failed"]
    BY <1>4 DEF StopTimesOut
  <2>2. proc[p].r \in 1 .. Len(runner)
    BY <2>1 DEF Shape, OnRunner
  <2>3. UNCHANGED <<owner, enabled, proc, place, slips>>
    BY <1>4, Zenon DEF StopTimesOut, recovery
  <2>4. "failed" \in Tasks \ {"running"}
    BY DEF Tasks
  <2>. QED BY <2>1, <2>2, <2>3, <2>4, TaskEnds
<1>5. CASE StopDone
  <2>1. PICK p \in Procs : proc[p].at \in {"abort", "stop"} /\ Set(p, Idle)
    BY <1>5 DEF StopDone
  <2>2. UNCHANGED <<owner, enabled, runner, place, slips>>
    BY <1>5, Zenon DEF StopDone, recovery
  <2>. QED BY <2>1, <2>2, MovesOn DEF Set
<1>6. CASE RestartGoesOn
  <2>1. Renew /\ UNCHANGED <<owner, place>> /\ proc["op"].at = "restop"
    BY <1>6, Zenon DEF RestartGoesOn
  <2>. QED BY <2>1, RenewRoots DEF Shape, RestartKeepsPlace
<1>. QED BY <1>2, <1>3, <1>4, <1>5, <1>6 DEF Starting
LEMMA NothingMoves ==
  ASSUME Shape, OneRootTask, UNCHANGED <<owner, enabled, runner, proc, place, slips>>
  PROVE  OneRootTask'
  BY NothingBegins DEF OneRootTask, Free, Wanted, Awaited

LEMMA WatchingRoots == ASSUME Shape, OneRootTask, Watching PROVE OneRootTask'
<1>1. /\ runner \in Seq(Runners) /\ proc \in [Procs -> Whereabouts] /\ Watchers \subseteq Procs
      /\ Idle \in Whereabouts /\ Idle.at = "idle"
  BY Typed DEF Shape
<1>2. CASE WatchSees
  <2>1. PICK w \in Watchers :
          /\ proc[w].at = "watch" /\ ~Live(runner, proc[w].r)
          /\ Set(w, Idle) \/ Set(w, At("backoff", proc[w].r))
    <3>1. PICK w \in Watchers :
            /\ proc[w].at = "watch" /\ ~Live(runner, proc[w].r)
            /\ Restartable(proc[w].r) /\ CircuitOpens(failures') => Set(w, Idle)
            /\ Restartable(proc[w].r) /\ ~CircuitOpens(failures') => Set(w, At("backoff", proc[w].r))
            /\ ~Restartable(proc[w].r) => Set(w, Idle)
      BY <1>2, Zenon DEF WatchSees
    <3>. QED BY <3>1
  <2>2. UNCHANGED <<runner, owner, enabled, place, slips>>
    BY <1>2, Zenon DEF WatchSees, recovery
  <2>3. \A q \in Procs : q # w => proc'[q] = proc[q]
    BY <1>1, <2>1 DEF Set
  <2>4. Free(Len(runner)) /\ Awaited => Awaited'
    BY <1>1, <2>1, <2>2, <2>3 DEF Awaited, Free
  <2>. QED BY <2>2, <2>4, NothingBegins DEF OneRootTask, Free, Wanted
<1>3. CASE WatchRestarts
  <2>1. PICK w \in Watchers :
          /\ proc[w].at = "backoff"
          /\ StillWanted => StartBy(w, Append(runner, NewRunner)) /\ slips' = Displacing
          /\ ~StillWanted => Set(w, Idle) /\ UNCHANGED <<runner, slips>>
    BY <1>3, Zenon DEF WatchRestarts, HandOver
  <2>2. UNCHANGED <<owner, enabled, place>>
    BY <1>3, Zenon DEF WatchRestarts, HandOver
  <2>3. CASE StillWanted
    BY <1>1, <2>1, <2>2, <2>3, StartsNew DEF StillWanted
  <2>4. CASE ~StillWanted
    BY <2>1, <2>4, NothingBegins DEF StillWanted, OneRootTask, Free, Wanted
  <2>. QED BY <2>3, <2>4
<1>. QED BY <1>2, <1>3 DEF Watching

LEMMA RecoveringRoots == ASSUME Shape, OneRootTask, Recovering \/ SpawnFails PROVE OneRootTask'
<1>1. "worker" \in Procs /\ "worker" \notin Watchers /\ Idle.at = "idle"
  BY Typed DEF Shape
<1>2. CASE ExitSeen \/ SpawnFails
  <2>1. UNCHANGED <<owner, enabled, runner, place, slips>>
    BY <1>2, Zenon DEF ExitSeen, SpawnFails
  <2>2. \/ Set("worker", At("closing", 0)) /\ proc["worker"].at \in {"idle", "backoff"}
        \/ UNCHANGED proc
    <3>1. \/ Set("worker", At("closing", 0)) /\ (proc["worker"] = Idle \/ proc["worker"].at = "backoff")
          \/ UNCHANGED proc
      BY <1>2, Zenon DEF ExitSeen, SpawnFails, BeginRecovery
    <3>. QED BY <1>1, <3>1
  <2>. QED BY <1>1, <2>1, <2>2, MovesOn, NothingMoves DEF Set
<1>3. CASE RecoveryStops
  <2>1. UNCHANGED <<owner, enabled, place, slips>> /\ proc["worker"].at = "closing"
    BY <1>3, Zenon DEF RecoveryStops
  <2>2. \/ StopRunner("worker", Len(runner), "stop")
        \/ Set("worker", Idle) /\ UNCHANGED runner
        \/ Set("worker", At("backoff", 0)) /\ UNCHANGED runner
    BY <1>3, Zenon DEF RecoveryStops, CountFailure
  <2>. QED BY <1>1, <2>1, <2>2, StopsCurrent, MovesOn DEF Set
<1>4. CASE RecoveryStopped \/ WorkerSpawned \/ LateWorkerStops
  <2>1. UNCHANGED <<owner, enabled, runner, place, slips>>
    BY <1>4, Zenon DEF RecoveryStopped, WorkerSpawned, LateWorkerStops
  <2>2. \E at \in {"idle", "backoff", "spawned"} : Set("worker", At(at, 0))
    BY <1>4, Zenon DEF RecoveryStopped, WorkerSpawned, LateWorkerStops, CountFailure, Idle
  <2>3. proc["worker"].at \in {"stop", "backoff", "cancelled"}
    BY <1>4, Zenon DEF RecoveryStopped, WorkerSpawned, LateWorkerStops
  <2>. QED BY <1>1, <2>1, <2>2, <2>3, MovesOn DEF Set
<1>5. CASE Recovered
  <2>1. UNCHANGED <<owner, enabled, place>> /\ proc["worker"].at = "spawned"
    BY <1>5, Zenon DEF Recovered
  <2>2. /\ slips' = {} => slips = {}
        /\ slips' = {} /\ runner' # runner => owner' /\ place' = "registered"
    BY <1>5 DEF Recovered, StillWanted
  <2>3. StartBy("worker", runner) \/ (Set("worker", Idle) /\ UNCHANGED runner)
    BY <1>5, Zenon DEF Recovered
  <2>4. CASE StartBy("worker", runner)
    BY <1>1, <2>1, <2>2, <2>4, StartsCurrent DEF Wanted
  <2>5. CASE Set("worker", Idle) /\ UNCHANGED runner
    <3>1. Awaited => Awaited'
      BY <1>1, <2>1, <2>5, StillAwaited DEF Set
    <3>. QED BY <2>1, <2>2, <2>5, <3>1, NothingBegins DEF OneRootTask, Free, Wanted
  <2>. QED BY <2>3, <2>4, <2>5
<1>. QED BY <1>2, <1>3, <1>4, <1>5 DEF Recovering

LEMMA OthersRoots ==
  ASSUME Shape, OneRootTask,
         \/ RunnerReady \/ RunnerEnds \/ FailuresAge
         \/ OwnerStarts \/ OwnerStops \/ SetActive \/ Restart \/ Replace
         \/ WorkerExits \/ Retire \/ UNCHANGED vars
  PROVE  OneRootTask'
<1>1. /\ {"owner", "op", "worker"} \subseteq Procs /\ {"owner", "op", "worker"} \cap Watchers = {}
      /\ Idle.at = "idle" /\ runner \in Seq(Runners) /\ Len(runner) \in 1 .. Len(runner)
  BY Typed DEF Shape
<1>2. CASE RunnerReady
  <2>1. PICK r \in DOMAIN runner : runner' = [runner EXCEPT ![r].ready = TRUE]
    BY <1>2 DEF RunnerReady
  <2>2. UNCHANGED <<owner, enabled, proc, place, slips>>
    BY <1>2, Zenon DEF RunnerReady, recovery
  <2>3. r \in 1 .. Len(runner) /\ runner[r] \in Runners
    BY <1>1, LenProperties, ElementOfSeq
  <2>4. Changed(runner, r, [runner[r] EXCEPT !.ready = TRUE])
    BY <1>1, <2>1, <2>3, ReadiesOne
  <2>5. runner'[r].task = runner[r].task /\ runner'[r].stop = runner[r].stop
    BY <2>3, <2>4, Records DEF Changed, Tasks
  <2>6. /\ Len(runner') = Len(runner)
        /\ \A k \in 1 .. Len(runner) : runner'[k].task = runner[k].task /\ runner'[k].stop = runner[k].stop
    BY <2>4, <2>5 DEF Changed
  <2>7. Awaited => Awaited'
    BY <2>2, <2>6 DEF Awaited
  <2>. QED BY <1>1, <2>2, <2>6, <2>7, NothingBegins DEF OneRootTask, Free, Live, Wanted
<1>3. CASE RunnerEnds
  <2>1. PICK r \in DOMAIN runner, how \in {"ended", "failed"} : runner' = [runner EXCEPT ![r].task = how]
    BY <1>3 DEF RunnerEnds
  <2>2. UNCHANGED <<owner, enabled, proc, place, slips>>
    BY <1>3, Zenon DEF RunnerEnds, recovery
  <2>3. r \in 1 .. Len(runner) /\ how \in Tasks \ {"running"}
    BY <1>1, LenProperties DEF Tasks
  <2>. QED BY <2>1, <2>2, <2>3, TaskEnds
<1>4. CASE FailuresAge \/ WorkerExits \/ UNCHANGED vars
  <2>1. UNCHANGED <<owner, enabled, runner, proc, place, slips>>
    BY <1>4, Zenon DEF FailuresAge, WorkerExits, vars, active, recovery
  <2>. QED BY <2>1, NothingMoves
<1>5. CASE OwnerStarts
  <2>1. UNCHANGED <<enabled, place, slips>> /\ proc["owner"] = Idle /\ owner'
    BY <1>5, Zenon DEF OwnerStarts, recovery
  <2>2. \/ place = "registered" /\ StartBy("owner", runner)
        \/ place # "registered" /\ UNCHANGED runner
    BY <1>5, Zenon DEF OwnerStarts
  <2>3. CASE place = "registered" /\ StartBy("owner", runner)
    BY <1>1, <2>1, <2>3, StartsCurrent DEF Wanted
  <2>4. CASE place # "registered" /\ UNCHANGED runner
    BY <2>1, <2>4, NothingBegins DEF OneRootTask, Free, Wanted
  <2>. QED BY <2>2, <2>3, <2>4
<1>6. CASE OwnerStops
  <2>1. UNCHANGED <<enabled, place, slips>>
    BY <1>6, Zenon DEF OwnerStops, recovery
  <2>2. StopBy("owner") \/ (place = "retired" /\ UNCHANGED runner)
    <3>1. IF place # "retired" THEN StopBy("owner") ELSE UNCHANGED <<runner, proc>>
      BY <1>6, Zenon DEF OwnerStops
    <3>. QED BY <3>1
  <2>. QED BY <2>1, <2>2, StopsCurrent, NothingBegins DEF OneRootTask, Free, Wanted
<1>7. CASE SetActive
  <2>1. UNCHANGED <<owner, place, slips>> /\ proc["op"] = Idle /\ place = "registered"
    BY <1>7, Zenon DEF SetActive, recovery
  <2>2. \/ ~owner /\ UNCHANGED runner
        \/ owner /\ enabled' /\ StartBy("op", runner)
        \/ StopBy("op")
    BY <1>7, Zenon DEF SetActive
  <2>3. CASE ~owner /\ UNCHANGED runner
    BY <2>1, <2>3, NothingBegins DEF OneRootTask, Free, Wanted
  <2>4. CASE owner /\ enabled' /\ StartBy("op", runner)
    BY <1>1, <2>1, <2>4, StartsCurrent DEF Wanted
  <2>. QED BY <2>1, <2>2, <2>3, <2>4, StopsCurrent
<1>8. CASE Restart
  <2>1. UNCHANGED <<owner, place>> /\ place = "registered"
    BY <1>8, Zenon DEF Restart
  <2>2. (StopRunner("op", Len(runner), "restop") /\ UNCHANGED slips) \/ Renew
    BY <1>8, Zenon DEF Restart
  <2>. QED BY <2>1, <2>2, StopsCurrent, RenewRoots
<1>9. CASE Replace
  <2>1. StopBy("op") /\ UNCHANGED slips
    BY <1>9, Zenon DEF Replace
  <2>. QED BY <2>1, StopsCurrent
<1>10. CASE Retire
  <2>1. place = "replaced" /\ UNCHANGED <<runner, slips>>
    BY <1>10, Zenon DEF Retire
  <2>. QED BY <2>1, NothingBegins DEF OneRootTask, Free, Wanted
<1>. QED BY <1>2, <1>3, <1>4, <1>5, <1>6, <1>7, <1>8, <1>9, <1>10

(***************************************************************************)
(* As long as no race has happened, a root task that runs and was not      *)
(* asked to stop is the current one, the owner runs, the plugin is enabled *)
(* and its generation registered (RunsOnlyWhenWanted), and a task that     *)
(* starts it, watches it or restarts the plugin is there                   *)
(* (RunningIsWatched).                                                     *)
(***************************************************************************)
LEMMA RootsAlways == Spec => [](Shape /\ OneRootTask)
<1>1. Init => Shape /\ OneRootTask
  <2>1. ASSUME Init PROVE OneRootTask
    BY <2>1 DEF Init, OneRootTask, Free, Live, NewRunner
  <2>. QED BY <2>1, ShapeInit
<1>2. Shape /\ OneRootTask /\ [Next]_vars => (Shape /\ OneRootTask)'
  <2>1. ASSUME Shape, OneRootTask, [Next]_vars PROVE OneRootTask'
    BY <2>1, StartingRoots, WatchingRoots, RecoveringRoots, OthersRoots DEF Next
  <2>. QED BY <2>1, ShapeStep
<1>. QED BY <1>1, <1>2, PTL DEF Spec

THEOREM WantedAlways == Spec => []RunsOnlyWhenWanted
<1>1. Shape /\ OneRootTask => RunsOnlyWhenWanted
  BY Typed, LenProperties DEF Shape, OneRootTask, Wanted, RunsOnlyWhenWanted, Free
<1>. QED BY <1>1, RootsAlways, PTL

THEOREM WatchedAlways == Spec => []RunningIsWatched
<1>1. Shape /\ OneRootTask => RunningIsWatched
  BY Typed, LenProperties DEF Shape, OneRootTask, Awaited, RunningIsWatched, Free
<1>. QED BY <1>1, RootsAlways, PTL
-----------------------------------------------------------------------------
(* What a retired generation leaves behind *)

(* Unless the recovery of the Worker revived it, a generation that was      *)
(* replaced is not ACTIVE again, so that retiring it stops it and cancels   *)
(* the recovery. After that no recovery begins, and the only process that   *)
(* may still live is one the cancelled recovery had spawned.                *)
Retiring ==
  "revived" \notin slips =>
    /\ place # "registered" => gen # "active"
    /\ place = "retired" =>
         /\ gen = "stopped" /\ proc["worker"].at \in {"idle", "cancelled"}
         /\ up => proc["worker"].at = "cancelled"

LEMMA RevivedStays ==
  ASSUME [Next]_vars
  PROVE  "revived" \notin slips' => "revived" \notin slips
<1>1. slips' = slips \/ slips' = slips \cup {"displaced"} \/ Recovered
  BY Zenon DEF Next, vars, active, recovery, Starting, Watching, Recovering, StartCommits,
     StartFails, StopTimesOut, StopDone, RestartGoesOn, WatchSees, WatchRestarts, ExitSeen,
     RecoveryStops, RecoveryStopped, WorkerSpawned, LateWorkerStops, RunnerReady, RunnerEnds,
     FailuresAge, OwnerStarts, OwnerStops, SetActive, Restart, Replace, WorkerExits,
     SpawnFails, Retire, Renew, Displacing
<1>2. Recovered => slips \subseteq slips'
  BY DEF Recovered
<1>. QED BY <1>1, <1>2

(* A task other than the recovery of the Worker moves.                      *)
LEMMA Elsewhere ==
  ASSUME Shape, NEW p \in Procs \ {"worker"}, NEW r, NEW at, NEW rs, NEW pos,
         StartBy(p, rs) \/ StopBy(p) \/ StopRunner(p, r, at) \/ Set(p, pos)
  PROVE  proc'["worker"] = proc["worker"]
<1>1. proc \in [Procs -> Whereabouts] /\ "worker" \in Procs
  BY Typed DEF Shape
<1>2. \E there : proc' = [proc EXCEPT ![p] = there]
  BY Zenon DEF StartBy, StopBy, StopRunner, Set
<1>. QED BY <1>1, <1>2

(* Nothing but the recovery moves a Worker task that is idle or cancelled.  *)
LEMMA WorkerRests ==
  ASSUME Shape, proc["worker"].at \in {"idle", "cancelled"},
         \/ Starting \/ Watching \/ RunnerReady \/ RunnerEnds \/ FailuresAge
         \/ OwnerStarts \/ OwnerStops \/ SetActive \/ Restart \/ Replace \/ WorkerExits
  PROVE  proc'["worker"] = proc["worker"]
<1>1. /\ proc \in [Procs -> Whereabouts] /\ Watchers \subseteq Procs \ {"worker"}
      /\ {"op", "owner"} \subseteq Procs \ {"worker"}
  BY Typed DEF Shape
<1>2. CASE StartCommits
  <2>1. PICK p \in Procs :
          /\ proc[p].at = "ready"
          /\ IF entry # "none"
             THEN Set(p, Idle)
             ELSE \E w \in Watchers : proc' = [proc EXCEPT ![p] = Idle, ![w] = At("watch", proc[p].r)]
    BY <1>2 DEF StartCommits
  <2>2. "worker" \in Procs /\ p # "worker" /\ "worker" \notin Watchers
    BY <2>1, Typed DEF Shape
  <2>. QED BY <1>1, <2>1, <2>2 DEF Set
<1>3. CASE StartFails \/ StopDone
  <2>1. PICK p \in Procs :
          /\ proc[p].at = "ready" \/ proc[p].at = "abort" \/ (proc[p].at = "stop" /\ p # "worker")
          /\ StopRunner(p, proc[p].r, "abort") \/ Set(p, Idle)
    BY <1>3, Zenon DEF StartFails, StopDone
  <2>. QED BY <2>1, Elsewhere
<1>4. CASE StopTimesOut \/ RunnerReady \/ RunnerEnds \/ FailuresAge \/ WorkerExits
  BY <1>4, Zenon DEF StopTimesOut, RunnerReady, RunnerEnds, FailuresAge, WorkerExits, active
<1>5. CASE RestartGoesOn \/ Restart
  <2>1. \/ StartBy("op", Append(runner, NewRunner)) \/ Set("op", Idle)
        \/ StopRunner("op", Len(runner), "restop")
    BY <1>5, Zenon DEF RestartGoesOn, Restart, Renew
  <2>. QED BY <1>1, <2>1, Elsewhere
<1>6. CASE Watching
  <2>1. PICK w \in Watchers :
          \/ Set(w, Idle) \/ Set(w, At("backoff", proc[w].r))
          \/ StartBy(w, Append(runner, NewRunner))
    BY <1>6, Zenon DEF Watching, WatchSees, WatchRestarts, HandOver
  <2>. QED BY <1>1, <2>1, Elsewhere
<1>7. CASE OwnerStarts \/ OwnerStops
  <2>1. StartBy("owner", runner) \/ StopBy("owner") \/ UNCHANGED proc
    BY <1>7, Zenon DEF OwnerStarts, OwnerStops
  <2>. QED BY <1>1, <2>1, Elsewhere
<1>8. CASE SetActive \/ Replace
  <2>1. StartBy("op", runner) \/ StopBy("op") \/ UNCHANGED proc
    BY <1>8, Zenon DEF SetActive, Replace
  <2>. QED BY <1>1, <2>1, Elsewhere
<1>. QED BY <1>2, <1>3, <1>4, <1>5, <1>6, <1>7, <1>8 DEF Starting

LEMMA RetiringStep == ASSUME Shape, Retiring, [Next]_vars PROVE Retiring'
<1>. SUFFICES ASSUME "revived" \notin slips' PROVE Retiring'
  BY DEF Retiring
<1>1. "revived" \notin slips
  BY RevivedStays
<1>2. proc \in [Procs -> Whereabouts] /\ "worker" \in Procs /\ Idle.at = "idle"
  BY Typed DEF Shape
<1>3. CASE UNCHANGED vars
  BY <1>3 DEF vars, active, recovery, Retiring
<1>4. CASE \/ Starting \/ Watching \/ RunnerReady \/ RunnerEnds \/ FailuresAge
           \/ OwnerStarts \/ OwnerStops \/ SetActive \/ Restart
  <2>1. UNCHANGED <<place, gen, up>>
    BY <1>4, Zenon DEF Starting, Watching, StartCommits, StartFails, StopTimesOut, StopDone,
       RestartGoesOn, WatchSees, WatchRestarts, RunnerReady, RunnerEnds, FailuresAge, OwnerStarts,
       OwnerStops, SetActive, Restart, recovery
  <2>. QED BY <1>1, <1>4, <2>1, WorkerRests DEF Retiring
<1>5. CASE ExitSeen \/ SpawnFails
  <2>1. UNCHANGED <<place, up>>
    BY <1>5, Zenon DEF ExitSeen, SpawnFails
  <2>2. \/ UNCHANGED <<gen, proc>>
        \/ gen' = "failed" /\ (gen # "stopped" \/ proc["worker"].at = "backoff")
    BY <1>5, Zenon DEF ExitSeen, SpawnFails, BeginRecovery
  <2>. QED BY <1>1, <2>1, <2>2 DEF Retiring
<1>6. CASE RecoveryStops \/ RecoveryStopped \/ WorkerSpawned
  <2>1. proc["worker"].at \in {"closing", "stop", "backoff"}
    BY <1>6, Zenon DEF RecoveryStops, RecoveryStopped, WorkerSpawned
  <2>2. UNCHANGED <<place, gen>>
    BY <1>6, Zenon DEF RecoveryStops, RecoveryStopped, WorkerSpawned
  <2>. QED BY <1>1, <2>1, <2>2 DEF Retiring
<1>7. CASE Recovered
  <2>1. proc["worker"].at = "spawned" /\ gen' = saved /\ UNCHANGED place
    BY <1>7, Zenon DEF Recovered
  <2>2. place # "replaced" \/ saved # "active"
    BY <1>7 DEF Recovered
  <2>3. place \in {"registered", "replaced", "retired"}
    BY DEF Shape, TypeOK
  <2>. QED BY <1>1, <2>1, <2>2, <2>3 DEF Retiring
<1>8. CASE LateWorkerStops
  <2>1. ~up' /\ UNCHANGED <<place, gen>> /\ Set("worker", Idle)
    BY <1>8, Zenon DEF LateWorkerStops
  <2>2. proc'["worker"].at = "idle"
    BY <1>2, <2>1 DEF Set
  <2>. QED BY <1>1, <2>1, <2>2 DEF Retiring
<1>9. CASE Replace
  BY <1>9 DEF Replace, Retiring
<1>10. CASE WorkerExits
  <2>1. ~up' /\ UNCHANGED <<place, gen, proc>>
    BY <1>10, Zenon DEF WorkerExits, active
  <2>. QED BY <1>1, <2>1 DEF Retiring
<1>11. CASE Retire
  <2>1. gen # "active"
    BY <1>1, <1>11 DEF Retire, Retiring
  <2>2. /\ gen' = "stopped" /\ Set("worker", Cancelled(proc["worker"].at))
        /\ up' => proc["worker"].at = "spawned"
    BY <1>11, <2>1, Zenon DEF Retire
  <2>3. proc'["worker"] = Cancelled(proc["worker"].at)
    BY <1>2, <2>2 DEF Set
  <2>4. /\ proc'["worker"].at \in {"idle", "cancelled"}
        /\ proc["worker"].at = "spawned" => proc'["worker"].at = "cancelled"
    BY <1>2, <2>3 DEF Cancelled, At
  <2>. QED BY <2>2, <2>4 DEF Retiring
<1>. QED BY <1>3, <1>4, <1>5, <1>6, <1>7, <1>8, <1>9, <1>10, <1>11 DEF Next, Recovering

(***************************************************************************)
(* A retired generation leaves no Worker process behind but the one its    *)
(* cancelled recovery is about to stop, unless that recovery had made the  *)
(* replaced generation ACTIVE again before.                                *)
(***************************************************************************)
THEOREM RetiredAlways == Spec => []RetiredWorkerStops
<1>1. Init => Retiring
  BY DEF Init, Retiring
<1>2. Shape /\ Retiring /\ [Next]_vars => Retiring'
  BY RetiringStep
<1>3. Retiring => RetiredWorkerStops
  BY DEF Retiring, RetiredWorkerStops
<1>. QED BY <1>1, <1>2, <1>3, ShapeInit, ShapeStep, PTL DEF Spec
=============================================================================
