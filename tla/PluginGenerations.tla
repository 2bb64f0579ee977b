------------------------- MODULE PluginGenerations -------------------------
(***************************************************************************)
(* The generations of one plugin: CapabilityStore with its leases, the     *)
(* routes CapabilityRouter publishes, and the operations of PluginManager  *)
(* and GenerationCoordinator that load, replace and remove a generation.   *)
(*                                                                         *)
(* A generation is one runtime_instance_id; a LoadedPlugin object may go   *)
(* through several of them.  Operations on one key hold its lock, leases   *)
(* and retirements interleave at the awaits.  Not modelled: boot-scoped    *)
(* kinds, data revisions, MCP and active runners, crashes of workers.      *)
(***************************************************************************)
EXTENDS Integers, Sequences, FiniteSets

CONSTANTS
  Turns,       \* tasks that lease a snapshot
  Digests,     \* package versions that can be installed
  Ops,         \* the operations explored
  LoadsFail,   \* register(), a candidate's readiness, a reconcile of MCP may fail
  MaxGens,     \* bound on the generations loaded
  MaxRevisions \* bound on the snapshots published

ASSUME OpsAssumption ==
  /\ Ops \subseteq {"install", "reload", "enable", "disable", "uninstall"}
  /\ LoadsFail \in BOOLEAN
ASSUME DigestsAssumption == 0 \notin Digests
ASSUME GenerationBounds == MaxGens \in Nat /\ MaxRevisions \in Nat \ {0}

VARIABLES
  routes,   \* the generation each published snapshot routes to, 0 for none
  retired,  \* _retired: replaced snapshots that are still leased
  retiring, \* snapshots handed to a capability-snapshot-retire task
  lease,    \* the revision each turn leases, 0 for none
  gen,      \* per generation: digest, scope, bindings, its runtime record
  obj,      \* LoadedPlugin objects: state, status, enabled, generation, digest
  plugins,  \* _plugins[key], 0 for none
  active,   \* _active_runtime_by_plugin[key], 0 for none
  store,    \* PluginInstallStore: status and the installed versions
  files,    \* unpacked packages on disk
  pending,  \* _pending_package_removals[key]: the packages to delete
  prepared, \* the package installer.prepare returned, before the lock
  op,       \* the operation that holds the key's lock
  wanted,   \* history: the last install or uninstall that was asked for
  slips,    \* history: which of the known races have happened
  unbacked  \* history: the generations no install answers for

snapshots == <<routes, retired, retiring, lease>>
registry == <<gen, obj, plugins, active>>
packages == <<store, files, pending, prepared>>
history == <<wanted, slips, unbacked>>
vars == <<routes, retired, retiring, lease, gen, obj, plugins, active,
          store, files, pending, prepared, op, wanted, slips, unbacked>>

NoInstall == [status |-> "absent", versions |-> {}]
NoPackage == [digest |-> 0, fresh |-> FALSE]
Packages == [digest : Digests, fresh : BOOLEAN] \cup {NoPackage}
Idle == [kind |-> "none", step |-> "none", cand |-> 0, prev |-> 0, package |-> NoPackage]

Init ==
  /\ routes = <<0>> /\ retired = {} /\ retiring = <<>>
  /\ lease = [t \in Turns |-> 0]
  /\ gen = <<>> /\ obj = <<>> /\ plugins = 0 /\ active = 0
  /\ store = NoInstall /\ files = {} /\ pending = {} /\ prepared = NoPackage
  /\ op = Idle /\ wanted = FALSE /\ slips = {} /\ unbacked = {}

(* The races after which a property below no longer holds; each is          *)
(* described where it happens.                                              *)
Slip(race, happens) == slips' = IF happens THEN slips \cup {race} ELSE slips

-----------------------------------------------------------------------------
(* CapabilityStore *)

Current == Len(routes)
Leased(r) == \E t \in Turns : lease[t] = r

(* retained_runtime_ids: what the current and the leased snapshots route to. *)
Retained == {routes[r] : r \in retired \cup {Current}} \ {0}

(* publish_nowait: the replaced snapshot waits for its leases, or a task is  *)
(* created that retires it.                                                 *)
Publish(i) ==
  /\ Current < MaxRevisions
  /\ routes' = Append(routes, i)
  /\ IF Leased(Current)
     THEN retired' = retired \cup {Current} /\ UNCHANGED retiring
     ELSE retiring' = Append(retiring, Current) /\ UNCHANGED retired
  /\ UNCHANGED lease

Acquire(t) ==
  /\ lease[t] = 0
  /\ lease' = [lease EXCEPT ![t] = Current]
  /\ UNCHANGED <<routes, retired, retiring, registry, packages, op, history>>

-----------------------------------------------------------------------------
(* _retire_snapshot and _finalize_pending_removals *)

Records(g) == {i \in DOMAIN g : g[i].record # 0}

(* A removal waits until no record of the plugin is routed by a snapshot.   *)
FinalizeRemoval(g, objects, retained) ==
  IF pending # {} /\ Records(g) \cap retained = {}
  THEN /\ files' = files \ pending
       /\ store' = NoInstall
       /\ pending' = {}
       /\ plugins' = IF plugins # 0 /\ objects[plugins].state # "active" THEN 0 ELSE plugins
  ELSE UNCHANGED <<files, store, pending, plugins>>

(* The generation of a snapshot that goes is stopped when no other snapshot *)
(* routes to it and the object on record is not ACTIVE.                     *)
Retire(r, retained) ==
  LET i == routes[r]
      gone == i \notin retained \cup {0}
      o == gen[i].record
      stops == gone /\ o # 0 /\ obj[o].state # "active"
      forgotten == IF gone THEN [gen EXCEPT ![i].record = 0] ELSE gen
  IN /\ gen' = IF stops
               THEN [forgotten EXCEPT ![i].bindings = "dropped", ![obj[o].runtime].scope = "closed"]
               ELSE forgotten
     /\ obj' = IF stops THEN [obj EXCEPT ![o].state = "stopped"] ELSE obj
     /\ FinalizeRemoval(gen', obj', retained)

(* Wrong: the first release of a replaced snapshot counts as the last. *)
AnyLease(t) == lease[t] \in retired

(* Wrong: the leases are counted before this one is taken off. *)
LastLeaseBefore(t) == lease[t] \in retired /\ ~Leased(lease[t])

LastLease(t) == lease[t] \in retired /\ \A u \in Turns \ {t} : lease[u] # lease[t]

Release(t) ==
  LET r == lease[t]
      kept == {routes[k] : k \in (retired \ {r}) \cup {Current}} \ {0}
  IN /\ r # 0
     /\ lease' = [lease EXCEPT ![t] = 0]
     /\ IF LastLease(t)
        THEN retired' = retired \ {r} /\ Retire(r, kept)
        ELSE UNCHANGED <<retired, gen, obj, plugins, files, store, pending>>
     /\ UNCHANGED <<routes, retiring, active, prepared, op, history>>

RunRetireTask ==
  /\ retiring # <<>>
  /\ retiring' = Tail(retiring)
  /\ Retire(Head(retiring), Retained)
  /\ UNCHANGED <<routes, retired, lease, active, prepared, op, history>>

(* Another owner's routes change: MCP tools, another plugin.  The bound     *)
(* leaves revisions for the operations on this plugin.                      *)
PublishOther ==
  /\ 2 * Current < MaxRevisions
  /\ Publish(routes[Current])
  /\ UNCHANGED <<registry, packages, op, history>>

-----------------------------------------------------------------------------
(* load_plugin *)

MayPrepare == {"discovered", "preparing", "draining", "failed", "stopped"}
MayDrain == {"discovered", "preparing", "active", "draining", "failed"}
MayActivate == {"preparing", "active", "draining", "failed"}

NewGen == Len(gen) + 1

(* Calls that queued for the lock before an unpacked install go first.      *)
LockFree == op = Idle

(* Race: the call loads the package which that install may yet discard.     *)
Borrows(d) == prepared.fresh /\ prepared.digest = d

Loaded == IF plugins = 0 THEN FALSE ELSE obj[plugins].status = "loaded"

Generation(d, o) == [digest |-> d, scope |-> "open", bindings |-> "kept", record |-> o]
FailedGeneration(d) == [digest |-> d, scope |-> "closed", bindings |-> "dropped", record |-> 0]

(* Wrong: the object takes the id of the generation before its own. *)
ObjectStale(d, state, status) ==
  [state |-> state, status |-> status, enabled |-> TRUE, runtime |-> Len(gen), digest |-> d]

Object(d, state, status) ==
  [state |-> state, status |-> status, enabled |-> TRUE, runtime |-> NewGen, digest |-> d]

LoadsFrom(d) ==
  unbacked' = IF Borrows(d) THEN unbacked \cup (DOMAIN gen' \ DOMAIN gen) ELSE unbacked

(* register() runs and the generation is published at once.                 *)
LoadAndPublish(d, o) ==
  /\ NewGen <= MaxGens /\ d \in files
  /\ gen' = Append(gen, Generation(d, o))
  /\ active' = NewGen
  /\ Publish(NewGen)

LoadRaises(d) ==
  /\ LoadsFail \/ d \notin files
  /\ NewGen <= MaxGens
  /\ gen' = Append(gen, FailedGeneration(d))
  /\ UNCHANGED <<snapshots, active>>

(* load_plugin on the object that is already in _plugins.                   *)
LoadInPlace(o, enabled) ==
  /\ obj[o].state \in MayPrepare
  /\ \/ /\ LoadAndPublish(obj[o].digest, o)
        /\ obj' = [obj EXCEPT ![o] = [@ EXCEPT !.state = "active", !.status = "loaded",
                                               !.enabled = enabled, !.runtime = NewGen]]
     \/ /\ LoadRaises(obj[o].digest)
        /\ obj' = [obj EXCEPT ![o] = [@ EXCEPT !.state = "failed", !.status = "error",
                                               !.enabled = enabled, !.runtime = NewGen]]

(* ACTIVE -> PREPARING is no transition: status has been overwritten by then. *)
LoadRefused(o, enabled) ==
  /\ obj[o].state \notin MayPrepare
  /\ obj' = [obj EXCEPT ![o] = [@ EXCEPT !.status = "loading", !.enabled = enabled]]
  /\ UNCHANGED <<snapshots, gen, active>>

(* Race: the object's generation has not been retired when the object loads *)
(* another one: retirement will find the new one's scope in its place.      *)
Unretired(o) == obj[o].state \in MayPrepare /\ gen[obj[o].runtime].record # 0

Enable ==
  /\ "enable" \in Ops /\ LockFree /\ plugins # 0
  /\ LoadInPlace(plugins, TRUE) \/ LoadRefused(plugins, TRUE)
  /\ Slip("loaded over", Unretired(plugins))
  /\ LoadsFrom(obj[plugins].digest)
  /\ UNCHANGED <<plugins, packages, op, wanted>>

(* Reload of a plugin that is not LOADED loads it in place, when enabled.   *)
ReloadUnloaded ==
  /\ "reload" \in Ops /\ LockFree /\ plugins # 0
  /\ obj[plugins].status # "loaded" /\ obj[plugins].enabled
  /\ LoadInPlace(plugins, TRUE) \/ LoadRefused(plugins, TRUE)
  /\ Slip("loaded over", Unretired(plugins))
  /\ LoadsFrom(obj[plugins].digest)
  /\ UNCHANGED <<plugins, packages, op, wanted>>

-----------------------------------------------------------------------------
(* _activate_manifest(publish=False) and _commit_staged_plugin *)

Staged(kind, c, o, package) ==
  [kind |-> kind, step |-> "staged", cand |-> c, prev |-> o, package |-> package]

(* Wrong: a package that was there before is deleted too. *)
DiscardedAlways(package) == files \ {package.digest}

Discarded(package) == IF package.fresh THEN files \ {package.digest} ELSE files

(* A candidate is loaded beside the generation that keeps serving.  Bound:  *)
(* a LOADED object that is not ACTIVE is not replaced again; only a refused *)
(* rollback leaves one, STOPPED.                                            *)
Stage(kind, d, package) ==
  LET c == Len(obj) + 1
  IN /\ NewGen <= MaxGens /\ obj[plugins].state = "active"
     /\ \/ /\ d \in files
           /\ gen' = Append(gen, Generation(d, c))
           /\ obj' = Append(obj, Object(d, "preparing", "loaded"))
           /\ op' = Staged(kind, c, plugins, package)
           /\ UNCHANGED files
        \/ /\ LoadsFail \/ d \notin files
           /\ gen' = Append(gen, FailedGeneration(d))
           /\ obj' = Append(obj, Object(d, "failed", "error"))
           /\ op' = Idle
           /\ files' = Discarded(package)
     /\ UNCHANGED <<snapshots, plugins, active, store, pending>>

Reload ==
  /\ "reload" \in Ops /\ LockFree /\ Loaded
  /\ Stage("reload", obj[plugins].digest, NoPackage)
  /\ LoadsFrom(obj[plugins].digest)
  /\ UNCHANGED <<prepared, wanted, slips>>

(* Wrong: the predecessor stays ACTIVE. *)
CutOverOnly(c, p) == [obj EXCEPT ![c].state = "active"]

CutOver(c, p) == [obj EXCEPT ![c].state = "active", ![p].state = "draining"]

(* publish_candidate and finalize: one cut-over, no await in between.       *)
Commit ==
  /\ op.step = "staged"
  /\ Publish(obj[op.cand].runtime)
  /\ obj' = CutOver(op.cand, op.prev)
  /\ plugins' = op.cand
  /\ active' = obj[op.cand].runtime
  /\ op' = IF op.kind = "install" THEN [op EXCEPT !.step = "record"] ELSE Idle
  /\ UNCHANGED <<gen, packages, history>>

(* Not ready, or no MCP: the candidate is given up before its publication.  *)
GiveUp ==
  /\ LoadsFail
  /\ op.step = "staged"
  /\ op' = [op EXCEPT !.step = "discard"]
  /\ UNCHANGED <<snapshots, registry, packages, history>>

(* Wrong: the rollback publishes the candidate's routes again. *)
NotRolledBack(c, p) == <<obj[c].runtime, obj[c].runtime>>

RolledBack(c, p) == <<obj[c].runtime, obj[p].runtime>>

(* The cut-over raises after publication: rollback() restores the owner.    *)
CommitRollsBack ==
  /\ LoadsFail
  /\ op.step = "staged"
  /\ Current + 2 <= MaxRevisions
  /\ routes' = routes \o RolledBack(op.cand, op.prev)
  /\ retired' = IF Leased(Current) THEN retired \cup {Current} ELSE retired
  /\ retiring' = retiring \o (IF Leased(Current) THEN <<>> ELSE <<Current>>) \o <<Current + 1>>
  /\ obj' = [obj EXCEPT ![op.cand].state = "active"]
  /\ op' = [op EXCEPT !.step = "discard"]
  /\ UNCHANGED <<lease, gen, plugins, active, packages, history>>

(* Wrong: only the record is dropped, nothing is cleaned up. *)
Forgotten(g) == [g EXCEPT !.record = 0]

Dropped(g) == FailedGeneration(g.digest)

(* _discard_staged_plugin; an install then discards the package it unpacked. *)
DiscardStaged ==
  /\ op.step = "discard"
  /\ gen' = [gen EXCEPT ![obj[op.cand].runtime] = Dropped(@)]
  /\ obj' = [obj EXCEPT ![op.cand].state = "failed", ![op.prev].state = "active"]
  /\ plugins' = op.prev
  /\ active' = obj[op.prev].runtime
  /\ files' = Discarded(op.package)
  /\ op' = Idle
  /\ UNCHANGED <<snapshots, store, pending, prepared, history>>

-----------------------------------------------------------------------------
(* install_plugin_runtime *)

(* The package is unpacked before the key's lock is taken.                  *)
Prepare(d) ==
  /\ "install" \in Ops /\ prepared = NoPackage
  /\ prepared' = [digest |-> d, fresh |-> d \notin files]
  /\ files' = files \cup {d}
  /\ UNCHANGED <<snapshots, registry, store, pending, op, history>>

InstallOver ==
  /\ op = Idle /\ prepared # NoPackage
  /\ Loaded
  /\ Stage("install", prepared.digest, prepared)
  /\ prepared' = NoPackage
  /\ UNCHANGED history

(* _rollback_to_runtime returns silently when the runtime is not on record. *)
OnRecord(p) == IF p = 0 THEN FALSE ELSE gen[obj[p].runtime].record # 0

(* No loaded predecessor: publish at once, then drain the predecessor.      *)
(* When that one has been STOPPED meanwhile the step raises, after the      *)
(* publication: the rollback raises too, or the routed package is discarded. *)
InstallNew ==
  LET c == Len(obj) + 1
      d == prepared.digest
      new == Append(obj, Object(d, "active", "loaded"))
      drains == plugins = 0 \/ obj[plugins].state \in MayDrain
  IN /\ op = Idle /\ prepared # NoPackage
     /\ ~Loaded
     /\ LoadAndPublish(d, c)
     /\ IF drains
        THEN /\ obj' = IF plugins = 0 THEN new ELSE [new EXCEPT ![plugins].state = "draining"]
             /\ plugins' = c
             /\ op' = [kind |-> "install", step |-> "record", cand |-> c, prev |-> plugins,
                       package |-> prepared]
             /\ UNCHANGED <<files, unbacked>>
        ELSE /\ \/ /\ OnRecord(plugins)
                   /\ obj' = [new EXCEPT ![c].state = "draining"]
                   /\ UNCHANGED <<plugins, files>>
                \/ /\ ~OnRecord(plugins)
                   /\ obj' = new
                   /\ plugins' = c
                   /\ files' = Discarded(prepared)
             /\ unbacked' = unbacked \cup {NewGen}
             /\ UNCHANGED op
     /\ prepared' = NoPackage
     /\ UNCHANGED <<store, pending, wanted, slips>>

(* The new object fails to load: its predecessor is put back, as ACTIVE.    *)
(* Race: it was draining, and its retirement now leaves it alone.           *)
InstallFails ==
  LET d == prepared.digest
      new == Append(obj, Object(d, "failed", "error"))
  IN /\ op = Idle /\ prepared # NoPackage
     /\ ~Loaded
     /\ LoadRaises(d)
     /\ IF plugins = 0
        THEN obj' = new /\ plugins' = Len(new)
        ELSE /\ obj' = IF obj[plugins].state \in MayActivate
                       THEN [new EXCEPT ![plugins].state = "active"] ELSE new
             /\ UNCHANGED plugins
     /\ files' = Discarded(prepared)
     /\ prepared' = NoPackage
     /\ Slip("put back", plugins # 0 /\ obj[plugins].state = "draining")
     /\ UNCHANGED <<op, store, pending, wanted, unbacked>>

RecordInstall ==
  /\ op.step = "record"
  /\ store' = [status |-> "active", versions |-> store.versions \cup {op.package.digest}]
  /\ wanted' = TRUE /\ UNCHANGED <<slips, unbacked>>
  /\ op' = Idle
  /\ UNCHANGED <<snapshots, registry, files, pending, prepared>>

(* The reconcile or the first start raises after the publication.  Without  *)
(* a predecessor on record the generation stays routed, and the package it  *)
(* runs from is discarded.                                                  *)
InstallStrands ==
  /\ LoadsFail
  /\ op.step = "record" /\ ~OnRecord(op.prev)
  /\ files' = Discarded(op.package)
  /\ unbacked' = unbacked \cup {obj[op.cand].runtime}
  /\ op' = Idle
  /\ UNCHANGED <<snapshots, registry, store, pending, prepared, wanted, slips>>

(* With one, _rollback_to_runtime: the candidate drains and the predecessor *)
(* is ACTIVE and LOADED again, routed again, whatever it was before; only a *)
(* STOPPED one cannot be, and then nothing is discarded.                    *)
InstallUndone ==
  LET c == op.cand
      p == op.prev
  IN /\ LoadsFail
     /\ op.step = "record" /\ OnRecord(p)
     /\ plugins' = p
     /\ \/ /\ obj[p].state \in MayActivate
           /\ obj' = [obj EXCEPT ![c].state = "draining", ![p].state = "active",
                                 ![p].status = "loaded"]
           /\ active' = obj[p].runtime
           /\ Publish(obj[p].runtime)
           /\ files' = Discarded(op.package)
        \/ /\ obj[p].state \notin MayActivate
           /\ obj' = [obj EXCEPT ![c].state = "draining"]
           /\ UNCHANGED <<snapshots, active, files>>
     /\ unbacked' = unbacked \cup {obj[c].runtime}
     /\ op' = Idle
     /\ UNCHANGED <<gen, store, pending, prepared, wanted, slips>>

-----------------------------------------------------------------------------
(* disable and uninstall: the active runner stops, then unload_plugin.      *)

BeginDisable ==
  /\ "disable" \in Ops /\ LockFree /\ plugins # 0
  /\ obj' = [obj EXCEPT ![plugins].enabled = FALSE]
  /\ op' = [Idle EXCEPT !.kind = "disable", !.step = "unload"]
  /\ UNCHANGED <<snapshots, gen, plugins, active, packages, history>>

BeginUninstall ==
  /\ "uninstall" \in Ops /\ LockFree /\ plugins # 0
  /\ store.status # "absent"
  /\ store' = [store EXCEPT !.status = "pending_removal"]
  /\ pending' = store.versions
  /\ wanted' = FALSE /\ UNCHANGED <<slips, unbacked>>
  /\ op' = [Idle EXCEPT !.kind = "uninstall", !.step = "unload"]
  /\ UNCHANGED <<snapshots, registry, files, prepared>>

Unpublish == IF routes[Current] # 0 THEN Publish(0) ELSE UNCHANGED snapshots

(* A reconcile that raises ends the operation: nothing is finalized now.    *)
AfterUnload ==
  (IF op.kind = "uninstall" THEN {[op EXCEPT !.step = "finalize"]} ELSE {Idle})
    \cup (IF LoadsFail THEN {Idle} ELSE {})

Unload ==
  /\ op.step = "unload" /\ plugins # 0
  /\ IF obj[plugins].state \in MayDrain
     THEN /\ obj' = [obj EXCEPT ![plugins].state = "draining",
                       ![plugins].status = IF obj[plugins].enabled THEN "discovered" ELSE "disabled"]
          /\ active' = 0
          /\ Unpublish
          /\ op' \in AfterUnload
     ELSE op' = Idle /\ UNCHANGED <<snapshots, obj, active>>
  /\ UNCHANGED <<gen, plugins, packages, history>>

(* The object went with a removal that a retirement has finished meanwhile. *)
UnloadMissing ==
  /\ op.step = "unload" /\ plugins = 0
  /\ op' = Idle
  /\ UNCHANGED <<snapshots, registry, packages, history>>

FinishUninstall ==
  /\ op.step = "finalize"
  /\ FinalizeRemoval(gen, obj, Retained)
  /\ op' = Idle
  /\ UNCHANGED <<snapshots, gen, obj, active, prepared, history>>

-----------------------------------------------------------------------------
Next ==
  \/ \E t \in Turns : Acquire(t) \/ Release(t)
  \/ RunRetireTask \/ PublishOther
  \/ Enable \/ ReloadUnloaded \/ Reload
  \/ Commit \/ GiveUp \/ CommitRollsBack \/ DiscardStaged
  \/ \E d \in Digests : Prepare(d)
  \/ InstallOver \/ InstallNew \/ InstallFails
  \/ RecordInstall \/ InstallStrands \/ InstallUndone
  \/ BeginDisable \/ BeginUninstall \/ Unload \/ UnloadMissing \/ FinishUninstall

Spec == Init /\ [][Next]_vars

(* Turns end, retire tasks run, and an operation that has begun goes on.    *)
Fairness ==
  /\ \A t \in Turns : WF_vars(Release(t))
  /\ WF_vars(RunRetireTask)
  /\ WF_vars(\/ Unload \/ UnloadMissing \/ FinishUninstall \/ DiscardStaged
             \/ RecordInstall \/ InstallStrands \/ InstallUndone)

FairSpec == Spec /\ Fairness

-----------------------------------------------------------------------------
TypeOK ==
  /\ routes \in Seq(0 .. Len(gen)) /\ Current \in 1 .. MaxRevisions
  /\ retired \subseteq 1 .. Current /\ retiring \in Seq(1 .. Current)
  /\ lease \in [Turns -> 0 .. Current]
  /\ gen \in Seq([digest : Digests, scope : {"open", "closed"}, bindings : {"kept", "dropped"},
                  record : 0 .. Len(obj)])
  /\ obj \in Seq([state : (MayPrepare \cup MayDrain) \ {"discovered"},
                  enabled : BOOLEAN, digest : Digests,
                  status : {"loaded", "error", "loading", "disabled", "discovered"},
                  runtime : 1 .. Len(gen)])
  /\ plugins \in 0 .. Len(obj) /\ active \in 0 .. Len(gen)
  /\ store \in [status : {"absent", "active", "pending_removal"}, versions : SUBSET Digests]
  /\ files \subseteq Digests /\ pending \subseteq Digests
  /\ prepared \in Packages
  /\ op \in [kind : {"none", "install", "reload", "disable", "uninstall"},
            step : {"none", "staged", "discard", "record", "unload", "finalize"},
            cand : 0 .. Len(obj), prev : 0 .. Len(obj), package : Packages]
  /\ wanted \in BOOLEAN /\ slips \subseteq {"loaded over", "put back"}
  /\ unbacked \subseteq 1 .. Len(gen)

(* What a turn leases is kept, and nothing else: a snapshot is in _retired  *)
(* exactly as long as a lease of it is out.                                 *)
KeptWhileLeased == retired = {lease[t] : t \in Turns} \ {0, Current}

(* A generation is never torn down under a turn whose snapshot routes to it, *)
(* unless an object was loaded over a generation not yet retired.           *)
LeasedGenerationRuns ==
  "loaded over" \notin slips =>
    \A r \in {lease[t] : t \in Turns} \ {0} : routes[r] # 0 => gen[routes[r]].scope = "open"

UnderWay == {routes[retiring[k]] : k \in DOMAIN retiring}
              \cup {obj[c].runtime : c \in {op.cand} \ {0}}

(* A generation no snapshot routes to is stopped and forgotten as soon as   *)
(* its retirement has run: cleanups called, record and bindings dropped.    *)
(* Two races let one escape: its object loaded again, or put back as ACTIVE. *)
RetiredGenerationStops ==
  slips \cap {"loaded over", "put back"} = {} =>
    \A i \in DOMAIN gen \ (Retained \cup UnderWay) :
      gen[i].scope = "closed" /\ gen[i].record = 0 /\ gen[i].bindings = "dropped"

Serves(o) == o = plugins /\ active = obj[o].runtime /\ routes[Current] = active

(* At most one loaded object is ACTIVE: the one registered and routed.      *)
OneActiveGeneration ==
  op.step # "discard" => \A o \in DOMAIN obj :
    obj[o].state = "active" /\ obj[o].status = "loaded" => Serves(o)

(* What new turns are routed to is the registered, ACTIVE object's present  *)
(* generation, and its cleanups have not run, unless an object was loaded   *)
(* over a generation not yet retired.                                       *)
RoutedIsRegistered ==
  LET i == routes[Current] IN
    "loaded over" \notin slips /\ i # 0 =>
      /\ gen[i].record # 0 /\ gen[i].record = plugins /\ active = i
      /\ obj[plugins].state = "active" /\ gen[i].scope = "open"

(* The package of a generation that some turn may still run is on disk,     *)
(* and so is every package on record, whoever discards or removes another.  *)
(* Only a generation no install answers for may lose its package (its own   *)
(* failed after publishing it, or was still waiting when it was loaded), or *)
(* one that was put back as ACTIVE while it was being removed.              *)
RoutedPackageOnDisk ==
  /\ "put back" \notin slips => \A i \in Retained \ unbacked : gen[i].digest \in files
  /\ store.versions \subseteq files

(* Only an uninstall makes an installed plugin go.                          *)
RemovalWasAsked ==
  [][store.status # "absent" /\ store'.status = "absent" => ~wanted]_vars

(* An uninstall is carried out once the old turns are over, unless the      *)
(* plugin is installed again in the meantime.                               *)
UninstallCompletes == pending # {} ~> pending = {} \/ wanted
=============================================================================
