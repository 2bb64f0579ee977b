-------------------------- MODULE McpServersProofs --------------------------
(***************************************************************************)
(* Proofs about McpServers for any turns, configurations and numbers of    *)
(* runtimes, failures and operations: its types, that no runtime is told   *)
(* to stop while a snapshot routes to it, that what is published is the   *)
(* runtime in force, and that the server is as desired once the            *)
(* operations are over.                                                    *)
(***************************************************************************)
EXTENDS McpServers, TLAPS

Kinds == {"none", "apply", "stage", "undo"}
Steps == {"none", "visit", "wait", "discard", "publish"}
Operations == [kind : Kinds, want : Configs \cup {None}, step : Steps, cand : Runtimes \cup {0}]

(* The parts of TypeOK that change together.                                *)
OwnerTypes ==
  /\ config \in [Runtimes -> Configs] /\ state \in [Runtimes -> States]
  /\ at \in [Runtimes -> Places] /\ tools \in [Runtimes -> BOOLEAN]
  /\ shared \in [Runtimes -> BOOLEAN]
  /\ stopper \in [Runtimes -> {"none", "waiting", "over"}]
  /\ made \in Runtimes /\ faults \in Nat
RoutingTypes ==
  /\ routed \in Runtimes \cup {0} /\ lease \in [Turns -> Runtimes \cup {0}]
  /\ leaving \subseteq Runtimes
ManagerTypes ==
  /\ current \in Runtimes \cup {0} /\ retired \subseteq Runtimes /\ orphans \subseteq Runtimes
PlanTypes ==
  /\ desired \in Configs \cup {None} /\ op \in [Ops -> Operations]
  /\ changes \in Nat /\ slips \subseteq {"overlap", "not undone", "not applied"}

LEMMA TypesOfParts ==
  /\ TypeOK <=> OwnerTypes /\ RoutingTypes /\ ManagerTypes /\ PlanTypes
  /\ TypeOK' <=> OwnerTypes' /\ RoutingTypes' /\ ManagerTypes' /\ PlanTypes'
  BY DEF TypeOK, OwnerTypes, RoutingTypes, ManagerTypes, PlanTypes, Operations, Kinds, Steps

------------------------------------------------------------------------------
(* Types *)

LEMMA InitTypes == Init => TypeOK
<1>. SUFFICES ASSUME Init PROVE TypeOK
  OBVIOUS
<1>1. 1 \in Runtimes
  BY RuntimeBounds DEF Runtimes
<1>2. Idle \in [kind : {"none", "apply", "stage", "undo"}, want : Configs \cup {None},
                step : {"none", "visit", "wait", "discard", "publish"}, cand : Runtimes \cup {0}]
  BY DEF Idle
<1>. QED BY <1>1, <1>2, ConfigAssumption DEF Init, TypeOK, States, Places

(* What Publish, Sync and BeginStop do to the types of what they change.    *)
LEMMA PublishTypes ==
  ASSUME RoutingTypes, NEW r \in Runtimes \cup {0}, Publish(r)
  PROVE  RoutingTypes'
  BY DEF Publish, RoutingTypes, Leased

LEMMA SyncTypes ==
  ASSUME OwnerTypes, RoutingTypes, NEW r \in Runtimes, NEW some \in BOOLEAN, Sync(r, some)
  PROVE  tools' \in [Runtimes -> BOOLEAN] /\ RoutingTypes'
<1>1. tools' \in [Runtimes -> BOOLEAN]
  BY DEF Sync, OwnerTypes
<1>2. CASE shared[r] /\ some # tools[r]
  <2>1. Publish(IF some THEN r ELSE 0)
    BY <1>2 DEF Sync
  <2>. QED BY <1>1, <2>1, PublishTypes
<1>3. CASE ~(shared[r] /\ some # tools[r])
  BY <1>1, <1>3 DEF Sync, RoutingTypes, routing
<1>. QED BY <1>2, <1>3

LEMMA BeginStopTypes ==
  ASSUME OwnerTypes, NEW r \in Runtimes \cup {0}, BeginStop(r)
  PROVE  /\ stopper' \in [Runtimes -> {"none", "waiting", "over"}]
         /\ state' \in [Runtimes -> States] /\ at' \in [Runtimes -> Places]
  BY DEF BeginStop, CancelledAt, OwnerTypes, States, Places

LEMMA FaultTypes == ASSUME OwnerTypes, Fault PROVE faults' \in Nat
<1>1. faults \in Nat
  BY DEF OwnerTypes
<1>2. faults' = faults + 1
  BY DEF Fault
<1>. QED BY <1>1, <1>2

LEMMA OwnerTaskTypes ==
  ASSUME TypeOK, NEW r \in Runtimes, OwnerTask(r) \/ StopCancels(r)
  PROVE  TypeOK'
<1>. USE TypesOfParts
<1>1. ManagerTypes' /\ PlanTypes'
  BY DEF OwnerTask, Connected, Refreshed, ConnectFails, StopSeen, ConnectionLost, RefreshSeen,
         RefreshFails, Closed, Retry, StopCancels, manager, plans, ManagerTypes, PlanTypes, Operations
<1>2. ASSUME NEW some \in BOOLEAN, Connected(r, some) \/ Refreshed(r, some)
      PROVE  OwnerTypes' /\ RoutingTypes'
  BY <1>2, SyncTypes DEF Connected, Refreshed, OwnerTypes, States, Places
<1>3. ASSUME NEW permanent \in BOOLEAN, ConnectFails(r, permanent)
      PROVE  OwnerTypes' /\ RoutingTypes'
  BY <1>3, FaultTypes DEF ConnectFails, OwnerTypes, RoutingTypes, routing, States, Places
<1>4. ASSUME StopSeen(r) \/ RefreshFails(r) \/ Closed(r) \/ Retry(r) \/ StopCancels(r)
      PROVE  OwnerTypes' /\ RoutingTypes'
  BY <1>4 DEF StopSeen, RefreshFails, Closed, Retry, StopCancels, CancelledAt, OwnerTypes,
              RoutingTypes, routing, States, Places
<1>5. ASSUME ConnectionLost(r) \/ RefreshSeen(r)
      PROVE  OwnerTypes' /\ RoutingTypes'
  BY <1>5, FaultTypes DEF ConnectionLost, RefreshSeen, OwnerTypes, RoutingTypes, routing, States, Places
<1>. QED BY <1>1, <1>2, <1>3, <1>4, <1>5 DEF OwnerTask

LEMMA BeginReconcileTypes ==
  ASSUME TypeOK, NEW o \in Ops, NEW kind \in Kinds, NEW want \in Configs \cup {None},
         BeginReconcile(o, kind, want), desired' \in Configs \cup {None}, changes' \in Nat
  PROVE  TypeOK'
<1>. USE TypesOfParts
<1>1. op' \in [Ops -> Operations] /\ slips' \subseteq {"overlap", "not undone", "not applied"}
  BY DEF BeginReconcile, PlanTypes, Operations, Steps
<1>2. CASE want = None /\ current # 0
  <2>1. RoutingTypes'
    BY <1>2, PublishTypes DEF BeginReconcile
  <2>2. OwnerTypes' /\ ManagerTypes'
    BY <1>2 DEF BeginReconcile, Forget, RetireCurrent, OwnerTypes, ManagerTypes
  <2>. QED BY <1>1, <2>1, <2>2 DEF PlanTypes
<1>3. CASE ~(want = None /\ current # 0)
  BY <1>1, <1>3 DEF BeginReconcile, OwnerTypes, RoutingTypes, ManagerTypes, PlanTypes, manager, routing
<1>. QED BY <1>2, <1>3

LEMMA ReconciliationTypes == ASSUME TypeOK, Reconciliation PROVE TypeOK'
<1>. USE TypesOfParts
<1>1. ASSUME NEW c \in Configs \cup {None}, OwnerApplies(c) \/ OwnerStages(c) PROVE TypeOK'
  <2>1. "owner" \in Ops /\ changes' \in Nat /\ desired' \in Configs \cup {None}
    <3>1. changes \in Nat /\ desired \in Configs \cup {None}
      BY DEF PlanTypes
    <3>2. changes' = changes + 1 /\ desired' \in {desired, c}
      BY <1>1 DEF OwnerApplies, OwnerStages
    <3>. QED BY <3>1, <3>2 DEF Ops
  <2>. QED BY <1>1, <2>1, BeginReconcileTypes DEF OwnerApplies, OwnerStages, Kinds
<1>2. ASSUME OtherReconciles \/ StageFails PROVE TypeOK'
  <2>1. Ops = {"owner", "other"} /\ changes' \in Nat /\ desired \in Configs \cup {None} /\ desired' = desired
    BY <1>2 DEF OtherReconciles, StageFails, Ops, PlanTypes
  <2>. QED BY <1>2, <2>1, BeginReconcileTypes DEF OtherReconciles, StageFails, Kinds
<1>3. Idle \in Operations
  BY DEF Idle, Operations, Kinds, Steps
<1>4. CASE StagePublished
  BY <1>3, <1>4 DEF StagePublished, OwnerTypes, RoutingTypes, ManagerTypes, PlanTypes, Operations,
                    owners, routing, manager, Ops
<1>5. ASSUME NEW o \in Ops,
             VisitAsWanted(o) \/ VisitReplaces(o) \/ CandidateTakesOver(o) \/ CandidateFails(o) \/ ReconcileRaises(o)
      PROVE  TypeOK'
  <2>1. op[o] \in Operations
    BY DEF PlanTypes
  <2>2. AfterReconcile(o) => op' \in [Ops -> Operations]
    <3>1. [op[o] EXCEPT !.step = "publish"] \in Operations
      BY <2>1 DEF Operations, Steps
    <3>. QED BY <1>3, <3>1 DEF AfterReconcile, PlanTypes
  <2>3. CASE VisitAsWanted(o)
    BY <2>2, <2>3 DEF VisitAsWanted, OwnerTypes, RoutingTypes, ManagerTypes, PlanTypes, owners, routing, manager
  <2>4. CASE VisitReplaces(o)
    <3>1. op[o].want \in Configs
      BY <2>1, <2>4 DEF VisitReplaces, AsWanted, Operations
    <3>2. OwnerTypes'
      BY <2>4, <3>1 DEF VisitReplaces, OwnerTypes, States, Places
    <3>3. op' \in [Ops -> Operations]
      BY <2>1, <2>4 DEF VisitReplaces, PlanTypes, Operations, Steps
    <3>. QED BY <2>4, <3>2, <3>3 DEF VisitReplaces, RoutingTypes, ManagerTypes, PlanTypes, routing, manager
  <2>5. CASE CandidateTakesOver(o)
    <3>1. op[o].cand \in Runtimes \cup {0}
      BY <2>1 DEF Operations
    <3>2. RoutingTypes'
      BY <2>5, <3>1, PublishTypes DEF CandidateTakesOver, RoutingTypes, routing
    <3>3. OwnerTypes' /\ ManagerTypes'
      BY <2>5, <3>1 DEF CandidateTakesOver, Activate, RetireCurrent, OwnerTypes, ManagerTypes
    <3>. QED BY <2>2, <2>5, <3>2, <3>3 DEF CandidateTakesOver, PlanTypes
  <2>6. CASE CandidateFails(o)
    <3>1. op[o].cand \in Runtimes \cup {0}
      BY <2>1 DEF Operations
    <3>2. OwnerTypes'
      BY <2>6, <3>1, BeginStopTypes DEF CandidateFails, OwnerTypes
    <3>3. op' \in [Ops -> Operations]
      BY <2>1, <2>6 DEF CandidateFails, PlanTypes, Operations, Steps
    <3>. QED BY <2>6, <3>2, <3>3 DEF CandidateFails, RoutingTypes, ManagerTypes, PlanTypes, routing, manager
  <2>7. CASE ReconcileRaises(o)
    <3>1. CASE op[o].kind = "stage"
      BY <2>7, <3>1, BeginReconcileTypes DEF ReconcileRaises, Kinds, PlanTypes
    <3>2. CASE op[o].kind # "stage"
      BY <1>3, <2>7, <3>2 DEF ReconcileRaises, Slip, OwnerTypes, RoutingTypes, ManagerTypes, PlanTypes,
                              owners, routing, manager
    <3>. QED BY <3>1, <3>2
  <2>. QED BY <1>5, <2>3, <2>4, <2>5, <2>6, <2>7
<1>. QED BY <1>1, <1>2, <1>4, <1>5 DEF Reconciliation

LEMMA NextTypes == TypeOK /\ [Next]_vars => TypeOK'
<1>. SUFFICES ASSUME TypeOK, [Next]_vars PROVE TypeOK'
  OBVIOUS
<1>. USE TypesOfParts
<1>1. ASSUME NEW t \in Turns, Acquire(t) \/ Release(t) \/ CallFails(t) PROVE TypeOK'
  <2>1. ManagerTypes' /\ PlanTypes'
    BY <1>1 DEF Acquire, Release, CallFails, ManagerTypes, PlanTypes, manager, plans, Operations
  <2>2. RoutingTypes'
    BY <1>1 DEF Acquire, Release, CallFails, RoutingTypes, routing
  <2>3. OwnerTypes'
    BY <1>1 DEF Acquire, Release, CallFails, Fault, OwnerTypes, owners, States
  <2>. QED BY <2>1, <2>2, <2>3
<1>2. ASSUME NEW r \in Runtimes, OwnerTask(r) \/ StopCancels(r) PROVE TypeOK'
  BY <1>2, OwnerTaskTypes
<1>3. ASSUME NEW r \in Runtimes, StopReturns(r) PROVE TypeOK'
  <2>1. RoutingTypes'
    BY <1>3, PublishTypes DEF StopReturns, RoutingTypes, routing
  <2>2. OwnerTypes'
    BY <1>3 DEF StopReturns, OwnerTypes, States, Places
  <2>. QED BY <1>3, <2>1, <2>2 DEF StopReturns, ManagerTypes, PlanTypes, manager, plans, Operations
<1>4. ASSUME NEW r \in Runtimes, Retire(r) PROVE TypeOK'
  <2>1. OwnerTypes'
    BY <1>4, BeginStopTypes DEF Retire, OwnerTypes
  <2>. QED BY <1>4, <2>1 DEF Retire, RoutingTypes, ManagerTypes, PlanTypes, plans, Operations
<1>5. CASE Reconciliation
  BY <1>5, ReconciliationTypes
<1>6. CASE UNCHANGED vars
  BY <1>6 DEF vars, TypeOK
<1>. QED BY <1>1, <1>2, <1>3, <1>4, <1>5, <1>6 DEF Next

(* Every variable of the model keeps its type: runtimes, tasks, snapshots   *)
(* and operations hold what the code's fields can hold.                     *)
THEOREM TypeCorrect == Spec => []TypeOK
<1>. QED BY InitTypes, NextTypes, PTL DEF Spec

------------------------------------------------------------------------------
(* What is in force *)

(* A runtime that nothing refers to but, at most, its operation.            *)
Unknown(r) == r # current /\ r # routed /\ r \notin retired /\ \A t \in Turns : lease[t] # r

InHand(o) == op[o].step \in {"wait", "discard"}

UnmadeUnknown == \A r \in Runtimes : r > made => Unknown(r) /\ stopper[r] = "none"

CandidatesApart ==
  \A o \in Ops : InHand(o) =>
    /\ op[o].cand \in Runtimes /\ op[o].cand <= made /\ Unknown(op[o].cand)
    /\ op[o].step = "wait" => stopper[op[o].cand] = "none"
    /\ \A p \in Ops \ {o} : InHand(p) => op[p].cand # op[o].cand

SharedIsCurrent == \A r \in Runtimes : shared[r] <=> r = current

StoppedUnused ==
  \A r \in Runtimes : stopper[r] # "none" =>
    r # current /\ r # routed /\ \A t \in Turns : lease[t] # r

InForce ==
  /\ UnmadeUnknown /\ CandidatesApart /\ SharedIsCurrent /\ StoppedUnused
  /\ current \notin retired /\ PublishedIsCurrent

Inv == TypeOK /\ InForce

LEMMA RuntimeNumbers == \A r \in Runtimes : r \in Nat /\ r # 0
  BY RuntimeBounds DEF Runtimes

LEMMA InitInv == Init => Inv
<1>. SUFFICES ASSUME Init PROVE InForce
  BY InitTypes DEF Inv
<1>1. 1 \in Runtimes
  BY RuntimeBounds DEF Runtimes
<1>2. made = 1 /\ current = 1 /\ retired = {} /\ routed = 0 /\ \A t \in Turns : lease[t] = 0
  BY DEF Init
<1>3. \A r \in Runtimes : r \in Nat /\ r # 0 /\ stopper[r] = "none" /\ ~tools[r] /\ (shared[r] <=> r = 1)
  BY RuntimeNumbers DEF Init
<1>4. \A o \in Ops : ~InHand(o)
  BY DEF Init, InHand, Idle
<1>5. UnmadeUnknown
  BY <1>2, <1>3 DEF UnmadeUnknown, Unknown
<1>6. CandidatesApart
  BY <1>4 DEF CandidatesApart
<1>7. SharedIsCurrent /\ StoppedUnused /\ PublishedIsCurrent /\ current \notin retired
  BY <1>1, <1>2, <1>3 DEF SharedIsCurrent, StoppedUnused, PublishedIsCurrent
<1>. QED BY <1>5, <1>6, <1>7 DEF InForce

(* Steps that change none of what InForce is about.                         *)
LEMMA InForceKept ==
  ASSUME InForce, UNCHANGED <<tools, shared, stopper, made, current, retired, routed, lease, op>>
  PROVE  InForce'
  BY DEF InForce, UnmadeUnknown, CandidatesApart, SharedIsCurrent, StoppedUnused, PublishedIsCurrent,
         Unknown, InHand

(* An answer of the server changes the routes only for the current runtime. *)
LEMMA SyncInForce ==
  ASSUME Inv, NEW r \in Runtimes, NEW some \in BOOLEAN, Sync(r, some),
         UNCHANGED <<shared, stopper, made, current, retired, op>>
  PROVE  InForce'
<1>1. CASE shared[r] /\ some # tools[r]
  <2>1. r = current /\ stopper[r] = "none" /\ r <= made
    <3>1. r = current
      BY <1>1 DEF Inv, InForce, SharedIsCurrent
    <3>2. stopper[r] = "none" /\ ~(r > made)
      BY <3>1 DEF Inv, InForce, StoppedUnused, UnmadeUnknown, Unknown
    <3>3. r \in Nat /\ made \in Nat
      BY RuntimeNumbers DEF Inv, TypeOK
    <3>. QED BY <3>1, <3>2, <3>3
  <2>2. routed' = (IF some THEN current ELSE 0) /\ lease' = lease /\ tools' = [tools EXCEPT ![r] = some]
    BY <1>1, <2>1 DEF Sync, Publish
  <2>3. UnmadeUnknown'
    BY <2>1, <2>2 DEF Inv, InForce, UnmadeUnknown, Unknown, Runtimes
  <2>4. CandidatesApart'
    BY <2>1, <2>2 DEF Inv, InForce, CandidatesApart, Unknown, InHand, Runtimes
  <2>5. StoppedUnused' /\ SharedIsCurrent'
    BY <2>1, <2>2 DEF Inv, InForce, StoppedUnused, SharedIsCurrent, Runtimes
  <2>6. PublishedIsCurrent'
    BY <2>1, <2>2 DEF Inv, InForce, PublishedIsCurrent, TypeOK, Runtimes
  <2>. QED BY <2>3, <2>4, <2>5, <2>6 DEF Inv, InForce
<1>2. CASE ~(shared[r] /\ some # tools[r])
  <2>1. routed' = routed /\ lease' = lease /\ tools' = [tools EXCEPT ![r] = some]
    BY <1>2 DEF Sync, routing
  <2>2. r = current => tools' = tools
    BY <1>2, <2>1 DEF Inv, InForce, SharedIsCurrent, TypeOK
  <2>3. PublishedIsCurrent'
    BY <2>1, <2>2 DEF Inv, InForce, PublishedIsCurrent, TypeOK, Runtimes
  <2>. QED BY <2>1, <2>3 DEF Inv, InForce, UnmadeUnknown, CandidatesApart, SharedIsCurrent,
                             StoppedUnused, Unknown, InHand
<1>. QED BY <1>1, <1>2

(* A runtime that nothing refers to may be told to stop.                    *)
LEMMA StopInForce ==
  ASSUME Inv, NEW r \in Runtimes, BeginStop(r), r <= made,
         r # current, r # routed, \A t \in Turns : lease[t] # r,
         \A o \in Ops : InHand(o)' => op'[o].cand = op[o].cand /\ InHand(o),
         \A o \in Ops : InHand(o)' /\ op[o].cand = r => op'[o].step # "wait",
         \A o \in Ops : InHand(o)' /\ op'[o].step = "wait" => op[o].step = "wait",
         retired' \subseteq retired, UNCHANGED <<tools, shared, made, current, routed, lease>>
  PROVE  InForce'
<1>1. stopper' = [stopper EXCEPT ![r] = "waiting"]
  BY DEF BeginStop
<1>2. UnmadeUnknown'
  <2>1. \A q \in Runtimes : q > made => q # r
    <3>1. made \in Nat /\ r \in Nat
      BY RuntimeNumbers DEF Inv, TypeOK
    <3>. QED BY <3>1, RuntimeNumbers
  <2>2. \A q \in Runtimes : q # r => stopper'[q] = stopper[q]
    BY <1>1 DEF Inv, TypeOK
  <2>. QED BY <2>1, <2>2 DEF Inv, InForce, UnmadeUnknown, Unknown
<1>3. CandidatesApart'
  <2>. SUFFICES ASSUME NEW o \in Ops, InHand(o)'
                PROVE  /\ op'[o].cand \in Runtimes /\ op'[o].cand <= made' /\ Unknown(op[o].cand)'
                       /\ op'[o].step = "wait" => stopper'[op'[o].cand] = "none"
                       /\ \A p \in Ops \ {o} : InHand(p)' => op'[p].cand # op'[o].cand
    BY DEF CandidatesApart
  <2>1. op'[o].cand = op[o].cand /\ InHand(o) /\ op[o].cand \in Runtimes /\ op[o].cand <= made
    BY DEF Inv, InForce, CandidatesApart
  <2>2. Unknown(op[o].cand)'
    BY <2>1 DEF Inv, InForce, CandidatesApart, Unknown
  <2>3. op'[o].step = "wait" => stopper'[op'[o].cand] = "none"
    BY <1>1, <2>1 DEF Inv, InForce, CandidatesApart, TypeOK
  <2>4. \A p \in Ops \ {o} : InHand(p)' => op'[p].cand # op'[o].cand
    BY <2>1 DEF Inv, InForce, CandidatesApart
  <2>. QED BY <2>1, <2>2, <2>3, <2>4
<1>4. StoppedUnused' /\ SharedIsCurrent' /\ PublishedIsCurrent'
  BY <1>1 DEF Inv, InForce, StoppedUnused, SharedIsCurrent, PublishedIsCurrent, TypeOK
<1>. QED BY <1>2, <1>3, <1>4 DEF Inv, InForce

(* A reconciliation that begins leaves the routes, or removes the server.   *)
LEMMA BeginReconcileInForce ==
  ASSUME Inv, NEW o \in Ops, NEW kind, NEW want, BeginReconcile(o, kind, want)
  PROVE  InForce'
<1>1. /\ \A p \in Ops : InHand(p)' => p # o /\ op'[p] = op[p] /\ InHand(p)
      /\ UNCHANGED <<tools, stopper, made>>
  BY DEF BeginReconcile, InHand, Inv, TypeOK
<1>2. CASE want = None /\ current # 0
  <2>1. /\ current' = 0 /\ routed' = 0 /\ lease' = lease /\ retired' = retired \cup {current}
        /\ shared' = [shared EXCEPT ![current] = FALSE]
    BY <1>2 DEF BeginReconcile, Publish, RetireCurrent, Forget
  <2>2. current \in Runtimes /\ current <= made /\ 0 \notin Runtimes
    <3>1. current \in Runtimes /\ ~(current > made)
      BY <1>2 DEF Inv, InForce, UnmadeUnknown, Unknown, TypeOK
    <3>2. current \in Nat /\ made \in Nat /\ 0 \notin Runtimes
      BY <3>1, RuntimeNumbers DEF Inv, TypeOK
    <3>. QED BY <3>1, <3>2
  <2>3. UnmadeUnknown'
    BY <1>1, <2>1, <2>2 DEF Inv, InForce, UnmadeUnknown, Unknown, Runtimes
  <2>4. CandidatesApart'
    BY <1>1, <2>1, <2>2 DEF Inv, InForce, CandidatesApart, Unknown, InHand
  <2>5. StoppedUnused' /\ SharedIsCurrent' /\ PublishedIsCurrent' /\ current' \notin retired'
    BY <1>1, <2>1, <2>2 DEF Inv, InForce, StoppedUnused, SharedIsCurrent, PublishedIsCurrent, TypeOK
  <2>. QED BY <2>3, <2>4, <2>5 DEF InForce
<1>3. CASE ~(want = None /\ current # 0)
  <2>1. UNCHANGED <<shared, current, retired, routed, lease>>
    BY <1>3 DEF BeginReconcile, manager, routing
  <2>2. CandidatesApart'
    BY <1>1, <2>1 DEF Inv, InForce, CandidatesApart, Unknown, InHand
  <2>. QED BY <1>1, <2>1, <2>2 DEF Inv, InForce, UnmadeUnknown, Unknown, SharedIsCurrent, StoppedUnused,
                                   PublishedIsCurrent
<1>. QED BY <1>2, <1>3

LEMMA ReconciliationInForce == ASSUME Inv, Reconciliation PROVE InForce'
<1>1. ASSUME NEW c \in Configs \cup {None}, OwnerApplies(c) \/ OwnerStages(c) PROVE InForce'
  BY <1>1, BeginReconcileInForce DEF OwnerApplies, OwnerStages, Ops
<1>2. CASE OtherReconciles \/ StageFails
  BY <1>2, BeginReconcileInForce DEF OtherReconciles, StageFails, Ops
<1>3. ASSUME NEW o \in Ops, op' = [op EXCEPT ![o] = Idle] \/ AfterReconcile(o),
             UNCHANGED <<owners, manager, routing>>
      PROVE  InForce'
  <2>1. \A p \in Ops : InHand(p)' => op'[p] = op[p] /\ InHand(p)
    <3>1. op \in [Ops -> Operations] /\ op[o] \in Operations
      BY DEF Inv, TypeOK, Operations, Kinds, Steps
    <3>2. [op[o] EXCEPT !.step = "publish"].step = "publish" /\ Idle.step = "none"
      BY <3>1 DEF Operations, Idle
    <3>3. op'[o] \in {Idle, [op[o] EXCEPT !.step = "publish"]} /\ \A p \in Ops \ {o} : op'[p] = op[p]
      <4>1. CASE op' = [op EXCEPT ![o] = Idle]
        BY <3>1, <4>1
      <4>2. CASE AfterReconcile(o) /\ op[o].kind = "stage"
        <5>1. op' = [op EXCEPT ![o] = [op[o] EXCEPT !.step = "publish"]]
          BY <4>2 DEF AfterReconcile
        <5>. QED BY <3>1, <5>1
      <4>3. CASE AfterReconcile(o) /\ op[o].kind # "stage"
        <5>1. op' = [op EXCEPT ![o] = Idle]
          BY <4>3 DEF AfterReconcile
        <5>. QED BY <3>1, <5>1
      <4>. QED BY <1>3, <4>1, <4>2, <4>3
    <3>4. op'[o].step \in {"none", "publish"}
      <4>1. CASE op'[o] = Idle
        BY <3>2, <4>1
      <4>2. CASE op'[o] = [op[o] EXCEPT !.step = "publish"]
        BY <3>2, <4>2
      <4>. QED BY <3>3, <4>1, <4>2
    <3>. QED BY <3>3, <3>4 DEF InHand
  <2>2. CandidatesApart'
    BY <1>3, <2>1 DEF Inv, InForce, CandidatesApart, Unknown, InHand, owners, manager, routing
  <2>. QED BY <1>3, <2>2 DEF Inv, InForce, UnmadeUnknown, Unknown, SharedIsCurrent, StoppedUnused,
                             PublishedIsCurrent, owners, manager, routing
<1>4. CASE StagePublished
  BY <1>3, <1>4 DEF StagePublished, Ops
<1>5. ASSUME NEW o \in Ops, VisitAsWanted(o) PROVE InForce'
  BY <1>3, <1>5 DEF VisitAsWanted, InHand
<1>6. ASSUME NEW o \in Ops, VisitReplaces(o) PROVE InForce'
  <2>1. /\ made + 1 \in Runtimes /\ made' = made + 1 /\ made \in Nat
        /\ UNCHANGED <<tools, shared, stopper, current, retired, routed, lease>>
    BY <1>6, RuntimeNumbers DEF VisitReplaces, manager, routing, Inv, TypeOK
  <2>2. Unknown(made + 1) /\ stopper[made + 1] = "none"
    BY <2>1 DEF Inv, InForce, UnmadeUnknown
  <2>3. /\ op'[o].cand = made + 1 /\ op'[o].step = "wait"
        /\ \A p \in Ops \ {o} : op'[p] = op[p]
    BY <1>6 DEF VisitReplaces, Inv, TypeOK
  <2>4. \A p \in Ops : InHand(p) => op[p].cand <= made /\ op[p].cand \in Nat
    BY RuntimeNumbers DEF Inv, InForce, CandidatesApart
  <2>5. UnmadeUnknown'
    BY <2>1, RuntimeNumbers DEF Inv, InForce, UnmadeUnknown, Unknown
  <2>6. CandidatesApart'
    BY <2>1, <2>2, <2>3, <2>4 DEF Inv, InForce, CandidatesApart, Unknown, InHand
  <2>. QED BY <2>1, <2>5, <2>6 DEF Inv, InForce, SharedIsCurrent, StoppedUnused, PublishedIsCurrent
<1>7. ASSUME NEW o \in Ops, CandidateTakesOver(o) PROVE InForce'
  <2>. DEFINE c == op[o].cand
  <2>1. /\ InHand(o) /\ c \in Runtimes /\ c <= made /\ Unknown(c) /\ stopper[c] = "none"
        /\ \A p \in Ops \ {o} : InHand(p) => op[p].cand # c
    BY <1>7 DEF CandidateTakesOver, InHand, Inv, InForce, CandidatesApart
  <2>2. /\ current' = c /\ shared' = Activate(c) /\ lease' = lease
        /\ routed' = (IF tools[c] THEN c ELSE routed)
        /\ retired' = (IF current = 0 THEN retired ELSE retired \cup {current})
        /\ UNCHANGED <<tools, stopper, made>>
    BY <1>7 DEF CandidateTakesOver, Publish, RetireCurrent, routing
  <2>3. \A p \in Ops : InHand(p)' => p # o /\ op'[p] = op[p] /\ InHand(p)
    BY <1>7 DEF CandidateTakesOver, AfterReconcile, InHand, Idle, Inv, TypeOK
  <2>4. UnmadeUnknown'
    <3>1. c \in Nat /\ made \in Nat /\ \A r \in Runtimes : r > made => r # c
      <4>1. c \in Nat /\ made \in Nat
        BY <2>1, RuntimeNumbers DEF Inv, TypeOK
      <4>. QED BY <2>1, <4>1, RuntimeNumbers
    <3>. QED BY <2>2, <3>1 DEF Inv, InForce, UnmadeUnknown, Unknown
  <2>5. CandidatesApart'
    <3>1. ASSUME NEW p \in Ops, InHand(p)'
          PROVE  /\ op'[p].cand \in Runtimes /\ op'[p].cand <= made' /\ Unknown(op[p].cand)'
                 /\ op'[p].step = "wait" => stopper'[op'[p].cand] = "none"
      BY <2>1, <2>2, <2>3, <3>1 DEF Inv, InForce, CandidatesApart, Unknown
    <3>2. \A p \in Ops, q \in Ops : p # q /\ InHand(p)' /\ InHand(q)' => op'[p].cand # op'[q].cand
      BY <2>3 DEF Inv, InForce, CandidatesApart
    <3>. QED BY <3>1, <3>2 DEF CandidatesApart
  <2>6. SharedIsCurrent'
    BY <2>1, <2>2 DEF Inv, InForce, SharedIsCurrent, Activate
  <2>7. StoppedUnused' /\ current' \notin retired'
    BY <2>1, <2>2 DEF Inv, InForce, StoppedUnused, Unknown
  <2>8. PublishedIsCurrent'
    BY <2>1, <2>2, <2>6, RuntimeNumbers DEF PublishedIsCurrent, SharedIsCurrent
  <2>. QED BY <2>4, <2>5, <2>6, <2>7, <2>8 DEF InForce
<1>8. ASSUME NEW o \in Ops, CandidateFails(o) PROVE InForce'
  <2>1. /\ InHand(o) /\ op[o].cand \in Runtimes /\ op[o].cand <= made /\ Unknown(op[o].cand)
        /\ \A p \in Ops \ {o} : InHand(p) => op[p].cand # op[o].cand
    BY <1>8 DEF CandidateFails, InHand, Inv, InForce, CandidatesApart
  <2>2. /\ op'[o].cand = op[o].cand /\ op'[o].step = "discard"
        /\ \A p \in Ops \ {o} : op'[p] = op[p]
        /\ BeginStop(op[o].cand) /\ UNCHANGED <<tools, shared, made, current, retired, routed, lease>>
    BY <1>8 DEF CandidateFails, Inv, TypeOK, manager, routing
  <2>3. \A p \in Ops : InHand(p)' => op'[p].cand = op[p].cand /\ InHand(p)
    BY <2>1, <2>2 DEF InHand
  <2>4. \A p \in Ops : InHand(p)' /\ op[p].cand = op[o].cand => op'[p].step # "wait"
    BY <2>1, <2>2, <2>3
  <2>5. \A p \in Ops : InHand(p)' /\ op'[p].step = "wait" => op[p].step = "wait"
    BY <2>2
  <2>. QED BY <2>1, <2>2, <2>3, <2>4, <2>5, StopInForce DEF Unknown
<1>9. ASSUME NEW o \in Ops, ReconcileRaises(o) PROVE InForce'
  BY <1>3, <1>9, BeginReconcileInForce DEF ReconcileRaises
<1>. QED BY <1>1, <1>2, <1>4, <1>5, <1>6, <1>7, <1>8, <1>9 DEF Reconciliation

LEMMA NextInv == Inv /\ [Next]_vars => Inv'
<1>. SUFFICES ASSUME Inv, [Next]_vars PROVE InForce'
  BY NextTypes DEF Inv
<1>1. ASSUME NEW t \in Turns, Acquire(t) PROVE InForce'
  <2>1. lease' = [lease EXCEPT ![t] = routed] /\ routed # 0
        /\ UNCHANGED <<tools, shared, stopper, made, current, retired, routed, op>>
    BY <1>1 DEF Acquire, owners, manager, plans
  <2>2. \A u \in Turns : lease'[u] \in {lease[u], routed}
    BY <2>1 DEF Inv, TypeOK
  <2>. QED BY <2>1, <2>2 DEF Inv, InForce, UnmadeUnknown, CandidatesApart, SharedIsCurrent, StoppedUnused,
                             PublishedIsCurrent, Unknown, InHand
<1>2. ASSUME NEW t \in Turns, Release(t) PROVE InForce'
  <2>1. lease' = [lease EXCEPT ![t] = 0]
        /\ UNCHANGED <<tools, shared, stopper, made, current, retired, routed, op>>
    BY <1>2 DEF Release, owners, manager, plans
  <2>2. \A u \in Turns : lease'[u] \in {lease[u], 0}
    BY <2>1 DEF Inv, TypeOK
  <2>. QED BY <2>1, <2>2, RuntimeNumbers DEF Inv, InForce, UnmadeUnknown, CandidatesApart, SharedIsCurrent,
                             StoppedUnused, PublishedIsCurrent, Unknown, InHand
<1>3. ASSUME NEW t \in Turns, CallFails(t) PROVE InForce'
  BY <1>3, InForceKept DEF CallFails, Inv, manager, routing, plans
<1>4. ASSUME NEW r \in Runtimes, NEW some \in BOOLEAN, Connected(r, some) \/ Refreshed(r, some)
      PROVE  InForce'
  BY <1>4, SyncInForce DEF Connected, Refreshed, manager, plans
<1>5. ASSUME NEW r \in Runtimes,
             \/ \E permanent \in BOOLEAN : ConnectFails(r, permanent)
             \/ StopSeen(r) \/ ConnectionLost(r) \/ RefreshSeen(r) \/ RefreshFails(r)
             \/ Closed(r) \/ Retry(r) \/ StopCancels(r)
      PROVE  InForce'
  BY <1>5, InForceKept DEF ConnectFails, StopSeen, ConnectionLost, RefreshSeen, RefreshFails, Closed, Retry,
                           StopCancels, Inv, manager, routing, plans
<1>6. ASSUME NEW r \in Runtimes, StopReturns(r) PROVE InForce'
  <2>1. stopper[r] = "waiting" /\ r # current /\ ~shared[r]
    BY <1>6 DEF StopReturns, Inv, InForce, StoppedUnused, SharedIsCurrent
  <2>2. /\ stopper' = [stopper EXCEPT ![r] = "over"] /\ tools' = [tools EXCEPT ![r] = FALSE]
        /\ UNCHANGED <<shared, made, current, retired, routed, lease, op>>
    BY <1>6, <2>1 DEF StopReturns, manager, routing, plans
  <2>3. \A q \in Runtimes : stopper[q] = "none" <=> stopper'[q] = "none"
    BY <2>1, <2>2 DEF Inv, TypeOK
  <2>4. PublishedIsCurrent'
    BY <2>1, <2>2 DEF Inv, InForce, PublishedIsCurrent, TypeOK
  <2>. QED BY <2>2, <2>3, <2>4 DEF Inv, InForce, UnmadeUnknown, CandidatesApart, SharedIsCurrent,
                                   StoppedUnused, Unknown, InHand
<1>7. ASSUME NEW r \in Runtimes, Retire(r) PROVE InForce'
  <2>1. UNCHANGED <<tools, shared, made, current, routed, lease, op>>
    BY <1>7 DEF Retire, plans
  <2>2. CASE r \in retired \ Retained
    <3>1. r # current /\ r # routed /\ (\A t \in Turns : lease[t] # r)
      BY <2>2 DEF Retained, Leased, Inv, InForce
    <3>2. r <= made
      <4>1. ~(r > made)
        BY <2>2 DEF Inv, InForce, UnmadeUnknown, Unknown
      <4>2. r \in Nat /\ made \in Nat
        BY RuntimeNumbers DEF Inv, TypeOK
      <4>. QED BY <4>1, <4>2
    <3>3. \A o \in Ops : InHand(o)' => op'[o].cand = op[o].cand /\ InHand(o) /\ op[o].cand # r
      BY <2>1, <2>2 DEF Inv, InForce, CandidatesApart, Unknown, InHand
    <3>4. BeginStop(r) /\ retired' \subseteq retired
      BY <1>7, <2>2 DEF Retire
    <3>. QED BY <2>1, <3>1, <3>2, <3>3, <3>4, StopInForce
  <2>3. CASE r \notin retired \ Retained
    BY <1>7, <2>1, <2>3, InForceKept DEF Retire, Inv
  <2>. QED BY <2>2, <2>3
<1>8. CASE Reconciliation
  BY <1>8, ReconciliationInForce
<1>9. CASE UNCHANGED vars
  BY <1>9, InForceKept DEF vars, Inv
<1>. QED BY <1>1, <1>2, <1>3, <1>4, <1>5, <1>6, <1>7, <1>8, <1>9 DEF Next, OwnerTask

THEOREM InvCorrect == Spec => []Inv
<1>. QED BY InitInv, NextInv, PTL DEF Spec

(* No runtime is told to stop while the current snapshot or a turn's        *)
(* routes to it, however often servers are replaced, removed and refreshed. *)
THEOREM RoutedStayUp == Spec => []RoutedRuntimeLives
<1>1. Inv => RoutedRuntimeLives
  BY DEF Inv, InForce, StoppedUnused, RoutedRuntimeLives
<1>. QED BY <1>1, InvCorrect, PTL

(* What the tool registry and the current snapshot offer is the runtime in  *)
(* force, for any interleaving of refreshes, replacements and removals.     *)
THEOREM PublishedInForce == Spec => []PublishedIsCurrent
<1>1. Inv => PublishedIsCurrent
  BY DEF Inv, InForce
<1>. QED BY <1>1, InvCorrect, PTL
------------------------------------------------------------------------------
(* What is left once the operations are over *)

Calm == slips \cap {"overlap", "not undone"} = {}

(* What each step of an operation knows of its own fields.                  *)
StepsInPlace ==
  \A o \in Ops :
    /\ op[o].step = "none" <=> op[o] = Idle
    /\ op[o].step # "none" => op[o].kind # "none"
    /\ op[o].step = "publish" => op[o].kind = "stage"
    /\ op[o].kind \in {"stage", "undo"} => o = "owner"
    /\ InHand(o) => op[o].want # None /\ config[op[o].cand] = op[o].want

(* The server runs as c says, or the manager has none for c = None.         *)
Runs(c) == IF c = None THEN current = 0 ELSE current # 0 /\ config[current] = c

(* An operation that nobody disturbs works for what is desired, or for what *)
(* it will make desired; one that applies has replaced nothing that was as  *)
(* desired.                                                                 *)
OnPlan(o) ==
  /\ op[o].kind \in {"apply", "undo"} => op[o].want = desired
  /\ op[o].want = None => current = 0
  /\ op[o].kind = "apply" => current = 0 \/ config[current] = desired
  /\ op[o].step = "publish" => Runs(op[o].want)

Settled ==
  IF current = 0 THEN desired = None \/ "not applied" \in slips ELSE config[current] = desired

Undisturbed ==
  Calm =>
    /\ \A o, p \in Ops : o # p => op[o] = Idle \/ op[p] = Idle
    /\ \A o \in Ops : op[o] # Idle => OnPlan(o)
    /\ (\A o \in Ops : op[o] = Idle) => Settled

Settling == StepsInPlace /\ Undisturbed

LEMMA InitSettling == Init => Settling
<1>. SUFFICES ASSUME Init PROVE Settling
  OBVIOUS
<1>1. \A o \in Ops : op[o] = Idle
  BY DEF Init
<1>2. Idle.step = "none" /\ Idle.kind = "none"
  BY DEF Idle
<1>3. StepsInPlace
  BY <1>1, <1>2 DEF StepsInPlace, InHand
<1>4. Settled
  <2>1. current = 1 /\ config[1] = desired
    BY RuntimeBounds DEF Init, Runtimes
  <2>. QED BY <2>1 DEF Settled
<1>5. Undisturbed
  BY <1>1, <1>4 DEF Undisturbed
<1>. QED BY <1>3, <1>5 DEF Settling

(* Steps that change none of what Settling is about.                        *)
LEMMA SettlingKept ==
  ASSUME Settling, UNCHANGED <<config, current, desired, op, slips>>
  PROVE  Settling'
<1>1. StepsInPlace'
  BY DEF Settling, StepsInPlace, InHand
<1>2. (Calm' <=> Calm) /\ (Settled' <=> Settled)
  BY DEF Calm, Settled
<1>3. \A o \in Ops : OnPlan(o)' <=> OnPlan(o)
  BY DEF OnPlan, Runs
<1>. QED BY <1>1, <1>2, <1>3 DEF Settling, Undisturbed

LEMMA CalmBefore == ASSUME slips \subseteq slips', Calm' PROVE Calm
  BY DEF Calm

(* Beginning meets no other operation, or says so; what is not wanted is    *)
(* removed at once.                                                         *)
LEMMA BeginSettling ==
  ASSUME Inv, StepsInPlace, NEW o \in Ops, NEW kind \in {"apply", "stage", "undo"}, NEW want,
         BeginReconcile(o, kind, want),
         kind \in {"stage", "undo"} => o = "owner",
         kind \in {"apply", "undo"} => want = desired',
         kind = "apply" /\ want # None /\ Calm /\ (\A p \in Ops \ {o} : op[p] = Idle) =>
           current = 0 \/ config[current] = desired'
  PROVE  Settling'
<1>1. op'[o] = [kind |-> kind, step |-> "visit", want |-> want, cand |-> 0]
      /\ \A p \in Ops \ {o} : op'[p] = op[p]
  BY DEF BeginReconcile, Inv, TypeOK
<1>2. config' = config /\ (IF want = None THEN current' = 0 ELSE current' = current)
  BY DEF BeginReconcile, manager
<1>3. op'[o].kind = kind /\ op'[o].step = "visit" /\ op'[o].want = want /\ op'[o] # Idle
  BY <1>1 DEF Idle
<1>4. StepsInPlace'
  BY <1>1, <1>2, <1>3 DEF StepsInPlace, InHand
<1>5. ASSUME Calm' PROVE Calm /\ \A p \in Ops \ {o} : op[p] = Idle
  <2>1. slips' = slips \cup {"overlap" : p \in {p \in Ops \ {o} : op[p].step # "none"}}
    BY DEF BeginReconcile
  <2>2. Calm
    BY <1>5, <2>1, CalmBefore
  <2>3. \A p \in Ops \ {o} : op[p].step = "none"
    BY <1>5, <2>1 DEF Calm
  <2>. QED BY <2>2, <2>3 DEF StepsInPlace
<1>6. ASSUME Calm' PROVE OnPlan(o)'
  <2>1. kind = "apply" => current' = 0 \/ config'[current'] = desired'
    BY <1>2, <1>5, <1>6
  <2>. QED BY <1>2, <1>3, <2>1 DEF OnPlan
<1>7. Undisturbed'
  BY <1>1, <1>3, <1>5, <1>6 DEF Undisturbed
<1>. QED BY <1>4, <1>7 DEF Settling

(* An operation that is over leaves what it found, or what it made.         *)
LEMMA OverSettling ==
  ASSUME Inv, Settling, NEW o \in Ops, op' = [op EXCEPT ![o] = Idle], config' = config,
         slips \subseteq slips',
         Calm' /\ (\A p \in Ops \ {o} : op[p] = Idle) => Settled',
         op[o] # Idle
  PROVE  Settling'
<1>1. op'[o] = Idle /\ \A p \in Ops \ {o} : op'[p] = op[p]
  BY DEF Inv, TypeOK
<1>2. Idle.step = "none" /\ Idle.kind = "none"
  BY DEF Idle
<1>3. StepsInPlace'
  BY <1>1, <1>2 DEF Settling, StepsInPlace, InHand
<1>4. ASSUME Calm' PROVE \A p \in Ops \ {o} : op[p] = Idle
  BY <1>4, CalmBefore DEF Settling, Undisturbed
<1>5. Undisturbed'
  BY <1>1, <1>4 DEF Undisturbed
<1>. QED BY <1>3, <1>5 DEF Settling
(* The loop is done with the server, which runs as the operation wanted it. *)
LEMMA AfterSettling ==
  ASSUME Inv, Settling, NEW o \in Ops, op[o].step \in {"visit", "wait"}, AfterReconcile(o),
         Calm => IF op[o].want = None THEN current' = 0
                 ELSE current' # 0 /\ config[current'] = op[o].want,
         UNCHANGED <<config, desired, slips>>
  PROVE  Settling'
<1>1. op \in [Ops -> Operations] /\ op[o] \in Operations
  BY DEF Inv, TypeOK, Operations, Kinds, Steps
<1>2. op[o] # Idle /\ op[o].kind # "none" /\ (op[o].kind \in {"stage", "undo"} => o = "owner")
  <2>1. Idle.step = "none"
    BY DEF Idle
  <2>. QED BY <2>1 DEF Settling, StepsInPlace
<1>3. Calm' <=> Calm
  BY DEF Calm
<1>4. CASE op[o].kind = "stage"
  <2>1. op'[o] = [op[o] EXCEPT !.step = "publish"] /\ \A p \in Ops \ {o} : op'[p] = op[p]
    BY <1>1, <1>4 DEF AfterReconcile
  <2>2. op'[o].step = "publish" /\ op'[o].kind = "stage" /\ op'[o].want = op[o].want
    BY <1>1, <1>4, <2>1 DEF Operations
  <2>3. op'[o] # Idle
    BY <2>2 DEF Idle
  <2>4. StepsInPlace'
    <3>1. ASSUME NEW p \in Ops \ {o}
          PROVE  /\ op'[p].step = "none" <=> op'[p] = Idle
                 /\ op'[p].step # "none" => op'[p].kind # "none"
                 /\ op'[p].step = "publish" => op'[p].kind = "stage"
                 /\ op'[p].kind \in {"stage", "undo"} => p = "owner"
                 /\ InHand(p)' => op'[p].want # None /\ config'[op'[p].cand] = op'[p].want
      BY <2>1 DEF Settling, StepsInPlace, InHand
    <3>2. ~InHand(o)'
      BY <2>2 DEF InHand
    <3>. QED BY <1>2, <1>4, <2>2, <2>3, <3>1, <3>2 DEF StepsInPlace
  <2>5. Calm' => OnPlan(o)'
    BY <1>3, <2>2 DEF OnPlan, Runs
  <2>6. Undisturbed'
    BY <1>2, <1>3, <2>1, <2>3, <2>5 DEF Settling, Undisturbed
  <2>. QED BY <2>4, <2>6 DEF Settling
<1>5. CASE op[o].kind # "stage"
  <2>1. op' = [op EXCEPT ![o] = Idle]
    BY <1>5 DEF AfterReconcile
  <2>2. op[o].kind \in {"apply", "undo"}
    BY <1>1, <1>2, <1>5 DEF Operations, Kinds
  <2>3. ASSUME Calm' PROVE Settled'
    <3>1. op[o].want = desired
      BY <1>2, <1>3, <2>2, <2>3 DEF Settling, Undisturbed, OnPlan
    <3>. QED BY <1>3, <2>3, <3>1 DEF Settled
  <2>. QED BY <1>2, <2>1, <2>3, OverSettling
<1>. QED BY <1>4, <1>5

LEMMA ReconciliationSettling == ASSUME Inv, Settling, Reconciliation PROVE Settling'
<1>. USE DEF Settling
<1>1. Idle.step = "none" /\ Idle.kind = "none" /\ "owner" \in Ops /\ "other" \in Ops
  BY DEF Idle, Ops
<1>2. \A o \in Ops : Calm /\ op[o] = Idle /\ (\A p \in Ops \ {o} : op[p] = Idle) => Settled
  BY DEF Undisturbed
<1>3. current # 0 => current \in Runtimes /\ config[current] \in Configs
  BY DEF Inv, TypeOK
<1>4. ASSUME NEW c \in Configs \cup {None}, OwnerApplies(c) PROVE Settling'
  <2>1. /\ op["owner"] = Idle /\ BeginReconcile("owner", "apply", c) /\ desired' = c
        /\ c = None \/ desired = None
    BY <1>4 DEF OwnerApplies
  <2>2. ASSUME Calm, \A p \in Ops \ {"owner"} : op[p] = Idle, current # 0
        PROVE  c = None
    <3>1. config[current] = desired
      BY <1>2, <2>1, <2>2, <1>1 DEF Settled
    <3>. QED BY <1>3, <2>1, <2>2, <3>1, ConfigAssumption
  <2>. QED BY <1>1, <2>1, <2>2, BeginSettling
<1>5. ASSUME NEW c \in Configs \cup {None}, OwnerStages(c) PROVE Settling'
  BY <1>1, <1>5, BeginSettling DEF OwnerStages
<1>6. CASE StageFails
  <2>1. BeginReconcile("owner", "undo", desired) /\ desired' = desired
    BY <1>6 DEF StageFails
  <2>. QED BY <1>1, <2>1, BeginSettling
<1>7. CASE OtherReconciles
  <2>1. op["other"] = Idle /\ BeginReconcile("other", "apply", desired) /\ desired' = desired
    BY <1>7 DEF OtherReconciles
  <2>2. Calm /\ (\A p \in Ops \ {"other"} : op[p] = Idle) => current = 0 \/ config[current] = desired'
    BY <1>1, <1>2, <2>1 DEF Settled
  <2>. QED BY <1>1, <2>1, <2>2, BeginSettling
<1>8. CASE StagePublished
  <2>1. /\ op["owner"].step = "publish" /\ desired' = op["owner"].want
        /\ op' = [op EXCEPT !["owner"] = Idle]
        /\ UNCHANGED <<config, current, slips>>
    BY <1>8 DEF StagePublished, owners, manager
  <2>2. op["owner"] # Idle
    BY <1>1, <2>1
  <2>3. ASSUME Calm' PROVE Settled'
    <3>1. Runs(op["owner"].want)
      BY <1>1, <2>1, <2>2, <2>3, CalmBefore DEF Undisturbed, OnPlan
    <3>. QED BY <2>1, <3>1 DEF Runs, Settled
  <2>. QED BY <1>1, <2>1, <2>2, <2>3, OverSettling
<1>9. ASSUME NEW o \in Ops, VisitAsWanted(o) PROVE Settling'
  <2>1. /\ op[o].step = "visit" /\ AsWanted(o) /\ AfterReconcile(o)
        /\ UNCHANGED <<config, current, desired, slips>>
    BY <1>9 DEF VisitAsWanted, owners, manager
  <2>2. Calm => (op[o].want = None => current = 0)
    BY <1>1, <2>1 DEF Undisturbed, OnPlan
  <2>3. op[o].want # None => current # 0 /\ config[current] = op[o].want
    BY <2>1 DEF AsWanted
  <2>. QED BY <2>1, <2>2, <2>3, AfterSettling
<1>10. ASSUME NEW o \in Ops, VisitReplaces(o) PROVE Settling'
  <2>1. /\ op[o].step = "visit" /\ op[o].want # None /\ ~AsWanted(o)
        /\ config' = [config EXCEPT ![made + 1] = op[o].want]
        /\ op' = [op EXCEPT ![o].step = "wait", ![o].cand = made + 1]
        /\ made + 1 \in Runtimes /\ UNCHANGED <<current, desired, slips>>
    BY <1>10 DEF VisitReplaces, AsWanted, manager
  <2>2. op'[o] = [op[o] EXCEPT !.step = "wait", !.cand = made + 1] /\ \A p \in Ops \ {o} : op'[p] = op[p]
    BY <2>1 DEF Inv, TypeOK
  <2>3. op'[o].step = "wait" /\ op'[o].cand = made + 1 /\ op'[o].want = op[o].want /\ op'[o].kind = op[o].kind
    <3>1. op[o] \in Operations
      BY DEF Inv, TypeOK, Operations, Kinds, Steps
    <3>. QED BY <2>2, <3>1 DEF Operations
  <2>4. made \in Nat /\ made + 1 > made
    <3>1. made \in Runtimes
      BY DEF Inv, TypeOK
    <3>. QED BY <3>1, RuntimeNumbers
  <2>5. \A r \in Runtimes : r # made + 1 => config'[r] = config[r]
    BY <2>1 DEF Inv, TypeOK
  <2>6. current # made + 1 /\ config'[made + 1] = op[o].want
    BY <2>1, <2>4 DEF Inv, InForce, UnmadeUnknown, Unknown, TypeOK
  <2>7. \A p \in Ops : InHand(p) => op[p].cand \in Runtimes /\ op[p].cand # made + 1
    <3>1. \A p \in Ops : InHand(p) => op[p].cand \in Runtimes /\ op[p].cand <= made
      BY DEF Inv, InForce, CandidatesApart
    <3>. QED BY <2>4, <3>1, RuntimeNumbers
  <2>8. op'[o] # Idle /\ op[o] # Idle
    BY <1>1, <2>1, <2>3
  <2>9. StepsInPlace'
    <3>1. ASSUME NEW p \in Ops \ {o}, InHand(p) PROVE config'[op[p].cand] = config[op[p].cand]
      BY <2>5, <2>7, <3>1
    <3>2. ASSUME NEW p \in Ops \ {o}
          PROVE  /\ op'[p].step = "none" <=> op'[p] = Idle
                 /\ op'[p].step # "none" => op'[p].kind # "none"
                 /\ op'[p].step = "publish" => op'[p].kind = "stage"
                 /\ op'[p].kind \in {"stage", "undo"} => p = "owner"
                 /\ InHand(p)' => op'[p].want # None /\ config'[op'[p].cand] = op'[p].want
      BY <2>2, <3>1 DEF StepsInPlace, InHand
    <3>3. /\ op'[o].step = "none" <=> op'[o] = Idle
          /\ op'[o].step # "none" => op'[o].kind # "none"
          /\ op'[o].step = "publish" => op'[o].kind = "stage"
          /\ op'[o].kind \in {"stage", "undo"} => o = "owner"
          /\ InHand(o)' => op'[o].want # None /\ config'[op'[o].cand] = op'[o].want
      BY <2>1, <2>3, <2>6, <2>8 DEF StepsInPlace
    <3>. QED BY <3>2, <3>3 DEF StepsInPlace
  <2>10. current # 0 => config'[current'] = config[current]
    BY <1>3, <2>1, <2>5, <2>6
  <2>11. ASSUME Calm' PROVE OnPlan(o)' /\ \A p \in Ops \ {o} : op'[p] = Idle
    <3>1. Calm /\ OnPlan(o) /\ \A p \in Ops \ {o} : op'[p] = Idle
      BY <2>1, <2>2, <2>8, <2>11, CalmBefore DEF Undisturbed
    <3>. QED BY <2>1, <2>3, <2>10, <3>1 DEF OnPlan
  <2>12. Undisturbed'
    BY <2>8, <2>11 DEF Undisturbed
  <2>. QED BY <2>9, <2>12
<1>11. ASSUME NEW o \in Ops, CandidateTakesOver(o) PROVE Settling'
  <2>1. /\ op[o].step = "wait" /\ AfterReconcile(o) /\ current' = op[o].cand
        /\ UNCHANGED <<config, desired, slips>>
    BY <1>11 DEF CandidateTakesOver
  <2>2. InHand(o) /\ op[o].cand # 0
    BY <2>1, RuntimeNumbers DEF InHand, Inv, InForce, CandidatesApart
  <2>3. op[o].want # None /\ config[op[o].cand] = op[o].want
    BY <2>2 DEF StepsInPlace
  <2>. QED BY <2>1, <2>2, <2>3, AfterSettling
<1>12. ASSUME NEW o \in Ops, CandidateFails(o) PROVE Settling'
  <2>1. /\ op[o].step = "wait" /\ op' = [op EXCEPT ![o].step = "discard"]
        /\ UNCHANGED <<config, current, desired, slips>>
    BY <1>12 DEF CandidateFails, manager
  <2>2. /\ op'[o] = [op[o] EXCEPT !.step = "discard"] /\ \A p \in Ops \ {o} : op'[p] = op[p]
        /\ op'[o].step = "discard" /\ op'[o].want = op[o].want /\ op'[o].kind = op[o].kind
        /\ op'[o].cand = op[o].cand
    BY <2>1 DEF Inv, TypeOK
  <2>3. op'[o] # Idle /\ op[o] # Idle
    BY <1>1, <2>1, <2>2
  <2>4. StepsInPlace'
    BY <2>1, <2>2, <2>3 DEF StepsInPlace, InHand
  <2>5. (Calm' <=> Calm) /\ (OnPlan(o) => OnPlan(o)')
    BY <2>1, <2>2 DEF Calm, OnPlan
  <2>6. Undisturbed'
    BY <2>2, <2>3, <2>5 DEF Undisturbed
  <2>. QED BY <2>4, <2>6
<1>13. ASSUME NEW o \in Ops, ReconcileRaises(o) PROVE Settling'
  <2>1. op[o].step = "discard" /\ op[o] # Idle /\ desired' = desired
    BY <1>1, <1>13 DEF ReconcileRaises
  <2>2. op[o].kind \in {"apply", "stage", "undo"} /\ (op[o].kind \in {"stage", "undo"} => o = "owner")
    BY <2>1 DEF StepsInPlace, Inv, TypeOK
  <2>3. CASE op[o].kind = "stage"
    <3>1. BeginReconcile(o, "undo", desired)
      BY <1>13, <2>3 DEF ReconcileRaises
    <3>. QED BY <2>1, <2>2, <2>3, <3>1, BeginSettling
  <2>4. CASE op[o].kind # "stage"
    <3>1. /\ op' = [op EXCEPT ![o] = Idle] /\ slips' = slips \cup {Slip(op[o].kind)}
          /\ UNCHANGED <<config, current>>
      BY <1>13, <2>4 DEF ReconcileRaises, owners, manager
    <3>2. ASSUME Calm' PROVE Settled'
      <4>1. op[o].kind = "apply" /\ "not applied" \in slips'
        BY <2>2, <2>4, <3>1, <3>2 DEF Slip, Calm
      <4>2. Calm
        BY <3>1, <3>2, CalmBefore
      <4>3. current = 0 \/ config[current] = desired
        BY <2>1, <4>1, <4>2 DEF Undisturbed, OnPlan
      <4>. QED BY <2>1, <3>1, <4>1, <4>3 DEF Settled
    <3>. QED BY <2>1, <3>1, <3>2, OverSettling
  <2>. QED BY <2>3, <2>4
<1>. QED BY <1>4, <1>5, <1>6, <1>7, <1>8, <1>9, <1>10, <1>11, <1>12, <1>13 DEF Reconciliation

LEMMA NextSettling == Inv /\ Settling /\ [Next]_vars => Settling'
<1>. SUFFICES ASSUME Inv, Settling, [Next]_vars PROVE Settling'
  OBVIOUS
<1>1. CASE Reconciliation
  BY <1>1, ReconciliationSettling
<1>2. ASSUME NEW t \in Turns, Acquire(t) \/ Release(t) \/ CallFails(t) PROVE Settling'
  <2>1. UNCHANGED <<config, current, desired, op, slips>>
    BY <1>2 DEF Acquire, Release, CallFails, owners, manager, plans
  <2>. QED BY <2>1, SettlingKept
<1>3. ASSUME NEW r \in Runtimes, OwnerTask(r) \/ StopCancels(r) \/ StopReturns(r) \/ Retire(r) PROVE Settling'
  <2>1. UNCHANGED <<config, current, desired, op, slips>>
    BY <1>3 DEF OwnerTask, Connected, Refreshed, ConnectFails, StopSeen, ConnectionLost, RefreshSeen,
                RefreshFails, Closed, Retry, StopCancels, StopReturns, Retire, manager, plans
  <2>. QED BY <2>1, SettlingKept
<1>4. CASE UNCHANGED vars
  BY <1>4, SettlingKept DEF vars
<1>. QED BY <1>1, <1>2, <1>3, <1>4 DEF Next

(* Once the operations are over the server runs, or does not, as the        *)
(* plugins have it, whichever of them failed and wherever; the exceptions   *)
(* are those the property names.                                            *)
THEOREM SettledAlways == Spec => []SettledAsDesired
<1>1. Settling => SettledAsDesired
  BY DEF Settling, Undisturbed, Calm, Settled, SettledAsDesired
<1>. QED BY <1>1, InitInv, NextInv, InitSettling, NextSettling, PTL DEF Spec
=============================================================================
