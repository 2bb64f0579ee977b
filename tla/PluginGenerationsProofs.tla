----------------------- MODULE PluginGenerationsProofs -----------------------
(***************************************************************************)
(* Proofs about PluginGenerations for any number of turns, packages,       *)
(* generations and snapshots: types, which generation is routed, and what  *)
(* a retirement takes away and what it leaves.                             *)
(***************************************************************************)
EXTENDS PluginGenerations, SequenceTheorems, TLAPS

States == (MayPrepare \cup MayDrain) \ {"discovered"}
Statuses == {"loaded", "error", "loading", "disabled", "discovered"}
Gens(n) == [digest : Digests, scope : {"open", "closed"}, bindings : {"kept", "dropped"}, record : 0 .. n]
Objs(n) == [state : States, enabled : BOOLEAN, digest : Digests, status : Statuses, runtime : 1 .. n]

-----------------------------------------------------------------------------
(* Sequences of generations and of objects *)

LEMMA Widens ==
  ASSUME NEW m \in Nat, NEW n \in Nat, m <= n
  PROVE  Seq(Gens(m)) \subseteq Seq(Gens(n)) /\ Seq(Objs(m)) \subseteq Seq(Objs(n))
         /\ Seq(0 .. m) \subseteq Seq(0 .. n) /\ Seq(1 .. m) \subseteq Seq(1 .. n)
<1>1. Gens(m) \subseteq Gens(n) /\ Objs(m) \subseteq Objs(n) /\ 0 .. m \subseteq 0 .. n /\ 1 .. m \subseteq 1 .. n
  BY DEF Gens, Objs
<1>. QED BY <1>1, SeqMonotonic

(* t is the sequence s with e at its place k.                               *)
Replaced(t, s, k, e) ==
  Len(t) = Len(s) /\ t[k] = e /\ \A j \in 1 .. Len(s) : j # k => t[j] = s[j]

LEMMA Replaces ==
  ASSUME NEW S, NEW s \in Seq(S), NEW k \in 1 .. Len(s), NEW e \in S, NEW t, t = [s EXCEPT ![k] = e]
  PROVE  t \in Seq(S) /\ Replaced(t, s, k, e)
  BY ExceptSeq DEF Replaced

(* t is the sequence s and e after it.                                      *)
Appended(t, s, e) ==
  Len(t) = Len(s) + 1 /\ t[Len(s) + 1] = e /\ \A j \in 1 .. Len(s) : t[j] = s[j]

LEMMA Appends ==
  ASSUME NEW S, NEW s \in Seq(S), NEW e \in S
  PROVE  Append(s, e) \in Seq(S) /\ Appended(Append(s, e), s, e)
  BY AppendProperties DEF Appended

(* Only the state of the object o changes.                                  *)
Becomes(t, s, o, state) ==
  /\ Len(t) = Len(s)
  /\ t[o].state = state /\ t[o].status = s[o].status /\ t[o].runtime = s[o].runtime
  /\ t[o].digest = s[o].digest
  /\ \A k \in 1 .. Len(s) : k # o => t[k] = s[k]

LEMMA StateSet ==
  ASSUME NEW n, NEW s \in Seq(Objs(n)), NEW o \in 1 .. Len(s), NEW state \in States,
         NEW t, t = [s EXCEPT ![o].state = state]
  PROVE  t \in Seq(Objs(n)) /\ Becomes(t, s, o, state)
<1>. DEFINE e == [s[o] EXCEPT !.state = state]
<1>1. s[o] \in Objs(n)
  BY ElementOfSeq
<1>2. /\ e \in Objs(n) /\ e.state = state /\ e.status = s[o].status /\ e.runtime = s[o].runtime
      /\ e.digest = s[o].digest
  BY <1>1 DEF Objs
<1>3. t = [s EXCEPT ![o] = e]
  OBVIOUS
<1>. HIDE DEF e
<1>4. t \in Seq(Objs(n)) /\ Replaced(t, s, o, e)
  BY <1>2, <1>3, Replaces
<1>. QED BY <1>2, <1>4 DEF Becomes, Replaced

LEMMA StatesSet ==
  ASSUME NEW n, NEW s \in Seq(Objs(n)), NEW c \in 1 .. Len(s), NEW p \in 1 .. Len(s),
         NEW a \in States, NEW b \in States,
         NEW t, t = [s EXCEPT ![c].state = a, ![p].state = b]
  PROVE  \E u : /\ u \in Seq(Objs(n)) /\ Becomes(u, s, c, a)
                /\ t \in Seq(Objs(n)) /\ Becomes(t, u, p, b)
<1>. DEFINE u == [s EXCEPT ![c].state = a]
<1>1. u \in Seq(Objs(n)) /\ Becomes(u, s, c, a)
  BY StateSet
<1>2. t = [u EXCEPT ![p].state = b]
  OBVIOUS
<1>. HIDE DEF u
<1>3. p \in 1 .. Len(u)
  BY <1>1 DEF Becomes
<1>4. t \in Seq(Objs(n)) /\ Becomes(t, u, p, b)
  BY <1>1, <1>2, <1>3, StateSet
<1>. QED BY <1>1, <1>4

-----------------------------------------------------------------------------
(* Types *)

LEMMA Typed ==
  ASSUME TypeOK
  PROVE  /\ gen \in Seq(Gens(Len(obj))) /\ obj \in Seq(Objs(Len(gen)))
         /\ Len(gen) \in Nat /\ Len(obj) \in Nat
         /\ DOMAIN gen = 1 .. Len(gen) /\ DOMAIN obj = 1 .. Len(obj)
         /\ routes \in Seq(0 .. Len(gen)) /\ Current \in 1 .. MaxRevisions /\ MaxRevisions \in Nat
         /\ DOMAIN routes = 1 .. Len(routes) /\ Current = Len(routes)
         /\ \A k \in 1 .. Current : routes[k] \in 0 .. Len(gen)
         /\ \A i \in 1 .. Len(gen) : /\ gen[i] \in Gens(Len(obj)) /\ gen[i].record \in 0 .. Len(obj)
                                     /\ gen[i].digest \in Digests
         /\ \A o \in 1 .. Len(obj) : /\ obj[o] \in Objs(Len(gen)) /\ obj[o].runtime \in 1 .. Len(gen)
                                     /\ obj[o].digest \in Digests
<1>1. gen \in Seq(Gens(Len(obj))) /\ obj \in Seq(Objs(Len(gen))) /\ routes \in Seq(0 .. Len(gen))
  BY DEF TypeOK, Gens, Objs, States, Statuses
<1>2. \A i \in 1 .. Len(gen) : gen[i] \in Gens(Len(obj))
  BY <1>1, ElementOfSeq
<1>3. \A o \in 1 .. Len(obj) : obj[o] \in Objs(Len(gen))
  BY <1>1, ElementOfSeq
<1>4. \A k \in 1 .. Len(routes) : routes[k] \in 0 .. Len(gen)
  BY <1>1, ElementOfSeq
<1>5. \A i \in 1 .. Len(gen) : gen[i].record \in 0 .. Len(obj) /\ gen[i].digest \in Digests
  BY <1>2 DEF Gens
<1>6. \A o \in 1 .. Len(obj) : obj[o].runtime \in 1 .. Len(gen) /\ obj[o].digest \in Digests
  BY <1>3 DEF Objs
<1>. QED BY <1>1, <1>2, <1>3, <1>4, <1>5, <1>6, LenProperties, GenerationBounds DEF TypeOK, Current

-----------------------------------------------------------------------------
(* Retirement *)

Stops(r, retained) ==
  /\ routes[r] \notin retained \cup {0} /\ gen[routes[r]].record # 0
  /\ obj[gen[routes[r]].record].state # "active"

(* What a retirement does to the generations and the objects.               *)
RetireEffect(r, retained) ==
  LET i == routes[r]
      o == gen[i].record IN
  /\ gen' \in Seq(Gens(Len(obj))) /\ Len(gen') = Len(gen)
  /\ obj' \in Seq(Objs(Len(gen))) /\ Len(obj') = Len(obj)
  /\ \A k \in 1 .. Len(gen) :
       /\ gen'[k].digest = gen[k].digest
       /\ gen'[k].record = IF k = i /\ i \notin retained THEN 0 ELSE gen[k].record
       /\ gen'[k].scope = IF Stops(r, retained) /\ k = obj[o].runtime THEN "closed" ELSE gen[k].scope
       /\ gen'[k].bindings = IF Stops(r, retained) /\ k = i THEN "dropped" ELSE gen[k].bindings
  /\ \A k \in 1 .. Len(obj) :
       /\ obj'[k].runtime = obj[k].runtime /\ obj'[k].status = obj[k].status
       /\ obj'[k].digest = obj[k].digest
       /\ obj'[k].state = IF Stops(r, retained) /\ k = o THEN "stopped" ELSE obj[k].state

Unrecorded(s, i) == [s EXCEPT ![i].record = 0]
Unbound(s, i) == [s EXCEPT ![i].bindings = "dropped"]
Closed(s, i) == [s EXCEPT ![i].scope = "closed"]

LEMMA Unrecords ==
  ASSUME NEW n \in Nat, NEW s \in Seq(Gens(n)), NEW i \in 1 .. Len(s)
  PROVE  /\ Unrecorded(s, i) \in Seq(Gens(n)) /\ Len(Unrecorded(s, i)) = Len(s)
         /\ \A j \in 1 .. Len(s) :
              /\ Unrecorded(s, i)[j].digest = s[j].digest /\ Unrecorded(s, i)[j].scope = s[j].scope
              /\ Unrecorded(s, i)[j].bindings = s[j].bindings
              /\ Unrecorded(s, i)[j].record = IF j = i THEN 0 ELSE s[j].record
<1>. DEFINE e == [s[i] EXCEPT !.record = 0]
            t == Unrecorded(s, i)
<1>1. s[i] \in Gens(n)
  BY ElementOfSeq
<1>2. /\ e \in Gens(n) /\ e.digest = s[i].digest /\ e.scope = s[i].scope
      /\ e.bindings = s[i].bindings /\ e.record = 0
  BY <1>1 DEF Gens
<1>3. t = [s EXCEPT ![i] = e]
  BY DEF Unrecorded
<1>. HIDE DEF e, t
<1>4. t \in Seq(Gens(n)) /\ Replaced(t, s, i, e)
  BY <1>2, <1>3, Replaces
<1>. QED BY <1>2, <1>4 DEF Replaced, t

LEMMA Unbinds ==
  ASSUME NEW n \in Nat, NEW s \in Seq(Gens(n)), NEW i \in 1 .. Len(s)
  PROVE  /\ Unbound(s, i) \in Seq(Gens(n)) /\ Len(Unbound(s, i)) = Len(s)
         /\ \A j \in 1 .. Len(s) :
              /\ Unbound(s, i)[j].record = s[j].record /\ Unbound(s, i)[j].digest = s[j].digest
              /\ Unbound(s, i)[j].scope = s[j].scope
              /\ Unbound(s, i)[j].bindings = IF j = i THEN "dropped" ELSE s[j].bindings
<1>. DEFINE e == [s[i] EXCEPT !.bindings = "dropped"]
            t == Unbound(s, i)
<1>1. s[i] \in Gens(n)
  BY ElementOfSeq
<1>2. /\ e \in Gens(n) /\ e.record = s[i].record /\ e.digest = s[i].digest
      /\ e.scope = s[i].scope /\ e.bindings = "dropped"
  BY <1>1 DEF Gens
<1>3. t = [s EXCEPT ![i] = e]
  BY DEF Unbound
<1>. HIDE DEF e, t
<1>4. t \in Seq(Gens(n)) /\ Replaced(t, s, i, e)
  BY <1>2, <1>3, Replaces
<1>. QED BY <1>2, <1>4 DEF Replaced, t

LEMMA Closes ==
  ASSUME NEW n \in Nat, NEW s \in Seq(Gens(n)), NEW i \in 1 .. Len(s)
  PROVE  /\ Closed(s, i) \in Seq(Gens(n)) /\ Len(Closed(s, i)) = Len(s)
         /\ \A j \in 1 .. Len(s) :
              /\ Closed(s, i)[j].record = s[j].record /\ Closed(s, i)[j].digest = s[j].digest
              /\ Closed(s, i)[j].bindings = s[j].bindings
              /\ Closed(s, i)[j].scope = IF j = i THEN "closed" ELSE s[j].scope
<1>. DEFINE e == [s[i] EXCEPT !.scope = "closed"]
            t == Closed(s, i)
<1>1. s[i] \in Gens(n)
  BY ElementOfSeq
<1>2. /\ e \in Gens(n) /\ e.record = s[i].record /\ e.digest = s[i].digest
      /\ e.bindings = s[i].bindings /\ e.scope = "closed"
  BY <1>1 DEF Gens
<1>3. t = [s EXCEPT ![i] = e]
  BY DEF Closed
<1>. HIDE DEF e, t
<1>4. t \in Seq(Gens(n)) /\ Replaced(t, s, i, e)
  BY <1>2, <1>3, Replaces
<1>. QED BY <1>2, <1>4 DEF Replaced, t

LEMMA Retires ==
  ASSUME TypeOK, NEW r \in 1 .. Current, NEW retained, Retire(r, retained)
  PROVE  RetireEffect(r, retained) /\ FinalizeRemoval(gen', obj', retained)
<1>. DEFINE i == routes[r]
            o == gen[i].record
            k == obj[o].runtime
            g == Unrecorded(gen, i)
            h == Unbound(g, i)
<1>1. /\ gen \in Seq(Gens(Len(obj))) /\ obj \in Seq(Objs(Len(gen))) /\ Len(gen) \in Nat /\ Len(obj) \in Nat
      /\ i \in 0 .. Len(gen)
  BY Typed
<1>2. /\ i \in retained \cup {0} => gen' = gen
      /\ i \notin retained \cup {0} /\ ~Stops(r, retained) => gen' = g
      /\ Stops(r, retained) => gen' = [g EXCEPT ![i].bindings = "dropped", ![k].scope = "closed"]
  BY Zenon DEF Retire, Stops, Unrecorded
<1>3. /\ ~Stops(r, retained) => obj' = obj
      /\ Stops(r, retained) => obj' = [obj EXCEPT ![o].state = "stopped"]
      /\ FinalizeRemoval(gen', obj', retained)
  BY Zenon DEF Retire, Stops
<1>4. Stops(r, retained) => i \notin retained \cup {0} /\ o # 0
  BY Zenon DEF Stops
<1>5. i \in 1 .. Len(gen) => o \in 0 .. Len(obj) /\ (o # 0 => k \in 1 .. Len(gen))
  BY Typed
<1>6. Stops(r, retained) => gen' = Closed(h, k)
  <2>1. [g EXCEPT ![i].bindings = "dropped", ![k].scope = "closed"] = Closed(h, k)
    BY DEF Closed, Unbound
  <2>. HIDE DEF g, h, i, k
  <2>. QED BY <1>2, <2>1, Zenon
<1>. HIDE DEF i, o, k
<1>7. i \in 1 .. Len(gen) =>
        /\ g \in Seq(Gens(Len(obj))) /\ Len(g) = Len(gen)
        /\ \A j \in 1 .. Len(gen) :
             /\ g[j].digest = gen[j].digest /\ g[j].scope = gen[j].scope
             /\ g[j].bindings = gen[j].bindings
             /\ g[j].record = IF j = i THEN 0 ELSE gen[j].record
  BY <1>1, Unrecords
<1>. HIDE DEF g
<1>8. CASE i \in retained \cup {0}
  <2>1. gen' = gen /\ obj' = obj /\ ~Stops(r, retained)
    BY <1>2, <1>3, <1>4, <1>8
  <2>2. i \notin 1 .. Len(gen) \/ i \in retained
    BY <1>8
  <2>. QED BY <1>1, <1>3, <2>1, <2>2 DEF RetireEffect, i
<1>9. CASE i \notin retained \cup {0} /\ ~Stops(r, retained)
  <2>1. gen' = g /\ obj' = obj /\ i \in 1 .. Len(gen)
    BY <1>1, <1>2, <1>3, <1>9
  <2>. QED BY <1>1, <1>3, <1>7, <1>9, <2>1 DEF RetireEffect, i
<1>10. CASE Stops(r, retained)
  <2>1. /\ i \in 1 .. Len(gen) /\ i \notin retained /\ o \in 1 .. Len(obj) /\ k \in 1 .. Len(gen)
        /\ obj' = [obj EXCEPT ![o].state = "stopped"]
    BY <1>1, <1>3, <1>4, <1>5, <1>10
  <2>2. "stopped" \in States
    BY DEF States, MayPrepare
  <2>3. obj' \in Seq(Objs(Len(gen))) /\ Becomes(obj', obj, o, "stopped")
    BY <1>1, <2>1, <2>2, StateSet
  <2>4. /\ h \in Seq(Gens(Len(obj))) /\ Len(h) = Len(gen)
        /\ \A j \in 1 .. Len(gen) :
              /\ h[j].digest = g[j].digest /\ h[j].record = g[j].record /\ h[j].scope = g[j].scope
              /\ h[j].bindings = IF j = i THEN "dropped" ELSE g[j].bindings
    <3>1. g \in Seq(Gens(Len(obj))) /\ i \in 1 .. Len(g) /\ Len(g) = Len(gen)
      BY <1>7, <2>1
    <3>. QED BY <1>1, <3>1, Unbinds
  <2>. HIDE DEF h
  <2>5. /\ gen' \in Seq(Gens(Len(obj))) /\ Len(gen') = Len(gen)
        /\ \A j \in 1 .. Len(gen) :
              /\ gen'[j].digest = h[j].digest /\ gen'[j].record = h[j].record
              /\ gen'[j].bindings = h[j].bindings
              /\ gen'[j].scope = IF j = k THEN "closed" ELSE h[j].scope
    <3>1. gen' = Closed(h, k) /\ k \in 1 .. Len(h)
      BY <1>6, <1>10, <2>1, <2>4
    <3>. QED BY <1>1, <2>4, <3>1, Closes
  <2>6. \A j \in 1 .. Len(gen) :
          /\ gen'[j].digest = gen[j].digest
          /\ gen'[j].record = IF j = i THEN 0 ELSE gen[j].record
          /\ gen'[j].scope = IF j = k THEN "closed" ELSE gen[j].scope
          /\ gen'[j].bindings = IF j = i THEN "dropped" ELSE gen[j].bindings
    BY <1>7, <2>1, <2>4, <2>5
  <2>7. /\ Len(obj') = Len(obj)
        /\ \A j \in 1 .. Len(obj) :
             /\ obj'[j].runtime = obj[j].runtime /\ obj'[j].status = obj[j].status
             /\ obj'[j].digest = obj[j].digest
             /\ obj'[j].state = IF j = o THEN "stopped" ELSE obj[j].state
    BY <2>3 DEF Becomes
  <2>. QED BY <1>3, <1>10, <2>1, <2>3, <2>5, <2>6, <2>7 DEF RetireEffect, i, o, k
<1>. QED BY <1>8, <1>9, <1>10
-----------------------------------------------------------------------------
(* The inductive invariant *)

Snaps ==
  /\ routes \in Seq(0 .. Len(gen)) /\ Current \in 1 .. MaxRevisions
  /\ retired \subseteq 1 .. Current /\ retiring \in Seq(1 .. Current)
  /\ lease \in [Turns -> 0 .. Current]
  /\ KeptWhileLeased

Registry ==
  /\ gen \in Seq(Gens(Len(obj))) /\ obj \in Seq(Objs(Len(gen)))
  /\ plugins \in 0 .. Len(obj) /\ active \in 0 .. Len(gen)

Ledger ==
  /\ store \in [status : {"absent", "active", "pending_removal"}, versions : SUBSET Digests]
  /\ files \subseteq Digests /\ pending \subseteq Digests /\ prepared \in Packages
  /\ wanted \in BOOLEAN /\ slips \subseteq {"loaded over", "put back"}
  /\ unbacked \subseteq 1 .. Len(gen)

Operation ==
  op \in [kind : {"none", "install", "reload", "disable", "uninstall"},
          step : {"none", "staged", "discard", "record", "unload", "finalize"},
          cand : 0 .. Len(obj), prev : 0 .. Len(obj), package : Packages]

(* No two objects have the same generation.                                 *)
Distinct == \A x, y \in 1 .. Len(obj) : obj[x].runtime = obj[y].runtime => x = y

Routed == routes[Current]
Draining == {routes[retiring[k]] : k \in DOMAIN retiring}
Candidate == obj[op.cand].runtime
Pending == op.step \in {"staged", "discard"}

(* While a candidate is staged its predecessor serves, and no turn can have *)
(* been routed to the candidate.                                            *)
Staging ==
  /\ Pending =>
       /\ op.prev # 0 /\ op.cand \notin {0, op.prev} /\ plugins = op.prev
       /\ obj[op.prev].state = "active" /\ obj[op.prev].status = "loaded"
       /\ active = obj[op.prev].runtime /\ Routed = active /\ Candidate \notin Retained
  /\ op.step = "staged" =>
       /\ obj[op.cand].state # "active" /\ gen[Candidate].record = op.cand
       /\ gen[Candidate].digest \in files /\ \A k \in 1 .. Current : routes[k] # Candidate
       /\ op.kind = "install" => op.package.digest \in Digests
  /\ op.step = "record" =>
       /\ op.cand \notin {0, op.prev} /\ plugins = op.cand /\ obj[op.cand].state = "active"
       /\ active = obj[op.cand].runtime /\ Routed = active /\ op.package.digest \in Digests
  /\ op.step \notin {"staged", "discard", "record"} => op.cand = 0

OneServes ==
  /\ \A o \in 1 .. Len(obj) :
       obj[o].state = "active" /\ obj[o].status = "loaded" =>
         \/ o = plugins /\ active = obj[o].runtime /\ Routed = active
         \/ op.step = "discard" /\ o = op.cand
  /\ \A o \in 1 .. Len(obj) : obj[o].state = "preparing" => Pending /\ o = op.cand

(* The record of a generation is not dropped before its last snapshot.      *)
Recorded == \A i \in Retained : gen[i].record # 0

(* As long as no object was loaded over its unretired generation, the       *)
(* record of a generation is the object that still has it, and nothing of   *)
(* the generation has been cleaned up.                                      *)
Matched ==
  "loaded over" \notin slips =>
    /\ \A i \in 1 .. Len(gen) : gen[i].record # 0 =>
         obj[gen[i].record].runtime = i /\ gen[i].scope = "open"
    /\ Routed # 0 => gen[Routed].record = plugins /\ active = Routed /\ obj[plugins].state = "active"
    /\ \A o \in 1 .. Len(obj) :
         obj[o].state \in {"failed", "stopped"} => gen[obj[o].runtime].record = 0

(* What is forgotten was cleaned up, what is neither routed nor waits for   *)
(* its retirement is forgotten, and what is ACTIVE and on record is routed. *)
CleanedUp ==
  slips \cap {"loaded over", "put back"} = {} =>
    /\ \A i \in 1 .. Len(gen) : gen[i].record = 0 =>
         \/ gen[i].scope = "closed" /\ gen[i].bindings = "dropped"
         \/ op.step = "discard" /\ i = Candidate
    /\ \A i \in 1 .. Len(gen) :
         i \notin Retained \cup Draining /\ (op.cand # 0 => i # Candidate) => gen[i].record = 0
    /\ \A o \in 1 .. Len(obj) :
         obj[o].state = "active" /\ gen[obj[o].runtime].record = o =>
           obj[o].runtime = Routed \/ (op.step = "discard" /\ o = op.cand)

Inv ==
  /\ Snaps /\ Registry /\ Ledger /\ Operation
  /\ Distinct /\ Staging /\ OneServes /\ Recorded /\ Matched /\ CleanedUp

LEMMA InvTypes == Snaps /\ Registry /\ Ledger /\ Operation => TypeOK
  BY DEF Snaps, Registry, Ledger, Operation, TypeOK, Gens, Objs, States, Statuses

-----------------------------------------------------------------------------
(* How the snapshots move *)

(* New turns are routed to i.                                               *)
MovesTo(i) ==
  /\ Snaps' /\ Routed' = i
  /\ Retained' \subseteq (Retained \cup {i}) \ {0}
  /\ Retained \subseteq Retained' \cup Draining'
  /\ Draining \subseteq Draining'

(* No snapshot but of i is added.                                           *)
Adds(i) == \A k \in 1 .. Current' : routes'[k] = i \/ \E j \in 1 .. Current : routes'[k] = routes[j]

LEMMA PublishMoves ==
  ASSUME TypeOK, KeptWhileLeased, Len(gen') \in Nat, Len(gen) <= Len(gen'),
         NEW i \in 0 .. Len(gen'), Publish(i)
  PROVE  MovesTo(i) /\ Adds(i) /\ (i # 0 => i \in Retained')
<1>. DEFINE n == Len(routes)
<1>1. /\ routes \in Seq(0 .. Len(gen)) /\ n \in Nat /\ n >= 1 /\ MaxRevisions \in Nat /\ Len(gen) \in Nat
  BY Typed DEF Current
<1>2. n < MaxRevisions /\ routes' = Append(routes, i) /\ lease' = lease
  BY DEF Publish, Current
<1>3. retired \subseteq 1 .. n /\ retiring \in Seq(1 .. n) /\ lease \in [Turns -> 0 .. n]
  BY DEF TypeOK, Current
<1>4. routes \in Seq(0 .. Len(gen')) /\ retiring \in Seq(1 .. n + 1)
  BY <1>1, <1>3, Widens
<1>5. routes' \in Seq(0 .. Len(gen')) /\ Len(routes') = n + 1 /\ routes'[n + 1] = i
      /\ \A k \in 1 .. n : routes'[k] = routes[k]
  BY <1>2, <1>4, Appends DEF Appended
<1>6. /\ Leased(n) => retired' = retired \cup {n} /\ retiring' = retiring
      /\ ~Leased(n) => retired' = retired /\ retiring' = Append(retiring, n)
  BY DEF Publish, Current
<1>7. /\ DOMAIN retiring = 1 .. Len(retiring) /\ Len(retiring) \in Nat
      /\ \A k \in 1 .. Len(retiring) : retiring[k] \in 1 .. n
  BY <1>3, LenProperties, ElementOfSeq
<1>8. /\ Append(retiring, n) \in Seq(1 .. n + 1) /\ Appended(Append(retiring, n), retiring, n)
      /\ DOMAIN Append(retiring, n) = 1 .. Len(retiring) + 1
  <2>1. n \in 1 .. n + 1
    BY <1>1
  <2>. HIDE DEF n
  <2>2. Append(retiring, n) \in Seq(1 .. n + 1) /\ Appended(Append(retiring, n), retiring, n)
    BY <1>4, <2>1, Appends
  <2>. QED BY <2>2, LenProperties DEF Appended
<1>. HIDE DEF n
<1>9. /\ retiring' \in Seq(1 .. n + 1) /\ retired' \subseteq 1 .. n + 1 /\ lease' \in [Turns -> 0 .. n + 1]
      /\ retired' \subseteq retired \cup {n} /\ retired \subseteq retired'
      /\ n \notin retired' => ~Leased(n)
      /\ DOMAIN retiring \subseteq DOMAIN retiring'
      /\ \A k \in DOMAIN retiring : retiring'[k] = retiring[k] /\ retiring[k] \in 1 .. n
  <2>1. CASE Leased(n)
    <3>1. retired' = retired \cup {n} /\ retiring' = retiring
      BY <1>6, <2>1
    <3>2. lease' \in [Turns -> 0 .. n + 1] /\ retired' \subseteq 1 .. n + 1
      BY <1>1, <1>2, <1>3, <3>1
    <3>. QED BY <1>4, <1>7, <2>1, <3>1, <3>2
  <2>2. CASE ~Leased(n)
    <3>1. retired' = retired /\ retiring' = Append(retiring, n)
      BY <1>6, <2>2
    <3>2. lease' \in [Turns -> 0 .. n + 1] /\ retired' \subseteq 1 .. n + 1
      BY <1>1, <1>2, <1>3, <3>1
    <3>3. DOMAIN retiring \subseteq DOMAIN retiring' /\ \A k \in DOMAIN retiring : retiring'[k] = retiring[k]
      BY <1>7, <1>8, <3>1 DEF Appended
    <3>. QED BY <1>7, <1>8, <2>2, <3>1, <3>2, <3>3
  <2>. QED BY <2>1, <2>2
<1>10. KeptWhileLeased'
  <2>1. retired = {lease[t] : t \in Turns} \ {0, n}
    BY DEF KeptWhileLeased, Current, n
  <2>2. \A t \in Turns : lease[t] # n + 1
    BY <1>1, <1>3
  <2>3. retired' = {lease[t] : t \in Turns} \ {0}
    <3>1. CASE Leased(n)
      BY <1>1, <1>6, <2>1, <3>1 DEF Leased
    <3>2. CASE ~Leased(n)
      BY <1>6, <2>1, <3>2 DEF Leased
    <3>. QED BY <3>1, <3>2
  <2>4. retired' = {lease[t] : t \in Turns} \ {0, n + 1}
    BY <2>2, <2>3
  <2>. QED BY <1>2, <1>5, <2>4 DEF KeptWhileLeased, Current
<1>11. Snaps'
  BY <1>1, <1>2, <1>5, <1>9, <1>10 DEF Snaps, Current, n
<1>12. Retained' \subseteq Retained \cup {i} /\ (i # 0 => i \in Retained')
  <2>1. ASSUME NEW x \in Retained' PROVE x \in Retained \cup {i}
    <3>1. PICK k \in retired' \cup {n + 1} : x = routes'[k] /\ x # 0
      BY <1>5 DEF Retained, Current
    <3>2. CASE k = n + 1
      BY <1>5, <3>1, <3>2
    <3>3. CASE k \in retired \cup {n}
      <4>1. x = routes[k]
        BY <1>1, <1>3, <1>5, <3>1, <3>3
      <4>. QED BY <3>1, <3>3, <4>1 DEF Retained, Current, n
    <3>. QED BY <1>9, <3>1, <3>2, <3>3
  <2>2. i # 0 => i \in Retained'
    BY <1>5 DEF Retained, Current
  <2>. QED BY <2>1, <2>2
<1>13. Draining \subseteq Draining'
  <2>1. \A k \in DOMAIN retiring : routes'[retiring'[k]] = routes[retiring[k]]
    BY <1>5, <1>9
  <2>. QED BY <1>9, <2>1 DEF Draining
<1>14. Retained \subseteq Retained' \cup Draining'
  <2>1. SUFFICES ASSUME NEW k \in retired \cup {n}, routes[k] # 0
                 PROVE  routes[k] \in Retained' \cup Draining'
    BY DEF Retained, Current, n
  <2>2. routes'[k] = routes[k]
    BY <1>1, <1>3, <1>5, <2>1
  <2>3. CASE k \in retired'
    BY <2>1, <2>2, <2>3 DEF Retained
  <2>4. CASE k \notin retired'
    <3>1. k = n /\ ~Leased(n)
      BY <1>9, <2>1, <2>4
    <3>2. Len(retiring) + 1 \in DOMAIN retiring' /\ retiring'[Len(retiring) + 1] = n
      BY <1>6, <1>7, <1>8, <3>1 DEF Appended
    <3>. QED BY <2>2, <3>1, <3>2 DEF Draining
  <2>. QED BY <2>3, <2>4
<1>15. \A k \in 1 .. n + 1 : routes'[k] = i \/ \E j \in 1 .. n : routes'[k] = routes[j]
  BY <1>1, <1>5
<1>16. 0 \notin Retained'
  BY DEF Retained
<1>. QED BY <1>5, <1>11, <1>12, <1>13, <1>14, <1>15, <1>16 DEF MovesTo, Adds, Routed, Current, n

LEMMA StillMoves ==
  ASSUME Snaps, UNCHANGED snapshots, Len(gen) \in Nat, Len(gen') \in Nat,
         Len(gen) <= Len(gen')
  PROVE  /\ MovesTo(Routed) /\ Adds(Routed)
         /\ Retained' = Retained /\ Draining' = Draining /\ Current' = Current
<1>1. routes \in Seq(0 .. Len(gen'))
  BY Widens DEF Snaps
<1>2. UNCHANGED <<routes, retired, retiring, lease>>
  BY DEF snapshots
<1>3. Retained' = Retained /\ Draining' = Draining /\ Current' = Current /\ Routed' = Routed /\ 0 \notin Retained
  BY <1>2 DEF Retained, Draining, Current, Routed
<1>4. Snaps'
  BY <1>1, <1>2 DEF Snaps, KeptWhileLeased, Current
<1>5. Adds(Routed)
  BY <1>2, <1>3 DEF Adds
<1>. QED BY <1>3, <1>4, <1>5 DEF MovesTo

LEMMA InRange ==
  ASSUME TypeOK
  PROVE  /\ Retained \subseteq 1 .. Len(gen) /\ Routed \in 0 .. Len(gen) /\ (Routed # 0 => Routed \in Retained)
         /\ 0 \notin Retained
<1>1. /\ \A k \in 1 .. Current : routes[k] \in 0 .. Len(gen)
      /\ Current \in 1 .. MaxRevisions /\ MaxRevisions \in Nat /\ Len(gen) \in Nat
  BY Typed
<1>2. retired \subseteq 1 .. Current
  BY DEF TypeOK
<1>3. Current \in 1 .. Current
  BY <1>1
<1>. QED BY <1>1, <1>2, <1>3 DEF Retained, Routed

-----------------------------------------------------------------------------
(* Steps that leave the generations and the objects alone *)

(* No candidate is staged, none is committed or given up.                   *)
StepsOn ==
  op' = op \/ (~Pending /\ op'.cand = 0 /\ op'.step \notin {"staged", "discard", "record"})

SameObjects ==
  /\ Len(obj') = Len(obj) /\ Len(gen') = Len(gen)
  /\ \A o \in 1 .. Len(obj) :
       /\ obj'[o].state = obj[o].state /\ obj'[o].runtime = obj[o].runtime
       /\ obj'[o].status = obj[o].status \/ (obj'[o].status # "loaded" /\ ~Pending)

LEMMA SameRegistry ==
  ASSUME Inv, MovesTo(Routed), Adds(Routed), SameObjects, StepsOn,
         op'.step = "staged" => files \subseteq files',
         UNCHANGED <<gen, plugins, active, slips>>
  PROVE  Distinct' /\ Staging' /\ OneServes' /\ Recorded' /\ Matched' /\ CleanedUp'
<1>1. /\ TypeOK /\ Len(gen) \in Nat /\ Len(obj) \in Nat
      /\ plugins \in 0 .. Len(obj) /\ op.cand \in 0 .. Len(obj) /\ op.prev \in 0 .. Len(obj)
  BY InvTypes, Typed DEF Inv, Registry, Operation
<1>2. /\ Retained \subseteq 1 .. Len(gen) /\ Routed \in 0 .. Len(gen) /\ (Routed # 0 => Routed \in Retained)
      /\ 0 \notin Retained
      /\ \A o \in 1 .. Len(obj) : obj[o].runtime \in 1 .. Len(gen)
      /\ \A i \in 1 .. Len(gen) : gen[i].record \in 0 .. Len(obj)
  BY <1>1, InRange, Typed
<1>3. /\ Retained' \subseteq Retained /\ Routed' = Routed
      /\ Retained \subseteq Retained' \cup Draining' /\ Draining \subseteq Draining'
  BY <1>2 DEF MovesTo
<1>4. /\ op'.step \in {"staged", "discard", "record"} \/ op'.cand # 0 => op' = op
      /\ Pending => op' = op
  BY DEF StepsOn, Pending
<1>5. op.cand # 0 => Candidate \in 1 .. Len(gen) /\ obj'[op.cand].runtime = Candidate
                     /\ obj'[op.cand].state = obj[op.cand].state
  BY <1>1, <1>2 DEF Candidate, SameObjects
<1>6. Staging'
  <2>1. ASSUME Pending'
        PROVE  /\ op.prev # 0 /\ op.cand \notin {0, op.prev} /\ plugins' = op.prev
               /\ obj'[op.prev].state = "active" /\ obj'[op.prev].status = "loaded"
               /\ active' = obj'[op.prev].runtime /\ Routed' = active' /\ Candidate' \notin Retained'
    <3>1. Pending /\ op' = op
      BY <1>4, <2>1 DEF Pending
    <3>2. /\ op.prev # 0 /\ op.cand \notin {0, op.prev} /\ plugins = op.prev
          /\ obj[op.prev].state = "active" /\ obj[op.prev].status = "loaded"
          /\ active = obj[op.prev].runtime /\ Routed = active /\ Candidate \notin Retained
      BY <3>1 DEF Inv, Staging
    <3>3. Candidate' = Candidate
      BY <1>5, <3>1, <3>2 DEF Candidate
    <3>4. op.prev \in 1 .. Len(obj)
      BY <1>1, <3>2
    <3>5. obj'[op.prev].state = "active" /\ obj'[op.prev].status = "loaded" /\ obj'[op.prev].runtime = obj[op.prev].runtime
      BY <3>1, <3>2, <3>4 DEF SameObjects
    <3>. QED BY <1>3, <3>2, <3>3, <3>5
  <2>2. ASSUME op'.step = "staged"
        PROVE  /\ op' = op /\ obj'[op.cand].state # "active" /\ gen[Candidate'].record = op.cand
               /\ gen[Candidate'].digest \in files' /\ \A k \in 1 .. Current' : routes'[k] # Candidate'
               /\ op.kind = "install" => op.package.digest \in Digests
    <3>1. op' = op /\ op.step = "staged" /\ Pending
      BY <1>4, <2>2 DEF Pending
    <3>2. /\ op.cand # 0 /\ obj[op.cand].state # "active" /\ gen[Candidate].record = op.cand
          /\ gen[Candidate].digest \in files /\ \A k \in 1 .. Current : routes[k] # Candidate
          /\ op.kind = "install" => op.package.digest \in Digests
          /\ Routed = active /\ Candidate \notin Retained
      BY <3>1 DEF Inv, Staging
    <3>3. Candidate' = Candidate
      BY <1>5, <3>1, <3>2 DEF Candidate
    <3>4. Routed # Candidate
      BY <1>2, <1>5, <3>2
    <3>. QED BY <1>5, <3>1, <3>2, <3>3, <3>4 DEF Adds
  <2>3. ASSUME op'.step = "record"
        PROVE  /\ op' = op /\ op.cand \notin {0, op.prev} /\ plugins' = op.cand
               /\ obj'[op.cand].state = "active"
               /\ active' = obj'[op.cand].runtime /\ Routed' = active' /\ op.package.digest \in Digests
    <3>1. op' = op /\ op.step = "record"
      BY <1>4, <2>3
    <3>2. /\ op.cand \notin {0, op.prev} /\ plugins = op.cand /\ obj[op.cand].state = "active"
          /\ active = obj[op.cand].runtime /\ Routed = active /\ op.package.digest \in Digests
      BY <3>1 DEF Inv, Staging
    <3>. QED BY <1>3, <1>5, <3>1, <3>2 DEF Candidate
  <2>4. op'.step \notin {"staged", "discard", "record"} => op'.cand = 0
    BY DEF Inv, Staging, StepsOn
  <2>. QED BY <1>4, <2>1, <2>2, <2>3, <2>4 DEF Staging, Pending
<1>7. OneServes'
  <2>2. ASSUME NEW o \in 1 .. Len(obj), obj[o].state = "active", obj[o].status = "loaded"
        PROVE  \/ o = plugins /\ active = obj[o].runtime /\ Routed = active
               \/ op'.step = "discard" /\ o = op'.cand
    BY <1>4, <2>2 DEF Inv, OneServes, Pending
  <2>3. ASSUME NEW o \in 1 .. Len(obj), obj[o].state = "preparing"
        PROVE  Pending' /\ o = op'.cand
    BY <1>4, <2>3 DEF Inv, OneServes, Pending
  <2>. QED BY <1>3, <2>2, <2>3 DEF OneServes, SameObjects
<1>8. Recorded'
  BY <1>3 DEF Inv, Recorded
<1>9. Matched'
  <2>1. SUFFICES ASSUME "loaded over" \notin slips PROVE Matched'
    BY DEF Matched
  <2>2. /\ \A i \in 1 .. Len(gen) : gen[i].record # 0 =>
             obj'[gen[i].record].runtime = i /\ gen[i].scope = "open"
        /\ \A o \in 1 .. Len(obj) :
             obj'[o].state \in {"failed", "stopped"} => gen[obj'[o].runtime].record = 0
    <3>1. /\ \A i \in 1 .. Len(gen) : gen[i].record # 0 =>
               obj[gen[i].record].runtime = i /\ gen[i].scope = "open"
          /\ \A o \in 1 .. Len(obj) : obj[o].state \in {"failed", "stopped"} => gen[obj[o].runtime].record = 0
      BY <2>1 DEF Inv, Matched
    <3>2. \A i \in 1 .. Len(gen) : gen[i].record # 0 => gen[i].record \in 1 .. Len(obj)
      BY <1>1, <1>2
    <3>. QED BY <3>1, <3>2 DEF SameObjects
  <2>5. Routed' # 0 => gen[Routed'].record = plugins /\ active = Routed' /\ obj'[plugins].state = "active"
    <3>1. Routed # 0 => gen[Routed].record = plugins /\ active = Routed /\ obj[plugins].state = "active"
                        /\ Routed \in Retained
      BY <1>2, <2>1 DEF Inv, Matched
    <3>2. Routed # 0 => plugins # 0
      BY <3>1 DEF Inv, Recorded
    <3>. QED BY <1>1, <1>3, <3>1, <3>2 DEF SameObjects
  <2>. QED BY <2>2, <2>5 DEF Matched, SameObjects
<1>10. CleanedUp'
  <2>1. SUFFICES ASSUME slips \cap {"loaded over", "put back"} = {} PROVE CleanedUp'
    BY DEF CleanedUp
  <2>2. ASSUME NEW i \in 1 .. Len(gen), gen[i].record = 0
        PROVE  \/ gen[i].scope = "closed" /\ gen[i].bindings = "dropped"
               \/ op'.step = "discard" /\ i = Candidate'
    <3>1. op.step = "discard" => op' = op /\ op.cand # 0
      BY <1>4 DEF Pending, Inv, Staging
    <3>. QED BY <1>5, <2>1, <2>2, <3>1 DEF Inv, CleanedUp, Candidate
  <2>3. ASSUME NEW i \in 1 .. Len(gen), i \notin Retained' \cup Draining', op'.cand # 0 => i # Candidate'
        PROVE  gen[i].record = 0
    <3>1. i \notin Retained \cup Draining
      BY <1>3, <2>3
    <3>2. op.cand # 0 => i # Candidate
      <4>1. CASE op' = op
        BY <1>5, <2>3, <4>1 DEF Candidate
      <4>2. CASE op' # op /\ op.cand # 0
        BY <1>2, <1>4, <1>5, <3>1, <4>2 DEF Inv, Staging, Pending, Candidate
      <4>. QED BY <4>1, <4>2
    <3>. QED BY <2>1, <3>1, <3>2 DEF Inv, CleanedUp
  <2>4. ASSUME NEW o \in 1 .. Len(obj), obj[o].state = "active", gen[obj[o].runtime].record = o
        PROVE  obj[o].runtime = Routed \/ (op'.step = "discard" /\ o = op'.cand)
    BY <1>4, <2>1, <2>4 DEF Inv, CleanedUp, Pending
  <2>. QED BY <1>3, <2>2, <2>3, <2>4 DEF CleanedUp, SameObjects
<1>11. Distinct'
  BY DEF Inv, Distinct, SameObjects
<1>. QED BY <1>6, <1>7, <1>8, <1>9, <1>10, <1>11

-----------------------------------------------------------------------------
(* One lemma for each operation *)

LEMMA InvFacts ==
  ASSUME Inv
  PROVE  /\ TypeOK /\ KeptWhileLeased
         /\ Len(gen) \in Nat /\ Len(obj) \in Nat
         /\ plugins \in 0 .. Len(obj) /\ active \in 0 .. Len(gen)
         /\ op.cand \in 0 .. Len(obj) /\ op.prev \in 0 .. Len(obj) /\ op.package \in Packages
         /\ Retained \subseteq 1 .. Len(gen) /\ Routed \in 0 .. Len(gen) /\ (Routed # 0 => Routed \in Retained)
         /\ 0 \notin Retained
         /\ \A o \in 1 .. Len(obj) : obj[o].runtime \in 1 .. Len(gen) /\ obj[o].digest \in Digests
         /\ \A i \in 1 .. Len(gen) : gen[i].record \in 0 .. Len(obj) /\ gen[i].digest \in Digests
<1>1. TypeOK /\ KeptWhileLeased
  BY InvTypes DEF Inv, Snaps
<1>2. /\ plugins \in 0 .. Len(obj) /\ active \in 0 .. Len(gen)
      /\ op.cand \in 0 .. Len(obj) /\ op.prev \in 0 .. Len(obj) /\ op.package \in Packages
  BY DEF Inv, Registry, Operation
<1>. QED BY <1>1, <1>2, InRange, Typed

LEMMA AcquireKeeps ==
  ASSUME Inv, NEW t \in Turns, Acquire(t)
  PROVE  Inv'
<1>1. /\ UNCHANGED <<routes, retired, retiring, gen, obj, plugins, active, store, files, pending, prepared,
                     op, wanted, slips, unbacked>>
      /\ lease[t] = 0 /\ lease' = [lease EXCEPT ![t] = Current]
  BY DEF Acquire, registry, packages, history
<1>2. Current' = Current /\ Retained' = Retained /\ Draining' = Draining /\ Routed' = Routed /\ 0 \notin Retained
  BY <1>1 DEF Current, Retained, Draining, Routed
<1>3. Snaps'
  <2>1. retired = {lease[u] : u \in Turns} \ {0, Current} /\ lease \in [Turns -> 0 .. Current]
        /\ Current \in 0 .. Current
    BY InvFacts, Typed DEF Inv, Snaps, KeptWhileLeased
  <2>2. lease' \in [Turns -> 0 .. Current] /\ \A u \in Turns : lease'[u] = IF u = t THEN Current ELSE lease[u]
    BY <1>1, <2>1
  <2>3. retired = {lease'[u] : u \in Turns} \ {0, Current}
    BY <1>1, <2>1, <2>2
  <2>. QED BY <1>1, <1>2, <2>2, <2>3 DEF Inv, Snaps, KeptWhileLeased
<1>4. MovesTo(Routed) /\ Adds(Routed)
  BY <1>1, <1>2, <1>3 DEF MovesTo, Adds
<1>5. SameObjects /\ StepsOn
  BY <1>1 DEF SameObjects, StepsOn
<1>6. Registry' /\ Ledger' /\ Operation'
  BY <1>1 DEF Inv, Registry, Ledger, Operation
<1>. QED BY <1>1, <1>3, <1>4, <1>5, <1>6, SameRegistry DEF Inv

LEMMA PublishOtherKeeps ==
  ASSUME Inv, PublishOther
  PROVE  Inv'
<1>1. /\ UNCHANGED <<gen, obj, plugins, active, store, files, pending, prepared, op, wanted, slips, unbacked>>
      /\ Publish(Routed)
  BY DEF PublishOther, Routed, registry, packages, history
<1>2. MovesTo(Routed) /\ Adds(Routed)
  BY <1>1, InvFacts, PublishMoves
<1>3. SameObjects /\ StepsOn
  BY <1>1 DEF SameObjects, StepsOn
<1>4. Snaps' /\ Registry' /\ Ledger' /\ Operation'
  BY <1>1, <1>2 DEF MovesTo, Inv, Registry, Ledger, Operation
<1>. QED BY <1>1, <1>2, <1>3, <1>4, SameRegistry DEF Inv

(* What an operation that only moves on leaves as it is.                    *)
Quiet == UNCHANGED snapshots /\ UNCHANGED <<gen, plugins, active, slips>> /\ SameObjects /\ StepsOn

LEMMA QuietKeeps ==
  ASSUME Inv, Quiet, op'.step = "staged" => files \subseteq files', Registry', Ledger', Operation'
  PROVE  Inv'
<1>1. MovesTo(Routed) /\ Adds(Routed)
  BY InvFacts, StillMoves DEF Inv, Quiet
<1>2. Snaps' /\ Distinct' /\ Staging' /\ OneServes' /\ Recorded' /\ Matched' /\ CleanedUp'
  BY <1>1, SameRegistry DEF Quiet, MovesTo
<1>. QED BY <1>2 DEF Inv
LEMMA NoCandidate ==
  ASSUME NEW kind \in {"none", "install", "reload", "disable", "uninstall"}, NEW step \in {"none", "unload", "finalize"},
         op' = [kind |-> kind, step |-> step, cand |-> 0, prev |-> 0, package |-> NoPackage], Len(obj') \in Nat
  PROVE  Operation'
<1>1. NoPackage \in Packages /\ 0 \in 0 .. Len(obj')
  BY DEF Packages
<1>. QED BY <1>1 DEF Operation

LEMMA QuietOperationsKeep ==
  ASSUME Inv, RecordInstall \/ InstallStrands \/ BeginDisable \/ BeginUninstall \/ UnloadMissing
  PROVE  Inv'
<1>1. CASE RecordInstall
  <2>1. /\ UNCHANGED snapshots /\ UNCHANGED <<gen, obj, plugins, active, files, pending, prepared, slips, unbacked>>
        /\ op.step = "record" /\ op' = Idle /\ wanted' = TRUE
        /\ store' = [status |-> "active", versions |-> store.versions \cup {op.package.digest}]
    BY <1>1 DEF RecordInstall, registry
  <2>2. Quiet
    BY <2>1 DEF Quiet, SameObjects, StepsOn, Pending, Idle
  <2>3. op.package.digest \in Digests /\ store.versions \subseteq Digests
    BY <2>1 DEF Inv, Staging, Ledger
  <2>4. Registry' /\ Ledger'
    BY <2>1, <2>3 DEF Inv, Registry, Ledger
  <2>5. Operation'
    BY <2>1, InvFacts, NoCandidate DEF Idle
  <2>. QED BY <2>1, <2>2, <2>4, <2>5, QuietKeeps
<1>2. CASE BeginDisable
  <2>1. /\ UNCHANGED snapshots
        /\ UNCHANGED <<gen, plugins, active, store, files, pending, prepared, wanted, slips, unbacked>>
        /\ op = Idle /\ plugins # 0
        /\ op' = [Idle EXCEPT !.kind = "disable", !.step = "unload"]
        /\ obj' = [obj EXCEPT ![plugins].enabled = FALSE]
    BY <1>2 DEF BeginDisable, LockFree, packages, history
  <2>. DEFINE e == [obj[plugins] EXCEPT !.enabled = FALSE]
  <2>2. plugins \in 1 .. Len(obj) /\ obj \in Seq(Objs(Len(gen))) /\ obj[plugins] \in Objs(Len(gen))
    BY <2>1, InvFacts, Typed
  <2>3. e \in Objs(Len(gen)) /\ e.state = obj[plugins].state /\ e.status = obj[plugins].status
        /\ e.runtime = obj[plugins].runtime
    BY <2>2 DEF Objs
  <2>4. obj' = [obj EXCEPT ![plugins] = e]
    BY <2>1
  <2>. HIDE DEF e
  <2>5. obj' \in Seq(Objs(Len(gen))) /\ Replaced(obj', obj, plugins, e)
    BY <2>2, <2>3, <2>4, Replaces
  <2>6. SameObjects
    BY <2>1, <2>3, <2>5 DEF SameObjects, Replaced
  <2>7. Quiet
    BY <2>1, <2>6 DEF Quiet, StepsOn, Pending, Idle
  <2>8. Ledger'
    BY <2>1 DEF Inv, Ledger
  <2>9. Registry' /\ Len(obj') \in Nat
    BY <2>1, <2>5, <2>6, InvFacts DEF Inv, Registry, SameObjects
  <2>10. op' = [kind |-> "disable", step |-> "unload", cand |-> 0, prev |-> 0, package |-> NoPackage]
    BY <2>1 DEF Idle
  <2>11. Operation'
    BY <2>9, <2>10, NoCandidate
  <2>. QED BY <2>1, <2>7, <2>8, <2>9, <2>11, QuietKeeps
<1>3. CASE BeginUninstall
  <2>1. /\ UNCHANGED snapshots /\ UNCHANGED <<gen, obj, plugins, active, files, prepared, slips, unbacked>>
        /\ op = Idle /\ op' = [Idle EXCEPT !.kind = "uninstall", !.step = "unload"] /\ wanted' = FALSE
        /\ store' = [store EXCEPT !.status = "pending_removal"] /\ pending' = store.versions
    BY <1>3 DEF BeginUninstall, LockFree, registry
  <2>2. Quiet
    BY <2>1 DEF Quiet, SameObjects, StepsOn, Pending, Idle
  <2>3. Registry' /\ Ledger'
    BY <2>1 DEF Inv, Registry, Ledger
  <2>4. op' = [kind |-> "uninstall", step |-> "unload", cand |-> 0, prev |-> 0, package |-> NoPackage]
    BY <2>1 DEF Idle
  <2>5. Operation'
    BY <2>1, <2>4, InvFacts, NoCandidate
  <2>. QED BY <2>1, <2>2, <2>3, <2>5, QuietKeeps
<1>4. CASE UnloadMissing
  <2>1. /\ UNCHANGED snapshots
        /\ UNCHANGED <<gen, obj, plugins, active, store, files, pending, prepared, wanted, slips, unbacked>>
        /\ op.step = "unload" /\ op' = Idle
    BY <1>4 DEF UnloadMissing, registry, packages, history
  <2>2. Quiet
    BY <2>1 DEF Quiet, SameObjects, StepsOn, Pending, Idle
  <2>3. Registry' /\ Ledger'
    BY <2>1 DEF Inv, Registry, Ledger
  <2>4. Operation'
    BY <2>1, InvFacts, NoCandidate DEF Idle
  <2>. QED BY <2>1, <2>2, <2>3, <2>4, QuietKeeps
<1>5. CASE InstallStrands
  <2>. DEFINE c == op.cand
  <2>1. /\ UNCHANGED snapshots
        /\ UNCHANGED <<gen, obj, plugins, active, store, pending, prepared, wanted, slips>>
        /\ op.step = "record" /\ op' = Idle /\ files' = Discarded(op.package)
        /\ unbacked' = unbacked \cup {obj[c].runtime}
    BY <1>5 DEF InstallStrands, registry
  <2>2. Quiet
    BY <2>1 DEF Quiet, SameObjects, StepsOn, Pending, Idle
  <2>3. c \in 1 .. Len(obj) /\ obj[c].runtime \in 1 .. Len(gen)
    BY <2>1, InvFacts DEF Inv, Staging
  <2>4. files' \subseteq files
    BY <2>1 DEF Discarded
  <2>5. Registry' /\ Ledger'
    BY <2>1, <2>3, <2>4 DEF Inv, Registry, Ledger
  <2>6. Operation'
    BY <2>1, InvFacts, NoCandidate DEF Idle
  <2>7. op'.step # "staged"
    BY <2>1 DEF Idle
  <2>. QED BY <2>2, <2>5, <2>6, <2>7, QuietKeeps
<1>. QED BY <1>1, <1>2, <1>3, <1>4, <1>5

LEMMA PrepareKeeps ==
  ASSUME Inv, NEW d \in Digests, Prepare(d)
  PROVE  Inv'
<1>1. /\ UNCHANGED snapshots /\ UNCHANGED <<gen, obj, plugins, active, store, pending, op, wanted, slips, unbacked>>
      /\ prepared' = [digest |-> d, fresh |-> d \notin files] /\ files' = files \cup {d}
  BY DEF Prepare, registry, history
<1>2. Quiet
  BY <1>1 DEF Quiet, SameObjects, StepsOn
<1>3. prepared' \in Packages
  BY <1>1 DEF Packages
<1>4. Registry' /\ Ledger' /\ Operation'
  BY <1>1, <1>3 DEF Inv, Registry, Ledger, Operation
<1>. QED BY <1>1, <1>2, <1>4, QuietKeeps DEF Inv

LEMMA GiveUpKeeps ==
  ASSUME Inv, GiveUp
  PROVE  Inv'
<1>1. /\ UNCHANGED snapshots
      /\ UNCHANGED <<gen, obj, plugins, active, store, files, pending, prepared, wanted, slips, unbacked>>
      /\ op.step = "staged" /\ op' = [op EXCEPT !.step = "discard"]
  BY DEF GiveUp, registry, packages, history
<1>2. op' = [kind |-> op.kind, step |-> "discard", cand |-> op.cand, prev |-> op.prev, package |-> op.package]
  BY <1>1 DEF Inv, Operation
<1>3. MovesTo(Routed) /\ Retained' = Retained /\ Draining' = Draining /\ Candidate' = Candidate /\ Routed' = Routed
      /\ Current' = Current /\ op.cand # 0
  BY <1>1, <1>2, InvFacts, StillMoves DEF Inv, Candidate, MovesTo, Staging, Pending
<1>4. Snaps' /\ Registry' /\ Ledger' /\ Operation'
  BY <1>1, <1>2, <1>3 DEF Inv, MovesTo, Registry, Ledger, Operation
<1>5. Staging'
  BY <1>1, <1>2, <1>3 DEF Inv, Staging, Pending
<1>6. Distinct' /\ OneServes'
  BY <1>1, <1>2, <1>3 DEF Inv, Distinct, OneServes, Pending
<1>7. Recorded' /\ Matched'
  BY <1>1, <1>2, <1>3 DEF Inv, Recorded, Matched
<1>9. CleanedUp'
  BY <1>1, <1>2, <1>3 DEF Inv, CleanedUp
<1>. QED BY <1>4, <1>5, <1>6, <1>7, <1>9 DEF Inv
-----------------------------------------------------------------------------
(* Retirement and removal *)

(* A removal is carried out only when nothing is routed, and then leaves an *)
(* ACTIVE object registered.                                                *)
LEMMA Finalizes ==
  ASSUME Ledger, FinalizeRemoval(gen', obj', Retained'), Len(gen') \in Nat,
         Retained' \subseteq 1 .. Len(gen'), DOMAIN gen' = 1 .. Len(gen'), Recorded',
         UNCHANGED <<prepared, wanted, slips, unbacked>>, Len(gen') = Len(gen)
  PROVE  /\ Ledger' /\ files' \subseteq files /\ (files' = files \/ Retained' = {})
         /\ plugins' = plugins \/ (plugins' = 0 /\ obj'[plugins].state # "active")
<1>1. CASE pending # {} /\ Records(gen') \cap Retained' = {}
  <2>1. /\ files' = files \ pending /\ store' = NoInstall /\ pending' = {}
        /\ plugins' = plugins \/ (plugins' = 0 /\ obj'[plugins].state # "active")
    BY <1>1, Zenon DEF FinalizeRemoval
  <2>2. Retained' = {}
    BY <1>1 DEF Records, Recorded
  <2>. QED BY <2>1, <2>2 DEF Ledger, NoInstall
<1>2. CASE ~(pending # {} /\ Records(gen') \cap Retained' = {})
  <2>1. UNCHANGED <<files, store, pending, plugins>>
    BY <1>2, Zenon DEF FinalizeRemoval
  <2>. QED BY <2>1 DEF Ledger
<1>. QED BY <1>1, <1>2

LEMMA RetirementKeeps ==
  ASSUME Inv, NEW r \in 1 .. Current, RetireEffect(r, Retained'), FinalizeRemoval(gen', obj', Retained'),
         Snaps', UNCHANGED <<routes, active, prepared, wanted, slips, unbacked>>,
         Retained' \subseteq Retained, Retained \subseteq Retained' \cup {routes[r]},
         Draining \subseteq Draining' \cup {routes[r]},
         op' = op \/ (op.cand = 0 /\ op.step = "finalize" /\ op' = Idle)
  PROVE  Inv'
<1>. DEFINE i == routes[r]
            o == gen[i].record
            n == Len(gen)
            m == Len(obj)
<1>1. /\ n \in Nat /\ m \in Nat /\ i \in 0 .. n
      /\ Retained \subseteq 1 .. n /\ Routed \in 0 .. n
      /\ plugins \in 0 .. m /\ op.cand \in 0 .. m /\ op.prev \in 0 .. m
      /\ \A x \in 1 .. m : obj[x].runtime \in 1 .. n
      /\ \A j \in 1 .. n : gen[j].record \in 0 .. m
  BY InvFacts, Typed
<1>2. /\ Current' = Current /\ Routed' = Routed /\ (Routed # 0 => Routed \in Retained')
      /\ DOMAIN gen' = 1 .. n
  <2>1. Current' = Current /\ Routed' = Routed
    BY DEF Current, Routed
  <2>2. Routed # 0 => Routed \in Retained'
    BY <2>1 DEF Retained, Routed
  <2>3. DOMAIN gen' = 1 .. n
    BY <1>1, LenProperties DEF RetireEffect
  <2>. QED BY <2>1, <2>2, <2>3
<1>3. /\ gen' \in Seq(Gens(m)) /\ Len(gen') = n /\ obj' \in Seq(Objs(n)) /\ Len(obj') = m
  BY DEF RetireEffect
<1>. DEFINE stops == Stops(r, Retained')
<1>4. \A k \in 1 .. n :
        /\ gen'[k].digest = gen[k].digest
        /\ gen'[k].record = IF k = i /\ i \notin Retained' THEN 0 ELSE gen[k].record
        /\ gen'[k].scope = IF stops /\ k = obj[o].runtime THEN "closed" ELSE gen[k].scope
        /\ gen'[k].bindings = IF stops /\ k = i THEN "dropped" ELSE gen[k].bindings
  BY DEF RetireEffect
<1>5. \A k \in 1 .. m :
        /\ obj'[k].runtime = obj[k].runtime /\ obj'[k].status = obj[k].status
        /\ obj'[k].state = IF stops /\ k = o THEN "stopped" ELSE obj[k].state
  BY DEF RetireEffect
<1>6. stops => i \in 1 .. n /\ i \notin Retained' /\ o \in 1 .. m /\ obj[o].state # "active"
  BY <1>1 DEF Stops
<1>7. i \in 1 .. n /\ i \notin Retained' /\ ~stops => o = 0 \/ (o \in 1 .. m /\ obj[o].state = "active")
  BY <1>1 DEF Stops
<1>. HIDE DEF i, o, n, m, stops
<1>8. \A x \in 1 .. m : obj'[x].state = "active" <=> obj[x].state = "active"
  BY <1>5, <1>6
<1>9. Recorded'
  BY <1>1, <1>4 DEF Inv, Recorded
<1>10. /\ Ledger' /\ files' \subseteq files /\ (files' = files \/ Retained' = {})
       /\ plugins' = plugins \/ (plugins' = 0 /\ obj'[plugins].state # "active")
  BY <1>1, <1>2, <1>3, <1>9, Finalizes DEF Inv, n
<1>11. Registry'
  BY <1>1, <1>3, <1>10 DEF Inv, Registry, n, m
<1>12. Operation'
  <2>1. CASE op' = op
    BY <1>3, <2>1 DEF Inv, Operation, m
  <2>2. CASE op' = Idle
    BY <1>1, <1>3, <2>2, NoCandidate DEF Idle
  <2>. QED BY <2>1, <2>2
<1>13. Pending' => op' = op /\ Pending /\ op.cand \in 1 .. m /\ Candidate' = Candidate /\ Candidate \in 1 .. n
  BY <1>1, <1>5 DEF Inv, Staging, Pending, Candidate, Idle
<1>14. op.step = "staged" => Candidate # i
  BY DEF Inv, Staging, i
<1>15. Staging'
  <2>1. ASSUME Pending'
        PROVE  /\ op.prev # 0 /\ op.cand \notin {0, op.prev} /\ plugins' = op.prev
               /\ obj'[op.prev].state = "active" /\ obj'[op.prev].status = "loaded"
               /\ active' = obj'[op.prev].runtime /\ Routed' = active' /\ Candidate' \notin Retained'
               /\ Routed' # 0
    <3>1. /\ op.prev # 0 /\ op.cand \notin {0, op.prev} /\ plugins = op.prev
          /\ obj[op.prev].state = "active" /\ obj[op.prev].status = "loaded"
          /\ active = obj[op.prev].runtime /\ Routed = active /\ Candidate \notin Retained
      BY <1>13, <2>1 DEF Inv, Staging
    <3>2. op.prev \in 1 .. m
      BY <1>1, <3>1
    <3>. QED BY <1>1, <1>2, <1>5, <1>8, <1>10, <1>13, <2>1, <3>1, <3>2
  <2>2. ASSUME op'.step = "staged"
        PROVE  /\ obj'[op.cand].state # "active" /\ gen'[Candidate'].record = op.cand
               /\ gen'[Candidate'].digest \in files' /\ \A k \in 1 .. Current' : routes'[k] # Candidate'
               /\ op.kind = "install" => op.package.digest \in Digests
    <3>1. Pending' /\ op.step = "staged"
      BY <1>13, <2>2 DEF Pending
    <3>2. /\ obj[op.cand].state # "active" /\ gen[Candidate].record = op.cand
          /\ gen[Candidate].digest \in files /\ \A k \in 1 .. Current : routes[k] # Candidate
          /\ op.kind = "install" => op.package.digest \in Digests
      BY <3>1 DEF Inv, Staging
    <3>3. files' = files
      BY <1>2, <1>10, <2>1, <3>1
    <3>. QED BY <1>2, <1>4, <1>8, <1>13, <1>14, <3>1, <3>2, <3>3
  <2>3. ASSUME op'.step = "record"
        PROVE  /\ op.cand \notin {0, op.prev} /\ plugins' = op.cand /\ obj'[op.cand].state = "active"
               /\ active' = obj'[op.cand].runtime /\ Routed' = active' /\ op.package.digest \in Digests
    <3>1. op.step = "record"
      BY <2>3 DEF Idle
    <3>2. /\ op.cand \notin {0, op.prev} /\ plugins = op.cand /\ obj[op.cand].state = "active"
          /\ active = obj[op.cand].runtime /\ Routed = active /\ op.package.digest \in Digests
      BY <3>1 DEF Inv, Staging
    <3>. QED BY <1>1, <1>2, <1>5, <1>8, <1>10, <3>2
  <2>4. op'.step \in {"staged", "discard", "record"} => op' = op
    BY DEF Idle
  <2>5. op'.step \notin {"staged", "discard", "record"} => op'.cand = 0
    BY DEF Inv, Staging, Idle
  <2>. QED BY <2>1, <2>2, <2>3, <2>4, <2>5 DEF Staging, Pending
<1>16. OneServes'
  <2>2. ASSUME NEW x \in 1 .. m, obj'[x].state = "active", obj'[x].status = "loaded"
        PROVE  \/ x = plugins' /\ active' = obj'[x].runtime /\ Routed' = active'
               \/ op'.step = "discard" /\ x = op'.cand
    <3>1. obj[x].state = "active" /\ obj[x].status = "loaded"
      BY <1>5, <1>8, <2>2
    <3>2. CASE x = plugins /\ active = obj[x].runtime /\ Routed = active
      BY <1>2, <1>5, <1>10, <2>2, <3>2
    <3>3. CASE op.step = "discard" /\ x = op.cand
      BY <3>3
    <3>. QED BY <3>1, <3>2, <3>3 DEF Inv, OneServes, m
  <2>3. ASSUME NEW x \in 1 .. m, obj'[x].state = "preparing" PROVE Pending' /\ x = op'.cand
    <3>1. obj[x].state = "preparing"
      BY <1>5, <2>3
    <3>2. Pending /\ x = op.cand
      BY <3>1 DEF Inv, OneServes, m
    <3>. QED BY <3>2 DEF Pending
  <2>. QED BY <1>3, <2>2, <2>3 DEF OneServes
<1>17. Matched'
  <2>1. SUFFICES ASSUME "loaded over" \notin slips PROVE Matched'
    BY DEF Matched
  <2>2. /\ \A j \in 1 .. n : gen[j].record # 0 =>
             obj[gen[j].record].runtime = j /\ gen[j].scope = "open"
        /\ \A x \in 1 .. m : obj[x].state \in {"failed", "stopped"} => gen[obj[x].runtime].record = 0
    BY <2>1 DEF Inv, Matched, n, m
  <2>3. stops => obj[o].runtime = i
    BY <1>6, <2>2 DEF o
  <2>4. \A j \in 1 .. n : gen'[j].record # 0 =>
          obj'[gen'[j].record].runtime = j /\ gen'[j].scope = "open"
    BY <1>1, <1>4, <1>5, <1>6, <2>2, <2>3
  <2>7. ASSUME Routed' # 0
        PROVE  gen'[Routed'].record = plugins' /\ active' = Routed' /\ obj'[plugins'].state = "active"
    <3>1. /\ gen[Routed].record = plugins /\ active = Routed /\ obj[plugins].state = "active"
          /\ Routed \in Retained' /\ Routed \in 1 .. n
      BY <1>1, <1>2, <2>1, <2>7 DEF Inv, Matched
    <3>2. plugins \in 1 .. m
      BY <1>1, <3>1 DEF Inv, Recorded
    <3>. QED BY <1>2, <1>4, <1>8, <1>10, <3>1, <3>2
  <2>8. ASSUME NEW x \in 1 .. m, obj'[x].state \in {"failed", "stopped"} PROVE gen'[obj'[x].runtime].record = 0
    BY <1>1, <1>4, <1>5, <1>6, <2>2, <2>3, <2>8
  <2>. QED BY <1>3, <2>4, <2>7, <2>8 DEF Matched
<1>19. CleanedUp'
  <2>1. SUFFICES ASSUME slips \cap {"loaded over", "put back"} = {} PROVE CleanedUp'
    BY DEF CleanedUp
  <2>2. /\ \A j \in 1 .. n : gen[j].record = 0 =>
             \/ gen[j].scope = "closed" /\ gen[j].bindings = "dropped"
             \/ op.step = "discard" /\ j = Candidate
        /\ \A j \in 1 .. n :
             j \notin Retained \cup Draining /\ (op.cand # 0 => j # Candidate) => gen[j].record = 0
        /\ \A x \in 1 .. m :
             obj[x].state = "active" /\ gen[obj[x].runtime].record = x =>
               obj[x].runtime = Routed \/ (op.step = "discard" /\ x = op.cand)
    BY <2>1 DEF Inv, CleanedUp, n, m
  <2>3. o \in 1 .. m => obj[o].runtime = i \/ i \notin 1 .. n
    <3>1. \A j \in 1 .. n : gen[j].record # 0 => obj[gen[j].record].runtime = j
      BY <2>1 DEF Inv, Matched, n
    <3>. QED BY <1>1, <3>1 DEF o
  <2>4. op.step = "discard" => op' = op /\ Pending'
    BY DEF Pending
  <2>5. ASSUME NEW j \in 1 .. n, gen'[j].record = 0
        PROVE  \/ gen'[j].scope = "closed" /\ gen'[j].bindings = "dropped"
               \/ op'.step = "discard" /\ j = Candidate'
    <3>1. CASE gen[j].record = 0
      <4>1. CASE gen[j].scope = "closed" /\ gen[j].bindings = "dropped"
        BY <1>4, <4>1
      <4>2. CASE op.step = "discard" /\ j = Candidate
        BY <1>13, <2>4, <4>2
      <4>. QED BY <2>2, <3>1, <4>1, <4>2
    <3>2. CASE gen[j].record # 0
      <4>1. j = i /\ i \notin Retained' /\ o # 0
        BY <1>4, <2>5, <3>2 DEF o
      <4>2. CASE stops
        BY <1>4, <1>6, <2>3, <4>1, <4>2
      <4>3. CASE ~stops
        <5>1. o \in 1 .. m /\ obj[o].state = "active" /\ obj[o].runtime = i /\ gen[obj[o].runtime].record = o
          BY <1>7, <2>3, <4>1, <4>3 DEF o
        <5>2. i # Routed
          BY <1>1, <1>2, <4>1
        <5>3. op.step = "discard" /\ o = op.cand
          BY <2>2, <5>1, <5>2
        <5>. QED BY <1>13, <2>4, <4>1, <5>1, <5>3 DEF Candidate
      <4>. QED BY <4>2, <4>3
    <3>. QED BY <3>1, <3>2
  <2>6. ASSUME NEW j \in 1 .. n, j \notin Retained' \cup Draining', op'.cand # 0 => j # Candidate'
        PROVE  gen'[j].record = 0
    <3>1. CASE j = i
      BY <1>4, <2>6, <3>1
    <3>2. CASE j # i
      <4>1. j \notin Retained \cup Draining
        BY <2>6, <3>2 DEF i
      <4>2. op.cand # 0 => op' = op /\ Candidate' = Candidate
        BY <1>1, <1>5 DEF Candidate
      <4>. QED BY <1>4, <2>2, <2>6, <3>2, <4>1, <4>2
    <3>. QED BY <3>1, <3>2
  <2>7. ASSUME NEW x \in 1 .. m, obj'[x].state = "active", gen'[obj'[x].runtime].record = x
        PROVE  obj'[x].runtime = Routed' \/ (op'.step = "discard" /\ x = op'.cand)
    <3>1. obj[x].state = "active" /\ obj'[x].runtime = obj[x].runtime /\ obj[x].runtime \in 1 .. n
      BY <1>1, <1>5, <1>8, <2>7
    <3>2. gen[obj[x].runtime].record = x
      BY <1>4, <2>7, <3>1
    <3>. QED BY <1>2, <2>2, <2>4, <3>1, <3>2
  <2>. QED BY <1>3, <2>5, <2>6, <2>7 DEF CleanedUp
<1>20. Distinct'
  BY <1>3, <1>5 DEF Inv, Distinct, m
<1>. QED BY <1>9, <1>10, <1>11, <1>12, <1>15, <1>16, <1>17, <1>19, <1>20 DEF Inv

LEMMA FinishUninstallKeeps ==
  ASSUME Inv, FinishUninstall
  PROVE  Inv'
<1>1. /\ UNCHANGED snapshots /\ UNCHANGED <<routes, gen, obj, active, prepared, wanted, slips, unbacked>>
      /\ op.step = "finalize" /\ op' = Idle /\ FinalizeRemoval(gen, obj, Retained)
  BY DEF FinishUninstall, history, snapshots
<1>2. Snaps' /\ Retained' = Retained /\ Draining' = Draining
  BY <1>1, InvFacts, StillMoves DEF Inv, MovesTo
<1>3. FinalizeRemoval(gen', obj', Retained')
  BY <1>1, <1>2
<1>4. op.cand = 0
  BY <1>1 DEF Inv, Staging
<1>5. Current \in 1 .. Current /\ routes[Current] \in Retained' \cup {0}
  BY <1>2, InvFacts, Typed DEF Routed
<1>6. RetireEffect(Current, Retained')
  <2>1. ~Stops(Current, Retained') /\ (routes[Current] \in Retained' \/ routes[Current] \notin 1 .. Len(gen))
    BY <1>5, InvFacts DEF Stops
  <2>2. gen \in Seq(Gens(Len(obj))) /\ obj \in Seq(Objs(Len(gen)))
    BY DEF Inv, Registry
  <2>. QED BY <1>1, <2>1, <2>2 DEF RetireEffect
<1>. QED BY <1>1, <1>2, <1>3, <1>4, <1>5, <1>6, RetirementKeeps

LEMMA RunRetireTaskKeeps ==
  ASSUME Inv, RunRetireTask
  PROVE  Inv'
<1>. DEFINE r == Head(retiring)
<1>1. /\ UNCHANGED <<routes, retired, lease, active, prepared, op, wanted, slips, unbacked>>
      /\ retiring # <<>> /\ retiring' = Tail(retiring) /\ Retire(r, Retained)
  BY DEF RunRetireTask, history
<1>2. TypeOK /\ retiring \in Seq(1 .. Current) /\ Len(gen) \in Nat
  BY InvFacts DEF Inv, Snaps
<1>3. /\ r \in 1 .. Current /\ retiring' \in Seq(1 .. Current) /\ r = retiring[1]
      /\ Len(retiring) \in Nat /\ Len(retiring') = Len(retiring) - 1
      /\ \A k \in 1 .. Len(retiring') : retiring'[k] = retiring[k + 1]
  <2>1. /\ r \in 1 .. Current /\ retiring' \in Seq(1 .. Current) /\ Len(retiring') = Len(retiring) - 1
        /\ \A k \in 1 .. Len(retiring') : retiring'[k] = retiring[k + 1]
    BY <1>1, <1>2, HeadTailProperties
  <2>2. r = retiring[1] /\ Len(retiring) \in Nat
    BY <1>1, <1>2
  <2>. QED BY <2>1, <2>2
<1>4. /\ DOMAIN retiring = 1 .. Len(retiring) /\ DOMAIN retiring' = 1 .. Len(retiring')
  BY <1>2, <1>3, LenProperties
<1>. HIDE DEF r
<1>5. RetireEffect(r, Retained) /\ FinalizeRemoval(gen', obj', Retained)
  BY <1>1, <1>2, <1>3, Retires
<1>6. Retained' = Retained /\ Current' = Current
  BY <1>1 DEF Retained, Current
<1>7. Snaps'
  BY <1>1, <1>3, <1>5, <1>6 DEF Inv, Snaps, KeptWhileLeased, RetireEffect
<1>8. Draining \subseteq Draining' \cup {routes[r]}
  <2>1. SUFFICES ASSUME NEW k \in DOMAIN retiring, k # 1 PROVE routes[retiring[k]] \in Draining'
    BY <1>3 DEF Draining
  <2>2. k - 1 \in DOMAIN retiring' /\ retiring'[k - 1] = retiring[k]
    BY <1>3, <1>4, <2>1
  <2>. QED BY <1>1, <2>2 DEF Draining
<1>. QED BY <1>1, <1>3, <1>5, <1>6, <1>7, <1>8, RetirementKeeps

LEMMA ReleaseKeeps ==
  ASSUME Inv, NEW t \in Turns, Release(t)
  PROVE  Inv'
<1>. DEFINE r == lease[t]
            kept == {routes[k] : k \in (retired \ {r}) \cup {Current}} \ {0}
<1>1. /\ UNCHANGED <<routes, retiring, active, prepared, op, wanted, slips, unbacked>>
      /\ r # 0 /\ lease' = [lease EXCEPT ![t] = 0]
      /\ LastLease(t) => retired' = retired \ {r} /\ Retire(r, kept)
      /\ ~LastLease(t) => UNCHANGED <<retired, gen, obj, plugins, files, store, pending>>
  BY Zenon DEF Release, history
<1>2. /\ TypeOK /\ Len(gen) \in Nat /\ lease \in [Turns -> 0 .. Current] /\ Current \in Nat
      /\ retired = {lease[u] : u \in Turns} \ {0, Current}
  BY InvFacts, Typed DEF Inv, Snaps, KeptWhileLeased
<1>3. Current' = Current /\ Draining' = Draining /\ Routed' = Routed
  BY <1>1 DEF Current, Draining, Routed
<1>4. /\ \A u \in Turns : lease'[u] = IF u = t THEN 0 ELSE lease[u]
      /\ lease' \in [Turns -> 0 .. Current]
  BY <1>1, <1>2
<1>5. CASE LastLease(t)
  <2>1. /\ retired' = retired \ {r} /\ Retire(r, kept) /\ r \in retired /\ r \in 1 .. Current
        /\ \A u \in Turns \ {t} : lease[u] # r
    BY <1>1, <1>2, <1>5 DEF LastLease
  <2>2. Retained' = kept
    BY <1>3, <2>1, <1>1 DEF Retained
  <2>. HIDE DEF kept
  <2>3. RetireEffect(r, kept) /\ FinalizeRemoval(gen', obj', kept)
    BY <1>2, <2>1, Retires
  <2>. USE DEF kept
  <2>4. kept \subseteq Retained /\ Retained \subseteq kept \cup {routes[r]}
    BY DEF Retained
  <2>5. retired' = {lease'[u] : u \in Turns} \ {0, Current}
    BY <1>2, <1>4, <2>1
  <2>. HIDE DEF r, kept
  <2>6. Snaps'
    <3>1. Len(gen') = Len(gen)
      BY <2>3 DEF RetireEffect
    <3>. QED BY <1>1, <1>3, <1>4, <2>1, <2>5, <3>1 DEF Inv, Snaps, KeptWhileLeased
  <2>. QED BY <1>1, <1>3, <2>1, <2>2, <2>3, <2>4, <2>6, RetirementKeeps
<1>6. CASE ~LastLease(t)
  <2>1. UNCHANGED <<retired, gen, obj, plugins, files, store, pending>>
    BY <1>1, <1>6
  <2>2. Retained' = Retained
    BY <1>1, <1>3, <2>1 DEF Retained
  <2>3. retired = {lease'[u] : u \in Turns} \ {0, Current}
    <3>1. r \notin retired \/ \E u \in Turns \ {t} : lease[u] = r
      BY <1>6 DEF LastLease
    <3>2. r \in retired \/ r = Current
      BY <1>1, <1>2
    <3>. QED BY <1>2, <1>4, <3>1, <3>2
  <2>. HIDE DEF r
  <2>4. Snaps'
    BY <1>1, <1>3, <1>4, <2>1, <2>3 DEF Inv, Snaps, KeptWhileLeased
  <2>5. MovesTo(Routed) /\ Adds(Routed)
    BY <1>1, <1>3, <2>2, <2>4, InvFacts DEF MovesTo, Adds
  <2>6. SameObjects /\ StepsOn
    BY <1>1, <2>1 DEF SameObjects, StepsOn
  <2>7. Registry' /\ Ledger' /\ Operation'
    BY <1>1, <2>1 DEF Inv, Registry, Ledger, Operation
  <2>. QED BY <1>1, <2>1, <2>4, <2>5, <2>6, <2>7, SameRegistry DEF Inv
<1>. QED BY <1>5, <1>6
LEMMA UnloadKeeps ==
  ASSUME Inv, Unload
  PROVE  Inv'
<1>. DEFINE p == plugins
            n == Len(gen)
            m == Len(obj)
<1>1. /\ UNCHANGED <<gen, plugins, store, files, pending, prepared, wanted, slips, unbacked>>
      /\ op.step = "unload" /\ plugins # 0 /\ op.cand = 0
  BY DEF Unload, packages, history, Inv, Staging
<1>2. /\ n \in Nat /\ m \in Nat /\ p \in 1 .. m /\ obj \in Seq(Objs(n)) /\ gen \in Seq(Gens(m))
      /\ \A x \in 1 .. m : obj[x] \in Objs(n) /\ obj[x].runtime \in 1 .. n
      /\ \A j \in 1 .. n : gen[j].record \in 0 .. m
      /\ Retained \subseteq 1 .. n /\ 0 \notin Retained
  BY <1>1, InvFacts, Typed
<1>3. CASE obj[p].state \notin MayDrain
  <2>1. UNCHANGED snapshots /\ UNCHANGED <<obj, active>> /\ op' = Idle
    BY <1>3 DEF Unload
  <2>2. Quiet
    BY <1>1, <2>1 DEF Quiet, SameObjects, StepsOn, Pending, Idle
  <2>3. Registry' /\ Ledger'
    BY <1>1, <2>1 DEF Inv, Registry, Ledger
  <2>4. Operation'
    BY <1>2, <2>1, NoCandidate DEF Idle
  <2>. QED BY <1>1, <2>2, <2>3, <2>4, QuietKeeps
<1>4. CASE obj[p].state \in MayDrain
  <2>. DEFINE status == IF obj[p].enabled THEN "discovered" ELSE "disabled"
              e == [obj[p] EXCEPT !.state = "draining", !.status = status]
  <2>1. /\ obj' = [obj EXCEPT ![p].state = "draining", ![p].status = status]
        /\ active' = 0 /\ Unpublish /\ op' \in AfterUnload
    BY <1>4 DEF Unload
  <2>2. obj' = [obj EXCEPT ![p] = e]
    BY <2>1
  <2>3. e \in Objs(n) /\ e.state = "draining" /\ e.status # "loaded" /\ e.runtime = obj[p].runtime
    BY <1>2 DEF Objs, States, Statuses, MayDrain
  <2>. HIDE DEF e, status
  <2>4. obj' \in Seq(Objs(n)) /\ Replaced(obj', obj, p, e)
    BY <1>2, <2>2, <2>3, Replaces
  <2>5. /\ Len(obj') = m /\ obj'[p] = e /\ \A x \in 1 .. m : x # p => obj'[x] = obj[x]
    BY <2>4 DEF Replaced
  <2>6. MovesTo(0)
    <3>1. CASE Routed # 0
      <4>1. Publish(0)
        BY <2>1, <3>1 DEF Unpublish, Routed
      <4>. QED BY <1>1, <1>2, <4>1, InvFacts, PublishMoves
    <3>2. CASE Routed = 0
      <4>1. UNCHANGED snapshots
        BY <2>1, <3>2 DEF Unpublish, Routed
      <4>. QED BY <1>1, <1>2, <3>2, <4>1, StillMoves DEF Inv
    <3>. QED BY <3>1, <3>2
  <2>7. /\ op'.step \notin {"staged", "discard", "record"} /\ op'.cand = 0 /\ Operation'
    <3>1. CASE op' = [op EXCEPT !.step = "finalize"]
      <4>1. op' = [kind |-> op.kind, step |-> "finalize", cand |-> op.cand, prev |-> op.prev, package |-> op.package]
        BY <3>1 DEF Inv, Operation
      <4>. QED BY <1>1, <2>5, <4>1 DEF Inv, Operation
    <3>2. CASE op' = Idle
      BY <1>2, <2>5, <3>2, NoCandidate DEF Idle
    <3>. QED BY <2>1, <3>1, <3>2 DEF AfterUnload
  <2>8. /\ Routed' = 0 /\ Retained' \subseteq Retained /\ Snaps'
        /\ Retained \subseteq Retained' \cup Draining' /\ Draining \subseteq Draining'
    BY <1>2, <2>6 DEF MovesTo
  <2>9. Registry'
    BY <1>1, <1>2, <2>1, <2>4, <2>5 DEF Inv, Registry
  <2>10. Ledger'
    BY <1>1 DEF Inv, Ledger
  <2>11. Staging'
    BY <2>7 DEF Staging, Pending
  <2>12. OneServes'
    <3>1. \A x \in 1 .. m : x # p => ~(obj[x].state = "active" /\ obj[x].status = "loaded") /\ obj[x].state # "preparing"
      BY <1>1 DEF Inv, OneServes, Pending
    <3>. QED BY <1>1, <2>3, <2>5, <3>1 DEF OneServes
  <2>13. Recorded'
    BY <1>1, <2>8 DEF Inv, Recorded
  <2>14. Matched'
    <3>1. SUFFICES ASSUME "loaded over" \notin slips PROVE Matched'
      BY <1>1 DEF Matched
    <3>2. \A x \in 1 .. m : obj'[x].runtime = obj[x].runtime
      BY <2>3, <2>5
    <3>3. \A j \in 1 .. n : gen[j].record # 0 =>
            obj'[gen[j].record].runtime = j /\ gen[j].scope = "open"
      <4>1. \A j \in 1 .. n : gen[j].record # 0 =>
              obj[gen[j].record].runtime = j /\ gen[j].scope = "open"
        BY <3>1 DEF Inv, Matched
      <4>. QED BY <1>2, <3>2, <4>1
    <3>5. ASSUME NEW x \in 1 .. m, obj'[x].state \in {"failed", "stopped"} PROVE gen[obj'[x].runtime].record = 0
      <4>1. x # p
        BY <2>3, <2>5, <3>5
      <4>. QED BY <2>5, <3>1, <3>5, <4>1 DEF Inv, Matched
    <3>. QED BY <1>1, <2>5, <2>8, <3>3, <3>5 DEF Matched
  <2>16. CleanedUp'
    <3>1. SUFFICES ASSUME slips \cap {"loaded over", "put back"} = {} PROVE CleanedUp'
      BY <1>1 DEF CleanedUp
    <3>2. \A j \in 1 .. n : gen[j].record = 0 => gen[j].scope = "closed" /\ gen[j].bindings = "dropped"
      BY <1>1, <3>1 DEF Inv, CleanedUp
    <3>3. \A j \in 1 .. n : j \notin Retained' \cup Draining' => gen[j].record = 0
      BY <1>1, <2>8, <3>1 DEF Inv, CleanedUp
    <3>4. ASSUME NEW x \in 1 .. m, obj'[x].state = "active", gen[obj'[x].runtime].record = x PROVE FALSE
      <4>1. x # p /\ obj[x].state = "active" /\ gen[obj[x].runtime].record = x
        BY <2>3, <2>5, <3>4
      <4>2. obj[x].runtime = Routed
        BY <1>1, <3>1, <4>1 DEF Inv, CleanedUp
      <4>3. gen[Routed].record = p
        <5>1. Routed # 0
          BY <1>2, <4>2
        <5>. QED BY <3>1, <5>1 DEF Inv, Matched
      <4>. QED BY <4>1, <4>2, <4>3
    <3>. QED BY <1>1, <2>5, <3>2, <3>3, <3>4 DEF CleanedUp
  <2>17. Distinct'
    BY <2>3, <2>5 DEF Inv, Distinct
  <2>. QED BY <2>8, <2>7, <2>9, <2>10, <2>11, <2>12, <2>13, <2>14, <2>16, <2>17 DEF Inv
<1>. QED BY <1>3, <1>4
-----------------------------------------------------------------------------
(* Loading *)

LEMMA Grows ==
  ASSUME TypeOK, Len(obj') \in Nat, Len(obj) <= Len(obj'), NEW g \in Gens(Len(obj')), gen' = Append(gen, g)
  PROVE  /\ gen' \in Seq(Gens(Len(obj'))) /\ Len(gen') = Len(gen) + 1 /\ gen'[Len(gen) + 1] = g
         /\ \A j \in 1 .. Len(gen) : gen'[j] = gen[j]
<1>1. gen \in Seq(Gens(Len(obj))) /\ Len(obj) \in Nat
  BY Typed
<1>2. gen \in Seq(Gens(Len(obj')))
  BY <1>1, Widens
<1>. QED BY <1>2, Appends DEF Appended

LEMMA SlipEffect ==
  ASSUME NEW race \in {"loaded over", "put back"}, NEW happens, Slip(race, happens), Ledger
  PROVE  /\ slips \subseteq slips' /\ slips' \subseteq {"loaded over", "put back"}
         /\ happens => race \in slips'
         /\ ~happens => slips' = slips
  BY DEF Slip, Ledger

(* A package that its install may take back leaves a generation unbacked.   *)
LEMMA LoadsFromEffect ==
  ASSUME Ledger, NEW d, LoadsFrom(d), TypeOK, Len(gen') = Len(gen) + 1, DOMAIN gen' = 1 .. Len(gen) + 1
  PROVE  /\ unbacked' \subseteq 1 .. Len(gen') /\ unbacked' \ {Len(gen) + 1} = unbacked
         /\ Len(gen) + 1 \in unbacked' <=> Borrows(d)
<1>1. Len(gen) \in Nat /\ DOMAIN gen = 1 .. Len(gen) /\ unbacked \subseteq 1 .. Len(gen)
  BY Typed DEF Ledger
<1>2. DOMAIN gen' \ DOMAIN gen = {Len(gen) + 1} /\ Len(gen) + 1 \notin 1 .. Len(gen)
  BY <1>1
<1>3. unbacked' = IF Borrows(d) THEN unbacked \cup {Len(gen) + 1} ELSE unbacked
  BY <1>2 DEF LoadsFrom
<1>4. Len(gen) + 1 \notin unbacked /\ 1 .. Len(gen) \subseteq 1 .. Len(gen') /\ Len(gen) + 1 \in 1 .. Len(gen')
  BY <1>1
<1>5. unbacked' \subseteq 1 .. Len(gen')
  BY <1>1, <1>3, <1>4
<1>. QED BY <1>3, <1>4, <1>5

(* Nothing is loaded: no generation to answer for.                          *)
LEMMA LoadsNothing ==
  ASSUME NEW d, LoadsFrom(d), gen' = gen
  PROVE  unbacked' = unbacked
  BY DEF LoadsFrom

LEMMA GenerationsTyped ==
  ASSUME NEW n \in Nat, NEW d \in Digests, NEW o \in 0 .. n
  PROVE  /\ Generation(d, o) \in Gens(n) /\ FailedGeneration(d) \in Gens(n)
         /\ Generation(d, o).record = o /\ Generation(d, o).scope = "open" /\ Generation(d, o).digest = d
         /\ FailedGeneration(d).record = 0 /\ FailedGeneration(d).scope = "closed"
         /\ FailedGeneration(d).bindings = "dropped" /\ FailedGeneration(d).digest = d
  BY DEF Generation, FailedGeneration, Gens

(* The object p has loaded the generation i.                                *)
Reloaded(s, p, state, status, i) ==
  [s EXCEPT ![p] = [@ EXCEPT !.state = state, !.status = status, !.enabled = TRUE, !.runtime = i]]

HasLoaded(t, s, p, state, status, i) ==
  /\ Len(t) = Len(s) /\ t[p].state = state /\ t[p].status = status /\ t[p].runtime = i
  /\ \A x \in 1 .. Len(s) : x # p => t[x] = s[x]

LEMMA Reloads ==
  ASSUME NEW n \in Nat, NEW s \in Seq(Objs(n)), NEW p \in 1 .. Len(s),
         NEW state \in {"active", "failed"}, NEW status \in {"loaded", "error"},
         NEW t, t = Reloaded(s, p, state, status, n + 1)
  PROVE  t \in Seq(Objs(n + 1)) /\ HasLoaded(t, s, p, state, status, n + 1)
<1>. DEFINE e == [s[p] EXCEPT !.state = state, !.status = status, !.enabled = TRUE, !.runtime = n + 1]
<1>1. s[p] \in Objs(n) /\ s \in Seq(Objs(n + 1))
  BY ElementOfSeq, Widens
<1>2. state \in States /\ status \in Statuses /\ n + 1 \in 1 .. n + 1
  BY DEF States, MayPrepare, MayDrain, Statuses
<1>3. e \in Objs(n + 1) /\ e.state = state /\ e.status = status /\ e.runtime = n + 1
  BY <1>1, <1>2 DEF Objs
<1>4. t = [s EXCEPT ![p] = e]
  BY DEF Reloaded
<1>. HIDE DEF e
<1>5. t \in Seq(Objs(n + 1)) /\ Replaced(t, s, p, e)
  BY <1>1, <1>3, <1>4, Replaces
<1>. QED BY <1>3, <1>5 DEF Replaced, HasLoaded

LoadsInPlace ==
  /\ op = Idle /\ plugins # 0 /\ LoadInPlace(plugins, TRUE)
  /\ Slip("loaded over", Unretired(plugins)) /\ LoadsFrom(obj[plugins].digest)
  /\ UNCHANGED <<plugins, packages, op, wanted>>

LEMMA LoadInPlaceKeeps ==
  ASSUME Inv, LoadsInPlace
  PROVE  Inv'
<1>. DEFINE p == plugins
            n == Len(gen)
            m == Len(obj)
            d == obj[p].digest
<1>1. /\ UNCHANGED <<plugins, store, files, pending, prepared, op, wanted>>
      /\ op = Idle /\ op.step = "none" /\ op.cand = 0 /\ op'.step = "none" /\ op'.cand = 0
      /\ plugins # 0 /\ obj[p].state \in MayPrepare /\ LoadsFrom(d)
  BY DEF LoadsInPlace, packages, LoadInPlace, Idle
<1>2. p \in 1 .. m
  BY <1>1, InvFacts
<1>20. n \in Nat /\ m \in Nat /\ obj \in Seq(Objs(n)) /\ gen \in Seq(Gens(m)) /\ TypeOK
  BY InvFacts DEF Inv, Registry
<1>21. d \in Digests
  BY <1>2, InvFacts
<1>22. /\ Retained \subseteq 1 .. n /\ 0 \notin Retained /\ Routed \in 0 .. n
  BY InvFacts
<1>23. /\ \A x \in 1 .. m : obj[x].runtime \in 1 .. n
       /\ \A j \in 1 .. n : gen[j].record \in 0 .. m
  BY InvFacts
<1>24. (\A j \in 1 .. n + 1 : j \in 1 .. n \/ j = n + 1) /\ n + 1 \notin 1 .. n
  BY <1>20
<1>25. \A j \in 1 .. n : gen[j].record # 0 => gen[j].record \in 1 .. m
  BY <1>20, <1>23
<1>3. /\ slips \subseteq slips' /\ slips' \subseteq {"loaded over", "put back"}
      /\ Unretired(p) => "loaded over" \in slips'
  BY SlipEffect DEF Inv, LoadsInPlace
<1>4. \A x \in 1 .. m : x # p => ~(obj[x].state = "active" /\ obj[x].status = "loaded") /\ obj[x].state # "preparing"
  BY <1>1 DEF Inv, OneServes, Pending
<1>5. "loaded over" \notin slips' => "loaded over" \notin slips /\ gen[obj[p].runtime].record = 0
  BY <1>1, <1>3 DEF Unretired
<1>6. Staging'
  BY <1>1 DEF Staging, Pending
<1>7. \/ LoadAndPublish(d, p) /\ obj' = Reloaded(obj, p, "active", "loaded", n + 1)
      \/ LoadRaises(d) /\ obj' = Reloaded(obj, p, "failed", "error", n + 1)
  BY Zenon DEF LoadsInPlace, LoadInPlace, Reloaded, NewGen
<1>8. CASE LoadAndPublish(d, p) /\ obj' = Reloaded(obj, p, "active", "loaded", n + 1)
  <2>1. /\ d \in files /\ gen' = Append(gen, Generation(d, p)) /\ active' = n + 1 /\ Publish(n + 1)
    BY <1>8 DEF LoadAndPublish, NewGen
  <2>2. /\ obj' \in Seq(Objs(n + 1)) /\ Len(obj') = m
        /\ obj'[p].state = "active" /\ obj'[p].status = "loaded" /\ obj'[p].runtime = n + 1
        /\ \A x \in 1 .. m : x # p => obj'[x] = obj[x]
    <3>. HIDE DEF n, p
    <3>1. obj' = Reloaded(obj, p, "active", "loaded", n + 1)
      BY <1>8 DEF n, p
    <3>2. obj' \in Seq(Objs(n + 1)) /\ HasLoaded(obj', obj, p, "active", "loaded", n + 1)
      BY <1>2, <1>20, <3>1, Reloads
    <3>. QED BY <3>2 DEF HasLoaded
  <2>. DEFINE g == Generation(d, p)
  <2>3. g \in Gens(m) /\ g.record = p /\ g.scope = "open" /\ g.digest = d
    BY <1>2, <1>20, <1>21, GenerationsTyped
  <2>. HIDE DEF g
  <2>4. /\ gen' \in Seq(Gens(m)) /\ Len(gen') = n + 1 /\ gen'[n + 1] = g
        /\ \A j \in 1 .. n : gen'[j] = gen[j]
    BY <1>20, <2>1, <2>2, <2>3, Grows DEF g
  <2>5. MovesTo(n + 1) /\ n + 1 \in Retained'
    BY <1>20, <2>1, <2>4, InvFacts, PublishMoves
  <2>6. /\ Snaps' /\ Routed' = n + 1 /\ Retained' \subseteq Retained \cup {n + 1}
        /\ Retained \subseteq Retained' \cup Draining' /\ Draining \subseteq Draining'
    BY <2>5 DEF MovesTo
  <2>. HIDE DEF p, n, m, d
  <2>7. Registry'
    BY <1>1, <1>2, <1>20, <2>1, <2>2, <2>4 DEF Inv, Registry, p, n, m
  <2>8. Ledger' /\ Operation'
    <3>1. unbacked' \subseteq 1 .. Len(gen')
      <4>1. DOMAIN gen' = 1 .. n + 1
        BY <2>4, LenProperties
      <4>. QED BY <1>1, <1>20, <2>4, <4>1, LoadsFromEffect DEF Inv, n
    <3>. QED BY <1>1, <1>3, <2>2, <3>1 DEF Inv, Ledger, Operation, m
  <2>9. OneServes'
    BY <1>1, <1>4, <2>1, <2>2, <2>6 DEF OneServes, p
  <2>14. Distinct'
    BY <1>2, <1>23, <1>24, <2>2 DEF Inv, Distinct, m
  <2>10. Recorded'
    BY <1>1, <1>2, <1>22, <2>3, <2>4, <2>6 DEF Inv, Recorded, p
  <2>11. Matched'
    <3>1. SUFFICES ASSUME "loaded over" \notin slips' PROVE Matched'
      BY DEF Matched
    <3>2. /\ \A j \in 1 .. n : gen[j].record # 0 =>
               obj[gen[j].record].runtime = j /\ gen[j].scope = "open"
          /\ \A x \in 1 .. m : obj[x].state \in {"failed", "stopped"} => gen[obj[x].runtime].record = 0
          /\ gen[obj[p].runtime].record = 0
      BY <1>5, <3>1 DEF Inv, Matched, n, m
    <3>3. \A j \in 1 .. n + 1 : gen'[j].record # 0 =>
            obj'[gen'[j].record].runtime = j /\ gen'[j].scope = "open"
      <4>1. ASSUME NEW j \in 1 .. n, gen[j].record # 0
            PROVE  obj'[gen[j].record].runtime = j /\ gen[j].scope = "open"
        <5>1. gen[j].record \in 1 .. m /\ obj[gen[j].record].runtime = j /\ gen[j].record # p
          BY <1>25, <3>2, <4>1
        <5>. QED BY <2>2, <3>2, <4>1, <5>1
      <4>. QED BY <1>24, <2>2, <2>3, <2>4, <4>1
    <3>5. \A x \in 1 .. m : obj'[x].state \in {"failed", "stopped"} => gen'[obj'[x].runtime].record = 0
      <4>1. ASSUME NEW x \in 1 .. m, obj'[x].state \in {"failed", "stopped"} PROVE gen'[obj'[x].runtime].record = 0
        <5>1. x # p
          BY <2>2, <4>1
        <5>2. obj'[x] = obj[x] /\ gen[obj[x].runtime].record = 0 /\ obj[x].runtime \in 1 .. n
          BY <1>23, <2>2, <3>2, <4>1, <5>1
        <5>. QED BY <2>4, <5>2
      <4>. QED BY <4>1
    <3>. QED BY <1>1, <2>1, <2>2, <2>3, <2>4, <2>6, <3>3, <3>5 DEF Matched, p
  <2>13. CleanedUp'
    <3>1. SUFFICES ASSUME slips' \cap {"loaded over", "put back"} = {} PROVE CleanedUp'
      BY DEF CleanedUp
    <3>2. slips \cap {"loaded over", "put back"} = {}
      BY <1>3, <3>1
    <3>3. /\ \A j \in 1 .. n : gen[j].record = 0 => gen[j].scope = "closed" /\ gen[j].bindings = "dropped"
          /\ \A j \in 1 .. n : j \notin Retained \cup Draining => gen[j].record = 0
          /\ \A x \in 1 .. m : obj[x].state = "active" /\ gen[obj[x].runtime].record = x => obj[x].runtime = Routed
      BY <1>1, <3>2 DEF Inv, CleanedUp, n, m
    <3>4. \A j \in 1 .. n + 1 : gen'[j].record = 0 => gen'[j].scope = "closed" /\ gen'[j].bindings = "dropped"
      BY <1>2, <1>24, <2>3, <2>4, <3>3
    <3>5. \A j \in 1 .. n + 1 : j \notin Retained' \cup Draining' => gen'[j].record = 0
      BY <1>2, <1>20, <1>22, <1>23, <2>4, <2>5, <2>6, <3>3
    <3>6. Routed # 0 => gen[Routed].record = p
      BY <3>2 DEF Inv, Matched, p
    <3>7. ASSUME NEW x \in 1 .. m, x # p, obj'[x].state = "active", gen'[obj'[x].runtime].record = x PROVE FALSE
      <4>1. obj[x].state = "active" /\ gen[obj[x].runtime].record = x /\ obj[x].runtime \in 1 .. n
        BY <1>2, <1>20, <1>22, <1>23, <2>2, <2>4, <3>7
      <4>. QED BY <3>3, <3>6, <3>7, <4>1
    <3>. QED BY <1>1, <2>2, <2>4, <2>6, <3>4, <3>5, <3>7 DEF CleanedUp
  <2>. QED BY <1>6, <2>6, <2>7, <2>8, <2>9, <2>10, <2>11, <2>13, <2>14 DEF Inv
<1>9. CASE LoadRaises(d) /\ obj' = Reloaded(obj, p, "failed", "error", n + 1)
  <2>1. UNCHANGED snapshots /\ gen' = Append(gen, FailedGeneration(d)) /\ active' = active
    BY <1>9 DEF LoadRaises
  <2>2. /\ obj' \in Seq(Objs(n + 1)) /\ Len(obj') = m
        /\ obj'[p].state = "failed" /\ obj'[p].status = "error" /\ obj'[p].runtime = n + 1
        /\ \A x \in 1 .. m : x # p => obj'[x] = obj[x]
    <3>. HIDE DEF n, p
    <3>1. obj' = Reloaded(obj, p, "failed", "error", n + 1)
      BY <1>9 DEF n, p
    <3>2. obj' \in Seq(Objs(n + 1)) /\ HasLoaded(obj', obj, p, "failed", "error", n + 1)
      BY <1>2, <1>20, <3>1, Reloads
    <3>. QED BY <3>2 DEF HasLoaded
  <2>. DEFINE g == FailedGeneration(d)
  <2>3. g \in Gens(m) /\ g.record = 0 /\ g.scope = "closed" /\ g.bindings = "dropped"
    BY <1>2, <1>20, <1>21, GenerationsTyped
  <2>. HIDE DEF g
  <2>4. /\ gen' \in Seq(Gens(m)) /\ Len(gen') = n + 1 /\ gen'[n + 1] = g
        /\ \A j \in 1 .. n : gen'[j] = gen[j]
    BY <1>20, <2>1, <2>2, <2>3, Grows DEF g
  <2>5. MovesTo(Routed) /\ Retained' = Retained /\ Draining' = Draining
    BY <1>20, <2>1, <2>4, StillMoves DEF Inv
  <2>6. Snaps' /\ Routed' = Routed
    BY <2>5 DEF MovesTo
  <2>. HIDE DEF p, n, m, d
  <2>7. Registry'
    BY <1>1, <1>2, <1>20, <2>1, <2>2, <2>4 DEF Inv, Registry, p, n, m
  <2>8. Ledger' /\ Operation'
    <3>1. unbacked' \subseteq 1 .. Len(gen')
      <4>1. DOMAIN gen' = 1 .. n + 1
        BY <2>4, LenProperties
      <4>. QED BY <1>1, <1>20, <2>4, <4>1, LoadsFromEffect DEF Inv, n
    <3>. QED BY <1>1, <1>3, <2>2, <3>1 DEF Inv, Ledger, Operation, m
  <2>9. OneServes'
    BY <1>1, <1>4, <2>1, <2>2, <2>6 DEF OneServes, p
  <2>13. Distinct'
    BY <1>2, <1>23, <1>24, <2>2 DEF Inv, Distinct, m
  <2>10. Recorded'
    BY <1>2, <1>20, <1>22, <1>23, <2>4, <2>5 DEF Inv, Recorded
  <2>11. ASSUME "loaded over" \notin slips'
         PROVE  /\ \A j \in 1 .. n : gen[j].record # 0 =>
                     obj[gen[j].record].runtime = j /\ gen[j].scope = "open"
                /\ \A x \in 1 .. m : obj[x].state \in {"failed", "stopped"} => gen[obj[x].runtime].record = 0
                /\ gen[obj[p].runtime].record = 0 /\ Routed = 0
    <3>1. "loaded over" \notin slips /\ gen[obj[p].runtime].record = 0
      BY <1>5, <2>11
    <3>2. Routed = 0
      BY <1>1, <3>1 DEF Inv, Matched, p, MayPrepare
    <3>. QED BY <3>1, <3>2 DEF Inv, Matched, n, m
  <2>12. Matched'
    <3>1. SUFFICES ASSUME "loaded over" \notin slips' PROVE Matched'
      BY DEF Matched
    <3>2. \A j \in 1 .. n + 1 : gen'[j].record # 0 =>
            obj'[gen'[j].record].runtime = j /\ gen'[j].scope = "open"
      <4>1. ASSUME NEW j \in 1 .. n, gen[j].record # 0
            PROVE  obj'[gen[j].record].runtime = j /\ gen[j].scope = "open"
        <5>1. gen[j].record \in 1 .. m /\ obj[gen[j].record].runtime = j /\ gen[j].record # p
          BY <1>25, <2>11, <3>1, <4>1
        <5>. QED BY <2>2, <2>11, <3>1, <4>1, <5>1
      <4>. QED BY <1>24, <2>2, <2>3, <2>4, <4>1
    <3>4. \A x \in 1 .. m : obj'[x].state \in {"failed", "stopped"} => gen'[obj'[x].runtime].record = 0
      <4>1. ASSUME NEW x \in 1 .. m, x # p, obj'[x].state \in {"failed", "stopped"}
            PROVE  gen'[obj'[x].runtime].record = 0
        <5>1. obj'[x] = obj[x] /\ gen[obj[x].runtime].record = 0 /\ obj[x].runtime \in 1 .. n
          BY <1>23, <2>2, <2>11, <3>1, <4>1
        <5>. QED BY <2>4, <5>1
      <4>. QED BY <2>2, <2>3, <2>4, <4>1
    <3>. QED BY <1>1, <2>2, <2>4, <2>6, <2>11, <3>1, <3>2, <3>4 DEF Matched
  <2>14. CleanedUp'
    <3>1. SUFFICES ASSUME slips' \cap {"loaded over", "put back"} = {} PROVE CleanedUp'
      BY DEF CleanedUp
    <3>2. slips \cap {"loaded over", "put back"} = {}
      BY <1>3, <3>1
    <3>3. /\ \A j \in 1 .. n : gen[j].record = 0 => gen[j].scope = "closed" /\ gen[j].bindings = "dropped"
          /\ \A j \in 1 .. n : j \notin Retained \cup Draining => gen[j].record = 0
          /\ \A x \in 1 .. m : obj[x].state = "active" /\ gen[obj[x].runtime].record = x => obj[x].runtime = Routed
      BY <1>1, <3>2 DEF Inv, CleanedUp, n, m
    <3>4. \A j \in 1 .. n + 1 : gen'[j].record = 0 => gen'[j].scope = "closed" /\ gen'[j].bindings = "dropped"
      BY <1>24, <2>3, <2>4, <3>3
    <3>5. \A j \in 1 .. n + 1 : j \notin Retained' \cup Draining' => gen'[j].record = 0
      BY <1>24, <2>3, <2>4, <2>5, <3>3
    <3>6. Routed = 0
      BY <2>11, <3>1
    <3>7. ASSUME NEW x \in 1 .. m, obj'[x].state = "active", gen'[obj'[x].runtime].record = x PROVE FALSE
      <4>1. x # p
        BY <2>2, <3>7
      <4>2. obj[x].state = "active" /\ gen[obj[x].runtime].record = x /\ obj[x].runtime \in 1 .. n
        BY <1>2, <1>20, <1>22, <1>23, <2>2, <2>4, <3>7, <4>1
      <4>. QED BY <3>3, <3>6, <4>2
    <3>. QED BY <1>1, <2>2, <2>4, <3>4, <3>5, <3>7 DEF CleanedUp
  <2>. QED BY <1>6, <2>6, <2>7, <2>8, <2>9, <2>10, <2>12, <2>13, <2>14 DEF Inv
<1>. QED BY <1>7, <1>8, <1>9

RefusesToLoad ==
  /\ op = Idle /\ plugins # 0 /\ LoadRefused(plugins, TRUE)
  /\ Slip("loaded over", Unretired(plugins)) /\ LoadsFrom(obj[plugins].digest)
  /\ UNCHANGED <<plugins, packages, op, wanted>>

LEMMA LoadRefusedKeeps ==
  ASSUME Inv, RefusesToLoad
  PROVE  Inv'
<1>. DEFINE p == plugins
            e == [obj[p] EXCEPT !.status = "loading", !.enabled = TRUE]
<1>1. /\ UNCHANGED snapshots /\ UNCHANGED <<plugins, gen, active, store, files, pending, prepared, op>>
      /\ op.step = "none" /\ plugins # 0 /\ obj[p].state \notin MayPrepare
      /\ obj' = [obj EXCEPT ![p] = e]
  BY DEF RefusesToLoad, LoadRefused, Idle, packages
<1>2. p \in 1 .. Len(obj) /\ obj \in Seq(Objs(Len(gen))) /\ obj[p] \in Objs(Len(gen))
  <2>1. plugins \in 0 .. Len(obj) /\ Len(obj) \in Nat /\ TypeOK
    BY InvFacts
  <2>2. p \in 1 .. Len(obj)
    BY <1>1, <2>1
  <2>. QED BY <2>1, <2>2, Typed
<1>3. e \in Objs(Len(gen)) /\ e.state = obj[p].state /\ e.status = "loading" /\ e.runtime = obj[p].runtime
  BY <1>2 DEF Objs, Statuses
<1>4. slips' = slips /\ wanted' = wanted /\ unbacked' = unbacked
  BY <1>1, SlipEffect, LoadsNothing DEF RefusesToLoad, Unretired, Inv
<1>. HIDE DEF e, p
<1>5. obj' \in Seq(Objs(Len(gen))) /\ Replaced(obj', obj, p, e)
  BY <1>1, <1>2, <1>3, Replaces
<1>6. SameObjects
  BY <1>1, <1>3, <1>5 DEF SameObjects, Replaced, Pending
<1>7. Quiet
  BY <1>1, <1>4, <1>6 DEF Quiet, StepsOn
<1>8. Registry' /\ Ledger' /\ Operation'
  BY <1>1, <1>4, <1>5, <1>6 DEF Inv, Registry, Ledger, Operation, SameObjects
<1>. QED BY <1>1, <1>7, <1>8, QuietKeeps

LEMMA LoadKeeps ==
  ASSUME Inv, Enable \/ ReloadUnloaded
  PROVE  Inv'
<1>1. LoadsInPlace \/ RefusesToLoad
  BY Zenon DEF Enable, ReloadUnloaded, LoadsInPlace, RefusesToLoad, LockFree
<1>. QED BY <1>1, LoadInPlaceKeeps, LoadRefusedKeeps
-----------------------------------------------------------------------------
(* Replacing a generation *)

(* t is obj and a new object for the package d after it.                    *)
Registered(t, d, state, status) ==
  /\ Len(t) = Len(obj) + 1
  /\ t[Len(obj) + 1].state = state /\ t[Len(obj) + 1].status = status
  /\ t[Len(obj) + 1].runtime = Len(gen) + 1 /\ t[Len(obj) + 1].digest = d
  /\ \A x \in 1 .. Len(obj) : t[x] = obj[x]

LEMMA Registers ==
  ASSUME TypeOK, NEW d \in Digests, NEW state \in {"preparing", "active", "failed"},
         NEW status \in {"loaded", "error"}, NEW t, t = Append(obj, Object(d, state, status))
  PROVE  t \in Seq(Objs(Len(gen) + 1)) /\ Registered(t, d, state, status)
<1>. DEFINE e == Object(d, state, status)
<1>1. obj \in Seq(Objs(Len(gen))) /\ Len(gen) \in Nat
  BY Typed
<1>2. obj \in Seq(Objs(Len(gen) + 1))
  BY <1>1, Widens
<1>3. state \in States /\ status \in Statuses /\ Len(gen) + 1 \in 1 .. Len(gen) + 1
  BY <1>1 DEF States, MayPrepare, MayDrain, Statuses
<1>4. /\ e \in Objs(Len(gen) + 1) /\ e.state = state /\ e.status = status /\ e.runtime = Len(gen) + 1
      /\ e.digest = d
  BY <1>3 DEF Object, NewGen, Objs
<1>. HIDE DEF e
<1>5. t \in Seq(Objs(Len(gen) + 1)) /\ Appended(t, obj, e)
  BY <1>2, <1>4, Appends DEF e
<1>. QED BY <1>4, <1>5 DEF Appended, Registered

(* t is gen and a new generation of the package d after it.                 *)
Added(t, g) ==
  Len(t) = Len(gen) + 1 /\ t[Len(gen) + 1] = g /\ \A j \in 1 .. Len(gen) : t[j] = gen[j]

LEMMA Adds1 ==
  ASSUME TypeOK, Len(obj') = Len(obj) + 1, NEW g \in Gens(Len(obj) + 1), gen' = Append(gen, g)
  PROVE  gen' \in Seq(Gens(Len(obj'))) /\ Added(gen', g)
<1>1. Len(obj) \in Nat
  BY Typed
<1>2. Len(obj') \in Nat /\ Len(obj) <= Len(obj') /\ g \in Gens(Len(obj'))
  BY <1>1
<1>. QED BY <1>2, Grows DEF Added

Stages(kind, d, package) ==
  /\ op = Idle /\ Loaded /\ Stage(kind, d, package) /\ UNCHANGED <<wanted, slips>>
  /\ d \in Digests /\ package \in Packages
  /\ \/ kind = "reload" /\ package = NoPackage /\ prepared' = prepared /\ LoadsFrom(d)
     \/ /\ kind = "install" /\ package = prepared /\ d = package.digest
        /\ prepared' = NoPackage /\ UNCHANGED unbacked

StageLoads(kind, d, package) ==
  /\ d \in files
  /\ gen' = Append(gen, Generation(d, Len(obj) + 1))
  /\ obj' = Append(obj, Object(d, "preparing", "loaded"))
  /\ op' = Staged(kind, Len(obj) + 1, plugins, package)
  /\ UNCHANGED files

StageFails(d, package) ==
  /\ gen' = Append(gen, FailedGeneration(d))
  /\ obj' = Append(obj, Object(d, "failed", "error"))
  /\ op' = Idle
  /\ files' = Discarded(package)

LEMMA StageEither ==
  ASSUME NEW kind, NEW d, NEW package, Stages(kind, d, package)
  PROVE  /\ StageLoads(kind, d, package) \/ StageFails(d, package)
         /\ UNCHANGED snapshots /\ UNCHANGED <<plugins, active, store, pending>>
  BY Zenon DEF Stages, Stage, StageLoads, StageFails

(* What holds before a candidate is loaded.                                 *)
LEMMA BeforeStage ==
  ASSUME Inv, NEW kind, NEW d, NEW package, Stages(kind, d, package)
  PROVE  /\ op = Idle /\ op.step = "none" /\ op.cand = 0 /\ ~Pending
         /\ UNCHANGED snapshots /\ UNCHANGED <<plugins, active, store, pending, wanted, slips>>
         /\ prepared' \in Packages
         /\ plugins \in 1 .. Len(obj) /\ obj[plugins].status = "loaded" /\ obj[plugins].state = "active"
         /\ active = obj[plugins].runtime /\ Routed = active
         /\ \A x \in 1 .. Len(obj) : obj[x].state # "preparing"
         /\ \A x \in 1 .. Len(obj) : obj[x].state = "active" /\ obj[x].status = "loaded" => x = plugins
<1>1. /\ op = Idle /\ op.step = "none" /\ op.cand = 0 /\ ~Pending /\ Loaded
      /\ UNCHANGED <<wanted, slips>> /\ prepared' \in {prepared, NoPackage}
  BY DEF Stages, Idle, Pending
<1>2. plugins # 0 /\ obj[plugins].status = "loaded"
  BY <1>1, Zenon DEF Loaded
<1>3. plugins \in 1 .. Len(obj)
  BY <1>2, InvFacts
<1>4. obj[plugins].state = "active"
  BY DEF Stages, Stage
<1>5. active = obj[plugins].runtime /\ Routed = active
  BY <1>1, <1>2, <1>3, <1>4 DEF Inv, OneServes
<1>6. /\ \A x \in 1 .. Len(obj) : obj[x].state # "preparing"
      /\ \A x \in 1 .. Len(obj) : obj[x].state = "active" /\ obj[x].status = "loaded" => x = plugins
  BY <1>1 DEF Inv, OneServes
<1>7. prepared' \in Packages
  BY <1>1 DEF Inv, Ledger, Packages
<1>. QED BY <1>1, <1>2, <1>3, <1>4, <1>5, <1>6, <1>7, StageEither

LEMMA StageBacked ==
  ASSUME Inv, NEW kind, NEW d, NEW package, Stages(kind, d, package),
         gen' \in Seq(Gens(Len(obj) + 1)), Len(gen') = Len(gen) + 1
  PROVE  unbacked' \subseteq 1 .. Len(gen')
<1>1. unbacked \subseteq 1 .. Len(gen) /\ Len(gen) \in Nat /\ TypeOK
  BY InvFacts DEF Inv, Ledger
<1>2. DOMAIN gen' = 1 .. Len(gen) + 1
  BY LenProperties
<1>3. CASE UNCHANGED unbacked
  BY <1>1, <1>3
<1>4. CASE LoadsFrom(d)
  BY <1>1, <1>2, <1>4, LoadsFromEffect DEF Inv
<1>. QED BY <1>3, <1>4 DEF Stages

LEMMA StagedKeeps ==
  ASSUME Inv, NEW kind, NEW d, NEW package, Stages(kind, d, package), StageLoads(kind, d, package)
  PROVE  Inv'
<1>. DEFINE n == Len(gen)
            m == Len(obj)
            g == Generation(d, m + 1)
<1>1. /\ d \in files /\ gen' = Append(gen, g) /\ obj' = Append(obj, Object(d, "preparing", "loaded"))
      /\ files' = files
      /\ op' = [kind |-> kind, step |-> "staged", cand |-> m + 1, prev |-> plugins, package |-> package]
  BY DEF StageLoads, Staged
<1>2. /\ d \in Digests /\ package \in Packages
      /\ \/ kind = "reload" /\ package = NoPackage
         \/ kind = "install" /\ package.digest \in Digests
  BY DEF Stages
<1>3. /\ TypeOK /\ n \in Nat /\ m \in Nat
      /\ Retained \subseteq 1 .. n /\ Routed \in 0 .. n
  BY InvFacts
<1>4. /\ \A x \in 1 .. m : obj[x].runtime \in 1 .. n
      /\ \A j \in 1 .. n : gen[j].record # 0 => gen[j].record \in 1 .. m
  BY InvFacts
<1>5. /\ op.step = "none" /\ op.cand = 0 /\ ~Pending
      /\ UNCHANGED snapshots /\ UNCHANGED <<plugins, active, store, pending, wanted, slips>>
      /\ prepared' \in Packages
      /\ plugins \in 1 .. m /\ obj[plugins].status = "loaded" /\ obj[plugins].state = "active"
      /\ active = obj[plugins].runtime /\ Routed = active
  BY BeforeStage
<1>6. /\ \A x \in 1 .. m : obj[x].state # "preparing"
      /\ \A x \in 1 .. m : obj[x].state = "active" /\ obj[x].status = "loaded" => x = plugins
  BY BeforeStage
<1>7. obj' \in Seq(Objs(n + 1)) /\ Registered(obj', d, "preparing", "loaded")
  BY <1>1, <1>2, <1>3, Registers
<1>8. /\ Len(obj') = m + 1
      /\ obj'[m + 1].state = "preparing" /\ obj'[m + 1].runtime = n + 1
      /\ \A x \in 1 .. m : obj'[x] = obj[x]
  BY <1>7 DEF Registered
<1>9. g \in Gens(m + 1) /\ g.record = m + 1 /\ g.scope = "open" /\ g.digest = d
  BY <1>2, <1>3, GenerationsTyped
<1>10. gen' \in Seq(Gens(m + 1)) /\ Added(gen', g)
  <2>. HIDE DEF g
  <2>. QED BY <1>1, <1>3, <1>8, <1>9, Adds1
<1>. HIDE DEF g
<1>11. Len(gen') = n + 1 /\ gen'[n + 1] = g /\ \A j \in 1 .. n : gen'[j] = gen[j]
  BY <1>10 DEF Added
<1>12. MovesTo(Routed) /\ Retained' = Retained /\ Draining' = Draining /\ Current' = Current
  BY <1>3, <1>5, <1>11, StillMoves DEF Inv
<1>13. Snaps' /\ Routed' = Routed
  BY <1>12 DEF MovesTo
<1>14. \A k \in 1 .. Current' : routes'[k] # n + 1
  <2>1. \A k \in 1 .. Current : routes[k] \in 0 .. n
    BY <1>3, Typed
  <2>2. routes' = routes
    BY <1>5 DEF snapshots
  <2>. QED BY <1>3, <1>12, <2>1, <2>2
<1>15. op'.step = "staged" /\ op'.cand = m + 1 /\ op'.prev = plugins /\ op'.package = package /\ op'.kind = kind
  BY <1>1
<1>. HIDE DEF n, m
<1>16. /\ (\A j \in 1 .. n + 1 : j \in 1 .. n \/ j = n + 1) /\ n + 1 \notin 1 .. n
       /\ (\A x \in 1 .. m + 1 : x \in 1 .. m \/ x = m + 1) /\ m + 1 \notin 1 .. m /\ m + 1 # 0
  BY <1>3
<1>17. Candidate' = n + 1 /\ Pending'
  BY <1>8, <1>15 DEF Candidate, Pending
<1>18. Registry' /\ Ledger'
  <2>1. plugins' \in 0 .. m + 1 /\ active' \in 0 .. n + 1
    BY <1>3, <1>5 DEF m
  <2>2. Registry'
    BY <1>7, <1>8, <1>10, <1>11, <2>1 DEF Registry
  <2>3. unbacked' \subseteq 1 .. Len(gen')
    BY <1>10, <1>11, StageBacked DEF n, m
  <2>4. Ledger'
    BY <1>1, <1>5, <2>3 DEF Inv, Ledger
  <2>. QED BY <2>2, <2>4
<1>19. Operation'
  BY <1>1, <1>2, <1>3, <1>5, <1>8 DEF Operation
<1>20. Staging'
  <2>1. /\ op'.prev # 0 /\ op'.cand # 0 /\ op'.cand # op'.prev /\ plugins' = op'.prev
        /\ obj'[op'.prev].state = "active" /\ obj'[op'.prev].status = "loaded"
        /\ active' = obj'[op'.prev].runtime /\ Routed' = active' /\ Candidate' \notin Retained'
    BY <1>3, <1>5, <1>8, <1>12, <1>13, <1>15, <1>16, <1>17
  <2>2. /\ obj'[op'.cand].state # "active" /\ gen'[Candidate'].record = op'.cand
        /\ gen'[Candidate'].digest \in files' /\ \A k \in 1 .. Current' : routes'[k] # Candidate'
        /\ op'.kind = "install" => op'.package.digest \in Digests
    BY <1>1, <1>2, <1>8, <1>9, <1>11, <1>14, <1>15, <1>17
  <2>. QED BY <1>15, <2>1, <2>2 DEF Staging
<1>21. OneServes'
  BY <1>5, <1>6, <1>8, <1>13, <1>15, <1>16, <1>17 DEF OneServes
<1>22. Recorded'
  BY <1>3, <1>11, <1>12 DEF Inv, Recorded, n
<1>23. Matched'
  <2>1. SUFFICES ASSUME "loaded over" \notin slips PROVE Matched'
    BY <1>5 DEF Matched
  <2>2. /\ \A j \in 1 .. n : gen[j].record # 0 =>
             obj[gen[j].record].runtime = j /\ gen[j].scope = "open"
        /\ \A x \in 1 .. m : obj[x].state \in {"failed", "stopped"} => gen[obj[x].runtime].record = 0
        /\ Routed # 0 => gen[Routed].record = plugins
    BY <2>1 DEF Inv, Matched, n, m
  <2>3. \A j \in 1 .. n + 1 : gen'[j].record # 0 =>
          obj'[gen'[j].record].runtime = j /\ gen'[j].scope = "open"
    BY <1>4, <1>8, <1>9, <1>11, <1>16, <2>2
  <2>5. \A x \in 1 .. m + 1 : obj'[x].state \in {"failed", "stopped"} => gen'[obj'[x].runtime].record = 0
    BY <1>4, <1>8, <1>11, <1>16, <2>2
  <2>7. gen'[Routed'].record = plugins' /\ active' = Routed' /\ obj'[plugins'].state = "active"
    BY <1>4, <1>5, <1>8, <1>11, <1>13, <2>2, <1>3
  <2>. QED BY <1>5, <1>8, <1>11, <2>3, <2>5, <2>7 DEF Matched
<1>25. CleanedUp'
  <2>1. SUFFICES ASSUME slips \cap {"loaded over", "put back"} = {} PROVE CleanedUp'
    BY <1>5 DEF CleanedUp
  <2>2. /\ \A j \in 1 .. n : gen[j].record = 0 => gen[j].scope = "closed" /\ gen[j].bindings = "dropped"
        /\ \A j \in 1 .. n : j \notin Retained \cup Draining => gen[j].record = 0
        /\ \A x \in 1 .. m : obj[x].state = "active" /\ gen[obj[x].runtime].record = x => obj[x].runtime = Routed
    BY <1>5, <2>1 DEF Inv, CleanedUp, n, m
  <2>3. \A j \in 1 .. n + 1 : gen'[j].record = 0 => gen'[j].scope = "closed" /\ gen'[j].bindings = "dropped"
    BY <1>9, <1>11, <1>16, <2>2
  <2>4. \A j \in 1 .. n + 1 : j \notin Retained' \cup Draining' /\ j # Candidate' => gen'[j].record = 0
    BY <1>11, <1>12, <1>16, <1>17, <2>2
  <2>5. \A x \in 1 .. m + 1 :
          obj'[x].state = "active" /\ gen'[obj'[x].runtime].record = x => obj'[x].runtime = Routed'
    BY <1>4, <1>8, <1>11, <1>13, <1>16, <2>2
  <2>. QED BY <1>8, <1>11, <1>15, <1>16, <2>3, <2>4, <2>5 DEF CleanedUp
<1>26. Distinct'
  BY <1>4, <1>8, <1>16 DEF Inv, Distinct, m
<1>. QED BY <1>13, <1>18, <1>19, <1>20, <1>21, <1>22, <1>23, <1>25, <1>26 DEF Inv
LEMMA StageFailsKeeps ==
  ASSUME Inv, NEW kind, NEW d, NEW package, Stages(kind, d, package), StageFails(d, package)
  PROVE  Inv'
<1>. DEFINE n == Len(gen)
            m == Len(obj)
            g == FailedGeneration(d)
<1>1. /\ gen' = Append(gen, g) /\ obj' = Append(obj, Object(d, "failed", "error"))
      /\ files' = Discarded(package) /\ op' = Idle /\ op'.step = "none" /\ op'.cand = 0
  BY DEF StageFails, Idle
<1>2. d \in Digests /\ package \in Packages
  BY DEF Stages
<1>3. /\ TypeOK /\ n \in Nat /\ m \in Nat
      /\ Retained \subseteq 1 .. n /\ Routed \in 0 .. n
  BY InvFacts
<1>4. /\ \A x \in 1 .. m : obj[x].runtime \in 1 .. n
      /\ \A j \in 1 .. n : gen[j].record # 0 => gen[j].record \in 1 .. m
  BY InvFacts
<1>5. /\ op.step = "none" /\ op.cand = 0 /\ ~Pending
      /\ UNCHANGED snapshots /\ UNCHANGED <<plugins, active, store, pending, wanted, slips>>
      /\ prepared' \in Packages
      /\ plugins \in 1 .. m /\ obj[plugins].status = "loaded" /\ obj[plugins].state = "active"
      /\ active = obj[plugins].runtime /\ Routed = active
  BY BeforeStage
<1>6. /\ \A x \in 1 .. m : obj[x].state # "preparing"
      /\ \A x \in 1 .. m : obj[x].state = "active" /\ obj[x].status = "loaded" => x = plugins
  BY BeforeStage
<1>7. obj' \in Seq(Objs(n + 1)) /\ Registered(obj', d, "failed", "error")
  BY <1>1, <1>2, <1>3, Registers
<1>8. /\ Len(obj') = m + 1
      /\ obj'[m + 1].state = "failed" /\ obj'[m + 1].runtime = n + 1
      /\ \A x \in 1 .. m : obj'[x] = obj[x]
  BY <1>7 DEF Registered
<1>9. g \in Gens(m + 1) /\ g.record = 0 /\ g.scope = "closed" /\ g.bindings = "dropped"
  BY <1>2, <1>3, GenerationsTyped
<1>10. gen' \in Seq(Gens(m + 1)) /\ Added(gen', g)
  <2>. HIDE DEF g
  <2>. QED BY <1>1, <1>3, <1>8, <1>9, Adds1
<1>. HIDE DEF g
<1>11. Len(gen') = n + 1 /\ gen'[n + 1] = g /\ \A j \in 1 .. n : gen'[j] = gen[j]
  BY <1>10 DEF Added
<1>12. MovesTo(Routed) /\ Retained' = Retained /\ Draining' = Draining
  BY <1>3, <1>5, <1>11, StillMoves DEF Inv
<1>13. Snaps' /\ Routed' = Routed
  BY <1>12 DEF MovesTo
<1>14. files' \subseteq files /\ ~NoPackage.fresh /\ (~package.fresh => files' = files)
       /\ (package.fresh => files' = files \ {package.digest})
  BY <1>1 DEF Discarded, NoPackage
<1>. HIDE DEF n, m
<1>16. /\ (\A j \in 1 .. n + 1 : j \in 1 .. n \/ j = n + 1) /\ n + 1 \notin 1 .. n
       /\ (\A x \in 1 .. m + 1 : x \in 1 .. m \/ x = m + 1) /\ m + 1 \notin 1 .. m /\ m + 1 # 0
  BY <1>3
<1>18. Registry' /\ Ledger'
  <2>1. plugins' \in 0 .. m + 1 /\ active' \in 0 .. n + 1
    BY <1>3, <1>5 DEF m
  <2>2. Registry'
    BY <1>7, <1>8, <1>10, <1>11, <2>1 DEF Registry
  <2>3. unbacked' \subseteq 1 .. Len(gen')
    BY <1>8, <1>10, <1>11, StageBacked DEF n, m
  <2>4. Ledger'
    BY <1>5, <1>14, <2>3 DEF Inv, Ledger
  <2>. QED BY <2>2, <2>4
<1>19. Operation'
  <2>1. Len(obj') \in Nat
    BY <1>3, <1>8
  <2>. QED BY <1>1, <2>1, NoCandidate DEF Idle
<1>20. Staging'
  BY <1>1 DEF Staging, Pending
<1>21. OneServes'
  BY <1>5, <1>6, <1>8, <1>13, <1>16 DEF OneServes
<1>22. Recorded'
  BY <1>3, <1>11, <1>12 DEF Inv, Recorded, n
<1>23. Matched'
  <2>1. SUFFICES ASSUME "loaded over" \notin slips PROVE Matched'
    BY <1>5 DEF Matched
  <2>2. /\ \A j \in 1 .. n : gen[j].record # 0 =>
             obj[gen[j].record].runtime = j /\ gen[j].scope = "open"
        /\ \A x \in 1 .. m : obj[x].state \in {"failed", "stopped"} => gen[obj[x].runtime].record = 0
        /\ Routed # 0 => gen[Routed].record = plugins
    BY <2>1 DEF Inv, Matched, n, m
  <2>3. \A j \in 1 .. n + 1 : gen'[j].record # 0 =>
          obj'[gen'[j].record].runtime = j /\ gen'[j].scope = "open"
    BY <1>4, <1>8, <1>9, <1>11, <1>16, <2>2
  <2>5. \A x \in 1 .. m + 1 : obj'[x].state \in {"failed", "stopped"} => gen'[obj'[x].runtime].record = 0
    BY <1>4, <1>8, <1>9, <1>11, <1>16, <2>2
  <2>7. gen'[Routed'].record = plugins' /\ active' = Routed' /\ obj'[plugins'].state = "active"
    BY <1>4, <1>5, <1>8, <1>11, <1>13, <2>2, <1>3
  <2>. QED BY <1>1, <1>8, <1>11, <2>3, <2>5, <2>7 DEF Matched
<1>25. CleanedUp'
  <2>1. SUFFICES ASSUME slips \cap {"loaded over", "put back"} = {} PROVE CleanedUp'
    BY <1>5 DEF CleanedUp
  <2>2. /\ \A j \in 1 .. n : gen[j].record = 0 => gen[j].scope = "closed" /\ gen[j].bindings = "dropped"
        /\ \A j \in 1 .. n : j \notin Retained \cup Draining => gen[j].record = 0
        /\ \A x \in 1 .. m : obj[x].state = "active" /\ gen[obj[x].runtime].record = x => obj[x].runtime = Routed
    BY <1>5, <2>1 DEF Inv, CleanedUp, n, m
  <2>3. \A j \in 1 .. n + 1 : gen'[j].record = 0 => gen'[j].scope = "closed" /\ gen'[j].bindings = "dropped"
    BY <1>9, <1>11, <1>16, <2>2
  <2>4. \A j \in 1 .. n + 1 : j \notin Retained' \cup Draining' => gen'[j].record = 0
    BY <1>9, <1>11, <1>12, <1>16, <2>2
  <2>5. \A x \in 1 .. m + 1 :
          obj'[x].state = "active" /\ gen'[obj'[x].runtime].record = x => obj'[x].runtime = Routed'
    BY <1>4, <1>8, <1>11, <1>13, <1>16, <2>2
  <2>. QED BY <1>1, <1>8, <1>11, <2>3, <2>4, <2>5 DEF CleanedUp
<1>26. Distinct'
  BY <1>4, <1>8, <1>16 DEF Inv, Distinct, m
<1>. QED BY <1>13, <1>18, <1>19, <1>20, <1>21, <1>22, <1>23, <1>25, <1>26 DEF Inv

LEMMA StageKeeps ==
  ASSUME Inv, Reload \/ InstallOver
  PROVE  Inv'
<1>1. CASE Reload
  <2>. DEFINE d == obj[plugins].digest
  <2>1. /\ op = Idle /\ Loaded /\ Stage("reload", d, NoPackage) /\ LoadsFrom(d)
        /\ UNCHANGED <<prepared, wanted, slips>>
    BY <1>1 DEF Reload, LockFree
  <2>2. plugins # 0
    BY <2>1, Zenon DEF Loaded
  <2>3. d \in Digests
    BY <2>2, InvFacts
  <2>. HIDE DEF d
  <2>4. Stages("reload", d, NoPackage)
    BY <2>1, <2>3 DEF Stages, Packages
  <2>. QED BY <2>4, StageEither, StagedKeeps, StageFailsKeeps
<1>2. CASE InstallOver
  <2>. DEFINE d == prepared.digest
  <2>1. /\ op = Idle /\ Loaded /\ Stage("install", d, prepared) /\ prepared' = NoPackage
        /\ UNCHANGED <<wanted, slips, unbacked>> /\ prepared # NoPackage
    BY <1>2 DEF InstallOver, history
  <2>2. d \in Digests /\ prepared \in Packages
    BY <2>1 DEF Inv, Ledger, Packages
  <2>. HIDE DEF d
  <2>3. Stages("install", d, prepared)
    BY <2>1, <2>2 DEF Stages, d
  <2>. QED BY <2>3, StageEither, StagedKeeps, StageFailsKeeps
<1>. QED BY <1>1, <1>2
-----------------------------------------------------------------------------
(* Commit, rollback, discard *)

LEMMA WhileStaged ==
  ASSUME Inv, Pending
  PROVE  /\ op.cand \in 1 .. Len(obj) /\ op.prev \in 1 .. Len(obj) /\ op.cand # op.prev /\ plugins = op.prev
         /\ obj[op.prev].state = "active" /\ obj[op.prev].status = "loaded"
         /\ active = obj[op.prev].runtime /\ Routed = active /\ Candidate \notin Retained
         /\ Candidate \in 1 .. Len(gen) /\ Candidate = obj[op.cand].runtime /\ Routed \in Retained
         /\ \A x \in 1 .. Len(obj) :
              obj[x].state = "active" /\ obj[x].status = "loaded" => x = op.prev \/ (op.step = "discard" /\ x = op.cand)
         /\ \A x \in 1 .. Len(obj) : obj[x].state = "preparing" => x = op.cand
<1>1. /\ op.prev # 0 /\ op.cand \notin {0, op.prev} /\ plugins = op.prev
      /\ obj[op.prev].state = "active" /\ obj[op.prev].status = "loaded"
      /\ active = obj[op.prev].runtime /\ Routed = active /\ Candidate \notin Retained
  BY DEF Inv, Staging
<1>2. op.cand \in 1 .. Len(obj) /\ op.prev \in 1 .. Len(obj)
  BY <1>1, InvFacts
<1>3. Candidate \in 1 .. Len(gen) /\ Candidate = obj[op.cand].runtime /\ obj[op.prev].runtime \in 1 .. Len(gen)
  BY <1>2, InvFacts DEF Candidate
<1>4. Routed \in Retained
  BY <1>1, <1>3, InvFacts
<1>5. /\ \A x \in 1 .. Len(obj) :
           obj[x].state = "active" /\ obj[x].status = "loaded" => x = op.prev \/ (op.step = "discard" /\ x = op.cand)
      /\ \A x \in 1 .. Len(obj) : obj[x].state = "preparing" => x = op.cand
  BY <1>1 DEF Inv, OneServes
<1>. QED BY <1>1, <1>2, <1>3, <1>4, <1>5

(* Two objects change their state.                                          *)
CutOvers(c, p, a, b) ==
  /\ Len(obj') = Len(obj)
  /\ obj'[c].state = a /\ obj'[p].state = b
  /\ \A x \in 1 .. Len(obj) : obj'[x].runtime = obj[x].runtime /\ obj'[x].status = obj[x].status
  /\ \A x \in 1 .. Len(obj) : x \notin {c, p} => obj'[x] = obj[x]

LEMMA CutOverEffect ==
  ASSUME NEW n, NEW c \in 1 .. Len(obj), NEW p \in 1 .. Len(obj), c # p, obj \in Seq(Objs(n)),
         NEW a \in States, NEW b \in States, obj' = [obj EXCEPT ![c].state = a, ![p].state = b]
  PROVE  obj' \in Seq(Objs(n)) /\ CutOvers(c, p, a, b)
<1>1. PICK u : /\ u \in Seq(Objs(n)) /\ Becomes(u, obj, c, a)
               /\ obj' \in Seq(Objs(n)) /\ Becomes(obj', u, p, b)
  BY StatesSet
<1>2. /\ Len(u) = Len(obj) /\ u[c].state = a /\ u[c].status = obj[c].status /\ u[c].runtime = obj[c].runtime
      /\ \A k \in 1 .. Len(obj) : k # c => u[k] = obj[k]
  BY <1>1 DEF Becomes
<1>3. /\ Len(obj') = Len(u) /\ obj'[p].state = b /\ obj'[p].status = u[p].status /\ obj'[p].runtime = u[p].runtime
      /\ \A k \in 1 .. Len(u) : k # p => obj'[k] = u[k]
  BY <1>1 DEF Becomes
<1>4. u[p] = obj[p] /\ obj'[c] = u[c]
  BY <1>2, <1>3
<1>5. \A x \in 1 .. Len(obj) : x \notin {c, p} => obj'[x] = obj[x]
  BY <1>2, <1>3
<1>6. \A x \in 1 .. Len(obj) : obj'[x].runtime = obj[x].runtime /\ obj'[x].status = obj[x].status
  BY <1>2, <1>3, <1>4, <1>5
<1>. QED BY <1>1, <1>2, <1>3, <1>4, <1>5, <1>6 DEF CutOvers

LEMMA CommitKeeps ==
  ASSUME Inv, Commit
  PROVE  Inv'
<1>. DEFINE c == op.cand
            p == op.prev
            i == Candidate
            n == Len(gen)
            m == Len(obj)
<1>1. /\ op.step = "staged" /\ Publish(i) /\ plugins' = c /\ active' = i
      /\ UNCHANGED <<gen, store, files, pending, prepared, wanted, slips, unbacked>>
      /\ op' = IF op.kind = "install" THEN [op EXCEPT !.step = "record"] ELSE Idle
  BY DEF Commit, Candidate, packages, history
<1>2. obj' = [obj EXCEPT ![c].state = "active", ![p].state = "draining"]
  BY DEF Commit, CutOver
<1>3. Pending /\ op.step # "discard"
  BY <1>1 DEF Pending
<1>4. /\ c \in 1 .. m /\ p \in 1 .. m /\ c # p /\ plugins = p /\ Routed = active /\ active = obj[p].runtime
      /\ i \in 1 .. n /\ i = obj[c].runtime /\ Routed \in Retained
  BY <1>3, WhileStaged
<1>5. /\ \A x \in 1 .. m : obj[x].state = "active" /\ obj[x].status = "loaded" => x = p
      /\ \A x \in 1 .. m : obj[x].state = "preparing" => x = c
  BY <1>3, WhileStaged
<1>6. /\ gen[i].record = c /\ gen[i].digest \in files
      /\ op.kind = "install" => op.package.digest \in Digests
  BY <1>1 DEF Inv, Staging
<1>7. /\ TypeOK /\ KeptWhileLeased /\ n \in Nat /\ m \in Nat /\ Retained \subseteq 1 .. n /\ 0 \notin Retained
      /\ obj \in Seq(Objs(n))
  BY InvFacts DEF Inv, Registry
<1>8. \A j \in 1 .. n : gen[j].record # 0 => gen[j].record \in 1 .. m
  BY InvFacts
<1>9. \A x \in 1 .. m : obj[x].runtime \in 1 .. n
  BY InvFacts
<1>10. obj' \in Seq(Objs(n)) /\ CutOvers(c, p, "active", "draining")
  <2>1. "active" \in States /\ "draining" \in States
    BY DEF States, MayPrepare, MayDrain
  <2>. HIDE DEF c, p, n
  <2>. QED BY <1>2, <1>4, <1>7, <2>1, CutOverEffect DEF m
<1>11. MovesTo(i) /\ i \in Retained'
  BY <1>1, <1>4, <1>7, PublishMoves
<1>. HIDE DEF c, p, i, n, m
<1>12. /\ Len(obj') = m /\ obj'[c].state = "active" /\ obj'[p].state = "draining"
       /\ \A x \in 1 .. m : obj'[x].runtime = obj[x].runtime /\ obj'[x].status = obj[x].status
       /\ \A x \in 1 .. m : x \notin {c, p} => obj'[x] = obj[x]
  BY <1>10 DEF CutOvers, m
<1>13. /\ Snaps' /\ Routed' = i /\ Retained' \subseteq Retained \cup {i}
       /\ Retained \subseteq Retained' \cup Draining' /\ Draining \subseteq Draining'
  BY <1>11 DEF MovesTo
<1>14. c # 0
  BY <1>4, <1>7
<1>15. Registry'
  BY <1>1, <1>4, <1>7, <1>10, <1>12 DEF Inv, Registry, n, m
<1>16. Ledger'
  BY <1>1 DEF Inv, Ledger
<1>17. /\ op'.step \in {"record", "none"}
       /\ op'.step = "record" => op'.cand = c /\ op'.prev = p /\ op'.package.digest \in Digests
       /\ (op'.step # "record" => op'.cand = 0) /\ Operation'
  <2>1. CASE op.kind = "install"
    <3>1. op' = [kind |-> op.kind, step |-> "record", cand |-> op.cand, prev |-> op.prev, package |-> op.package]
      BY <1>1, <2>1 DEF Inv, Operation
    <3>. QED BY <1>6, <1>12, <2>1, <3>1 DEF Inv, Operation, c, p, m
  <2>2. CASE op.kind # "install"
    <3>1. op' = [kind |-> "none", step |-> "none", cand |-> 0, prev |-> 0, package |-> NoPackage]
      BY <1>1, <2>2 DEF Idle
    <3>2. Operation'
      BY <1>7, <1>12, <3>1, NoCandidate
    <3>. QED BY <3>1, <3>2
  <2>. QED BY <2>1, <2>2
<1>18. Staging'
  <2>1. obj'[c].runtime = i
    BY <1>4, <1>12
  <2>. QED BY <1>1, <1>4, <1>12, <1>13, <1>14, <1>17, <2>1 DEF Staging, Pending
<1>19. OneServes'
  <2>1. ASSUME NEW x \in 1 .. m, obj'[x].state = "active", obj'[x].status = "loaded" PROVE x = c
    BY <1>5, <1>12, <2>1
  <2>2. ASSUME NEW x \in 1 .. m, obj'[x].state = "preparing" PROVE FALSE
    BY <1>5, <1>12, <2>2
  <2>. QED BY <1>1, <1>4, <1>12, <1>13, <2>1, <2>2 DEF OneServes
<1>20. Recorded'
  BY <1>1, <1>6, <1>13, <1>14 DEF Inv, Recorded
<1>21. Matched'
  <2>1. SUFFICES ASSUME "loaded over" \notin slips PROVE Matched'
    BY <1>1 DEF Matched
  <2>2. /\ \A j \in 1 .. n : gen[j].record # 0 =>
             obj[gen[j].record].runtime = j /\ gen[j].scope = "open"
        /\ \A x \in 1 .. m : obj[x].state \in {"failed", "stopped"} => gen[obj[x].runtime].record = 0
    BY <2>1 DEF Inv, Matched, n, m
  <2>3. \A j \in 1 .. n : gen[j].record # 0 =>
          obj'[gen[j].record].runtime = j /\ gen[j].scope = "open"
    BY <1>8, <1>12, <2>2
  <2>5. \A x \in 1 .. m : obj'[x].state \in {"failed", "stopped"} => gen[obj'[x].runtime].record = 0
    BY <1>12, <2>2
  <2>. QED BY <1>1, <1>6, <1>12, <1>13, <2>3, <2>5 DEF Matched, n
<1>23. CleanedUp'
  <2>1. SUFFICES ASSUME slips \cap {"loaded over", "put back"} = {} PROVE CleanedUp'
    BY <1>1 DEF CleanedUp
  <2>2. /\ \A j \in 1 .. n : gen[j].record = 0 => gen[j].scope = "closed" /\ gen[j].bindings = "dropped"
        /\ \A j \in 1 .. n : j \notin Retained \cup Draining /\ j # i => gen[j].record = 0
        /\ \A x \in 1 .. m : obj[x].state = "active" /\ gen[obj[x].runtime].record = x => obj[x].runtime = Routed
    BY <1>3, <2>1 DEF Inv, CleanedUp, n, m, i
  <2>3. \A j \in 1 .. n : j \notin Retained' \cup Draining' => gen[j].record = 0
    BY <1>11, <1>13, <2>2
  <2>4. gen[Routed].record = p
    <3>1. "loaded over" \notin slips /\ Routed # 0
      BY <1>4, <1>7, <2>1
    <3>. QED BY <1>4, <3>1 DEF Inv, Matched
  <2>5. ASSUME NEW x \in 1 .. m, obj'[x].state = "active", gen[obj'[x].runtime].record = x
        PROVE  obj'[x].runtime = i
    <3>1. CASE x = c
      BY <1>4, <1>12, <3>1
    <3>2. CASE x # c
      <4>1. x # p /\ obj'[x] = obj[x]
        BY <1>12, <2>5, <3>2
      <4>. QED BY <2>2, <2>4, <2>5, <4>1
    <3>. QED BY <3>1, <3>2
  <2>. QED BY <1>1, <1>12, <1>13, <2>2, <2>3, <2>5 DEF CleanedUp, n
<1>24. Distinct'
  BY <1>12 DEF Inv, Distinct, m
<1>. QED BY <1>13, <1>15, <1>16, <1>17, <1>18, <1>19, <1>20, <1>21, <1>23, <1>24 DEF Inv

LEMMA DiscardKeeps ==
  ASSUME Inv, DiscardStaged
  PROVE  Inv'
<1>. DEFINE c == op.cand
            p == op.prev
            i == Candidate
            n == Len(gen)
            m == Len(obj)
            g == FailedGeneration(gen[i].digest)
<1>1. /\ op.step = "discard" /\ plugins' = p /\ active' = obj[p].runtime
      /\ UNCHANGED snapshots /\ UNCHANGED <<store, pending, prepared, wanted, slips, unbacked>>
      /\ op' = Idle /\ op'.step = "none" /\ op'.cand = 0 /\ files' = Discarded(op.package)
      /\ gen' = [gen EXCEPT ![i] = g]
  BY DEF DiscardStaged, Candidate, Dropped, history, Idle
<1>2. obj' = [obj EXCEPT ![c].state = "failed", ![p].state = "active"]
  BY DEF DiscardStaged
<1>3. Pending
  BY <1>1 DEF Pending
<1>4. /\ c \in 1 .. m /\ p \in 1 .. m /\ c # p /\ plugins = p /\ Routed = active /\ active = obj[p].runtime
      /\ i \in 1 .. n /\ i = obj[c].runtime /\ Routed \in Retained /\ i \notin Retained
  BY <1>3, WhileStaged
<1>5. /\ \A x \in 1 .. m : obj[x].state = "active" /\ obj[x].status = "loaded" => x \in {c, p}
      /\ \A x \in 1 .. m : obj[x].state = "preparing" => x = c
  BY <1>3, WhileStaged
<1>7. /\ TypeOK /\ n \in Nat /\ m \in Nat /\ Retained \subseteq 1 .. n /\ 0 \notin Retained
      /\ obj \in Seq(Objs(n)) /\ gen \in Seq(Gens(m))
  BY InvFacts DEF Inv, Registry
<1>8. \A j \in 1 .. n : gen[j].record # 0 => gen[j].record \in 1 .. m
  BY InvFacts
<1>9. gen[i].digest \in Digests
  BY <1>4, InvFacts
<1>10. obj' \in Seq(Objs(n)) /\ CutOvers(c, p, "failed", "active")
  <2>1. "active" \in States /\ "failed" \in States
    BY DEF States, MayPrepare, MayDrain
  <2>. HIDE DEF c, p, n
  <2>. QED BY <1>2, <1>4, <1>7, <2>1, CutOverEffect DEF m
<1>11. g \in Gens(m) /\ g.record = 0 /\ g.scope = "closed" /\ g.bindings = "dropped" /\ g.digest = gen[i].digest
  <2>1. 0 \in 0 .. m
    BY <1>7
  <2>. QED BY <1>7, <1>9, <2>1, GenerationsTyped
<1>. HIDE DEF c, p, i, n, m, g
<1>12. gen' \in Seq(Gens(m)) /\ Replaced(gen', gen, i, g)
  BY <1>1, <1>4, <1>7, <1>11, Replaces DEF n
<1>13. Len(gen') = n /\ gen'[i] = g /\ \A j \in 1 .. n : j # i => gen'[j] = gen[j]
  BY <1>12 DEF Replaced, n
<1>14. /\ Len(obj') = m /\ obj'[c].state = "failed" /\ obj'[p].state = "active"
       /\ \A x \in 1 .. m : obj'[x].runtime = obj[x].runtime /\ obj'[x].status = obj[x].status
       /\ \A x \in 1 .. m : x \notin {c, p} => obj'[x] = obj[x]
  BY <1>10 DEF CutOvers, m
<1>15. MovesTo(Routed) /\ Retained' = Retained /\ Draining' = Draining
  BY <1>1, <1>7, <1>13, StillMoves DEF Inv, n
<1>16. Snaps' /\ Routed' = Routed
  BY <1>15 DEF MovesTo
<1>17. files' \subseteq files /\ (~op.package.fresh => files' = files)
       /\ (op.package.fresh => files' = files \ {op.package.digest})
  BY <1>1 DEF Discarded
<1>18. Registry'
  <2>1. plugins' \in 0 .. m /\ active' \in 0 .. n
    BY <1>1, <1>4, <1>7
  <2>. QED BY <1>10, <1>12, <1>13, <1>14, <2>1 DEF Registry
<1>19. Ledger'
  BY <1>1, <1>13, <1>17 DEF Inv, Ledger, n
<1>20. Operation'
  BY <1>1, <1>7, <1>14, NoCandidate DEF Idle
<1>21. Staging'
  BY <1>1 DEF Staging, Pending
<1>22. OneServes'
  <2>1. ASSUME NEW x \in 1 .. m, obj'[x].state = "active", obj'[x].status = "loaded" PROVE x = p
    BY <1>5, <1>14, <2>1
  <2>2. ASSUME NEW x \in 1 .. m, obj'[x].state = "preparing" PROVE FALSE
    BY <1>5, <1>14, <2>2
  <2>. QED BY <1>1, <1>4, <1>14, <1>16, <2>1, <2>2 DEF OneServes
<1>23. Recorded'
  BY <1>4, <1>7, <1>13, <1>15 DEF Inv, Recorded
<1>24. Matched'
  <2>1. SUFFICES ASSUME "loaded over" \notin slips PROVE Matched'
    BY <1>1 DEF Matched
  <2>2. /\ \A j \in 1 .. n : gen[j].record # 0 =>
             obj[gen[j].record].runtime = j /\ gen[j].scope = "open"
        /\ \A x \in 1 .. m : obj[x].state \in {"failed", "stopped"} => gen[obj[x].runtime].record = 0
        /\ gen[Routed].record = p
    <3>1. Routed # 0
      BY <1>4, <1>7
    <3>. QED BY <1>4, <2>1, <3>1 DEF Inv, Matched, n, m
  <2>3. \A j \in 1 .. n : gen'[j].record # 0 =>
          obj'[gen'[j].record].runtime = j /\ gen'[j].scope = "open"
    BY <1>8, <1>11, <1>13, <1>14, <2>2
  <2>5. ASSUME NEW x \in 1 .. m, obj'[x].state \in {"failed", "stopped"} PROVE gen'[obj'[x].runtime].record = 0
    <3>1. CASE obj[x].runtime = i
      BY <1>11, <1>13, <1>14, <3>1
    <3>2. CASE obj[x].runtime # i
      <4>1. x \notin {c, p}
        BY <1>4, <1>14, <2>5, <3>2
      <4>2. obj[x].runtime \in 1 .. n
        BY InvFacts DEF n, m
      <4>. QED BY <1>13, <1>14, <2>2, <2>5, <3>2, <4>1, <4>2
    <3>. QED BY <3>1, <3>2
  <2>6. gen'[Routed] = gen[Routed] /\ obj'[p].state = "active" /\ active' = Routed
    BY <1>1, <1>4, <1>7, <1>13, <1>14
  <2>. QED BY <1>1, <1>13, <1>14, <1>16, <2>2, <2>3, <2>5, <2>6 DEF Matched
<1>26. CleanedUp'
  <2>1. SUFFICES ASSUME slips \cap {"loaded over", "put back"} = {} PROVE CleanedUp'
    BY <1>1 DEF CleanedUp
  <2>2. /\ \A j \in 1 .. n : gen[j].record = 0 => (gen[j].scope = "closed" /\ gen[j].bindings = "dropped") \/ j = i
        /\ \A j \in 1 .. n : j \notin Retained \cup Draining /\ j # i => gen[j].record = 0
        /\ \A x \in 1 .. m : obj[x].state = "active" /\ gen[obj[x].runtime].record = x =>
             obj[x].runtime = Routed \/ x = c
    BY <2>1 DEF Inv, CleanedUp, n, m, i, c
  <2>3. \A j \in 1 .. n : gen'[j].record = 0 => gen'[j].scope = "closed" /\ gen'[j].bindings = "dropped"
    BY <1>11, <1>13, <2>2
  <2>4. \A j \in 1 .. n : j \notin Retained' \cup Draining' => gen'[j].record = 0
    BY <1>11, <1>13, <1>15, <2>2
  <2>5. ASSUME NEW x \in 1 .. m, obj'[x].state = "active", gen'[obj'[x].runtime].record = x
        PROVE  obj'[x].runtime = Routed
    <3>1. CASE x = p
      BY <1>4, <1>14, <3>1
    <3>2. CASE x # p
      <4>1. x # c /\ obj'[x] = obj[x]
        BY <1>14, <2>5, <3>2
      <4>2. obj[x].runtime # i
        <5>1. x # 0
          BY <1>7
        <5>. QED BY <1>11, <1>13, <2>5, <4>1, <5>1
      <4>3. obj[x].runtime \in 1 .. n
        BY InvFacts DEF n, m
      <4>. QED BY <1>13, <2>2, <2>5, <4>1, <4>2, <4>3
    <3>. QED BY <3>1, <3>2
  <2>. QED BY <1>1, <1>13, <1>14, <1>16, <2>3, <2>4, <2>5 DEF CleanedUp
<1>27. Distinct'
  BY <1>14 DEF Inv, Distinct, m
<1>. QED BY <1>16, <1>18, <1>19, <1>20, <1>21, <1>22, <1>23, <1>24, <1>26, <1>27 DEF Inv

LEMMA Extends ==
  ASSUME NEW S, NEW s \in Seq(S), NEW t \in Seq(S)
  PROVE  /\ s \o t \in Seq(S) /\ Len(s \o t) = Len(s) + Len(t)
         /\ DOMAIN s \subseteq DOMAIN (s \o t) /\ \A k \in DOMAIN s : (s \o t)[k] = s[k]
<1>1. /\ s \o t \in Seq(S) /\ Len(s \o t) = Len(s) + Len(t)
      /\ \A k \in 1 .. Len(s) + Len(t) : (s \o t)[k] = IF k <= Len(s) THEN s[k] ELSE t[k - Len(s)]
  BY ConcatProperties
<1>2. /\ DOMAIN s = 1 .. Len(s) /\ DOMAIN (s \o t) = 1 .. Len(s) + Len(t)
      /\ Len(s) \in Nat /\ Len(t) \in Nat
  BY <1>1, LenProperties
<1>. QED BY <1>1, <1>2

(* Routed to i, and back to what was routed before.                         *)
ThereAndBack(i) ==
  /\ Current + 2 <= MaxRevisions /\ Len(gen') = Len(gen)
  /\ routes' = routes \o <<i, Routed>> /\ lease' = lease
  /\ retired' = IF Leased(Current) THEN retired \cup {Current} ELSE retired
  /\ retiring' = retiring \o (IF Leased(Current) THEN <<>> ELSE <<Current>>) \o <<Current + 1>>

LEMMA RollbackMoves ==
  ASSUME TypeOK, KeptWhileLeased, NEW i \in 0 .. Len(gen), ThereAndBack(i)
  PROVE  MovesTo(Routed)
<1>. DEFINE n == Len(routes)
<1>1. /\ routes \in Seq(0 .. Len(gen)) /\ n \in Nat /\ n >= 1 /\ Len(gen) \in Nat /\ Routed \in 0 .. Len(gen)
      /\ n + 2 <= MaxRevisions /\ MaxRevisions \in Nat /\ Routed = routes[n]
  BY Typed, InRange DEF ThereAndBack, Current, Routed
<1>2. retired \subseteq 1 .. n /\ retiring \in Seq(1 .. n) /\ lease \in [Turns -> 0 .. n]
  BY DEF TypeOK, Current
<1>3. routes' \in Seq(0 .. Len(gen)) /\ Len(routes') = n + 2 /\ routes'[n + 2] = Routed
      /\ \A k \in 1 .. n : routes'[k] = routes[k]
  <2>. DEFINE t == <<i, Routed>>
  <2>1. t \in Seq(0 .. Len(gen)) /\ Len(t) = 2 /\ t[2] = Routed
    BY <1>1
  <2>2. routes' = routes \o t
    BY DEF ThereAndBack
  <2>. HIDE DEF t, n
  <2>3. /\ routes' \in Seq(0 .. Len(gen)) /\ Len(routes') = n + 2
        /\ \A k \in 1 .. n + 2 : routes'[k] = IF k <= n THEN routes[k] ELSE t[k - n]
    <3>1. /\ routes \o t \in Seq(0 .. Len(gen)) /\ Len(routes \o t) = Len(routes) + Len(t)
          /\ \A k \in 1 .. Len(routes) + Len(t) :
               (routes \o t)[k] = IF k <= Len(routes) THEN routes[k] ELSE t[k - Len(routes)]
      BY <1>1, <2>1, ConcatProperties
    <3>. QED BY <2>1, <2>2, <3>1 DEF n
  <2>. QED BY <1>1, <2>1, <2>3
<1>4. /\ retiring' \in Seq(1 .. n + 2) /\ DOMAIN retiring \subseteq DOMAIN retiring'
      /\ \A k \in DOMAIN retiring : retiring'[k] = retiring[k]
  <2>. DEFINE t == IF Leased(Current) THEN <<>> ELSE <<Current>>
              u == retiring \o t
              v == <<Current + 1>>
  <2>1. retiring \in Seq(1 .. n + 2)
    BY <1>1, <1>2, Widens
  <2>2. t \in Seq(1 .. n + 2)
    <3>1. Current \in 1 .. n + 2
      BY <1>1 DEF Current
    <3>2. <<>> \in Seq(1 .. n + 2) /\ <<Current>> \in Seq(1 .. n + 2)
      BY <3>1
    <3>. QED BY <3>2
  <2>3. v \in Seq(1 .. n + 2)
    BY <1>1 DEF Current
  <2>4. retiring' = u \o v
    BY DEF ThereAndBack
  <2>. HIDE DEF t, v, n
  <2>5. u \in Seq(1 .. n + 2) /\ DOMAIN retiring \subseteq DOMAIN u /\ \A k \in DOMAIN retiring : u[k] = retiring[k]
    BY <2>1, <2>2, Extends
  <2>. HIDE DEF u
  <2>6. u \o v \in Seq(1 .. n + 2) /\ DOMAIN u \subseteq DOMAIN (u \o v) /\ \A k \in DOMAIN u : (u \o v)[k] = u[k]
    BY <2>3, <2>5, Extends
  <2>. QED BY <2>4, <2>5, <2>6
<1>5. \A k \in DOMAIN retiring : retiring[k] \in 1 .. n
  BY <1>2, ElementOfSeq, LenProperties
<1>6. /\ Leased(n) => retired' = retired \cup {n}
      /\ ~Leased(n) => retired' = retired
      /\ lease' = lease /\ Len(gen') = Len(gen)
  BY DEF ThereAndBack, Current
<1>. HIDE DEF n
<1>7. retired' \subseteq 1 .. n + 2 /\ lease' \in [Turns -> 0 .. n + 2] /\ retired \subseteq retired'
      /\ retired' \subseteq retired \cup {n}
  <2>1. retired' = retired \/ retired' = retired \cup {n}
    BY <1>6
  <2>2. retired \subseteq 1 .. n + 2 /\ n \in 1 .. n + 2 /\ lease' \in [Turns -> 0 .. n + 2]
    BY <1>1, <1>2, <1>6
  <2>. QED BY <2>1, <2>2
<1>8. KeptWhileLeased'
  <2>1. retired = {lease[t] : t \in Turns} \ {0, n}
    BY DEF KeptWhileLeased, Current, n
  <2>2. \A t \in Turns : lease[t] # n + 2
    BY <1>1, <1>2
  <2>3. retired' = {lease[t] : t \in Turns} \ {0}
    <3>1. CASE Leased(n)
      BY <1>1, <1>6, <2>1, <3>1 DEF Leased
    <3>2. CASE ~Leased(n)
      BY <1>6, <2>1, <3>2 DEF Leased
    <3>. QED BY <3>1, <3>2
  <2>4. retired' = {lease[t] : t \in Turns} \ {0, n + 2}
    BY <2>2, <2>3
  <2>. QED BY <1>3, <1>6, <2>4 DEF KeptWhileLeased, Current
<1>9. Snaps'
  BY <1>1, <1>3, <1>4, <1>6, <1>7, <1>8 DEF Snaps, Current
<1>10. Routed' = Routed
  BY <1>3 DEF Routed, Current
<1>11. Draining \subseteq Draining'
  <2>1. \A k \in DOMAIN retiring : routes'[retiring'[k]] = routes[retiring[k]]
    BY <1>3, <1>4, <1>5
  <2>. QED BY <1>4, <2>1 DEF Draining
<1>12. \A k \in retired' : k \in 1 .. n /\ routes'[k] = routes[k]
  BY <1>1, <1>2, <1>3, <1>7
<1>13. Retained' \subseteq (Retained \cup {Routed}) \ {0}
  <2>1. ASSUME NEW x \in Retained' PROVE x \in Retained \cup {Routed} /\ x # 0
    <3>1. PICK k \in retired' \cup {n + 2} : x = routes'[k] /\ x # 0
      BY <1>3 DEF Retained, Current
    <3>2. CASE k = n + 2
      BY <1>3, <3>1, <3>2
    <3>3. CASE k \in retired'
      BY <1>7, <1>12, <3>1, <3>3 DEF Retained, Current, n
    <3>. QED BY <3>1, <3>2, <3>3
  <2>. QED BY <2>1
<1>14. Retained \subseteq Retained'
  <2>1. SUFFICES ASSUME NEW k \in retired \cup {n}, routes[k] # 0 PROVE routes[k] \in Retained'
    BY DEF Retained, Current, n
  <2>2. CASE k \in retired
    BY <1>7, <1>12, <2>1, <2>2 DEF Retained
  <2>3. CASE k = n
    BY <1>1, <1>3, <2>1, <2>3 DEF Retained, Current
  <2>. QED BY <2>2, <2>3
<1>. QED BY <1>9, <1>10, <1>11, <1>13, <1>14 DEF MovesTo

LEMMA CommitRollsBackKeeps ==
  ASSUME Inv, CommitRollsBack
  PROVE  Inv'
<1>. DEFINE c == op.cand
            p == op.prev
            i == Candidate
            n == Len(gen)
            m == Len(obj)
<1>1. /\ op.step = "staged" /\ Current + 2 <= MaxRevisions
      /\ routes' = routes \o <<obj[c].runtime, obj[p].runtime>>
      /\ UNCHANGED <<lease, gen, plugins, active, store, files, pending, prepared, wanted, slips, unbacked>>
      /\ op' = [op EXCEPT !.step = "discard"]
  BY DEF CommitRollsBack, RolledBack, packages, history
<1>2. obj' = [obj EXCEPT ![c].state = "active"]
  BY DEF CommitRollsBack
<1>3. Pending
  BY <1>1 DEF Pending
<1>4. /\ c \in 1 .. m /\ p \in 1 .. m /\ c # p /\ plugins = p /\ Routed = active /\ active = obj[p].runtime
      /\ i \in 1 .. n /\ i = obj[c].runtime /\ Routed \in Retained /\ i \notin Retained
      /\ obj[p].state = "active" /\ obj[p].status = "loaded"
  BY <1>3, WhileStaged
<1>5. /\ \A x \in 1 .. m : obj[x].state = "active" /\ obj[x].status = "loaded" => x \in {c, p}
      /\ \A x \in 1 .. m : obj[x].state = "preparing" => x = c
  BY <1>3, WhileStaged
<1>6. op' = [kind |-> op.kind, step |-> "discard", cand |-> c, prev |-> p, package |-> op.package]
  BY <1>1 DEF Inv, Operation
<1>7. /\ TypeOK /\ KeptWhileLeased /\ n \in Nat /\ m \in Nat /\ Retained \subseteq 1 .. n /\ 0 \notin Retained
      /\ obj \in Seq(Objs(n))
  BY InvFacts DEF Inv, Registry
<1>8. \A j \in 1 .. n : gen[j].record # 0 => gen[j].record \in 1 .. m
  BY InvFacts
<1>9. obj' \in Seq(Objs(n)) /\ Becomes(obj', obj, c, "active")
  <2>1. "active" \in States
    BY DEF States, MayDrain
  <2>. HIDE DEF c, n
  <2>. QED BY <1>2, <1>4, <1>7, <2>1, StateSet DEF m
<1>10. /\ Len(obj') = m /\ obj'[c].state = "active"
       /\ \A x \in 1 .. m : obj'[x].runtime = obj[x].runtime /\ obj'[x].status = obj[x].status
       /\ \A x \in 1 .. m : x # c => obj'[x] = obj[x]
  BY <1>9 DEF Becomes
<1>11. MovesTo(Routed)
  <2>1. ThereAndBack(i)
    BY <1>1, <1>4 DEF CommitRollsBack, ThereAndBack
  <2>2. i \in 0 .. n
    BY <1>4
  <2>. HIDE DEF i
  <2>. QED BY <1>7, <2>1, <2>2, RollbackMoves
<1>. HIDE DEF c, p, i, n, m
<1>12. /\ Snaps' /\ Routed' = Routed /\ Retained' \subseteq Retained
       /\ Retained \subseteq Retained' \cup Draining' /\ Draining \subseteq Draining'
  BY <1>4, <1>11 DEF MovesTo
<1>13. Candidate' = i /\ op'.step = "discard" /\ op'.cand = c /\ op'.prev = p /\ op'.package = op.package
       /\ c # 0 /\ p # 0
  BY <1>4, <1>6, <1>7, <1>10 DEF Candidate
<1>14. Registry' /\ Ledger'
  BY <1>1, <1>9, <1>10 DEF Inv, Registry, Ledger, n, m
<1>15. Operation'
  BY <1>6, <1>10 DEF Inv, Operation, c, p, m
<1>16. Staging'
  BY <1>1, <1>4, <1>10, <1>12, <1>13 DEF Staging, Pending
<1>17. OneServes'
  <2>1. ASSUME NEW x \in 1 .. m, obj'[x].state = "active", obj'[x].status = "loaded" PROVE x \in {c, p}
    BY <1>5, <1>10, <2>1
  <2>2. ASSUME NEW x \in 1 .. m, obj'[x].state = "preparing" PROVE FALSE
    BY <1>5, <1>10, <2>2
  <2>. QED BY <1>1, <1>4, <1>10, <1>12, <1>13, <2>1, <2>2 DEF OneServes
<1>18. Recorded'
  BY <1>1, <1>12 DEF Inv, Recorded
<1>19. Matched'
  <2>1. SUFFICES ASSUME "loaded over" \notin slips PROVE Matched'
    BY <1>1 DEF Matched
  <2>2. /\ \A j \in 1 .. n : gen[j].record # 0 =>
             obj[gen[j].record].runtime = j /\ gen[j].scope = "open"
        /\ \A x \in 1 .. m : obj[x].state \in {"failed", "stopped"} => gen[obj[x].runtime].record = 0
        /\ gen[Routed].record = p
    <3>1. Routed # 0
      BY <1>4, <1>7
    <3>. QED BY <1>4, <2>1, <3>1 DEF Inv, Matched, n, m
  <2>3. \A j \in 1 .. n : gen[j].record # 0 =>
          obj'[gen[j].record].runtime = j /\ gen[j].scope = "open"
    BY <1>8, <1>10, <2>2
  <2>4. \A x \in 1 .. m : obj'[x].state \in {"failed", "stopped"} => gen[obj'[x].runtime].record = 0
    BY <1>10, <2>2
  <2>5. obj'[p].state = "active"
    BY <1>4, <1>10
  <2>. QED BY <1>1, <1>4, <1>10, <1>12, <1>13, <2>2, <2>3, <2>4, <2>5 DEF Matched, n
<1>21. CleanedUp'
  <2>1. SUFFICES ASSUME slips \cap {"loaded over", "put back"} = {} PROVE CleanedUp'
    BY <1>1 DEF CleanedUp
  <2>2. /\ \A j \in 1 .. n : gen[j].record = 0 => gen[j].scope = "closed" /\ gen[j].bindings = "dropped"
        /\ \A j \in 1 .. n : j \notin Retained \cup Draining /\ j # i => gen[j].record = 0
        /\ \A x \in 1 .. m : obj[x].state = "active" /\ gen[obj[x].runtime].record = x => obj[x].runtime = Routed
    BY <1>1, <2>1 DEF Inv, CleanedUp, n, m, i
  <2>3. \A j \in 1 .. n : j \notin Retained' \cup Draining' /\ j # i => gen[j].record = 0
    BY <1>12, <2>2
  <2>4. \A x \in 1 .. m :
          obj'[x].state = "active" /\ gen[obj'[x].runtime].record = x => obj'[x].runtime = Routed \/ x = c
    BY <1>10, <2>2
  <2>. QED BY <1>1, <1>10, <1>12, <1>13, <2>2, <2>3, <2>4 DEF CleanedUp, n
<1>22. Distinct'
  BY <1>10 DEF Inv, Distinct, m
<1>. QED BY <1>12, <1>14, <1>15, <1>16, <1>17, <1>18, <1>19, <1>21, <1>22 DEF Inv
-----------------------------------------------------------------------------
(* An install without a loaded predecessor *)

LEMMA NoneLoaded ==
  ASSUME Inv, op = Idle, prepared # NoPackage, ~Loaded
  PROVE  /\ op.step = "none" /\ op.cand = 0 /\ ~Pending
         /\ prepared.digest \in Digests /\ prepared \in Packages
         /\ plugins # 0 => plugins \in 1 .. Len(obj) /\ obj[plugins].status # "loaded"
         /\ \A x \in 1 .. Len(obj) : ~(obj[x].state = "active" /\ obj[x].status = "loaded")
         /\ \A x \in 1 .. Len(obj) : obj[x].state # "preparing"
<1>1. op.step = "none" /\ op.cand = 0 /\ ~Pending
  BY DEF Idle, Pending
<1>2. prepared.digest \in Digests /\ prepared \in Packages
  BY DEF Inv, Ledger, Packages
<1>3. plugins # 0 => obj[plugins].status # "loaded"
  BY Zenon DEF Loaded
<1>4. plugins # 0 => plugins \in 1 .. Len(obj)
  BY InvFacts
<1>5. \A x \in 1 .. Len(obj) : ~(obj[x].state = "active" /\ obj[x].status = "loaded") /\ obj[x].state # "preparing"
  <2>1. ASSUME NEW x \in 1 .. Len(obj), obj[x].state = "active", obj[x].status = "loaded" PROVE FALSE
    <3>1. x = plugins
      BY <1>1, <2>1 DEF Inv, OneServes
    <3>2. x # 0
      BY InvFacts
    <3>. QED BY <1>3, <2>1, <3>1, <3>2
  <2>2. ASSUME NEW x \in 1 .. Len(obj), obj[x].state = "preparing" PROVE FALSE
    BY <1>1, <2>2 DEF Inv, OneServes
  <2>. QED BY <2>1, <2>2
<1>. QED BY <1>1, <1>2, <1>3, <1>4, <1>5

Recording(c, p, package) ==
  op' = [kind |-> "install", step |-> "record", cand |-> c, prev |-> p, package |-> package]

(* What becomes of the new object and of the one it follows.                *)
Installed(new, c) ==
  \/ /\ plugins = 0 /\ obj' = new /\ plugins' = c /\ UNCHANGED <<files, unbacked>>
     /\ Recording(c, plugins, prepared)
  \/ /\ plugins # 0 /\ obj[plugins].state \in MayDrain
     /\ obj' = [new EXCEPT ![plugins].state = "draining"] /\ plugins' = c /\ UNCHANGED <<files, unbacked>>
     /\ Recording(c, plugins, prepared)
  \/ /\ plugins # 0 /\ obj[plugins].state \notin MayDrain /\ gen[obj[plugins].runtime].record # 0
     /\ obj' = [new EXCEPT ![c].state = "draining"] /\ UNCHANGED <<plugins, files, op>>
     /\ unbacked' = unbacked \cup {NewGen}
  \/ /\ plugins # 0 /\ obj[plugins].state \notin MayDrain /\ gen[obj[plugins].runtime].record = 0
     /\ obj' = new /\ plugins' = c /\ files' = Discarded(prepared) /\ UNCHANGED op
     /\ unbacked' = unbacked \cup {NewGen}

LEMMA InstallNewIs ==
  ASSUME InstallNew
  PROVE  /\ op = Idle /\ prepared # NoPackage /\ ~Loaded
         /\ LoadAndPublish(prepared.digest, Len(obj) + 1)
         /\ Installed(Append(obj, Object(prepared.digest, "active", "loaded")), Len(obj) + 1)
         /\ prepared' = NoPackage /\ UNCHANGED <<store, pending, wanted, slips>>
<1>1. /\ op = Idle /\ prepared # NoPackage /\ ~Loaded
      /\ LoadAndPublish(prepared.digest, Len(obj) + 1)
      /\ prepared' = NoPackage /\ UNCHANGED <<store, pending, wanted, slips>>
  BY Zenon DEF InstallNew
<1>2. Installed(Append(obj, Object(prepared.digest, "active", "loaded")), Len(obj) + 1)
  BY Zenon DEF InstallNew, Installed, Recording, OnRecord
<1>. QED BY <1>1, <1>2

LEMMA InstallNewKeeps ==
  ASSUME Inv, InstallNew
  PROVE  Inv'
<1>. DEFINE n == Len(gen)
            m == Len(obj)
            d == prepared.digest
            g == Generation(d, m + 1)
            new == Append(obj, Object(d, "active", "loaded"))
<1>1. /\ op = Idle /\ prepared # NoPackage /\ ~Loaded /\ Installed(new, m + 1)
      /\ prepared' = NoPackage /\ UNCHANGED <<store, pending, wanted, slips>>
  BY InstallNewIs
<1>2. d \in files /\ gen' = Append(gen, g) /\ active' = n + 1 /\ Publish(n + 1)
  BY InstallNewIs DEF LoadAndPublish, NewGen
<1>3. /\ op.step = "none" /\ op.cand = 0 /\ ~Pending /\ d \in Digests /\ prepared \in Packages
      /\ plugins # 0 => plugins \in 1 .. m /\ obj[plugins].status # "loaded"
      /\ \A x \in 1 .. m : ~(obj[x].state = "active" /\ obj[x].status = "loaded")
      /\ \A x \in 1 .. m : obj[x].state # "preparing"
  BY <1>1, NoneLoaded
<1>4. /\ TypeOK /\ KeptWhileLeased /\ n \in Nat /\ m \in Nat /\ Retained \subseteq 1 .. n /\ Routed \in 0 .. n
      /\ plugins \in 0 .. m
  BY InvFacts
<1>5. /\ \A x \in 1 .. m : obj[x].runtime \in 1 .. n
      /\ \A j \in 1 .. n : gen[j].record # 0 => gen[j].record \in 1 .. m
  BY InvFacts
<1>6. new \in Seq(Objs(n + 1)) /\ Registered(new, d, "active", "loaded")
  BY <1>3, <1>4, Registers
<1>7. g \in Gens(m + 1) /\ g.record = m + 1 /\ g.scope = "open" /\ g.digest = d
  BY <1>3, <1>4, GenerationsTyped
<1>. HIDE DEF new, d, g
<1>8. /\ Len(new) = m + 1 /\ new[m + 1].state = "active" /\ new[m + 1].status = "loaded"
      /\ new[m + 1].runtime = n + 1 /\ \A x \in 1 .. m : new[x] = obj[x]
  BY <1>6 DEF Registered
<1>9. /\ m + 1 \in 1 .. Len(new) /\ (plugins # 0 => plugins \in 1 .. Len(new)) /\ m + 1 # 0 /\ m + 1 \notin 1 .. m
      /\ (\A x \in 1 .. m + 1 : x \in 1 .. m \/ x = m + 1)
      /\ (\A j \in 1 .. n + 1 : j \in 1 .. n \/ j = n + 1) /\ n + 1 \notin 1 .. n /\ n + 1 # 0
  BY <1>3, <1>4, <1>8
<1>10. "draining" \in States
  BY DEF States, MayDrain
<1>11. /\ obj' \in Seq(Objs(n + 1)) /\ Len(obj') = m + 1 /\ obj'[m + 1].runtime = n + 1
       /\ \A x \in 1 .. m : /\ obj'[x].runtime = obj[x].runtime /\ obj'[x].status = obj[x].status
                            /\ obj'[x].state = obj[x].state \/ obj'[x].state = "draining"
       /\ \/ obj'[m + 1].state = "active" /\ plugins' = m + 1
          \/ obj'[m + 1].state = "draining" /\ plugins' = plugins /\ plugins # 0
             /\ obj[plugins].state \notin MayDrain /\ gen[obj[plugins].runtime].record # 0
       /\ plugins # 0 /\ obj[plugins].state \in MayDrain => obj'[plugins].state = "draining"
  <2>1. CASE obj' = new /\ plugins' = m + 1 /\ (plugins = 0 \/ obj[plugins].state \notin MayDrain)
    BY <1>6, <1>8, <2>1
  <2>2. CASE plugins # 0 /\ obj' = [new EXCEPT ![plugins].state = "draining"] /\ plugins' = m + 1
    <3>1. obj' \in Seq(Objs(n + 1)) /\ Becomes(obj', new, plugins, "draining")
      BY <1>6, <1>9, <1>10, <2>2, StateSet
    <3>2. plugins \in 1 .. m
      BY <1>3, <2>2
    <3>. QED BY <1>8, <1>9, <2>2, <3>1, <3>2 DEF Becomes
  <2>3. CASE /\ plugins # 0 /\ obj' = [new EXCEPT ![m + 1].state = "draining"] /\ plugins' = plugins
             /\ obj[plugins].state \notin MayDrain /\ gen[obj[plugins].runtime].record # 0
    <3>1. obj' \in Seq(Objs(n + 1)) /\ Becomes(obj', new, m + 1, "draining")
      BY <1>6, <1>9, <1>10, <2>3, StateSet
    <3>. QED BY <1>8, <1>9, <2>3, <3>1 DEF Becomes
  <2>. QED BY <1>1, <2>1, <2>2, <2>3, Zenon DEF Installed
<1>12. /\ files' \subseteq files /\ unbacked' \subseteq unbacked \cup {n + 1}
       /\ op' = op \/ (Recording(m + 1, plugins, prepared) /\ plugins' = m + 1)
  <2>1. files' = files \/ files' = Discarded(prepared)
    BY <1>1, Zenon DEF Installed
  <2>2. files' \subseteq files
    BY <2>1 DEF Discarded
  <2>3. \/ unbacked' = unbacked /\ Recording(m + 1, plugins, prepared) /\ plugins' = m + 1
        \/ unbacked' = unbacked \cup {n + 1} /\ op' = op
    BY <1>1, Zenon DEF Installed, NewGen
  <2>. QED BY <2>2, <2>3
<1>13. \/ op' = op /\ op'.step = "none" /\ op'.cand = 0
       \/ /\ op'.step = "record" /\ op'.cand = m + 1 /\ op'.prev = plugins /\ op'.package = prepared
          /\ op' = [kind |-> "install", step |-> "record", cand |-> m + 1, prev |-> plugins, package |-> prepared]
          /\ plugins' = m + 1 /\ obj'[m + 1].state = "active"
  <2>1. plugins' = m + 1 => obj'[m + 1].state = "active"
    BY <1>3, <1>9, <1>11
  <2>. QED BY <1>3, <1>12, <2>1 DEF Recording
<1>14. gen' \in Seq(Gens(m + 1)) /\ Added(gen', g)
  BY <1>2, <1>4, <1>7, <1>11, Adds1 DEF g
<1>15. Len(gen') = n + 1 /\ gen'[n + 1] = g /\ \A j \in 1 .. n : gen'[j] = gen[j]
  BY <1>14 DEF Added
<1>16. MovesTo(n + 1) /\ n + 1 \in Retained'
  BY <1>2, <1>4, <1>15, PublishMoves
<1>. HIDE DEF n, m
<1>17. /\ Snaps' /\ Routed' = n + 1 /\ Retained' \subseteq Retained \cup {n + 1}
       /\ Retained \subseteq Retained' \cup Draining' /\ Draining \subseteq Draining'
  BY <1>16 DEF MovesTo
<1>18. Registry'
  <2>1. plugins' \in 0 .. m + 1 /\ active' \in 0 .. n + 1
    BY <1>2, <1>4, <1>11
  <2>. QED BY <1>11, <1>14, <1>15, <2>1 DEF Registry
<1>19. Ledger'
  <2>1. prepared' \in Packages
    BY <1>1 DEF Packages
  <2>2. unbacked' \subseteq 1 .. Len(gen')
    <3>1. unbacked \subseteq 1 .. n
      BY DEF Inv, Ledger, n
    <3>2. 1 .. n \subseteq 1 .. Len(gen') /\ n + 1 \in 1 .. Len(gen')
      BY <1>4, <1>15
    <3>. QED BY <1>12, <3>1, <3>2
  <2>. QED BY <1>1, <1>12, <2>1, <2>2 DEF Inv, Ledger
<1>20. Operation'
  <2>1. 0 .. m \subseteq 0 .. Len(obj') /\ m + 1 \in 0 .. Len(obj') /\ plugins \in 0 .. Len(obj')
    BY <1>4, <1>11
  <2>. QED BY <1>3, <1>13, <2>1 DEF Inv, Operation, m
<1>21. ~Pending'
  BY <1>13 DEF Pending
<1>22. Staging'
  <2>1. op'.step = "record" =>
          /\ op'.cand \notin {0, op'.prev} /\ plugins' = op'.cand /\ obj'[op'.cand].state = "active"
          /\ active' = obj'[op'.cand].runtime /\ Routed' = active' /\ op'.package.digest \in Digests
    BY <1>2, <1>3, <1>4, <1>9, <1>11, <1>13, <1>17 DEF d
  <2>. QED BY <1>13, <1>21, <2>1 DEF Staging, Pending
<1>23. OneServes'
  <2>2. ASSUME NEW x \in 1 .. m + 1, obj'[x].state = "active", obj'[x].status = "loaded"
        PROVE  x = plugins' /\ active' = obj'[x].runtime /\ Routed' = active'
    <3>1. x = m + 1
      BY <1>3, <1>9, <1>11, <2>2
    <3>. QED BY <1>2, <1>11, <1>17, <2>2, <3>1
  <2>3. \A x \in 1 .. m + 1 : obj'[x].state # "preparing"
    BY <1>3, <1>9, <1>11
  <2>. QED BY <1>11, <2>2, <2>3 DEF OneServes
<1>24. Recorded'
  BY <1>4, <1>7, <1>9, <1>15, <1>17 DEF Inv, Recorded
<1>25. "loaded over" \notin slips => obj'[m + 1].state = "active" /\ plugins' = m + 1
  <2>1. ASSUME "loaded over" \notin slips, plugins # 0, obj[plugins].state \notin MayDrain
        PROVE  gen[obj[plugins].runtime].record = 0
    <3>2. plugins \in 1 .. m
      BY <1>3, <2>1
    <3>3. obj[plugins].state \in States
      BY <1>4, <3>2, Typed DEF Objs, m
    <3>4. obj[plugins].state = "stopped"
      BY <2>1, <3>3 DEF States, MayPrepare, MayDrain
    <3>. QED BY <2>1, <3>2, <3>4 DEF Inv, Matched, m
  <2>. QED BY <1>11, <2>1
<1>26. Matched'
  <2>1. SUFFICES ASSUME "loaded over" \notin slips PROVE Matched'
    BY <1>1 DEF Matched
  <2>2. /\ \A j \in 1 .. n : gen[j].record # 0 =>
             obj[gen[j].record].runtime = j /\ gen[j].scope = "open"
        /\ \A x \in 1 .. m : obj[x].state \in {"failed", "stopped"} => gen[obj[x].runtime].record = 0
    BY <2>1 DEF Inv, Matched, n, m
  <2>3. \A j \in 1 .. n + 1 : gen'[j].record # 0 =>
          obj'[gen'[j].record].runtime = j /\ gen'[j].scope = "open"
    BY <1>5, <1>7, <1>9, <1>11, <1>15, <2>2
  <2>5. \A x \in 1 .. m + 1 : obj'[x].state \in {"failed", "stopped"} => gen'[obj'[x].runtime].record = 0
    BY <1>5, <1>9, <1>11, <1>15, <2>2
  <2>6. gen'[Routed'].record = plugins' /\ active' = Routed' /\ obj'[plugins'].state = "active"
    BY <1>2, <1>7, <1>15, <1>17, <1>25, <2>1
  <2>. QED BY <1>11, <1>15, <2>3, <2>5, <2>6 DEF Matched
<1>28. CleanedUp'
  <2>2. SUFFICES ASSUME slips \cap {"loaded over", "put back"} = {} PROVE CleanedUp'
    BY <1>1 DEF CleanedUp
  <2>3. /\ \A j \in 1 .. n : gen[j].record = 0 => gen[j].scope = "closed" /\ gen[j].bindings = "dropped"
        /\ \A j \in 1 .. n : j \notin Retained \cup Draining => gen[j].record = 0
        /\ \A x \in 1 .. m : obj[x].state = "active" /\ gen[obj[x].runtime].record = x => obj[x].runtime = Routed
    BY <1>3, <2>2 DEF Inv, CleanedUp, n, m
  <2>4. Routed # 0 => gen[Routed].record = plugins
    BY <2>2 DEF Inv, Matched
  <2>5. \A j \in 1 .. n + 1 : gen'[j].record = 0 => gen'[j].scope = "closed" /\ gen'[j].bindings = "dropped"
    BY <1>7, <1>9, <1>15, <2>3
  <2>6. \A j \in 1 .. n + 1 : j \notin Retained' \cup Draining' => gen'[j].record = 0
    BY <1>9, <1>15, <1>16, <1>17, <2>3
  <2>7. ASSUME NEW x \in 1 .. m, obj'[x].state = "active", gen'[obj'[x].runtime].record = x PROVE FALSE
    <3>1. obj[x].state = "active" /\ gen[obj[x].runtime].record = x /\ obj[x].runtime \in 1 .. n
      BY <1>5, <1>11, <1>15, <2>7
    <3>2. x = plugins /\ x # 0
      BY <1>4, <2>3, <2>4, <3>1
    <3>. QED BY <1>11, <2>7, <3>1, <3>2 DEF MayDrain
  <2>8. \A x \in 1 .. m + 1 :
          obj'[x].state = "active" /\ gen'[obj'[x].runtime].record = x => obj'[x].runtime = Routed'
    BY <1>9, <1>11, <1>17, <2>7
  <2>9. op'.cand # 0 => Candidate' = n + 1
    BY <1>11, <1>13 DEF Candidate
  <2>. QED BY <1>11, <1>15, <1>16, <2>5, <2>6, <2>8, <2>9 DEF CleanedUp
<1>29. Distinct'
  <2>1. \A x, y \in 1 .. m : obj[x].runtime = obj[y].runtime => x = y
    BY DEF Inv, Distinct, m
  <2>2. \A x \in 1 .. m : obj'[x].runtime = obj[x].runtime /\ obj'[x].runtime # n + 1
    BY <1>5, <1>9, <1>11
  <2>3. \A x, y \in 1 .. m + 1 : obj'[x].runtime = obj'[y].runtime => x = y
    BY <1>9, <1>11, <2>1, <2>2
  <2>. QED BY <1>11, <2>3 DEF Distinct
<1>. QED BY <1>17, <1>18, <1>19, <1>20, <1>22, <1>23, <1>24, <1>26, <1>28, <1>29 DEF Inv

(* What becomes of the new object and of the one put back.                  *)
PutBack(new) ==
  \/ plugins = 0 /\ obj' = new /\ plugins' = Len(new)
  \/ /\ plugins # 0 /\ obj[plugins].state \in MayActivate /\ plugins' = plugins
     /\ obj' = [new EXCEPT ![plugins].state = "active"]
  \/ plugins # 0 /\ obj' = new /\ plugins' = plugins

LEMMA InstallFailsIs ==
  ASSUME InstallFails
  PROVE  /\ op = Idle /\ prepared # NoPackage /\ ~Loaded
         /\ gen' = Append(gen, FailedGeneration(prepared.digest)) /\ UNCHANGED <<snapshots, active>>
         /\ PutBack(Append(obj, Object(prepared.digest, "failed", "error")))
         /\ files' = Discarded(prepared) /\ prepared' = NoPackage
         /\ Slip("put back", plugins # 0 /\ obj[plugins].state = "draining")
         /\ UNCHANGED <<op, store, pending, wanted, unbacked>>
  BY Zenon DEF InstallFails, LoadRaises, PutBack

LEMMA InstallFailsKeeps ==
  ASSUME Inv, InstallFails
  PROVE  Inv'
<1>. DEFINE n == Len(gen)
            m == Len(obj)
            d == prepared.digest
            g == FailedGeneration(d)
            new == Append(obj, Object(d, "failed", "error"))
<1>1. /\ op = Idle /\ prepared # NoPackage /\ ~Loaded /\ PutBack(new) /\ gen' = Append(gen, g)
      /\ UNCHANGED snapshots /\ UNCHANGED <<active, op, store, pending, wanted, unbacked>>
      /\ files' = Discarded(prepared) /\ prepared' = NoPackage
  BY InstallFailsIs
<1>2. /\ slips \subseteq slips' /\ slips' \subseteq {"loaded over", "put back"}
      /\ plugins # 0 /\ obj[plugins].state = "draining" => "put back" \in slips'
      /\ slips' \subseteq slips \cup {"put back"}
  <2>1. Slip("put back", plugins # 0 /\ obj[plugins].state = "draining") /\ Ledger
    BY InstallFailsIs DEF Inv
  <2>2. slips' \subseteq slips \cup {"put back"}
    BY <2>1 DEF Slip
  <2>. QED BY <2>1, <2>2, SlipEffect
<1>3. /\ op.step = "none" /\ op.cand = 0 /\ ~Pending /\ d \in Digests /\ prepared \in Packages
      /\ plugins # 0 => plugins \in 1 .. m /\ obj[plugins].status # "loaded"
      /\ \A x \in 1 .. m : ~(obj[x].state = "active" /\ obj[x].status = "loaded")
      /\ \A x \in 1 .. m : obj[x].state # "preparing"
  BY <1>1, NoneLoaded
<1>4. /\ TypeOK /\ n \in Nat /\ m \in Nat /\ Retained \subseteq 1 .. n /\ Routed \in 0 .. n
      /\ plugins \in 0 .. m /\ active \in 0 .. n
      /\ (Routed # 0 => Routed \in Retained)
  BY InvFacts
<1>5. /\ \A x \in 1 .. m : obj[x].runtime \in 1 .. n
      /\ \A j \in 1 .. n : gen[j].record # 0 => gen[j].record \in 1 .. m
  BY InvFacts
<1>6. new \in Seq(Objs(n + 1)) /\ Registered(new, d, "failed", "error")
  BY <1>3, <1>4, Registers
<1>7. g \in Gens(m + 1) /\ g.record = 0 /\ g.scope = "closed" /\ g.bindings = "dropped"
  BY <1>3, <1>4, GenerationsTyped
<1>8. /\ files' \subseteq files /\ ~NoPackage.fresh /\ (~prepared.fresh => files' = files)
      /\ (prepared.fresh => files' = files \ {prepared.digest})
  BY <1>1 DEF Discarded, NoPackage
<1>. HIDE DEF new, d, g
<1>9. /\ Len(new) = m + 1 /\ new[m + 1].state = "failed" /\ new[m + 1].status = "error"
      /\ new[m + 1].runtime = n + 1 /\ \A x \in 1 .. m : new[x] = obj[x]
  BY <1>6 DEF Registered
<1>10. /\ (plugins # 0 => plugins \in 1 .. Len(new)) /\ m + 1 # 0 /\ m + 1 \notin 1 .. m
       /\ (\A x \in 1 .. m + 1 : x \in 1 .. m \/ x = m + 1)
       /\ (\A j \in 1 .. n + 1 : j \in 1 .. n \/ j = n + 1) /\ n + 1 \notin 1 .. n
  BY <1>3, <1>4, <1>9
<1>11. /\ obj' \in Seq(Objs(n + 1)) /\ Len(obj') = m + 1
       /\ obj'[m + 1].runtime = n + 1 /\ obj'[m + 1].state = "failed" /\ obj'[m + 1].status = "error"
       /\ \A x \in 1 .. m : /\ obj'[x].runtime = obj[x].runtime /\ obj'[x].status = obj[x].status
                            /\ \/ obj'[x].state = obj[x].state
                               \/ x = plugins /\ obj[x].state \in MayActivate /\ obj'[x].state = "active"
       /\ plugins' = IF plugins = 0 THEN m + 1 ELSE plugins
  <2>1. CASE plugins = 0 /\ obj' = new /\ plugins' = Len(new)
    BY <1>6, <1>9, <2>1
  <2>2. CASE /\ plugins # 0 /\ obj[plugins].state \in MayActivate /\ plugins' = plugins
             /\ obj' = [new EXCEPT ![plugins].state = "active"]
    <3>1. "active" \in States
      BY DEF States, MayDrain
    <3>2. obj' \in Seq(Objs(n + 1)) /\ Becomes(obj', new, plugins, "active")
      BY <1>6, <1>10, <2>2, <3>1, StateSet
    <3>3. plugins \in 1 .. m /\ plugins # m + 1 /\ m + 1 \in 1 .. m + 1 /\ \A x \in 1 .. m : x \in 1 .. m + 1
      BY <1>3, <1>4, <1>10, <2>2
    <3>4. /\ Len(obj') = m + 1 /\ obj'[plugins].state = "active"
          /\ obj'[plugins].runtime = new[plugins].runtime /\ obj'[plugins].status = new[plugins].status
          /\ \A x \in 1 .. m + 1 : x # plugins => obj'[x] = new[x]
      BY <1>9, <3>2 DEF Becomes
    <3>5. obj'[m + 1] = new[m + 1] /\ \A x \in 1 .. m : x # plugins => obj'[x] = obj[x]
      BY <1>9, <3>3, <3>4
    <3>. QED BY <1>9, <2>2, <3>2, <3>3, <3>4, <3>5
  <2>3. CASE plugins # 0 /\ obj' = new /\ plugins' = plugins
    BY <1>6, <1>9, <2>3
  <2>. QED BY <1>1, <2>1, <2>2, <2>3, Zenon DEF PutBack
<1>12. gen' \in Seq(Gens(m + 1)) /\ Added(gen', g)
  BY <1>1, <1>4, <1>7, <1>11, Adds1
<1>13. Len(gen') = n + 1 /\ gen'[n + 1] = g /\ \A j \in 1 .. n : gen'[j] = gen[j]
  BY <1>12 DEF Added
<1>14. MovesTo(Routed) /\ Retained' = Retained /\ Draining' = Draining
  BY <1>1, <1>4, <1>13, StillMoves DEF Inv
<1>15. Snaps' /\ Routed' = Routed
  BY <1>14 DEF MovesTo
<1>. HIDE DEF n, m
<1>16. Registry'
  <2>1. plugins' \in 0 .. m + 1 /\ active' \in 0 .. n + 1
    BY <1>1, <1>4, <1>11
  <2>. QED BY <1>11, <1>12, <1>13, <2>1 DEF Registry
<1>17. Ledger'
  <2>1. prepared' \in Packages
    BY <1>1 DEF Packages
  <2>2. unbacked' \subseteq 1 .. Len(gen')
    <3>1. unbacked' \subseteq 1 .. n
      BY <1>1 DEF Inv, Ledger, n
    <3>2. 1 .. n \subseteq 1 .. Len(gen')
      BY <1>4, <1>13
    <3>. QED BY <3>1, <3>2
  <2>. QED BY <1>1, <1>2, <1>8, <2>1, <2>2 DEF Inv, Ledger
<1>18. Operation'
  <2>1. 0 .. m \subseteq 0 .. Len(obj')
    BY <1>4, <1>11
  <2>. QED BY <1>1, <2>1 DEF Inv, Operation, m
<1>19. op'.step = "none" /\ op'.cand = 0 /\ ~Pending'
  BY <1>1, <1>3 DEF Pending
<1>20. Staging'
  BY <1>19 DEF Staging
<1>21. OneServes'
  <2>2. \A x \in 1 .. m + 1 : ~(obj'[x].state = "active" /\ obj'[x].status = "loaded")
    BY <1>3, <1>10, <1>11
  <2>3. \A x \in 1 .. m + 1 : obj'[x].state # "preparing"
    BY <1>3, <1>10, <1>11
  <2>. QED BY <1>11, <2>2, <2>3 DEF OneServes
<1>22. Recorded'
  BY <1>4, <1>13, <1>14 DEF Inv, Recorded
<1>23. Matched'
  <2>1. SUFFICES ASSUME "loaded over" \notin slips' PROVE Matched'
    BY DEF Matched
  <2>2. /\ \A j \in 1 .. n : gen[j].record # 0 =>
             obj[gen[j].record].runtime = j /\ gen[j].scope = "open"
        /\ \A x \in 1 .. m : obj[x].state \in {"failed", "stopped"} => gen[obj[x].runtime].record = 0
        /\ Routed # 0 => gen[Routed].record = plugins /\ active = Routed /\ obj[plugins].state = "active"
    BY <1>2, <2>1 DEF Inv, Matched, n, m
  <2>3. \A j \in 1 .. n + 1 : gen'[j].record # 0 =>
          obj'[gen'[j].record].runtime = j /\ gen'[j].scope = "open"
    BY <1>5, <1>7, <1>10, <1>11, <1>13, <2>2
  <2>5. \A x \in 1 .. m + 1 : obj'[x].state \in {"failed", "stopped"} => gen'[obj'[x].runtime].record = 0
    BY <1>5, <1>7, <1>10, <1>11, <1>13, <2>2
  <2>6. Routed # 0 => /\ gen'[Routed].record = plugins' /\ active' = Routed
                      /\ obj'[plugins'].state = "active"
    <3>1. ASSUME Routed # 0 PROVE plugins \in 1 .. m /\ plugins' = plugins /\ Routed \in 1 .. n
      BY <1>4, <1>5, <1>10, <1>11, <2>2, <3>1 DEF Inv, Recorded
    <3>. QED BY <1>1, <1>11, <1>13, <2>2, <3>1
  <2>. QED BY <1>11, <1>13, <1>15, <2>3, <2>5, <2>6 DEF Matched
<1>25. CleanedUp'
  <2>1. SUFFICES ASSUME slips' \cap {"loaded over", "put back"} = {} PROVE CleanedUp'
    BY DEF CleanedUp
  <2>2. slips \cap {"loaded over", "put back"} = {}
    BY <1>2, <2>1
  <2>3. /\ \A j \in 1 .. n : gen[j].record = 0 => gen[j].scope = "closed" /\ gen[j].bindings = "dropped"
        /\ \A j \in 1 .. n : j \notin Retained \cup Draining => gen[j].record = 0
        /\ \A x \in 1 .. m : obj[x].state = "active" /\ gen[obj[x].runtime].record = x => obj[x].runtime = Routed
    BY <1>3, <2>2 DEF Inv, CleanedUp, n, m
  <2>4. \A x \in 1 .. m : obj[x].state \in {"failed", "stopped"} => gen[obj[x].runtime].record = 0
    BY <2>2 DEF Inv, Matched, m
  <2>5. \A j \in 1 .. n + 1 : gen'[j].record = 0 => gen'[j].scope = "closed" /\ gen'[j].bindings = "dropped"
    BY <1>7, <1>10, <1>13, <2>3
  <2>6. \A j \in 1 .. n + 1 : j \notin Retained' \cup Draining' => gen'[j].record = 0
    BY <1>7, <1>10, <1>13, <1>14, <2>3
  <2>7. ASSUME NEW x \in 1 .. m, obj'[x].state = "active", gen'[obj'[x].runtime].record = x
        PROVE  obj'[x].runtime = Routed
    <3>1. gen[obj[x].runtime].record = x /\ obj'[x].runtime = obj[x].runtime /\ x # 0
      BY <1>4, <1>5, <1>11, <1>13, <2>7
    <3>2. CASE obj[x].state = "active"
      BY <2>3, <3>1, <3>2
    <3>3. CASE obj[x].state # "active"
      <4>1. x = plugins /\ obj[x].state \in {"draining", "failed"}
        BY <1>3, <1>11, <2>7, <3>3 DEF MayActivate
      <4>2. obj[x].state # "failed"
        BY <2>4, <3>1
      <4>. QED BY <1>2, <2>1, <3>1, <4>1, <4>2
    <3>. QED BY <3>2, <3>3
  <2>8. \A x \in 1 .. m + 1 :
          obj'[x].state = "active" /\ gen'[obj'[x].runtime].record = x => obj'[x].runtime = Routed'
    BY <1>10, <1>11, <1>15, <2>7
  <2>. QED BY <1>11, <1>13, <1>19, <2>5, <2>6, <2>8 DEF CleanedUp
<1>26. Distinct'
  BY <1>5, <1>10, <1>11 DEF Inv, Distinct, m
<1>. QED BY <1>15, <1>16, <1>17, <1>18, <1>20, <1>21, <1>22, <1>23, <1>25, <1>26 DEF Inv

(* The candidate drains, its predecessor is routed again if it can be.      *)
LEMMA InstallUndoneKeeps ==
  ASSUME Inv, InstallUndone
  PROVE  Inv'
<1>. DEFINE c == op.cand
            p == op.prev
            k == obj[p].runtime
            i == Candidate
            n == Len(gen)
            m == Len(obj)
            back == [obj EXCEPT ![c].state = "draining", ![p].state = "active"]
<1>1. /\ op.step = "record" /\ OnRecord(p) /\ plugins' = p /\ op' = Idle
      /\ unbacked' = unbacked \cup {i}
      /\ UNCHANGED <<gen, store, pending, prepared, wanted, slips>>
  BY DEF InstallUndone, Candidate
<1>2. \/ /\ obj[p].state \in MayActivate /\ active' = k /\ Publish(k) /\ files' = Discarded(op.package)
         /\ obj' = [obj EXCEPT ![c].state = "draining", ![p].state = "active", ![p].status = "loaded"]
      \/ /\ obj[p].state \notin MayActivate /\ UNCHANGED <<snapshots, active, files>>
         /\ obj' = [obj EXCEPT ![c].state = "draining"]
  BY DEF InstallUndone
<1>3. p # 0 /\ gen[k].record # 0
  BY <1>1, Zenon DEF OnRecord
<1>4. /\ c \in 1 .. m /\ p \in 1 .. m /\ c # p /\ plugins = c /\ obj[c].state = "active"
      /\ active = i /\ Routed = i /\ i = obj[c].runtime
  BY <1>1, <1>3, InvFacts DEF Inv, Staging, Candidate
<1>5. /\ TypeOK /\ KeptWhileLeased /\ n \in Nat /\ m \in Nat /\ Retained \subseteq 1 .. n /\ 0 \notin Retained
      /\ obj \in Seq(Objs(n)) /\ k \in 1 .. n /\ i \in 1 .. n /\ i \in Retained
      /\ \A x \in 1 .. m : obj[x].runtime \in 1 .. n
      /\ \A j \in 1 .. n : gen[j].record # 0 => gen[j].record \in 1 .. m
  BY <1>4, InvFacts, Typed
<1>6. /\ \A x \in 1 .. m : obj[x].state = "active" /\ obj[x].status = "loaded" => x = c
      /\ \A x \in 1 .. m : obj[x].state # "preparing"
  BY <1>1, <1>4 DEF Inv, OneServes, Pending
<1>. HIDE DEF c, p, k, i, n, m
<1>7. /\ obj' \in Seq(Objs(n)) /\ Len(obj') = m /\ obj'[c].state = "draining"
      /\ \A x \in 1 .. m : obj'[x].runtime = obj[x].runtime
      /\ \A x \in 1 .. m : x \notin {c, p} => obj'[x] = obj[x]
      /\ obj[p].state \in MayActivate => obj'[p].state = "active"
      /\ obj[p].state \notin MayActivate => obj'[p].state = obj[p].state
  <2>1. "draining" \in States /\ "active" \in States /\ "loaded" \in Statuses
    BY DEF States, MayPrepare, MayDrain, Statuses
  <2>2. CASE obj[p].state \in MayActivate
    <3>1. obj' = [back EXCEPT ![p].status = "loaded"]
      BY <1>2, <2>2
    <3>2. PICK u : /\ u \in Seq(Objs(n)) /\ Becomes(u, obj, c, "draining")
                   /\ back \in Seq(Objs(n)) /\ Becomes(back, u, p, "active")
      BY <1>4, <1>5, <2>1, StatesSet DEF m
    <3>. HIDE DEF back
    <3>3. /\ Len(back) = m /\ back[c].state = "draining" /\ back[p].state = "active"
          /\ \A x \in 1 .. m : back[x].runtime = obj[x].runtime
          /\ \A x \in 1 .. m : x \notin {c, p} => back[x] = obj[x]
      BY <1>4, <3>2 DEF Becomes, m
    <3>. DEFINE e == [back[p] EXCEPT !.status = "loaded"]
    <3>4. back[p] \in Objs(n)
      BY <1>4, <3>2, <3>3, ElementOfSeq
    <3>5. e \in Objs(n) /\ e.state = "active" /\ e.runtime = back[p].runtime
      BY <2>1, <3>3, <3>4 DEF Objs
    <3>6. obj' = [back EXCEPT ![p] = e] /\ p \in 1 .. Len(back)
      BY <1>4, <3>1, <3>3
    <3>. HIDE DEF e
    <3>7. obj' \in Seq(Objs(n)) /\ Replaced(obj', back, p, e)
      BY <3>2, <3>5, <3>6, Replaces
    <3>. QED BY <1>4, <2>2, <3>3, <3>5, <3>7 DEF Replaced
  <2>3. CASE obj[p].state \notin MayActivate
    <3>1. obj' = [obj EXCEPT ![c].state = "draining"]
      BY <1>2, <2>3
    <3>2. obj' \in Seq(Objs(n)) /\ Becomes(obj', obj, c, "draining")
      BY <1>4, <1>5, <2>1, <3>1, StateSet DEF m
    <3>. QED BY <1>4, <2>3, <3>2 DEF Becomes, m
  <2>. QED BY <2>2, <2>3
<1>8. /\ \/ Routed' = k /\ active' = k /\ Retained' \subseteq Retained \cup {k} /\ obj[p].state \in MayActivate
         \/ Routed' = i /\ active' = i /\ Retained' = Retained /\ obj[p].state \notin MayActivate
      /\ Snaps' /\ Retained \subseteq Retained' \cup Draining' /\ Draining \subseteq Draining'
      /\ files' \subseteq files
  <2>1. gen' = gen /\ Len(gen) \in Nat /\ Discarded(op.package) \subseteq files
    BY <1>1, <1>5 DEF n, Discarded
  <2>2. CASE obj[p].state \in MayActivate
    <3>1. Publish(k) /\ active' = k /\ files' = Discarded(op.package) /\ k \in 0 .. Len(gen')
      BY <1>2, <1>5, <2>1, <2>2 DEF n
    <3>2. MovesTo(k)
      BY <1>5, <2>1, <3>1, PublishMoves
    <3>. QED BY <2>1, <2>2, <3>1, <3>2 DEF MovesTo
  <2>3. CASE obj[p].state \notin MayActivate
    <3>1. UNCHANGED snapshots /\ active' = active /\ files' = files
      BY <1>2, <2>3
    <3>2. MovesTo(Routed) /\ Retained' = Retained /\ Draining' = Draining
      BY <2>1, <3>1, StillMoves DEF Inv
    <3>. QED BY <1>4, <2>3, <3>1, <3>2 DEF MovesTo
  <2>. QED BY <2>2, <2>3
<1>9. op'.step = "none" /\ op'.cand = 0 /\ ~Pending'
  BY <1>1 DEF Idle, Pending
<1>10. Registry' /\ Ledger'
  <2>1. plugins' \in 0 .. m /\ active' \in 0 .. n
    BY <1>1, <1>4, <1>5, <1>8
  <2>2. Registry'
    BY <1>1, <1>7, <2>1 DEF Inv, Registry, n, m
  <2>3. unbacked' \subseteq 1 .. Len(gen')
    BY <1>1, <1>5 DEF Inv, Ledger, n
  <2>4. Ledger'
    BY <1>1, <1>8, <2>3 DEF Inv, Ledger
  <2>. QED BY <2>2, <2>4
<1>11. Operation'
  BY <1>1, <1>5, <1>7, NoCandidate DEF Idle
<1>12. Staging'
  BY <1>9 DEF Staging
<1>13. OneServes'
  <2>1. ASSUME NEW x \in 1 .. m, obj'[x].state = "active", obj'[x].status = "loaded"
        PROVE  x = plugins' /\ active' = obj'[x].runtime /\ Routed' = active'
    <3>1. x = p
      BY <1>6, <1>7, <2>1
    <3>2. obj[p].state \in MayActivate
      BY <1>4, <1>6, <1>7, <2>1, <3>1 DEF MayActivate
    <3>. QED BY <1>1, <1>4, <1>7, <1>8, <3>1, <3>2 DEF k
  <2>2. ASSUME NEW x \in 1 .. m, obj'[x].state = "preparing" PROVE FALSE
    BY <1>6, <1>7, <2>2
  <2>. QED BY <1>7, <2>1, <2>2 DEF OneServes
<1>14. Recorded'
  BY <1>1, <1>3, <1>5, <1>8 DEF Inv, Recorded
<1>15. "loaded over" \notin slips =>
         /\ \A j \in 1 .. n : gen[j].record # 0 =>
              obj[gen[j].record].runtime = j /\ gen[j].scope = "open"
         /\ \A x \in 1 .. m : obj[x].state \in {"failed", "stopped"} => gen[obj[x].runtime].record = 0
         /\ gen[k].record = p /\ gen[i].record = c /\ obj[p].state \in MayActivate
  <2>. SUFFICES ASSUME "loaded over" \notin slips
                PROVE  /\ \A j \in 1 .. n : gen[j].record # 0 =>
                            obj[gen[j].record].runtime = j /\ gen[j].scope = "open"
                       /\ \A x \in 1 .. m :
                            obj[x].state \in {"failed", "stopped"} => gen[obj[x].runtime].record = 0
                       /\ gen[k].record = p /\ gen[i].record = c /\ obj[p].state \in MayActivate
    OBVIOUS
  <2>1. /\ \A j \in 1 .. n : gen[j].record # 0 =>
             obj[gen[j].record].runtime = j /\ gen[j].scope = "open"
        /\ \A x \in 1 .. m : obj[x].state \in {"failed", "stopped"} => gen[obj[x].runtime].record = 0
        /\ gen[i].record = c
    BY <1>4, <1>5 DEF Inv, Matched, n, m
  <2>2. gen[k].record = p
    BY <1>3, <1>4, <1>5, <2>1 DEF Inv, Distinct, k, m
  <2>3. obj[p].state \in States
    <3>1. obj[p] \in Objs(n)
      BY <1>4, <1>5, ElementOfSeq DEF m
    <3>. QED BY <3>1 DEF Objs
  <2>4. obj[p].state # "stopped"
    BY <1>3, <1>4, <2>1 DEF k
  <2>. QED BY <2>1, <2>2, <2>3, <2>4 DEF States, MayPrepare, MayDrain, MayActivate
<1>16. Matched'
  <2>1. SUFFICES ASSUME "loaded over" \notin slips PROVE Matched'
    BY <1>1 DEF Matched
  <2>2. obj'[p].state = "active" /\ Routed' = k /\ active' = k
    BY <1>7, <1>8, <1>15, <2>1
  <2>3. \A j \in 1 .. n : gen[j].record # 0 =>
          obj'[gen[j].record].runtime = j /\ gen[j].scope = "open"
    BY <1>5, <1>7, <1>15, <2>1
  <2>4. \A x \in 1 .. m : obj'[x].state \in {"failed", "stopped"} => gen[obj'[x].runtime].record = 0
    BY <1>7, <1>15, <2>1, <2>2
  <2>. QED BY <1>1, <1>7, <1>15, <2>1, <2>2, <2>3, <2>4 DEF Matched, n
<1>17. CleanedUp'
  <2>1. SUFFICES ASSUME slips \cap {"loaded over", "put back"} = {} PROVE CleanedUp'
    BY <1>1 DEF CleanedUp
  <2>2. /\ \A j \in 1 .. n : gen[j].record = 0 => gen[j].scope = "closed" /\ gen[j].bindings = "dropped"
        /\ \A j \in 1 .. n : j \notin Retained \cup Draining /\ j # i => gen[j].record = 0
        /\ \A x \in 1 .. m : obj[x].state = "active" /\ gen[obj[x].runtime].record = x => obj[x].runtime = Routed
    BY <1>1, <2>1 DEF Inv, CleanedUp, n, m, i
  <2>3. \A j \in 1 .. n : j \notin Retained' \cup Draining' => gen[j].record = 0
    BY <1>5, <1>8, <2>2
  <2>4. ASSUME NEW x \in 1 .. m, obj'[x].state = "active", gen[obj'[x].runtime].record = x
        PROVE  obj'[x].runtime = Routed'
    <3>1. x # c
      BY <1>7, <2>4
    <3>2. CASE x = p
      BY <1>4, <1>7, <1>8, <1>15, <2>1, <3>2 DEF k
    <3>3. CASE x # p
      <4>1. obj'[x] = obj[x]
        BY <1>7, <3>1, <3>3
      <4>2. obj[x].runtime = i
        BY <1>4, <2>2, <2>4, <4>1
      <4>3. gen[i].record = c
        BY <1>15, <2>1
      <4>. QED BY <2>4, <3>1, <4>1, <4>2, <4>3
    <3>. QED BY <3>2, <3>3
  <2>. QED BY <1>1, <1>7, <1>9, <2>2, <2>3, <2>4 DEF CleanedUp, n
<1>18. Distinct'
  BY <1>7 DEF Inv, Distinct, m
<1>. QED BY <1>8, <1>10, <1>11, <1>12, <1>13, <1>14, <1>16, <1>17, <1>18 DEF Inv

-----------------------------------------------------------------------------
(* The invariant is inductive *)

LEMMA InitInv == Init => Inv
<1>. SUFFICES ASSUME Init PROVE Inv
  OBVIOUS
<1>1. /\ routes = <<0>> /\ retired = {} /\ retiring = <<>> /\ lease = [t \in Turns |-> 0]
      /\ gen = <<>> /\ obj = <<>> /\ plugins = 0 /\ active = 0
      /\ store = NoInstall /\ files = {} /\ pending = {} /\ prepared = NoPackage
      /\ op = Idle /\ wanted = FALSE /\ slips = {} /\ unbacked = {}
  BY DEF Init
<1>2. Len(gen) = 0 /\ Len(obj) = 0 /\ Current = 1 /\ routes[1] = 0 /\ DOMAIN retiring = {}
  BY <1>1 DEF Current
<1>3. Retained = {} /\ Routed = 0 /\ Draining = {}
  BY <1>1, <1>2 DEF Retained, Routed, Draining
<1>4. op.step = "none" /\ op.cand = 0 /\ ~Pending /\ prepared.fresh = FALSE
  BY <1>1 DEF Idle, NoPackage, Pending
<1>5. Snaps
  <2>1. KeptWhileLeased
    BY <1>1, <1>2 DEF KeptWhileLeased
  <2>2. routes \in Seq(0 .. Len(gen)) /\ retiring \in Seq(1 .. Current)
    BY <1>1, <1>2
  <2>. QED BY <1>1, <1>2, <2>1, <2>2, GenerationBounds DEF Snaps
<1>6. Registry
  BY <1>1, <1>2 DEF Registry
<1>7. Ledger
  BY <1>1 DEF Ledger, NoInstall, Packages
<1>8. Operation
  BY <1>1, <1>2 DEF Operation, Idle, Packages
<1>9. Distinct /\ Staging /\ OneServes /\ Recorded
  BY <1>1, <1>2, <1>3, <1>4 DEF Distinct, Staging, OneServes, Recorded, Pending
<1>10. Matched /\ CleanedUp
  BY <1>1, <1>2, <1>3, <1>4 DEF Matched, CleanedUp
<1>. QED BY <1>5, <1>6, <1>7, <1>8, <1>9, <1>10 DEF Inv

LEMMA InvStep == Inv /\ [Next]_vars => Inv'
<1>. SUFFICES ASSUME Inv, [Next]_vars PROVE Inv'
  OBVIOUS
<1>1. CASE UNCHANGED vars
  <2>1. /\ UNCHANGED snapshots
        /\ UNCHANGED <<gen, obj, plugins, active, store, files, pending, prepared, op, wanted, slips, unbacked>>
    BY <1>1 DEF vars, snapshots
  <2>2. Registry' /\ Ledger' /\ Operation'
    BY <2>1 DEF Inv, Registry, Ledger, Operation
  <2>. QED BY <2>1, <2>2, QuietKeeps DEF Quiet, SameObjects, StepsOn
<1>2. ASSUME NEW t \in Turns, Acquire(t) \/ Release(t) PROVE Inv'
  BY <1>2, AcquireKeeps, ReleaseKeeps
<1>3. CASE RunRetireTask \/ PublishOther
  BY <1>3, RunRetireTaskKeeps, PublishOtherKeeps
<1>4. CASE Enable \/ ReloadUnloaded
  BY <1>4, LoadKeeps
<1>5. CASE Reload \/ InstallOver
  BY <1>5, StageKeeps
<1>6. CASE Commit \/ GiveUp
  BY <1>6, CommitKeeps, GiveUpKeeps
<1>7. CASE CommitRollsBack \/ DiscardStaged
  BY <1>7, CommitRollsBackKeeps, DiscardKeeps
<1>8. ASSUME NEW d \in Digests, Prepare(d) PROVE Inv'
  BY <1>8, PrepareKeeps
<1>9. CASE InstallNew \/ InstallFails
  BY <1>9, InstallNewKeeps, InstallFailsKeeps
<1>10. CASE RecordInstall \/ InstallStrands \/ BeginDisable \/ BeginUninstall \/ UnloadMissing
  BY <1>10, QuietOperationsKeep
<1>11. CASE Unload \/ FinishUninstall
  BY <1>11, UnloadKeeps, FinishUninstallKeeps
<1>12. CASE InstallUndone
  BY <1>12, InstallUndoneKeeps
<1>. QED BY <1>1, <1>2, <1>3, <1>4, <1>5, <1>6, <1>7, <1>8, <1>9, <1>10, <1>11, <1>12 DEF Next

LEMMA InvAlways == Spec => []Inv
  BY InitInv, InvStep, PTL DEF Spec

-----------------------------------------------------------------------------
(* The packages: a second invariant, which rests on the first *)

(* What is routed, or may be routed again by an install that fails or that  *)
(* is given up: a generation on record whose object is registered, was so   *)
(* until that install, or is its candidate.                                 *)
Registrants ==
  ({plugins} \cup (IF op.step = "record" THEN {op.prev} ELSE {})
             \cup (IF op.step = "staged" THEN {op.cand} ELSE {})) \ {0}
Revivable == {i \in 1 .. Len(gen) : gen[i].record # 0 /\ \E o \in Registrants : obj[o].runtime = i}

InUse == (Retained \cup Revivable) \ unbacked

(* An install that has unpacked its package and not recorded it yet.        *)
Unpacking == op.step = "record" \/ (op.step = "staged" /\ op.kind = "install")

(* The packages on record are on disk, and no install takes one back.       *)
Stored ==
  /\ store.versions \subseteq files
  /\ prepared.fresh => prepared.digest \notin store.versions
  /\ op.package.fresh => op.cand # 0 /\ op.package.digest \notin store.versions
  /\ Unpacking =>
       op.package.digest \in files /\ (prepared.fresh => prepared.digest # op.package.digest)

(* Only the registered object is ACTIVE, and when its generation is still   *)
(* on record it is routed, unless the object was put back.                  *)
ActiveRouted ==
  /\ \A o \in 1 .. Len(obj) :
       obj[o].state = "active" => o = plugins \/ (op.step = "discard" /\ o = op.cand)
  /\ \A o \in 1 .. Len(obj) : obj[o].state = "failed" => gen[obj[o].runtime].record = 0
  /\ "put back" \notin slips /\ plugins # 0 =>
       \/ obj[plugins].state # "active" \/ gen[obj[plugins].runtime].record = 0
       \/ obj[plugins].runtime = Routed

(* The package of a generation in use is on disk, and none that an install  *)
(* may take back, but for that install's own candidate.                     *)
Packaged ==
  "put back" \notin slips => \A i \in InUse :
    /\ gen[i].digest \in files
    /\ prepared.fresh => gen[i].digest # prepared.digest
    /\ op.package.fresh => i = Candidate \/ gen[i].digest # op.package.digest

Packs == Stored /\ ActiveRouted /\ Packaged

LEMMA InUseRange == ASSUME Inv PROVE InUse \subseteq 1 .. Len(gen)
  BY InvFacts DEF InUse, Revivable

(* Nothing comes into use but what a step loads.                            *)
LEMMA UseGrows ==
  ASSUME NEW X, Retained' \subseteq Retained \cup Revivable \cup X, unbacked \subseteq unbacked',
         \A o \in Registrants' :
           (o \in Registrants /\ obj'[o].runtime = obj[o].runtime) \/ obj'[o].runtime \in X,
         \A j \in 1 .. Len(gen') : gen'[j].record # 0 => j \in X \/ (j \in 1 .. Len(gen) /\ gen[j].record # 0)
  PROVE  InUse' \subseteq InUse \cup X
<1>. SUFFICES ASSUME NEW i \in InUse', i \notin X PROVE i \in InUse
  OBVIOUS
<1>1. i \notin unbacked /\ i \in Retained' \cup Revivable'
  BY DEF InUse
<1>2. CASE i \in Retained'
  BY <1>1, <1>2 DEF InUse
<1>3. CASE i \in Revivable'
  <2>1. PICK o \in Registrants' : obj'[o].runtime = i /\ i \in 1 .. Len(gen') /\ gen'[i].record # 0
    BY <1>3 DEF Revivable
  <2>2. o \in Registrants /\ obj[o].runtime = i /\ i \in 1 .. Len(gen) /\ gen[i].record # 0
    BY <2>1
  <2>. QED BY <1>1, <2>2 DEF InUse, Revivable
<1>. QED BY <1>1, <1>2, <1>3

(* A step takes packages away only as the install that unpacked them, and   *)
(* the generations X it loads, if any, have theirs.                         *)
Handles(X) ==
  /\ slips \subseteq slips' /\ store'.versions \subseteq store.versions
  /\ \A d \in files \ files' :
       \/ prepared.fresh /\ d = prepared.digest
       \/ op.package.fresh /\ d = op.package.digest /\ Candidate \notin InUse'
  /\ prepared'.fresh => prepared' = prepared \/ prepared'.digest \notin files
  /\ op'.package.fresh =>
       /\ op'.cand # 0
       /\ (op'.package = op.package /\ Candidate' = Candidate) \/ op'.package = prepared
  /\ \A j \in 1 .. Len(gen) : gen'[j].digest = gen[j].digest
  /\ InUse' \subseteq InUse \cup X
  /\ \A i \in X \cap InUse' :
       /\ gen'[i].digest \in files' /\ (prepared'.fresh => gen'[i].digest # prepared'.digest)
       /\ op'.package.fresh => i = Candidate'

LEMMA PackagesKept ==
  ASSUME Inv, Packs, NEW X, Handles(X),
         Unpacking' =>
           /\ op'.package.digest \in files'
           /\ prepared'.fresh => prepared'.digest # op'.package.digest
  PROVE  Stored' /\ Packaged'
<1>1. /\ store.versions \subseteq files /\ (prepared.fresh => prepared.digest \notin store.versions)
      /\ op.package.fresh => op.package.digest \notin store.versions
  BY DEF Packs, Stored
<1>2. Stored'
  <2>1. store'.versions \subseteq files'
    BY <1>1 DEF Handles
  <2>2. prepared'.fresh => prepared'.digest \notin store'.versions
    BY <1>1 DEF Handles
  <2>3. op'.package.fresh => op'.cand # 0 /\ op'.package.digest \notin store'.versions
    <3>1. op'.package.fresh => op'.package = op.package \/ op'.package = prepared
      BY DEF Handles
    <3>. QED BY <1>1, <3>1 DEF Handles
  <2>. QED BY <2>1, <2>2, <2>3 DEF Stored
<1>3. Packaged'
  <2>1. SUFFICES ASSUME "put back" \notin slips', NEW i \in InUse'
                 PROVE  /\ gen'[i].digest \in files'
                        /\ prepared'.fresh => gen'[i].digest # prepared'.digest
                        /\ op'.package.fresh => i = Candidate' \/ gen'[i].digest # op'.package.digest
    BY DEF Packaged
  <2>2. CASE i \in X
    BY <2>2 DEF Handles
  <2>3. CASE i \notin X
    <3>1. i \in InUse /\ i \in 1 .. Len(gen) /\ gen'[i].digest = gen[i].digest
      BY <2>3, InUseRange DEF Handles
    <3>2. /\ gen[i].digest \in files /\ (prepared.fresh => gen[i].digest # prepared.digest)
          /\ op.package.fresh => i = Candidate \/ gen[i].digest # op.package.digest
      BY <2>1, <3>1 DEF Packs, Packaged, Handles
    <3>3. gen[i].digest \in files'
      <4>1. ASSUME gen[i].digest \notin files' PROVE FALSE
        BY <3>2, <4>1 DEF Handles
      <4>. QED BY <4>1
    <3>4. prepared'.fresh => gen[i].digest # prepared'.digest
      BY <3>2 DEF Handles
    <3>5. op'.package.fresh => i = Candidate' \/ gen[i].digest # op'.package.digest
      <4>1. op'.package.fresh =>
              (op'.package = op.package /\ Candidate' = Candidate) \/ op'.package = prepared
        BY DEF Handles
      <4>2. CASE op'.package = op.package /\ Candidate' = Candidate
        BY <3>2, <4>2
      <4>3. CASE op'.package = prepared
        BY <3>2, <4>3
      <4>. QED BY <4>1, <4>2, <4>3
    <3>. QED BY <3>1, <3>3, <3>4, <3>5
  <2>. QED BY <2>2, <2>3
<1>. QED BY <1>2, <1>3

(* A step that loads nothing, routes to nothing new and makes no object     *)
(* ACTIVE.                                                                  *)
Calm ==
  /\ Len(gen') = Len(gen) /\ Len(obj') = Len(obj)
  /\ \A j \in 1 .. Len(gen) : /\ gen'[j].digest = gen[j].digest
                              /\ gen'[j].record # 0 => gen[j].record # 0
  /\ \A o \in 1 .. Len(obj) :
       /\ obj'[o].runtime = obj[o].runtime
       /\ obj'[o].state = obj[o].state \/ obj'[o].state \notin {"active", "failed"}
  /\ plugins' = plugins \/ (plugins' = 0 /\ obj'[plugins].state # "active")
  /\ Routed' = Routed \/ (plugins # 0 => obj'[plugins].state # "active")
  /\ Retained' \subseteq Retained /\ slips' = slips /\ unbacked \subseteq unbacked'
  /\ \/ op'.step = op.step /\ op'.cand = op.cand /\ op'.prev = op.prev
     \/ op.step = "staged" /\ op'.step = "discard"
     \/ op.step # "discard" /\ op'.step \notin {"staged", "discard", "record"}

LEMMA CalmKeeps ==
  ASSUME Inv, Inv', Packs, Calm
  PROVE  ActiveRouted' /\ InUse' \subseteq InUse
<1>1. /\ plugins \in 0 .. Len(obj) /\ op.cand \in 0 .. Len(obj) /\ op.prev \in 0 .. Len(obj)
      /\ \A o \in 1 .. Len(obj) : obj[o].runtime \in 1 .. Len(gen)
      /\ Len(obj) \in Nat
  BY InvFacts
<1>2. /\ \A o \in 1 .. Len(obj) :
           obj[o].state = "active" => o = plugins \/ (op.step = "discard" /\ o = op.cand)
      /\ \A o \in 1 .. Len(obj) : obj[o].state = "failed" => gen[obj[o].runtime].record = 0
      /\ "put back" \notin slips /\ plugins # 0 =>
           \/ obj[plugins].state # "active" \/ gen[obj[plugins].runtime].record = 0
           \/ obj[plugins].runtime = Routed
  BY DEF Packs, ActiveRouted
<1>3. ActiveRouted'
  <2>1. \A o \in 1 .. Len(obj) :
          obj'[o].state = "active" => o = plugins' \/ (op'.step = "discard" /\ o = op'.cand)
    BY <1>2 DEF Calm
  <2>2. \A o \in 1 .. Len(obj) : obj'[o].state = "failed" => gen'[obj'[o].runtime].record = 0
    BY <1>1, <1>2 DEF Calm
  <2>3. "put back" \notin slips' /\ plugins' # 0 =>
          \/ obj'[plugins'].state # "active" \/ gen'[obj'[plugins'].runtime].record = 0
          \/ obj'[plugins'].runtime = Routed'
    <3>1. SUFFICES ASSUME "put back" \notin slips', plugins' # 0, obj'[plugins'].state = "active",
                          gen'[obj'[plugins'].runtime].record # 0
                   PROVE  obj'[plugins'].runtime = Routed'
      OBVIOUS
    <3>2. plugins' = plugins
      BY <3>1 DEF Calm
    <3>3. plugins \in 1 .. Len(obj) /\ obj'[plugins].state = "active"
      <4>1. obj'[plugins'] = obj'[plugins] /\ plugins # 0
        BY <3>1, <3>2
      <4>2. plugins \in 1 .. Len(obj)
        BY <1>1, <4>1
      <4>3. obj'[plugins].state = obj'[plugins'].state
        BY <4>1
      <4>. QED BY <3>1, <4>2, <4>3, Zenon
    <3>4. Routed' = Routed /\ obj[plugins].state = "active"
      BY <3>3 DEF Calm
    <3>5. obj'[plugins].runtime = obj[plugins].runtime /\ gen[obj[plugins].runtime].record # 0
      BY <1>1, <3>1, <3>2, <3>3 DEF Calm
    <3>6. slips' = slips
      BY DEF Calm
    <3>. QED BY <1>2, <3>1, <3>2, <3>4, <3>5, <3>6
  <2>. QED BY <2>1, <2>2, <2>3 DEF ActiveRouted, Calm
<1>4. Registrants' \subseteq Registrants /\ Registrants \subseteq 1 .. Len(obj)
  BY <1>1 DEF Calm, Registrants
<1>5. InUse' \subseteq InUse \cup {}
  BY <1>4, UseGrows DEF Calm
<1>. QED BY <1>3, <1>5

(* A calm step that takes no package away but that of the operation it ends. *)
Leaves ==
  /\ store'.versions \subseteq store.versions
  /\ prepared'.fresh => prepared' = prepared \/ prepared'.digest \notin files
  /\ op'.package.fresh \/ op'.step \in {"staged", "record"} =>
       /\ op' = op \/ (op.step = "staged" /\ op' = [op EXCEPT !.step = "discard"])
       /\ files \subseteq files'
  /\ \A d \in files \ files' : op.package.fresh /\ d = op.package.digest /\ Candidate \in unbacked'

LEMMA LeavesKeeps ==
  ASSUME Inv, Inv', Packs, Calm, Leaves
  PROVE  Packs'
<1>1. ActiveRouted' /\ InUse' \subseteq InUse
  BY CalmKeeps
<1>2. op'.package.fresh => op'.cand # 0 /\ op'.package = op.package /\ Candidate' = Candidate
  <2>1. SUFFICES ASSUME op'.package.fresh
                 PROVE  op'.cand # 0 /\ op'.package = op.package /\ Candidate' = Candidate
    OBVIOUS
  <2>2. op' = op \/ op' = [op EXCEPT !.step = "discard"]
    BY <2>1 DEF Leaves
  <2>3. op'.cand = op.cand /\ op'.package = op.package
    BY <2>2 DEF Inv, Operation
  <2>4. op.cand # 0
    BY <2>1, <2>3 DEF Packs, Stored
  <2>5. op.cand \in 1 .. Len(obj)
    BY <2>4, InvFacts
  <2>. QED BY <2>3, <2>4, <2>5 DEF Calm, Candidate
<1>3. Handles({})
  <2>1. \A d \in files \ files' : op.package.fresh /\ d = op.package.digest /\ Candidate \notin InUse'
    BY DEF Leaves, InUse
  <2>. QED BY <1>1, <1>2, <2>1 DEF Handles, Calm, Leaves
<1>4. Unpacking' =>
        op'.package.digest \in files' /\ (prepared'.fresh => prepared'.digest # op'.package.digest)
  <2>1. SUFFICES ASSUME Unpacking'
                 PROVE  op'.package.digest \in files' /\ (prepared'.fresh => prepared'.digest # op'.package.digest)
    OBVIOUS
  <2>2. op' = op /\ files \subseteq files'
    BY <2>1 DEF Leaves, Inv, Operation, Unpacking
  <2>3. op.package.digest \in files /\ (prepared.fresh => prepared.digest # op.package.digest)
    BY <2>1, <2>2 DEF Packs, Stored, Unpacking
  <2>. QED BY <2>2, <2>3 DEF Leaves
<1>. QED BY <1>1, <1>3, <1>4, PackagesKept DEF Packs

LEMMA CalmOperations ==
  ASSUME Inv, Inv', Packs,
         \/ PublishOther \/ GiveUp \/ InstallStrands \/ BeginDisable \/ BeginUninstall \/ UnloadMissing
         \/ \E d \in Digests : Prepare(d)
         \/ \E t \in Turns : Acquire(t)
  PROVE  Packs'
<1>1. Retained \subseteq 1 .. Len(gen) /\ 0 \notin Retained /\ (Routed # 0 => Routed \in Retained)
  BY InvFacts
<1>2. \A x \in {"staged", "discard", "record"} : x \notin {"none", "unload", "finalize"}
  OBVIOUS
<1>3. CASE PublishOther
  <2>1. /\ UNCHANGED <<gen, obj, plugins, active, store, files, pending, prepared, op, slips, unbacked>>
        /\ Publish(Routed)
    BY <1>3 DEF PublishOther, Routed, registry, packages, history
  <2>2. Routed' = Routed /\ Retained' \subseteq Retained
    BY <1>1, <2>1, InvFacts, PublishMoves DEF MovesTo
  <2>. QED BY <2>1, <2>2, LeavesKeeps DEF Calm, Leaves
<1>4. CASE GiveUp
  <2>1. /\ UNCHANGED <<gen, obj, plugins, active, store, files, pending, prepared, slips, unbacked>>
        /\ UNCHANGED snapshots /\ op.step = "staged" /\ op' = [op EXCEPT !.step = "discard"]
    BY <1>4 DEF GiveUp, registry, packages, history
  <2>2. Routed' = Routed /\ Retained' = Retained /\ op'.step = "discard"
    BY <2>1 DEF snapshots, Routed, Retained, Current, Inv, Operation
  <2>. QED BY <2>1, <2>2, LeavesKeeps DEF Calm, Leaves
<1>5. CASE InstallStrands
  <2>1. /\ UNCHANGED <<gen, obj, plugins, active, store, pending, prepared, slips>>
        /\ UNCHANGED snapshots /\ op.step = "record" /\ op' = Idle
        /\ files' = Discarded(op.package) /\ unbacked' = unbacked \cup {Candidate}
    BY <1>5 DEF InstallStrands, registry, Candidate
  <2>2. Routed' = Routed /\ Retained' = Retained /\ op'.step = "none" /\ op'.package.fresh = FALSE
    BY <2>1 DEF snapshots, Routed, Retained, Current, Idle, NoPackage
  <2>3. \A d \in files \ files' : op.package.fresh /\ d = op.package.digest
    BY <2>1 DEF Discarded
  <2>4. Calm
    BY <2>1, <2>2 DEF Calm
  <2>5. Leaves
    BY <2>1, <2>2, <2>3 DEF Leaves
  <2>. QED BY <2>4, <2>5, LeavesKeeps
<1>6. CASE BeginDisable \/ BeginUninstall \/ UnloadMissing
  <2>1. /\ UNCHANGED <<gen, plugins, active, files, prepared, slips, unbacked>> /\ UNCHANGED snapshots
        /\ store'.versions = store.versions
        /\ op.step \notin {"staged", "discard", "record"}
        /\ op'.step \in {"none", "unload"} /\ op'.package.fresh = FALSE
    <3>1. /\ Idle.step = "none" /\ ([Idle EXCEPT !.kind = "disable", !.step = "unload"]).step = "unload"
          /\ ([Idle EXCEPT !.kind = "uninstall", !.step = "unload"]).step = "unload"
          /\ ([Idle EXCEPT !.kind = "disable", !.step = "unload"]).package.fresh = FALSE
          /\ ([Idle EXCEPT !.kind = "uninstall", !.step = "unload"]).package.fresh = FALSE
          /\ Idle.package.fresh = FALSE
      BY DEF Idle, NoPackage
    <3>2. CASE BeginDisable
      BY <3>1, <3>2 DEF BeginDisable, LockFree, packages, history
    <3>3. CASE BeginUninstall
      <4>1. ([store EXCEPT !.status = "pending_removal"]).versions = store.versions
        BY DEF Inv, Ledger
      <4>. QED BY <3>1, <3>3, <4>1 DEF BeginUninstall, LockFree, registry
    <3>4. CASE UnloadMissing
      BY <3>1, <3>4 DEF UnloadMissing, registry, packages, history
    <3>. QED BY <1>6, <3>2, <3>3, <3>4
  <2>2. Routed' = Routed /\ Retained' = Retained
    BY <2>1 DEF snapshots, Routed, Retained, Current
  <2>3. Len(obj') = Len(obj) /\ \A x \in 1 .. Len(obj) : obj'[x].runtime = obj[x].runtime /\ obj'[x].state = obj[x].state
    <3>1. obj' = obj \/ (plugins # 0 /\ obj' = [obj EXCEPT ![plugins].enabled = FALSE])
      BY <1>6 DEF BeginDisable, BeginUninstall, UnloadMissing, registry
    <3>2. obj \in Seq(Objs(Len(gen))) /\ \A x \in 1 .. Len(obj) : obj[x] \in Objs(Len(gen))
      BY InvFacts, Typed
    <3>. QED BY <3>1, <3>2 DEF Objs
  <2>4. Calm
    BY <2>1, <2>2, <2>3 DEF Calm
  <2>5. Leaves
    BY <2>1 DEF Leaves
  <2>. QED BY <2>4, <2>5, LeavesKeeps
<1>7. ASSUME NEW d \in Digests, Prepare(d) PROVE Packs'
  <2>1. /\ UNCHANGED <<gen, obj, plugins, active, store, op, slips, unbacked>> /\ UNCHANGED snapshots
        /\ prepared' = [digest |-> d, fresh |-> d \notin files] /\ files' = files \cup {d}
    BY <1>7 DEF Prepare, registry, history
  <2>2. Routed' = Routed /\ Retained' = Retained /\ (prepared'.fresh => prepared'.digest \notin files)
    BY <2>1 DEF snapshots, Routed, Retained, Current
  <2>3. Calm
    BY <2>1, <2>2 DEF Calm
  <2>4. Leaves
    BY <2>1, <2>2 DEF Leaves
  <2>. QED BY <2>3, <2>4, LeavesKeeps
<1>8. ASSUME NEW t \in Turns, Acquire(t) PROVE Packs'
  <2>1. UNCHANGED <<routes, retired, gen, obj, plugins, active, store, files, prepared, op, slips, unbacked>>
    BY <1>8 DEF Acquire, registry, packages, history
  <2>2. Routed' = Routed /\ Retained' = Retained
    BY <2>1 DEF Routed, Retained, Current
  <2>. QED BY <2>1, <2>2, LeavesKeeps DEF Calm, Leaves
<1>. QED BY <1>3, <1>4, <1>5, <1>6, <1>7, <1>8

(* A removal that is carried out leaves no generation in use.               *)
LEMMA FinalizationKeeps ==
  ASSUME Inv, Inv', Packs, Calm, FinalizeRemoval(gen', obj', Retained'),
         prepared' = prepared, Routed' = Routed,
         op' = op \/ (op.step = "finalize" /\ op' = Idle)
  PROVE  Packs'
<1>1. ActiveRouted' /\ InUse' \subseteq InUse
  BY CalmKeeps
<1>2. op'.step \in {"staged", "record"} => op' = op
  BY DEF Idle
<1>3. op'.package.fresh => op' = op
  BY DEF Idle, NoPackage
<1>4. CASE ~(pending # {} /\ Records(gen') \cap Retained' = {})
  <2>1. UNCHANGED <<files, store, pending, plugins>>
    BY <1>4, Zenon DEF FinalizeRemoval
  <2>2. Leaves
    BY <1>2, <1>3, <2>1 DEF Leaves
  <2>. QED BY <2>2, LeavesKeeps
<1>5. CASE pending # {} /\ Records(gen') \cap Retained' = {}
  <2>1. /\ files' = files \ pending /\ store' = NoInstall /\ pending' = {}
        /\ (plugins' = plugins /\ obj'[plugins].state = "active") \/ plugins' = 0
    BY <1>5, Zenon DEF FinalizeRemoval
  <2>2. Retained' = {} /\ Routed' = 0
    <3>1. Retained' \subseteq 1 .. Len(gen') /\ Recorded'
      BY InvFacts DEF Inv, Calm
    <3>2. gen' \in Seq(Gens(Len(obj')))
      BY DEF Inv, Registry
    <3>3. DOMAIN gen' = 1 .. Len(gen')
      BY <3>2, LenProperties
    <3>4. Routed' # 0 => Routed' \in Retained'
      BY DEF Routed, Retained
    <3>. QED BY <1>5, <3>1, <3>3, <3>4 DEF Records, Recorded
  <2>3. op'.step \notin {"staged", "discard", "record"} /\ op'.cand = 0
    <3>1. op'.step \notin {"staged", "discard", "record"}
      <4>1. \A o \in 1 .. Len(obj') : obj'[o].runtime # 0
        BY InvFacts DEF Calm
      <4>2. op'.cand \in 0 .. Len(obj') /\ op'.prev \in 0 .. Len(obj')
        BY DEF Inv, Operation
      <4>. QED BY <2>2, <4>1, <4>2 DEF Inv, Staging, Pending
    <3>. QED BY <3>1 DEF Inv, Staging
  <2>4. "put back" \notin slips' => Revivable' = {}
    <3>1. SUFFICES ASSUME "put back" \notin slips', NEW i \in Revivable' PROVE FALSE
      OBVIOUS
    <3>2. PICK o \in Registrants' : obj'[o].runtime = i /\ gen'[i].record # 0 /\ i \in 1 .. Len(gen')
      BY <3>1 DEF Revivable
    <3>3. o = plugins' /\ plugins' # 0
      BY <2>3, <3>2 DEF Registrants
    <3>4. plugins' \in 1 .. Len(obj') /\ obj'[plugins'].state = "active"
      <4>1. plugins' \in 0 .. Len(obj') /\ Len(obj') \in Nat
        BY InvFacts DEF Inv, Registry, Calm
      <4>. QED BY <2>1, <3>3, <4>1
    <3>5. "put back" \notin slips' =>
            \/ obj'[plugins'].state # "active" \/ gen'[obj'[plugins'].runtime].record = 0
            \/ obj'[plugins'].runtime = Routed'
      BY <1>1, <3>3 DEF ActiveRouted
    <3>6. obj'[plugins'].runtime = i /\ gen'[obj'[plugins'].runtime].record # 0 /\ i # 0
      BY <3>2, <3>3
    <3>. QED BY <2>2, <3>1, <3>4, <3>5, <3>6
  <2>5. Packaged'
    BY <2>2, <2>4 DEF Packaged, InUse
  <2>6. ~op'.package.fresh
    BY <1>3, <2>3 DEF Packs, Stored
  <2>7. Stored'
    BY <2>1, <2>3, <2>6 DEF Stored, NoInstall, Unpacking
  <2>. QED BY <1>1, <2>5, <2>7 DEF Packs
<1>. QED BY <1>4, <1>5

LEMMA RetirementsKeep ==
  ASSUME Inv, Inv', Packs, RunRetireTask \/ FinishUninstall \/ \E t \in Turns : Release(t)
  PROVE  Packs'
<1>1. /\ TypeOK /\ Retained \subseteq 1 .. Len(gen) /\ 0 \notin Retained /\ Current \in Nat
      /\ retired \subseteq 1 .. Current /\ retiring \in Seq(1 .. Current)
      /\ \A x \in 1 .. Len(obj) : obj[x].runtime \in 1 .. Len(gen)
  BY InvFacts, Typed DEF Inv, Snaps
(* A retirement is calm. *)
<1>2. ASSUME NEW r \in 1 .. Current, NEW kept, Retire(r, kept), kept \subseteq Retained, Retained' = kept,
             UNCHANGED <<routes, prepared, op, slips, unbacked>>
      PROVE  Packs'
  <2>1. RetireEffect(r, kept) /\ FinalizeRemoval(gen', obj', kept)
    BY <1>1, <1>2, Retires
  <2>2. Routed' = Routed
    BY <1>2 DEF Routed, Current
  <2>3. /\ Len(gen') = Len(gen) /\ Len(obj') = Len(obj)
        /\ \A j \in 1 .. Len(gen) : gen'[j].digest = gen[j].digest /\ (gen'[j].record # 0 => gen[j].record # 0)
        /\ \A x \in 1 .. Len(obj) : /\ obj'[x].runtime = obj[x].runtime
                                    /\ obj'[x].state = obj[x].state \/ obj'[x].state = "stopped"
    BY <2>1 DEF RetireEffect
  <2>4. plugins' = plugins \/ (plugins' = 0 /\ obj'[plugins].state # "active")
    BY <2>1, Zenon DEF FinalizeRemoval
  <2>5. Calm
    BY <1>2, <2>2, <2>3, <2>4 DEF Calm
  <2>6. FinalizeRemoval(gen', obj', Retained')
    BY <1>2, <2>1
  <2>. QED BY <1>2, <2>2, <2>5, <2>6, FinalizationKeeps
<1>3. CASE RunRetireTask
  <2>1. /\ UNCHANGED <<routes, retired, prepared, op, slips, unbacked>>
        /\ retiring # <<>> /\ Retire(Head(retiring), Retained)
    BY <1>3 DEF RunRetireTask, history
  <2>2. Retained' = Retained /\ Head(retiring) \in 1 .. Current
    BY <1>1, <2>1, HeadTailProperties DEF Retained, Current
  <2>. QED BY <1>2, <2>1, <2>2
<1>4. CASE FinishUninstall
  <2>1. /\ UNCHANGED snapshots /\ UNCHANGED <<gen, obj, prepared, slips, unbacked>>
        /\ op.step = "finalize" /\ op' = Idle /\ FinalizeRemoval(gen, obj, Retained)
    BY <1>4 DEF FinishUninstall, history
  <2>2. Retained' = Retained /\ Routed' = Routed
    BY <2>1 DEF snapshots, Retained, Routed, Current
  <2>3. plugins' = plugins \/ (plugins' = 0 /\ obj'[plugins].state # "active")
    BY <2>1, Zenon DEF FinalizeRemoval
  <2>4. Idle.step = "none"
    BY DEF Idle
  <2>5. Calm
    BY <2>1, <2>2, <2>3, <2>4 DEF Calm
  <2>6. FinalizeRemoval(gen', obj', Retained')
    BY <2>1, <2>2
  <2>. QED BY <2>1, <2>2, <2>5, <2>6, FinalizationKeeps
<1>5. ASSUME NEW t \in Turns, Release(t) PROVE Packs'
  <2>. DEFINE r == lease[t]
              kept == {routes[k] : k \in (retired \ {r}) \cup {Current}} \ {0}
  <2>1. /\ UNCHANGED <<routes, prepared, op, slips, unbacked>>
        /\ LastLease(t) => retired' = retired \ {r} /\ Retire(r, kept)
        /\ ~LastLease(t) => UNCHANGED <<retired, gen, obj, plugins, files, store>>
    BY <1>5, Zenon DEF Release, history
  <2>2. CASE LastLease(t)
    <3>1. r \in 1 .. Current /\ retired' = retired \ {r} /\ Retire(r, kept)
      BY <1>1, <2>1, <2>2 DEF LastLease
    <3>2. kept \subseteq Retained
      BY DEF Retained
    <3>3. Retained' = kept
      BY <2>1, <3>1 DEF Retained, Current
    <3>. HIDE DEF r, kept
    <3>. QED BY <1>2, <2>1, <3>1, <3>2, <3>3
  <2>3. CASE ~LastLease(t)
    <3>1. UNCHANGED <<routes, prepared, op, slips, unbacked, retired, gen, obj, plugins, files, store>>
      BY <2>1, <2>3
    <3>2. Retained' = Retained /\ Routed' = Routed
      BY <3>1 DEF Retained, Current, Routed
    <3>. QED BY <3>1, <3>2, LeavesKeeps DEF Calm, Leaves
  <2>. QED BY <2>2, <2>3
<1>. QED BY <1>3, <1>4, <1>5

LEMMA UnloadLeaves ==
  ASSUME Inv, Inv', Packs, Unload
  PROVE  Packs'
<1>1. /\ UNCHANGED <<gen, plugins, store, files, prepared, slips, unbacked>>
      /\ op.step = "unload" /\ plugins # 0
  BY DEF Unload, packages, history
<1>2. /\ plugins \in 1 .. Len(obj) /\ obj \in Seq(Objs(Len(gen))) /\ Len(gen) \in Nat /\ Len(obj) \in Nat
      /\ \A x \in 1 .. Len(obj) : obj[x] \in Objs(Len(gen))
      /\ TypeOK /\ KeptWhileLeased /\ 0 \notin Retained
  BY <1>1, InvFacts, Typed
<1>3. op'.step \in {"none", "finalize"} /\ (op'.package.fresh => op'.package = op.package /\ op'.cand = op.cand)
  <2>1. op' \in {Idle, [op EXCEPT !.step = "finalize"]}
    BY DEF Unload, AfterUnload
  <2>2. ([op EXCEPT !.step = "finalize"]).step = "finalize"
        /\ ([op EXCEPT !.step = "finalize"]).package = op.package /\ ([op EXCEPT !.step = "finalize"]).cand = op.cand
    BY DEF Inv, Operation
  <2>3. Idle.step = "none" /\ ~Idle.package.fresh
    BY DEF Idle, NoPackage
  <2>. QED BY <2>1, <2>2, <2>3
<1>4. ~op'.package.fresh
  <2>1. op.cand = 0
    BY <1>1 DEF Inv, Staging
  <2>. QED BY <1>3, <2>1 DEF Packs, Stored
<1>5. Leaves
  BY <1>1, <1>3, <1>4 DEF Leaves
<1>6. CASE obj[plugins].state \notin MayDrain
  <2>1. UNCHANGED snapshots /\ obj' = obj
    BY <1>6 DEF Unload
  <2>2. Retained' = Retained /\ Routed' = Routed
    BY <2>1 DEF snapshots, Retained, Routed, Current
  <2>3. Calm
    BY <1>1, <1>3, <2>1, <2>2 DEF Calm
  <2>. QED BY <1>5, <2>3, LeavesKeeps
<1>7. CASE obj[plugins].state \in MayDrain
  <2>. DEFINE status == IF obj[plugins].enabled THEN "discovered" ELSE "disabled"
              e == [obj[plugins] EXCEPT !.state = "draining", !.status = status]
  <2>1. obj' = [obj EXCEPT ![plugins].state = "draining", ![plugins].status = status] /\ Unpublish
    BY <1>7 DEF Unload
  <2>2. obj' = [obj EXCEPT ![plugins] = e]
    BY <2>1
  <2>3. e \in Objs(Len(gen)) /\ e.state = "draining" /\ e.runtime = obj[plugins].runtime
    BY <1>2 DEF Objs, States, Statuses, MayDrain
  <2>. HIDE DEF e, status
  <2>4. Replaced(obj', obj, plugins, e)
    BY <1>2, <2>2, <2>3, Replaces
  <2>5. /\ Len(obj') = Len(obj) /\ obj'[plugins].state = "draining"
        /\ \A x \in 1 .. Len(obj) : /\ obj'[x].runtime = obj[x].runtime
                                    /\ obj'[x].state = obj[x].state \/ obj'[x].state = "draining"
    BY <1>2, <2>3, <2>4 DEF Replaced
  <2>6. Retained' \subseteq Retained
    <3>1. CASE Routed # 0
      <4>1. Publish(0)
        BY <2>1, <3>1 DEF Unpublish, Routed
      <4>2. MovesTo(0)
        BY <1>1, <1>2, <4>1, PublishMoves
      <4>. QED BY <4>2 DEF MovesTo
    <3>2. CASE Routed = 0
      BY <2>1, <3>2 DEF Unpublish, Routed, snapshots, Retained, Current
    <3>. QED BY <3>1, <3>2
  <2>7. Calm
    BY <1>1, <1>3, <2>5, <2>6 DEF Calm
  <2>. QED BY <1>5, <2>7, LeavesKeeps
<1>. QED BY <1>6, <1>7

LEMMA RecordInstallKeeps ==
  ASSUME Inv, Inv', Packs, RecordInstall
  PROVE  Packs'
<1>1. /\ UNCHANGED snapshots /\ UNCHANGED <<gen, obj, plugins, active, files, prepared, slips, unbacked>>
      /\ op.step = "record" /\ op' = Idle
      /\ store'.versions = store.versions \cup {op.package.digest}
  BY DEF RecordInstall, registry
<1>2. Retained' = Retained /\ Routed' = Routed /\ op'.step = "none" /\ op'.package.fresh = FALSE
  BY <1>1 DEF snapshots, Retained, Routed, Current, Idle, NoPackage
<1>3. Calm
  BY <1>1, <1>2 DEF Calm
<1>4. ActiveRouted' /\ InUse' \subseteq InUse
  BY <1>3, CalmKeeps
<1>5. op.package.digest \in files /\ (prepared.fresh => prepared.digest # op.package.digest)
  BY <1>1 DEF Packs, Stored, Unpacking
<1>6. Stored'
  BY <1>1, <1>2, <1>5 DEF Packs, Stored, Unpacking
<1>7. Packaged'
  BY <1>1, <1>2, <1>4 DEF Packs, Packaged
<1>. QED BY <1>4, <1>6, <1>7 DEF Packs

(* A step that loads a generation of the package d.                         *)
Loads(d) ==
  /\ Len(gen') = Len(gen) + 1 /\ (\A j \in 1 .. Len(gen) : gen'[j] = gen[j])
  /\ gen'[Len(gen) + 1].digest = d
  /\ Retained' \subseteq Retained \cup {Len(gen) + 1}
  /\ unbacked \subseteq unbacked' /\ slips \subseteq slips' /\ store' = store
  /\ \A o \in Registrants' :
       (o \in Registrants /\ obj'[o].runtime = obj[o].runtime) \/ obj'[o].runtime = Len(gen) + 1
  /\ Len(gen) + 1 \in InUse' =>
       /\ d \in files' /\ (prepared'.fresh => d # prepared'.digest)
       /\ op'.package.fresh => Candidate' = Len(gen) + 1
  /\ prepared' = prepared \/ ~prepared'.fresh
  /\ op'.package.fresh => op'.cand # 0 /\ op'.package = prepared
  /\ files' = files \/ files' = Discarded(prepared)
  /\ Unpacking' => op'.package.digest \in files' /\ ~prepared'.fresh

LEMMA LoadsKeeps ==
  ASSUME Inv, Inv', Packs, NEW d, Loads(d)
  PROVE  Stored' /\ Packaged'
<1>. DEFINE n == Len(gen)
<1>1. n \in Nat
  BY InvFacts
<1>2. (\A j \in 1 .. n + 1 : j \in 1 .. n \/ j = n + 1)
  BY <1>1
<1>3. InUse' \subseteq InUse \cup {n + 1}
  <2>1. \A j \in 1 .. Len(gen') : gen'[j].record # 0 => j \in {n + 1} \/ (j \in 1 .. Len(gen) /\ gen[j].record # 0)
    BY <1>2 DEF Loads
  <2>2. \A o \in Registrants' :
          (o \in Registrants /\ obj'[o].runtime = obj[o].runtime) \/ obj'[o].runtime \in {n + 1}
    BY DEF Loads
  <2>3. Retained' \subseteq Retained \cup Revivable \cup {n + 1} /\ unbacked \subseteq unbacked'
    BY DEF Loads
  <2>. HIDE DEF n
  <2>. QED BY <2>1, <2>2, <2>3, UseGrows
<1>4. \A x \in files \ files' : prepared.fresh /\ x = prepared.digest
  BY DEF Loads, Discarded
<1>5. Handles({n + 1})
  BY <1>3, <1>4 DEF Handles, Loads
<1>6. Unpacking' => op'.package.digest \in files' /\ (prepared'.fresh => prepared'.digest # op'.package.digest)
  BY DEF Loads
<1>. QED BY <1>5, <1>6, PackagesKept

(* What is ACTIVE when no candidate is given up.                            *)
LEMMA OneActive ==
  ASSUME Inv, Packs, op.step # "discard"
  PROVE  /\ \A x \in 1 .. Len(obj) : obj[x].state = "active" => x = plugins
         /\ \A x \in 1 .. Len(obj) : obj[x].state = "failed" => gen[obj[x].runtime].record = 0
         /\ "put back" \notin slips /\ plugins # 0 =>
              \/ obj[plugins].state # "active" \/ gen[obj[plugins].runtime].record = 0
              \/ obj[plugins].runtime = Routed
         /\ plugins # 0 => plugins \in 1 .. Len(obj)
<1>1. plugins # 0 => plugins \in 1 .. Len(obj)
  BY InvFacts
<1>2. ActiveRouted
  BY DEF Packs
<1>3. \A x \in 1 .. Len(obj) : obj[x].state = "active" => x = plugins
  BY <1>2 DEF ActiveRouted
<1>4. \A x \in 1 .. Len(obj) : obj[x].state = "failed" => gen[obj[x].runtime].record = 0
  BY <1>2 DEF ActiveRouted
<1>. QED BY <1>1, <1>2, <1>3, <1>4 DEF ActiveRouted

LEMMA LoadRefusedLeaves ==
  ASSUME Inv, Inv', Packs, RefusesToLoad
  PROVE  Packs'
<1>. DEFINE p == plugins
            e == [obj[p] EXCEPT !.status = "loading", !.enabled = TRUE]
<1>1. /\ UNCHANGED snapshots /\ UNCHANGED <<plugins, gen, active, store, files, pending, prepared, op>>
      /\ plugins # 0 /\ obj[p].state \notin MayPrepare
      /\ obj' = [obj EXCEPT ![p] = e]
  BY DEF RefusesToLoad, LoadRefused, packages
<1>2. p \in 1 .. Len(obj) /\ obj \in Seq(Objs(Len(gen))) /\ obj[p] \in Objs(Len(gen))
  <2>1. plugins \in 0 .. Len(obj) /\ Len(obj) \in Nat /\ TypeOK
    BY InvFacts
  <2>2. p \in 1 .. Len(obj)
    BY <1>1, <2>1
  <2>. QED BY <2>1, <2>2, Typed
<1>3. e \in Objs(Len(gen)) /\ e.state = obj[p].state /\ e.runtime = obj[p].runtime
  BY <1>2 DEF Objs, Statuses
<1>4. slips' = slips /\ unbacked' = unbacked
  BY <1>1, SlipEffect, LoadsNothing DEF RefusesToLoad, Unretired, Inv
<1>. HIDE DEF e, p
<1>5. Replaced(obj', obj, p, e)
  BY <1>1, <1>2, <1>3, Replaces
<1>6. Retained' = Retained /\ Routed' = Routed
  BY <1>1 DEF snapshots, Retained, Routed, Current
<1>7. Calm
  BY <1>1, <1>3, <1>4, <1>5, <1>6 DEF Calm, Replaced
<1>8. Leaves
  BY <1>1 DEF Leaves
<1>. QED BY <1>7, <1>8, LeavesKeeps

LEMMA LoadInPlaceLeaves ==
  ASSUME Inv, Inv', Packs, LoadsInPlace
  PROVE  Packs'
<1>. DEFINE p == plugins
            n == Len(gen)
            m == Len(obj)
            d == obj[p].digest
<1>1. /\ UNCHANGED <<plugins, store, files, pending, prepared, op, wanted>>
      /\ op = Idle /\ op.step = "none" /\ ~op.package.fresh
      /\ plugins # 0 /\ obj[p].state \in MayPrepare /\ LoadsFrom(d)
  BY DEF LoadsInPlace, packages, LoadInPlace, Idle, NoPackage
<1>2. p \in 1 .. m
  BY <1>1, InvFacts
<1>3. n \in Nat /\ m \in Nat /\ obj \in Seq(Objs(n)) /\ gen \in Seq(Gens(m)) /\ TypeOK /\ KeptWhileLeased
  BY InvFacts DEF Inv, Registry
<1>4. d \in Digests /\ Retained \subseteq 1 .. n /\ \A x \in 1 .. m : obj[x].runtime \in 1 .. n
  BY <1>2, InvFacts
<1>5. n + 1 \notin 1 .. n /\ p \in 0 .. m
  BY <1>2, <1>3
<1>6. slips \subseteq slips'
  BY SlipEffect DEF Inv, LoadsInPlace
<1>7. /\ \A x \in 1 .. m : obj[x].state # "active"
      /\ \A x \in 1 .. m : obj[x].state = "failed" => gen[obj[x].runtime].record = 0
  BY <1>1, OneActive DEF MayPrepare
<1>. DEFINE After(state, status, g) ==
              /\ obj' = Reloaded(obj, p, state, status, n + 1) /\ gen' = Append(gen, g)
              /\ g \in Gens(m) /\ g.digest = d
<1>8. \/ /\ After("active", "loaded", Generation(d, p)) /\ d \in files
         /\ Publish(n + 1) /\ Generation(d, p).record = p
      \/ /\ After("failed", "error", FailedGeneration(d)) /\ UNCHANGED snapshots
         /\ FailedGeneration(d).record = 0
  <2>1. \/ LoadAndPublish(d, p) /\ obj' = Reloaded(obj, p, "active", "loaded", n + 1)
        \/ LoadRaises(d) /\ obj' = Reloaded(obj, p, "failed", "error", n + 1)
    BY Zenon DEF LoadsInPlace, LoadInPlace, Reloaded, NewGen
  <2>2. /\ Generation(d, p) \in Gens(m) /\ FailedGeneration(d) \in Gens(m)
        /\ Generation(d, p).digest = d /\ FailedGeneration(d).digest = d
        /\ Generation(d, p).record = p /\ FailedGeneration(d).record = 0
    <3>. HIDE DEF d, p, m
    <3>. QED BY <1>3, <1>4, <1>5, GenerationsTyped
  <2>. QED BY <2>1, <2>2 DEF LoadAndPublish, LoadRaises, NewGen
<1>9. PICK state \in {"active", "failed"}, status \in {"loaded", "error"}, g \in Gens(m) :
        /\ After(state, status, g)
        /\ \/ state = "active" /\ d \in files /\ Publish(n + 1) /\ g.record = p
           \/ state = "failed" /\ UNCHANGED snapshots /\ g.record = 0
  BY <1>8
<1>10. /\ Len(obj') = m /\ obj'[p].state = state /\ obj'[p].runtime = n + 1
       /\ \A x \in 1 .. m : x # p => obj'[x] = obj[x]
  <2>1. obj' = Reloaded(obj, p, state, status, n + 1)
    BY <1>9
  <2>. HIDE DEF p, n, m
  <2>2. HasLoaded(obj', obj, p, state, status, n + 1)
    BY <1>2, <1>3, <2>1, Reloads DEF m
  <2>. QED BY <2>2 DEF HasLoaded, m
<1>11. /\ Len(gen') = n + 1 /\ gen'[n + 1] = g /\ (\A j \in 1 .. n : gen'[j] = gen[j])
       /\ DOMAIN gen' = 1 .. n + 1
  <2>1. gen' = Append(gen, g) /\ g \in Gens(Len(obj')) /\ Len(obj') \in Nat /\ Len(obj) <= Len(obj')
    BY <1>3, <1>9, <1>10
  <2>2. /\ gen' \in Seq(Gens(Len(obj'))) /\ Len(gen') = Len(gen) + 1 /\ gen'[Len(gen) + 1] = g
        /\ \A j \in 1 .. Len(gen) : gen'[j] = gen[j]
    BY <1>3, <2>1, Grows
  <2>. QED BY <2>2, LenProperties
<1>12. \/ state = "active" /\ Routed' = n + 1 /\ Retained' \subseteq Retained \cup {n + 1}
       \/ state = "failed" /\ Routed' = Routed /\ Retained' = Retained
  <2>1. CASE state = "active" /\ Publish(n + 1)
    <3>1. MovesTo(n + 1)
      BY <1>3, <1>11, <2>1, PublishMoves
    <3>. QED BY <2>1, <3>1 DEF MovesTo
  <2>2. CASE state = "failed" /\ UNCHANGED snapshots
    BY <2>2 DEF snapshots, Retained, Routed, Current
  <2>. QED BY <1>9, <2>1, <2>2
<1>13. unbacked \subseteq unbacked' /\ (n + 1 \in unbacked' <=> Borrows(d))
  BY <1>1, <1>3, <1>11, LoadsFromEffect DEF Inv
<1>. HIDE DEF p, n, m, d
<1>14. Registrants' = {p}
  BY <1>1 DEF Registrants, p
<1>15. n + 1 \in InUse' => d \in files /\ (prepared.fresh => d # prepared.digest)
  <2>1. SUFFICES ASSUME n + 1 \in InUse' PROVE state = "active" /\ ~Borrows(d)
    BY <1>9 DEF Borrows
  <2>2. n + 1 \notin unbacked' /\ (n + 1 \in Retained' \/ gen'[n + 1].record # 0)
    BY <2>1 DEF InUse, Revivable
  <2>. QED BY <1>4, <1>5, <1>9, <1>11, <1>12, <1>13, <2>2
<1>16. Loads(d)
  <2>1. Retained' \subseteq Retained \cup {n + 1}
    BY <1>12
  <2>2. ~Unpacking'
    BY <1>1 DEF Unpacking
  <2>3. gen'[n + 1].digest = d
    BY <1>9, <1>11
  <2>. QED BY <1>1, <1>6, <1>10, <1>11, <1>13, <1>14, <1>15, <2>1, <2>2, <2>3 DEF Loads, n
<1>17. ActiveRouted'
  <2>1. \A x \in 1 .. m : obj'[x].state = "active" => x = p
    BY <1>7, <1>10 DEF m
  <2>2. ASSUME NEW x \in 1 .. m, obj'[x].state = "failed" PROVE gen'[obj'[x].runtime].record = 0
    <3>1. CASE x = p
      BY <1>9, <1>10, <1>11, <2>2, <3>1
    <3>2. CASE x # p
      BY <1>4, <1>7, <1>10, <1>11, <2>2, <3>2 DEF m, n
    <3>. QED BY <3>1, <3>2
  <2>3. obj'[p].state # "active" \/ obj'[p].runtime = Routed'
    BY <1>10, <1>12
  <2>. QED BY <1>1, <1>10, <2>1, <2>2, <2>3 DEF ActiveRouted, p
<1>. QED BY <1>16, <1>17, LoadsKeeps DEF Packs

LEMMA StagePacks ==
  ASSUME Inv, Inv', Packs, NEW kind, NEW d, NEW package, Stages(kind, d, package)
  PROVE  Packs'
<1>. DEFINE n == Len(gen)
            m == Len(obj)
<1>1. /\ op = Idle /\ op.step = "none" /\ ~op.package.fresh
      /\ UNCHANGED snapshots /\ UNCHANGED <<plugins, store, slips>>
      /\ plugins \in 1 .. m /\ obj[plugins].state = "active" /\ Routed = obj[plugins].runtime
  BY BeforeStage DEF Idle, NoPackage
<1>2. /\ d \in Digests /\ package \in Packages
      /\ \/ kind = "reload" /\ package = NoPackage /\ prepared' = prepared /\ LoadsFrom(d)
         \/ /\ kind = "install" /\ package = prepared /\ d = package.digest
            /\ prepared' = NoPackage /\ UNCHANGED unbacked
  BY DEF Stages
<1>3. /\ n \in Nat /\ m \in Nat /\ TypeOK /\ Retained \subseteq 1 .. n
      /\ \A x \in 1 .. m : obj[x].runtime \in 1 .. n
  BY InvFacts
<1>4. /\ \A x \in 1 .. m : obj[x].state = "active" => x = plugins
      /\ \A x \in 1 .. m : obj[x].state = "failed" => gen[obj[x].runtime].record = 0
  BY <1>1, OneActive
<1>5. PICK state \in {"preparing", "failed"}, status \in {"loaded", "error"}, g \in Gens(m + 1) :
        /\ obj' = Append(obj, Object(d, state, status)) /\ gen' = Append(gen, g) /\ g.digest = d
        /\ \/ /\ state = "preparing" /\ d \in files /\ files' = files
              /\ op' = Staged(kind, m + 1, plugins, package)
           \/ /\ state = "failed" /\ g.record = 0 /\ op' = Idle /\ files' = Discarded(package)
  <2>1. m + 1 \in 0 .. m + 1 /\ 0 \in 0 .. m + 1 /\ m + 1 \in Nat
    BY <1>3
  <2>2. /\ Generation(d, m + 1) \in Gens(m + 1) /\ Generation(d, m + 1).digest = d
        /\ FailedGeneration(d) \in Gens(m + 1) /\ FailedGeneration(d).digest = d
        /\ FailedGeneration(d).record = 0
    BY <1>2, <2>1, GenerationsTyped
  <2>3. StageLoads(kind, d, package) \/ StageFails(d, package)
    BY StageEither
  <2>. QED BY <2>2, <2>3 DEF StageLoads, StageFails
<1>6. /\ Len(obj') = m + 1 /\ obj'[m + 1].state = state /\ obj'[m + 1].runtime = n + 1
      /\ \A x \in 1 .. m : obj'[x] = obj[x]
  BY <1>2, <1>3, <1>5, Registers DEF Registered
<1>7. /\ Len(gen') = n + 1 /\ gen'[n + 1] = g /\ (\A j \in 1 .. n : gen'[j] = gen[j])
      /\ DOMAIN gen' = 1 .. n + 1
  <2>1. gen' \in Seq(Gens(Len(obj'))) /\ Added(gen', g)
    BY <1>3, <1>5, <1>6, Adds1
  <2>. QED BY <2>1, LenProperties DEF Added
<1>8. Retained' = Retained /\ Routed' = Routed
  BY <1>1 DEF snapshots, Retained, Routed, Current
<1>9. unbacked \subseteq unbacked' /\ (LoadsFrom(d) => (n + 1 \in unbacked' <=> Borrows(d)))
  <2>1. CASE UNCHANGED unbacked
    <3>1. LoadsFrom(d) => (n + 1 \in unbacked' <=> Borrows(d))
      BY <1>3, <1>7, LoadsFromEffect DEF Inv
    <3>. QED BY <2>1, <3>1
  <2>2. CASE LoadsFrom(d)
    BY <1>3, <1>7, <2>2, LoadsFromEffect DEF Inv
  <2>. QED BY <1>2, <2>1, <2>2
<1>10. /\ op'.step \in {"none", "staged"} /\ (op'.package.fresh => op'.package = package)
       /\ op'.step = "staged" =>
            op'.kind = kind /\ op'.cand = m + 1 /\ op'.package = package /\ state = "preparing"
       /\ (op'.package.fresh => op'.step = "staged")
  <2>1. CASE op' = Idle
    BY <2>1 DEF Idle, NoPackage
  <2>2. CASE op' = Staged(kind, m + 1, plugins, package) /\ state = "preparing"
    BY <2>2 DEF Staged
  <2>. QED BY <1>5, <2>1, <2>2
<1>. HIDE DEF n, m
<1>11. /\ (\A x \in 1 .. m + 1 : x \in 1 .. m \/ x = m + 1) /\ m + 1 # 0 /\ n + 1 \notin 1 .. n
       /\ m + 1 \notin 1 .. m /\ plugins # 0
  BY <1>1, <1>3
<1>12. \A o \in Registrants' : (o \in Registrants /\ obj'[o].runtime = obj[o].runtime) \/ obj'[o].runtime = n + 1
  <2>1. SUFFICES ASSUME NEW o \in Registrants', o # m + 1
                 PROVE  o \in Registrants /\ obj'[o].runtime = obj[o].runtime
    BY <1>6
  <2>2. o = plugins
    BY <1>1, <1>10, <2>1 DEF Registrants
  <2>3. plugins \in Registrants
    BY <1>11 DEF Registrants
  <2>. QED BY <1>1, <1>6, <2>2, <2>3
<1>13. n + 1 \in InUse' =>
         /\ d \in files' /\ (prepared'.fresh => d # prepared'.digest)
         /\ op'.package.fresh => Candidate' = n + 1
  <2>1. SUFFICES ASSUME n + 1 \in InUse'
                 PROVE  /\ d \in files' /\ (prepared'.fresh => d # prepared'.digest)
                        /\ op'.package.fresh => Candidate' = n + 1
    OBVIOUS
  <2>2. n + 1 \notin unbacked' /\ n + 1 \in Revivable'
    BY <1>3, <1>8, <1>11, <2>1 DEF InUse
  <2>3. g.record # 0
    BY <1>7, <2>2 DEF Revivable
  <2>4. d \in files /\ files' = files
    BY <1>5, <2>3
  <2>5. prepared'.fresh => d # prepared'.digest
    <3>1. CASE prepared' = prepared /\ LoadsFrom(d)
      BY <1>9, <2>2, <3>1 DEF Borrows
    <3>2. CASE prepared' = NoPackage
      BY <3>2 DEF NoPackage
    <3>. QED BY <1>2, <3>1, <3>2
  <2>6. op'.package.fresh => Candidate' = n + 1
    BY <1>6, <1>10 DEF Candidate
  <2>. QED BY <2>4, <2>5, <2>6
<1>14. Unpacking' => op'.package.digest \in files' /\ ~prepared'.fresh
  <2>1. SUFFICES ASSUME Unpacking' PROVE op'.package.digest \in files' /\ ~prepared'.fresh
    OBVIOUS
  <2>2. op'.step = "staged" /\ kind = "install" /\ op'.package = package /\ state = "preparing"
    BY <1>10, <2>1 DEF Unpacking
  <2>3. package.digest = d /\ prepared' = NoPackage /\ d \in files /\ files' = files
    BY <1>2, <1>5, <2>2
  <2>. QED BY <2>2, <2>3 DEF NoPackage
<1>15. /\ prepared' = prepared \/ ~prepared'.fresh
       /\ op'.package.fresh => op'.cand # 0 /\ op'.package = prepared
       /\ files' = files \/ files' = Discarded(prepared)
  <2>1. Discarded(NoPackage) = files /\ ~NoPackage.fresh
    BY DEF Discarded, NoPackage
  <2>. QED BY <1>2, <1>5, <1>10, <1>11, <2>1
<1>16. Loads(d)
  <2>1. gen'[n + 1].digest = d
    BY <1>5, <1>7
  <2>. QED BY <1>1, <1>7, <1>8, <1>9, <1>12, <1>13, <1>14, <1>15, <2>1 DEF Loads, n
<1>17. ActiveRouted'
  <2>1. \A x \in 1 .. m + 1 : obj'[x].state = "active" => x = plugins
    BY <1>4, <1>6, <1>11 DEF m
  <2>2. ASSUME NEW x \in 1 .. m + 1, obj'[x].state = "failed" PROVE gen'[obj'[x].runtime].record = 0
    <3>1. CASE x = m + 1
      BY <1>5, <1>6, <1>7, <2>2, <3>1
    <3>2. CASE x # m + 1
      BY <1>3, <1>4, <1>6, <1>7, <1>11, <2>2, <3>2 DEF m, n
    <3>. QED BY <3>1, <3>2
  <2>3. obj'[plugins].runtime = Routed'
    BY <1>1, <1>6, <1>8 DEF m
  <2>. QED BY <1>1, <1>6, <2>1, <2>2, <2>3 DEF ActiveRouted
<1>. QED BY <1>16, <1>17, LoadsKeeps DEF Packs

LEMMA StageKeepsPacks ==
  ASSUME Inv, Inv', Packs, Reload \/ InstallOver
  PROVE  Packs'
<1>1. CASE Reload
  <2>. DEFINE d == obj[plugins].digest
  <2>1. /\ op = Idle /\ Loaded /\ Stage("reload", d, NoPackage) /\ LoadsFrom(d)
        /\ UNCHANGED <<prepared, wanted, slips>>
    BY <1>1 DEF Reload, LockFree
  <2>2. plugins # 0
    BY <2>1, Zenon DEF Loaded
  <2>3. d \in Digests
    BY <2>2, InvFacts
  <2>. HIDE DEF d
  <2>4. Stages("reload", d, NoPackage)
    BY <2>1, <2>3 DEF Stages, Packages
  <2>. QED BY <2>4, StagePacks
<1>2. CASE InstallOver
  <2>. DEFINE d == prepared.digest
  <2>1. /\ op = Idle /\ Loaded /\ Stage("install", d, prepared) /\ prepared' = NoPackage
        /\ UNCHANGED <<wanted, slips, unbacked>> /\ prepared # NoPackage
    BY <1>2 DEF InstallOver, history
  <2>2. d \in Digests /\ prepared \in Packages
    BY <2>1 DEF Inv, Ledger, Packages
  <2>. HIDE DEF d
  <2>3. Stages("install", d, prepared)
    BY <2>1, <2>2 DEF Stages, d
  <2>. QED BY <2>3, StagePacks
<1>. QED BY <1>1, <1>2

LEMMA CommitKeepsPacks ==
  ASSUME Inv, Inv', Packs, Commit
  PROVE  Packs'
<1>. DEFINE c == op.cand
            p == op.prev
            i == Candidate
            n == Len(gen)
            m == Len(obj)
<1>1. /\ op.step = "staged" /\ Publish(i) /\ plugins' = c
      /\ UNCHANGED <<gen, store, files, prepared, slips, unbacked>>
      /\ op' = IF op.kind = "install" THEN [op EXCEPT !.step = "record"] ELSE Idle
  BY DEF Commit, Candidate, packages, history
<1>2. obj' = [obj EXCEPT ![c].state = "active", ![p].state = "draining"]
  BY DEF Commit, CutOver
<1>3. Pending /\ op.step # "discard"
  BY <1>1 DEF Pending
<1>4. /\ c \in 1 .. m /\ p \in 1 .. m /\ c # p /\ plugins = p /\ c # 0
      /\ i \in 1 .. n /\ i = obj[c].runtime
  BY <1>3, WhileStaged
<1>5. gen[i].record # 0
  BY <1>1, <1>4 DEF Inv, Staging
<1>6. TypeOK /\ KeptWhileLeased /\ n \in Nat /\ m \in Nat /\ obj \in Seq(Objs(n))
  BY InvFacts DEF Inv, Registry
<1>7. /\ \A x \in 1 .. m : obj[x].state = "active" => x = p
      /\ \A x \in 1 .. m : obj[x].state = "failed" => gen[obj[x].runtime].record = 0
  BY <1>3, <1>4, OneActive
<1>8. CutOvers(c, p, "active", "draining")
  <2>1. "active" \in States /\ "draining" \in States
    BY DEF States, MayPrepare, MayDrain
  <2>. HIDE DEF c, p, n
  <2>. QED BY <1>2, <1>4, <1>6, <2>1, CutOverEffect DEF m
<1>9. MovesTo(i)
  BY <1>1, <1>4, <1>6, PublishMoves
<1>. HIDE DEF c, p, i, n, m
<1>10. /\ Len(obj') = m /\ obj'[c].state = "active" /\ obj'[p].state = "draining"
       /\ \A x \in 1 .. m : obj'[x].runtime = obj[x].runtime
       /\ \A x \in 1 .. m : x \notin {c, p} => obj'[x] = obj[x]
  BY <1>8 DEF CutOvers, m
<1>11. Routed' = i /\ Retained' \subseteq Retained \cup {i}
  BY <1>9 DEF MovesTo
<1>12. \/ op.kind = "install" /\ op'.step = "record" /\ op'.cand = c /\ op'.prev = p /\ op'.package = op.package
       \/ op.kind # "install" /\ op'.step = "none" /\ op'.package = NoPackage
  <2>1. CASE op.kind = "install"
    BY <1>1, <2>1 DEF Inv, Operation, c, p
  <2>2. CASE op.kind # "install"
    BY <1>1, <2>2 DEF Idle
  <2>. QED BY <2>1, <2>2
<1>13. Registrants = {p, c} \ {0} /\ Registrants' \subseteq {p, c} \ {0}
  BY <1>1, <1>4, <1>12 DEF Registrants, c, p
<1>14. i \in Revivable
  BY <1>4, <1>5, <1>13 DEF Revivable, n
<1>15. InUse' \subseteq InUse \cup {}
  <2>1. \A o \in Registrants' : (o \in Registrants /\ obj'[o].runtime = obj[o].runtime) \/ obj'[o].runtime \in {}
    BY <1>4, <1>10, <1>13
  <2>2. Retained' \subseteq Retained \cup Revivable \cup {} /\ unbacked \subseteq unbacked'
    BY <1>1, <1>11, <1>14
  <2>3. \A j \in 1 .. Len(gen') : gen'[j].record # 0 => j \in {} \/ (j \in 1 .. Len(gen) /\ gen[j].record # 0)
    BY <1>1
  <2>. QED BY <2>1, <2>2, <2>3, UseGrows
<1>16. op'.package.fresh => op'.cand # 0 /\ op'.package = op.package /\ Candidate' = Candidate
  <2>1. SUFFICES ASSUME op'.package.fresh
                 PROVE  op'.cand # 0 /\ op'.package = op.package /\ Candidate' = Candidate
    OBVIOUS
  <2>2. op'.cand = c /\ op'.package = op.package
    BY <1>12, <2>1 DEF NoPackage
  <2>. QED BY <1>4, <1>10, <2>2 DEF Candidate, c
<1>17. Handles({})
  BY <1>1, <1>15, <1>16 DEF Handles
<1>18. Unpacking' =>
         op'.package.digest \in files' /\ (prepared'.fresh => prepared'.digest # op'.package.digest)
  <2>1. SUFFICES ASSUME Unpacking'
                 PROVE  op'.package.digest \in files' /\ (prepared'.fresh => prepared'.digest # op'.package.digest)
    OBVIOUS
  <2>2. Unpacking /\ op'.package = op.package
    BY <1>1, <1>12, <2>1 DEF Unpacking
  <2>. QED BY <1>1, <2>2 DEF Packs, Stored
<1>19. ActiveRouted'
  <2>1. \A x \in 1 .. m : obj'[x].state = "active" => x = c
    BY <1>7, <1>10
  <2>2. \A x \in 1 .. m : obj'[x].state = "failed" => gen[obj'[x].runtime].record = 0
    BY <1>7, <1>10
  <2>3. obj'[c].runtime = Routed'
    BY <1>4, <1>10, <1>11
  <2>. QED BY <1>1, <1>10, <2>1, <2>2, <2>3 DEF ActiveRouted
<1>. QED BY <1>17, <1>18, <1>19, PackagesKept DEF Packs

LEMMA CommitRollsBackKeepsPacks ==
  ASSUME Inv, Inv', Packs, CommitRollsBack
  PROVE  Packs'
<1>. DEFINE c == op.cand
            p == op.prev
            i == Candidate
            n == Len(gen)
            m == Len(obj)
<1>1. /\ op.step = "staged" /\ Current + 2 <= MaxRevisions
      /\ routes' = routes \o <<obj[c].runtime, obj[p].runtime>>
      /\ UNCHANGED <<lease, gen, plugins, store, files, prepared, slips, unbacked>>
      /\ op' = [op EXCEPT !.step = "discard"]
  BY DEF CommitRollsBack, RolledBack, packages, history
<1>2. obj' = [obj EXCEPT ![c].state = "active"]
  BY DEF CommitRollsBack
<1>3. Pending /\ op.step # "discard"
  BY <1>1 DEF Pending
<1>4. /\ c \in 1 .. m /\ p \in 1 .. m /\ c # p /\ plugins = p /\ Routed = obj[p].runtime
      /\ i \in 1 .. n /\ i = obj[c].runtime /\ Routed \in Retained
  BY <1>3, WhileStaged
<1>5. op'.step = "discard" /\ op'.cand = c /\ op'.package = op.package
  BY <1>1 DEF Inv, Operation
<1>6. TypeOK /\ KeptWhileLeased /\ n \in Nat /\ m \in Nat /\ obj \in Seq(Objs(n))
  BY InvFacts DEF Inv, Registry
<1>7. /\ \A x \in 1 .. m : obj[x].state = "active" => x = p
      /\ \A x \in 1 .. m : obj[x].state = "failed" => gen[obj[x].runtime].record = 0
  BY <1>3, <1>4, OneActive
<1>8. Becomes(obj', obj, c, "active")
  <2>1. "active" \in States
    BY DEF States, MayDrain
  <2>. HIDE DEF c, n
  <2>. QED BY <1>2, <1>4, <1>6, <2>1, StateSet DEF m
<1>9. MovesTo(Routed)
  <2>1. ThereAndBack(i)
    BY <1>1, <1>4 DEF CommitRollsBack, ThereAndBack
  <2>2. i \in 0 .. Len(gen)
    BY <1>4, <1>6
  <2>. QED BY <1>6, <2>1, <2>2, RollbackMoves
<1>. HIDE DEF c, p, i, n, m
<1>10. /\ Len(obj') = m /\ obj'[c].state = "active"
       /\ \A x \in 1 .. m : obj'[x].runtime = obj[x].runtime
       /\ \A x \in 1 .. m : x # c => obj'[x] = obj[x]
  BY <1>8 DEF Becomes, m
<1>11. Routed' = Routed /\ Retained' \subseteq Retained
  BY <1>4, <1>9 DEF MovesTo
<1>12. Registrants' \subseteq Registrants /\ Registrants' \subseteq {p}
  BY <1>1, <1>4, <1>5 DEF Registrants
<1>13. InUse' \subseteq InUse \cup {}
  <2>1. \A o \in Registrants' : (o \in Registrants /\ obj'[o].runtime = obj[o].runtime) \/ obj'[o].runtime \in {}
    BY <1>4, <1>10, <1>12
  <2>2. Retained' \subseteq Retained \cup Revivable \cup {} /\ unbacked \subseteq unbacked'
    BY <1>1, <1>11
  <2>3. \A j \in 1 .. Len(gen') : gen'[j].record # 0 => j \in {} \/ (j \in 1 .. Len(gen) /\ gen[j].record # 0)
    BY <1>1
  <2>. QED BY <2>1, <2>2, <2>3, UseGrows
<1>14. Candidate' = Candidate
  BY <1>4, <1>5, <1>10 DEF Candidate, c
<1>15. c # 0
  BY <1>4, <1>6
<1>16. Handles({})
  BY <1>1, <1>5, <1>13, <1>14, <1>15 DEF Handles
<1>17. ~Unpacking'
  BY <1>5 DEF Unpacking
<1>18. ActiveRouted'
  <2>1. \A x \in 1 .. m : obj'[x].state = "active" => x = p \/ x = c
    BY <1>7, <1>10
  <2>2. \A x \in 1 .. m : obj'[x].state = "failed" => gen[obj'[x].runtime].record = 0
    BY <1>7, <1>10
  <2>3. obj'[p].runtime = Routed'
    BY <1>4, <1>10, <1>11
  <2>. QED BY <1>1, <1>4, <1>5, <1>10, <2>1, <2>2, <2>3 DEF ActiveRouted
<1>. QED BY <1>16, <1>17, <1>18, PackagesKept DEF Packs

LEMMA DiscardKeepsPacks ==
  ASSUME Inv, Inv', Packs, DiscardStaged
  PROVE  Packs'
<1>. DEFINE c == op.cand
            p == op.prev
            i == Candidate
            n == Len(gen)
            m == Len(obj)
            g == FailedGeneration(gen[i].digest)
<1>1. /\ op.step = "discard" /\ plugins' = p
      /\ UNCHANGED snapshots /\ UNCHANGED <<store, prepared, slips, unbacked>>
      /\ op' = Idle /\ op'.step = "none" /\ ~op'.package.fresh /\ files' = Discarded(op.package)
      /\ gen' = [gen EXCEPT ![i] = g]
  BY DEF DiscardStaged, Candidate, Dropped, history, Idle, NoPackage
<1>2. obj' = [obj EXCEPT ![c].state = "failed", ![p].state = "active"]
  BY DEF DiscardStaged
<1>3. Pending
  BY <1>1 DEF Pending
<1>4. /\ c \in 1 .. m /\ p \in 1 .. m /\ c # p /\ plugins = p /\ Routed = obj[p].runtime
      /\ i \in 1 .. n /\ i = obj[c].runtime /\ i \notin Retained
  BY <1>3, WhileStaged
<1>5. /\ TypeOK /\ n \in Nat /\ m \in Nat /\ obj \in Seq(Objs(n)) /\ gen \in Seq(Gens(m))
      /\ \A x \in 1 .. m : obj[x].runtime \in 1 .. n
  BY InvFacts DEF Inv, Registry
<1>6. /\ \A x \in 1 .. m : obj[x].state = "active" => x \in {p, c}
      /\ \A x \in 1 .. m : obj[x].state = "failed" => gen[obj[x].runtime].record = 0
  <2>1. ActiveRouted
    BY DEF Packs
  <2>2. \A x \in 1 .. m : obj[x].state = "active" => x \in {p, c}
    BY <1>4, <2>1 DEF ActiveRouted
  <2>3. \A x \in 1 .. m : obj[x].state = "failed" => gen[obj[x].runtime].record = 0
    BY <2>1 DEF ActiveRouted
  <2>. QED BY <2>2, <2>3
<1>7. CutOvers(c, p, "failed", "active")
  <2>1. "active" \in States /\ "failed" \in States
    BY DEF States, MayPrepare, MayDrain
  <2>. HIDE DEF c, p, n
  <2>. QED BY <1>2, <1>4, <1>5, <2>1, CutOverEffect DEF m
<1>8. g \in Gens(m) /\ g.record = 0 /\ g.digest = gen[i].digest
  <2>1. 0 \in 0 .. m /\ gen[i].digest \in Digests
    BY <1>4, <1>5, InvFacts
  <2>. QED BY <1>5, <2>1, GenerationsTyped
<1>. HIDE DEF c, p, i, n, m, g
<1>9. Len(gen') = n /\ gen'[i] = g /\ \A j \in 1 .. n : j # i => gen'[j] = gen[j]
  <2>1. Replaced(gen', gen, i, g)
    BY <1>1, <1>4, <1>5, <1>8, Replaces DEF n
  <2>. QED BY <2>1 DEF Replaced, n
<1>10. /\ Len(obj') = m /\ obj'[c].state = "failed" /\ obj'[p].state = "active"
       /\ \A x \in 1 .. m : obj'[x].runtime = obj[x].runtime
       /\ \A x \in 1 .. m : x \notin {c, p} => obj'[x] = obj[x]
  BY <1>7 DEF CutOvers, m
<1>11. Routed' = Routed /\ Retained' = Retained
  BY <1>1 DEF snapshots, Routed, Retained, Current
<1>12. Registrants' \subseteq Registrants /\ Registrants' \subseteq {p}
  BY <1>1, <1>4 DEF Registrants
<1>13. \A j \in 1 .. n : gen'[j].digest = gen[j].digest /\ (gen'[j].record # 0 => gen[j].record # 0)
  BY <1>8, <1>9
<1>14. InUse' \subseteq InUse \cup {}
  <2>1. \A o \in Registrants' : (o \in Registrants /\ obj'[o].runtime = obj[o].runtime) \/ obj'[o].runtime \in {}
    BY <1>4, <1>10, <1>12
  <2>2. Retained' \subseteq Retained \cup Revivable \cup {} /\ unbacked \subseteq unbacked'
    BY <1>1, <1>11
  <2>3. \A j \in 1 .. Len(gen') : gen'[j].record # 0 => j \in {} \/ (j \in 1 .. Len(gen) /\ gen[j].record # 0)
    BY <1>9, <1>13 DEF n
  <2>. QED BY <2>1, <2>2, <2>3, UseGrows
<1>15. i \notin InUse'
  BY <1>4, <1>8, <1>9, <1>11 DEF InUse, Revivable
<1>16. \A d \in files \ files' : op.package.fresh /\ d = op.package.digest
  BY <1>1 DEF Discarded
<1>17. Handles({})
  BY <1>1, <1>13, <1>14, <1>15, <1>16 DEF Handles, i, n
<1>18. ~Unpacking'
  BY <1>1 DEF Unpacking
<1>19. ActiveRouted'
  <2>1. \A x \in 1 .. m : obj'[x].state = "active" => x = p
    BY <1>6, <1>10
  <2>2. \A x \in 1 .. m : obj'[x].state = "failed" => gen'[obj'[x].runtime].record = 0
    <3>1. ASSUME NEW x \in 1 .. m, obj'[x].state = "failed" PROVE gen'[obj'[x].runtime].record = 0
      <4>1. CASE x = c
        BY <1>4, <1>8, <1>9, <1>10, <4>1
      <4>2. CASE x # c
        <5>1. gen[obj[x].runtime].record = 0 /\ obj'[x].runtime \in 1 .. n
          BY <1>5, <1>6, <1>10, <3>1, <4>2
        <5>. QED BY <1>10, <1>13, <5>1
      <4>. QED BY <4>1, <4>2
    <3>. QED BY <3>1
  <2>3. obj'[p].runtime = Routed'
    BY <1>4, <1>10, <1>11
  <2>. QED BY <1>1, <1>10, <2>1, <2>2, <2>3 DEF ActiveRouted
<1>. QED BY <1>17, <1>18, <1>19, PackagesKept DEF Packs

LEMMA InstallNewKeepsPacks ==
  ASSUME Inv, Inv', Packs, InstallNew
  PROVE  Packs'
<1>. DEFINE n == Len(gen)
            m == Len(obj)
            d == prepared.digest
            g == Generation(d, m + 1)
            new == Append(obj, Object(d, "active", "loaded"))
<1>1. /\ op = Idle /\ prepared # NoPackage /\ ~Loaded /\ Installed(new, m + 1)
      /\ prepared' = NoPackage /\ UNCHANGED <<store, slips>>
  BY InstallNewIs
<1>2. d \in files /\ gen' = Append(gen, g) /\ Publish(n + 1)
  BY InstallNewIs DEF LoadAndPublish, NewGen
<1>3. /\ op.step = "none" /\ ~op.package.fresh /\ d \in Digests
      /\ plugins # 0 => plugins \in 1 .. m
  BY <1>1, NoneLoaded DEF Idle, NoPackage
<1>4. /\ TypeOK /\ KeptWhileLeased /\ n \in Nat /\ m \in Nat
      /\ \A x \in 1 .. m : obj[x].runtime \in 1 .. n
  BY InvFacts
<1>5. /\ \A x \in 1 .. m : obj[x].state = "active" => x = plugins
      /\ \A x \in 1 .. m : obj[x].state = "failed" => gen[obj[x].runtime].record = 0
  BY <1>3, OneActive
<1>6. new \in Seq(Objs(n + 1)) /\ Registered(new, d, "active", "loaded")
  BY <1>3, <1>4, Registers
<1>7. g \in Gens(m + 1) /\ g.digest = d
  BY <1>3, <1>4, GenerationsTyped
<1>. HIDE DEF new, d, g
<1>8. /\ Len(new) = m + 1 /\ new[m + 1].state = "active" /\ new[m + 1].runtime = n + 1
      /\ \A x \in 1 .. m : new[x] = obj[x]
  BY <1>6 DEF Registered
<1>9. /\ m + 1 \in 1 .. Len(new) /\ (plugins # 0 => plugins \in 1 .. Len(new)) /\ m + 1 # 0 /\ m + 1 \notin 1 .. m
      /\ (\A x \in 1 .. m + 1 : x \in 1 .. m \/ x = m + 1) /\ n + 1 \notin 1 .. n
  BY <1>3, <1>4, <1>8
<1>10. /\ Len(obj') = m + 1 /\ obj'[m + 1].runtime = n + 1
       /\ \A x \in 1 .. m : /\ obj'[x].runtime = obj[x].runtime
                            /\ obj'[x].state = obj[x].state \/ obj'[x].state = "draining"
       /\ \/ obj'[m + 1].state = "active" /\ plugins' = m + 1
          \/ obj'[m + 1].state = "draining" /\ plugins' = plugins /\ plugins # 0 /\ obj[plugins].state # "active"
       /\ plugins # 0 => obj'[plugins].state # "active"
  <2>1. "draining" \in States /\ "active" \in MayDrain
    BY DEF States, MayDrain
  <2>2. CASE obj' = new /\ plugins' = m + 1 /\ (plugins = 0 \/ obj[plugins].state \notin MayDrain)
    <3>1. plugins # 0 => obj'[plugins] = obj[plugins]
      BY <1>3, <1>8, <2>2
    <3>. QED BY <1>8, <2>1, <2>2, <3>1
  <2>3. CASE plugins # 0 /\ obj' = [new EXCEPT ![plugins].state = "draining"] /\ plugins' = m + 1
    <3>1. Becomes(obj', new, plugins, "draining")
      BY <1>6, <1>9, <2>1, <2>3, StateSet
    <3>2. plugins \in 1 .. m
      BY <1>3, <2>3
    <3>. QED BY <1>8, <1>9, <2>3, <3>1, <3>2 DEF Becomes
  <2>4. CASE /\ plugins # 0 /\ obj' = [new EXCEPT ![m + 1].state = "draining"] /\ plugins' = plugins
             /\ obj[plugins].state \notin MayDrain
    <3>1. Becomes(obj', new, m + 1, "draining")
      BY <1>6, <1>9, <2>1, <2>4, StateSet
    <3>2. plugins \in 1 .. m /\ obj[plugins].state # "active"
      BY <1>3, <2>1, <2>4
    <3>. QED BY <1>8, <1>9, <2>4, <3>1, <3>2 DEF Becomes
  <2>. QED BY <1>1, <2>2, <2>3, <2>4, Zenon DEF Installed
<1>11. \/ /\ op'.step = "record" /\ op'.cand = m + 1 /\ op'.prev = plugins /\ op'.package = prepared
          /\ files' = files /\ unbacked' = unbacked /\ plugins' = m + 1
       \/ /\ op'.step = "none" /\ ~op'.package.fresh /\ unbacked' = unbacked \cup {n + 1}
          /\ (files' = files \/ files' = Discarded(prepared))
  <2>1. \/ Recording(m + 1, plugins, prepared) /\ UNCHANGED <<files, unbacked>> /\ plugins' = m + 1
        \/ op' = op /\ unbacked' = unbacked \cup {n + 1} /\ (files' = files \/ files' = Discarded(prepared))
    BY <1>1, Zenon DEF Installed, NewGen
  <2>. QED BY <1>3, <2>1 DEF Recording
<1>12. /\ Len(gen') = n + 1 /\ gen'[n + 1] = g /\ (\A j \in 1 .. n : gen'[j] = gen[j])
  <2>1. Added(gen', g)
    BY <1>2, <1>4, <1>7, <1>10, Adds1 DEF g
  <2>. QED BY <2>1 DEF Added
<1>13. Routed' = n + 1 /\ Retained' \subseteq Retained \cup {n + 1}
  <2>1. n + 1 \in 0 .. Len(gen') /\ Len(gen') \in Nat /\ Len(gen) <= Len(gen')
    BY <1>4, <1>12
  <2>2. MovesTo(n + 1)
    BY <1>2, <1>4, <2>1, PublishMoves
  <2>. QED BY <2>2 DEF MovesTo
<1>. HIDE DEF n, m
<1>14. \A o \in Registrants' : (o \in Registrants /\ obj'[o].runtime = obj[o].runtime) \/ obj'[o].runtime = n + 1
  <2>1. SUFFICES ASSUME NEW o \in Registrants', o # m + 1
                 PROVE  o \in Registrants /\ obj'[o].runtime = obj[o].runtime
    BY <1>10
  <2>2. o = plugins /\ plugins # 0
    BY <1>10, <1>11, <2>1 DEF Registrants
  <2>. QED BY <1>3, <1>10, <2>2 DEF Registrants
<1>15. n + 1 \in InUse' =>
         /\ d \in files' /\ (prepared'.fresh => d # prepared'.digest)
         /\ op'.package.fresh => Candidate' = n + 1
  <2>1. SUFFICES ASSUME n + 1 \in InUse'
                 PROVE  d \in files' /\ (op'.package.fresh => Candidate' = n + 1)
    BY <1>1 DEF NoPackage
  <2>2. n + 1 \notin unbacked'
    BY <2>1 DEF InUse
  <2>. QED BY <1>2, <1>10, <1>11, <2>2 DEF Candidate
<1>16. Loads(d)
  <2>1. gen'[n + 1].digest = d /\ ~prepared'.fresh
    BY <1>1, <1>7, <1>12 DEF NoPackage
  <2>2. Unpacking' => op'.package.digest \in files'
    BY <1>2, <1>11 DEF Unpacking, d
  <2>3. op'.package.fresh => op'.cand # 0 /\ op'.package = prepared
    BY <1>9, <1>11
  <2>4. unbacked \subseteq unbacked' /\ (files' = files \/ files' = Discarded(prepared))
    BY <1>11
  <2>. QED BY <1>1, <1>12, <1>13, <1>14, <1>15, <2>1, <2>2, <2>3, <2>4 DEF Loads, n
<1>17. ActiveRouted'
  <2>1. ASSUME NEW x \in 1 .. m + 1, obj'[x].state = "active" PROVE x = m + 1 /\ plugins' = m + 1
    <3>1. CASE x = m + 1
      BY <1>10, <2>1, <3>1
    <3>2. CASE x # m + 1
      <4>1. x \in 1 .. m /\ obj[x].state = "active"
        BY <1>9, <1>10, <2>1, <3>2
      <4>2. x = plugins /\ plugins # 0
        BY <1>4, <1>5, <4>1 DEF m
      <4>. QED BY <1>10, <2>1, <4>2
    <3>. QED BY <3>1, <3>2
  <2>2. ASSUME NEW x \in 1 .. m + 1, obj'[x].state = "failed" PROVE gen'[obj'[x].runtime].record = 0
    <3>1. x \in 1 .. m
      BY <1>9, <1>10, <2>2
    <3>. QED BY <1>4, <1>5, <1>10, <1>12, <2>2, <3>1 DEF m, n
  <2>3. \/ plugins' = m + 1 /\ obj'[m + 1].runtime = Routed'
        \/ plugins' = plugins /\ plugins # 0 /\ obj'[plugins].state # "active"
    BY <1>10, <1>13
  <2>4. plugins' # 0 => \/ obj'[plugins'].state # "active"
                        \/ obj'[plugins'].runtime = Routed'
    BY <2>3
  <2>. QED BY <1>10, <2>1, <2>2, <2>4 DEF ActiveRouted
<1>. QED BY <1>16, <1>17, LoadsKeeps DEF Packs

LEMMA InstallFailsKeepsPacks ==
  ASSUME Inv, Inv', Packs, InstallFails
  PROVE  Packs'
<1>. DEFINE n == Len(gen)
            m == Len(obj)
            d == prepared.digest
            g == FailedGeneration(d)
            new == Append(obj, Object(d, "failed", "error"))
<1>1. /\ op = Idle /\ prepared # NoPackage /\ ~Loaded /\ PutBack(new) /\ gen' = Append(gen, g)
      /\ UNCHANGED snapshots /\ UNCHANGED <<op, store, unbacked>>
      /\ files' = Discarded(prepared) /\ prepared' = NoPackage
  BY InstallFailsIs
<1>2. slips \subseteq slips' /\ (plugins # 0 /\ obj[plugins].state = "draining" => "put back" \in slips')
  <2>1. Slip("put back", plugins # 0 /\ obj[plugins].state = "draining") /\ Ledger
    BY InstallFailsIs DEF Inv
  <2>. QED BY <2>1, SlipEffect
<1>3. /\ op.step = "none" /\ ~op.package.fresh /\ d \in Digests
      /\ plugins # 0 => plugins \in 1 .. m
      /\ \A x \in 1 .. m : obj[x].state # "preparing"
  BY <1>1, NoneLoaded DEF Idle, NoPackage
<1>4. /\ TypeOK /\ n \in Nat /\ m \in Nat /\ Retained \subseteq 1 .. n
      /\ \A x \in 1 .. m : obj[x].runtime \in 1 .. n
  BY InvFacts
<1>5. /\ \A x \in 1 .. m : obj[x].state = "active" => x = plugins
      /\ \A x \in 1 .. m : obj[x].state = "failed" => gen[obj[x].runtime].record = 0
      /\ "put back" \notin slips /\ plugins # 0 =>
           \/ obj[plugins].state # "active" \/ gen[obj[plugins].runtime].record = 0
           \/ obj[plugins].runtime = Routed
  BY <1>3, OneActive
<1>6. new \in Seq(Objs(n + 1)) /\ Registered(new, d, "failed", "error")
  BY <1>3, <1>4, Registers
<1>7. g \in Gens(m + 1) /\ g.record = 0 /\ g.digest = d
  BY <1>3, <1>4, GenerationsTyped
<1>. HIDE DEF new, d, g
<1>8. /\ Len(new) = m + 1 /\ new[m + 1].state = "failed" /\ new[m + 1].runtime = n + 1
      /\ \A x \in 1 .. m : new[x] = obj[x]
  BY <1>6 DEF Registered
<1>9. /\ m + 1 \in 1 .. Len(new) /\ (plugins # 0 => plugins \in 1 .. Len(new)) /\ m + 1 # 0 /\ m + 1 \notin 1 .. m
      /\ (\A x \in 1 .. m + 1 : x \in 1 .. m \/ x = m + 1) /\ n + 1 \notin 1 .. n
      /\ plugins # m + 1
  BY <1>3, <1>4, <1>8
<1>10. /\ Len(obj') = m + 1 /\ obj'[m + 1].runtime = n + 1 /\ obj'[m + 1].state = "failed"
       /\ \A x \in 1 .. m : /\ obj'[x].runtime = obj[x].runtime
                            /\ \/ obj'[x].state = obj[x].state
                               \/ x = plugins /\ obj[x].state \in MayActivate /\ obj'[x].state = "active"
       /\ plugins' = IF plugins = 0 THEN m + 1 ELSE plugins
  <2>1. CASE plugins = 0 /\ obj' = new /\ plugins' = Len(new)
    BY <1>8, <2>1
  <2>2. CASE /\ plugins # 0 /\ obj[plugins].state \in MayActivate /\ plugins' = plugins
             /\ obj' = [new EXCEPT ![plugins].state = "active"]
    <3>1. "active" \in States
      BY DEF States, MayDrain
    <3>2. Becomes(obj', new, plugins, "active")
      BY <1>6, <1>9, <2>2, <3>1, StateSet
    <3>3. plugins \in 1 .. m /\ \A x \in 1 .. m : x \in 1 .. m + 1
      BY <1>3, <1>4, <2>2
    <3>4. /\ Len(obj') = m + 1 /\ obj'[plugins].state = "active" /\ obj'[plugins].runtime = new[plugins].runtime
          /\ \A x \in 1 .. m + 1 : x # plugins => obj'[x] = new[x]
      BY <1>8, <3>2 DEF Becomes
    <3>5. obj'[m + 1] = new[m + 1] /\ \A x \in 1 .. m : x # plugins => obj'[x] = obj[x]
      BY <1>8, <1>9, <3>3, <3>4
    <3>. QED BY <1>8, <2>2, <3>3, <3>4, <3>5
  <2>3. CASE plugins # 0 /\ obj' = new /\ plugins' = plugins
    BY <1>8, <2>3
  <2>. QED BY <1>1, <2>1, <2>2, <2>3, Zenon DEF PutBack
<1>11. Len(gen') = n + 1 /\ gen'[n + 1] = g /\ \A j \in 1 .. n : gen'[j] = gen[j]
  <2>1. Added(gen', g)
    BY <1>1, <1>4, <1>7, <1>10, Adds1
  <2>. QED BY <2>1 DEF Added
<1>12. Retained' = Retained /\ Routed' = Routed
  BY <1>1 DEF snapshots, Retained, Routed, Current
<1>. HIDE DEF n, m
<1>13. \A o \in Registrants' : (o \in Registrants /\ obj'[o].runtime = obj[o].runtime) \/ obj'[o].runtime = n + 1
  <2>1. SUFFICES ASSUME NEW o \in Registrants', o # m + 1
                 PROVE  o \in Registrants /\ obj'[o].runtime = obj[o].runtime
    BY <1>10
  <2>2. o = plugins /\ plugins # 0
    BY <1>1, <1>3, <1>10, <2>1 DEF Registrants
  <2>. QED BY <1>3, <1>10, <2>2 DEF Registrants
<1>14. n + 1 \notin InUse'
  BY <1>4, <1>7, <1>9, <1>11, <1>12 DEF InUse, Revivable
<1>15. Loads(d)
  <2>1. gen'[n + 1].digest = d /\ ~prepared'.fresh /\ ~Unpacking'
    BY <1>1, <1>3, <1>7, <1>11 DEF NoPackage, Unpacking
  <2>. QED BY <1>1, <1>2, <1>3, <1>11, <1>12, <1>13, <1>14, <2>1 DEF Loads, n
<1>16. ActiveRouted'
  <2>1. ASSUME NEW x \in 1 .. m + 1, obj'[x].state = "active" PROVE x = plugins'
    <3>1. x \in 1 .. m
      BY <1>9, <1>10, <2>1
    <3>2. x = plugins
      BY <1>5, <1>10, <2>1, <3>1
    <3>3. x # 0
      BY <3>1
    <3>. QED BY <1>10, <3>2, <3>3
  <2>2. ASSUME NEW x \in 1 .. m + 1, obj'[x].state = "failed" PROVE gen'[obj'[x].runtime].record = 0
    <3>1. CASE x = m + 1
      BY <1>7, <1>10, <1>11, <3>1
    <3>2. CASE x \in 1 .. m
      <4>1. obj[x].state = "failed" /\ obj'[x].runtime = obj[x].runtime
        BY <1>10, <2>2, <3>2
      <4>. QED BY <1>4, <1>5, <1>11, <3>2, <4>1 DEF m, n
    <3>. QED BY <1>9, <3>1, <3>2
  <2>3. "put back" \notin slips' /\ plugins' # 0 =>
          \/ obj'[plugins'].state # "active" \/ gen'[obj'[plugins'].runtime].record = 0
          \/ obj'[plugins'].runtime = Routed'
    <3>1. CASE plugins = 0
      BY <1>10, <3>1
    <3>2. CASE plugins # 0
      <4>1. plugins' = plugins /\ plugins \in 1 .. m /\ obj'[plugins].runtime = obj[plugins].runtime
        BY <1>3, <1>10, <3>2
      <4>2. gen'[obj[plugins].runtime] = gen[obj[plugins].runtime]
        BY <1>4, <1>11, <4>1 DEF m, n
      <4>3. CASE obj'[plugins].state = obj[plugins].state
        BY <1>2, <1>5, <1>12, <3>2, <4>1, <4>2, <4>3
      <4>4. CASE obj[plugins].state \in MayActivate
        <5>1. obj[plugins].state \in {"preparing", "active", "draining", "failed"}
          BY <4>4 DEF MayActivate
        <5>2. obj[plugins].state # "preparing"
          BY <1>3, <4>1
        <5>3. obj[plugins].state = "failed" => gen[obj[plugins].runtime].record = 0
          BY <1>5, <4>1 DEF m
        <5>. QED BY <1>2, <1>5, <1>12, <3>2, <4>1, <4>2, <5>1, <5>2, <5>3
      <4>. QED BY <1>10, <4>1, <4>3, <4>4
    <3>. QED BY <3>1, <3>2
  <2>. QED BY <1>10, <2>1, <2>2, <2>3 DEF ActiveRouted
<1>. QED BY <1>15, <1>16, LoadsKeeps DEF Packs

LEMMA InstallUndoneKeepsPacks ==
  ASSUME Inv, Inv', Packs, InstallUndone
  PROVE  Packs'
<1>. DEFINE c == op.cand
            p == op.prev
            k == obj[p].runtime
            i == Candidate
            n == Len(gen)
            m == Len(obj)
            back == [obj EXCEPT ![c].state = "draining", ![p].state = "active"]
<1>1. /\ op.step = "record" /\ OnRecord(p) /\ plugins' = p
      /\ op'.step = "none" /\ ~op'.package.fresh
      /\ unbacked' = unbacked \cup {i}
      /\ UNCHANGED <<gen, store, prepared, slips>>
  BY DEF InstallUndone, Candidate, Idle, NoPackage
<1>2. \/ /\ obj[p].state \in MayActivate /\ Publish(k) /\ files' = Discarded(op.package)
         /\ obj' = [obj EXCEPT ![c].state = "draining", ![p].state = "active", ![p].status = "loaded"]
      \/ /\ obj[p].state \notin MayActivate /\ UNCHANGED snapshots /\ files' = files
         /\ obj' = [obj EXCEPT ![c].state = "draining"]
  BY DEF InstallUndone
<1>3. p # 0 /\ gen[k].record # 0
  BY <1>1, Zenon DEF OnRecord
<1>4. c \in 1 .. m /\ p \in 1 .. m /\ c # p /\ plugins = c
  BY <1>1, <1>3, InvFacts DEF Inv, Staging
<1>5. /\ TypeOK /\ KeptWhileLeased /\ n \in Nat /\ m \in Nat /\ obj \in Seq(Objs(n)) /\ k \in 1 .. n
  BY <1>4, InvFacts, Typed
<1>6. /\ \A x \in 1 .. m : obj[x].state = "active" => x = c
      /\ \A x \in 1 .. m : obj[x].state = "failed" => gen[obj[x].runtime].record = 0
  BY <1>1, <1>4, OneActive
<1>. HIDE DEF c, p, k, i, n, m
<1>7. /\ Len(obj') = m /\ obj'[c].state = "draining"
      /\ \A x \in 1 .. m : obj'[x].runtime = obj[x].runtime
      /\ \A x \in 1 .. m : x \notin {c, p} => obj'[x] = obj[x]
      /\ obj[p].state \in MayActivate => obj'[p].state = "active"
      /\ obj[p].state \notin MayActivate => obj'[p].state = obj[p].state
  <2>1. "draining" \in States /\ "active" \in States /\ "loaded" \in Statuses
    BY DEF States, MayPrepare, MayDrain, Statuses
  <2>2. CASE obj[p].state \in MayActivate
    <3>1. obj' = [back EXCEPT ![p].status = "loaded"]
      BY <1>2, <2>2
    <3>2. PICK u : /\ u \in Seq(Objs(n)) /\ Becomes(u, obj, c, "draining")
                   /\ back \in Seq(Objs(n)) /\ Becomes(back, u, p, "active")
      BY <1>4, <1>5, <2>1, StatesSet DEF m
    <3>. HIDE DEF back
    <3>3. /\ Len(back) = m /\ back[c].state = "draining" /\ back[p].state = "active"
          /\ \A x \in 1 .. m : back[x].runtime = obj[x].runtime
          /\ \A x \in 1 .. m : x \notin {c, p} => back[x] = obj[x]
      BY <1>4, <3>2 DEF Becomes, m
    <3>. DEFINE e == [back[p] EXCEPT !.status = "loaded"]
    <3>4. back[p] \in Objs(n)
      BY <1>4, <3>2, <3>3, ElementOfSeq
    <3>5. e \in Objs(n) /\ e.state = "active" /\ e.runtime = back[p].runtime
      BY <2>1, <3>3, <3>4 DEF Objs
    <3>6. obj' = [back EXCEPT ![p] = e] /\ p \in 1 .. Len(back)
      BY <1>4, <3>1, <3>3
    <3>. HIDE DEF e
    <3>7. Replaced(obj', back, p, e)
      BY <3>2, <3>5, <3>6, Replaces
    <3>. QED BY <1>4, <2>2, <3>3, <3>5, <3>7 DEF Replaced
  <2>3. CASE obj[p].state \notin MayActivate
    <3>1. obj' = [obj EXCEPT ![c].state = "draining"]
      BY <1>2, <2>3
    <3>2. Becomes(obj', obj, c, "draining")
      BY <1>4, <1>5, <2>1, <3>1, StateSet DEF m
    <3>. QED BY <1>4, <2>3, <3>2 DEF Becomes, m
  <2>. QED BY <2>2, <2>3
<1>8. \/ Routed' = k /\ Retained' \subseteq Retained \cup {k} /\ obj[p].state \in MayActivate
      \/ Retained' = Retained /\ obj[p].state \notin MayActivate
  <2>1. CASE obj[p].state \in MayActivate
    <3>1. Publish(k) /\ k \in 0 .. Len(gen') /\ Len(gen') \in Nat /\ Len(gen) <= Len(gen')
      BY <1>1, <1>2, <1>5, <2>1 DEF n
    <3>2. MovesTo(k)
      BY <1>5, <3>1, PublishMoves
    <3>. QED BY <2>1, <3>2 DEF MovesTo
  <2>2. CASE obj[p].state \notin MayActivate
    BY <1>2, <2>2 DEF snapshots, Retained, Current
  <2>. QED BY <2>1, <2>2
<1>9. p \in Registrants /\ Registrants' \subseteq {p}
  BY <1>1, <1>3 DEF Registrants, p
<1>10. k \in Revivable
  BY <1>3, <1>5, <1>9 DEF Revivable, n, k
<1>11. InUse' \subseteq InUse \cup {}
  <2>1. \A o \in Registrants' : (o \in Registrants /\ obj'[o].runtime = obj[o].runtime) \/ obj'[o].runtime \in {}
    BY <1>4, <1>7, <1>9
  <2>2. Retained' \subseteq Retained \cup Revivable \cup {} /\ unbacked \subseteq unbacked'
    BY <1>1, <1>8, <1>10
  <2>3. \A j \in 1 .. Len(gen') : gen'[j].record # 0 => j \in {} \/ (j \in 1 .. Len(gen) /\ gen[j].record # 0)
    BY <1>1
  <2>. QED BY <2>1, <2>2, <2>3, UseGrows
<1>12. \A d \in files \ files' : op.package.fresh /\ d = op.package.digest
  BY <1>2 DEF Discarded
<1>13. Candidate \notin InUse'
  BY <1>1 DEF InUse, i
<1>14. Handles({})
  BY <1>1, <1>11, <1>12, <1>13 DEF Handles
<1>15. ~Unpacking'
  BY <1>1 DEF Unpacking
<1>16. ActiveRouted'
  <2>1. \A x \in 1 .. m : obj'[x].state = "active" => x = p
    BY <1>6, <1>7
  <2>2. \A x \in 1 .. m : obj'[x].state = "failed" => gen[obj'[x].runtime].record = 0
    BY <1>6, <1>7
  <2>3. obj'[p].state # "active" \/ obj'[p].runtime = Routed'
    BY <1>4, <1>7, <1>8 DEF MayActivate, k
  <2>. QED BY <1>1, <1>7, <2>1, <2>2, <2>3 DEF ActiveRouted
<1>. QED BY <1>14, <1>15, <1>16, PackagesKept DEF Packs

-----------------------------------------------------------------------------
(* The second invariant is inductive, given the first *)

LEMMA InitPacks == Init => Packs
<1>. SUFFICES ASSUME Init PROVE Packs
  OBVIOUS
<1>1. /\ routes = <<0>> /\ retired = {} /\ gen = <<>> /\ obj = <<>> /\ plugins = 0
      /\ store.versions = {} /\ files = {} /\ ~prepared.fresh
      /\ op.step = "none" /\ ~op.package.fresh
  BY DEF Init, NoInstall, NoPackage, Idle
<1>2. Len(gen) = 0 /\ Len(obj) = 0 /\ Current = 1 /\ routes[1] = 0
  BY <1>1 DEF Current
<1>3. InUse = {}
  BY <1>1, <1>2 DEF InUse, Retained, Revivable
<1>4. Stored
  BY <1>1 DEF Stored, Unpacking
<1>5. ActiveRouted
  BY <1>1, <1>2 DEF ActiveRouted
<1>6. Packaged
  BY <1>3 DEF Packaged
<1>. QED BY <1>4, <1>5, <1>6 DEF Packs

LEMMA PacksStep == Inv /\ Inv' /\ Packs /\ [Next]_vars => Packs'
<1>. SUFFICES ASSUME Inv, Inv', Packs, [Next]_vars PROVE Packs'
  OBVIOUS
<1>1. CASE UNCHANGED vars
  <2>1. /\ UNCHANGED snapshots
        /\ UNCHANGED <<gen, obj, plugins, store, files, prepared, op, slips, unbacked>>
    BY <1>1 DEF vars, snapshots
  <2>2. Retained' = Retained /\ Routed' = Routed
    BY <2>1 DEF snapshots, Retained, Routed, Current
  <2>. QED BY <2>1, <2>2, LeavesKeeps DEF Calm, Leaves
<1>2. ASSUME NEW t \in Turns, Acquire(t) \/ Release(t) PROVE Packs'
  BY <1>2, CalmOperations, RetirementsKeep
<1>3. CASE RunRetireTask \/ FinishUninstall
  BY <1>3, RetirementsKeep
<1>4. CASE Enable \/ ReloadUnloaded
  <2>1. LoadsInPlace \/ RefusesToLoad
    BY <1>4 DEF Enable, ReloadUnloaded, LockFree, LoadsInPlace, RefusesToLoad
  <2>. QED BY <2>1, LoadInPlaceLeaves, LoadRefusedLeaves
<1>5. CASE Reload \/ InstallOver
  BY <1>5, StageKeepsPacks
<1>6. CASE Commit \/ CommitRollsBack \/ DiscardStaged
  BY <1>6, CommitKeepsPacks, CommitRollsBackKeepsPacks, DiscardKeepsPacks
<1>7. ASSUME NEW d \in Digests, Prepare(d) PROVE Packs'
  BY <1>7, CalmOperations
<1>8. CASE InstallNew \/ InstallFails \/ InstallUndone \/ RecordInstall
  BY <1>8, InstallNewKeepsPacks, InstallFailsKeepsPacks, InstallUndoneKeepsPacks, RecordInstallKeeps
<1>9. CASE PublishOther \/ GiveUp \/ InstallStrands \/ BeginDisable \/ BeginUninstall \/ UnloadMissing
  BY <1>9, CalmOperations
<1>10. CASE Unload
  BY <1>10, UnloadLeaves
<1>. QED BY <1>1, <1>2, <1>3, <1>4, <1>5, <1>6, <1>7, <1>8, <1>9, <1>10 DEF Next

LEMMA PacksAlways == Spec => [](Inv /\ Packs)
<1>1. Init => Inv /\ Packs
  BY InitInv, InitPacks
<1>2. Inv /\ Packs /\ [Next]_vars => (Inv /\ Packs)'
  BY InvStep, PacksStep
<1>. QED BY <1>1, <1>2, PTL DEF Spec

-----------------------------------------------------------------------------
(* What follows from it *)

(***************************************************************************)
(* Every operation keeps generations, objects, snapshots, packages and the *)
(* operation that holds the key's lock what their types say: in particular *)
(* whatever a snapshot, a record or a candidate refers to exists.          *)
(***************************************************************************)
THEOREM TypeCorrect == Spec => []TypeOK
<1>1. Inv => TypeOK
  BY InvTypes DEF Inv
<1>. QED BY <1>1, InvAlways, PTL

(***************************************************************************)
(* CapabilityStore keeps a replaced snapshot exactly while a lease of it is *)
(* out, however acquisitions, releases and publications interleave.        *)
(***************************************************************************)
THEOREM LeasesAreKept == Spec => []KeptWhileLeased
<1>1. Inv => KeptWhileLeased
  BY DEF Inv, Snaps
<1>. QED BY <1>1, InvAlways, PTL

(***************************************************************************)
(* No retirement closes the scope of a generation that a turn's snapshot    *)
(* still routes to, unless its object was loaded over it before.           *)
(***************************************************************************)
THEOREM LeasedRunsAlways == Spec => []LeasedGenerationRuns
<1>1. Inv => LeasedGenerationRuns
  <2>. SUFFICES ASSUME Inv, "loaded over" \notin slips, NEW t \in Turns, lease[t] # 0, routes[lease[t]] # 0
                PROVE  gen[routes[lease[t]]].scope = "open"
    BY DEF LeasedGenerationRuns
  <2>1. lease[t] \in retired \cup {Current}
    BY DEF Inv, Snaps, KeptWhileLeased
  <2>2. routes[lease[t]] \in Retained
    BY <2>1 DEF Retained
  <2>3. gen[routes[lease[t]]].record # 0 /\ routes[lease[t]] \in 1 .. Len(gen)
    BY <2>2, InvFacts DEF Inv, Recorded
  <2>. QED BY <2>3 DEF Inv, Matched
<1>. QED BY <1>1, InvAlways, PTL

(***************************************************************************)
(* A generation that no snapshot routes to, that waits for no retirement    *)
(* and is no operation's candidate has been stopped: its cleanups were     *)
(* called, its record and its bindings are gone.                           *)
(***************************************************************************)
THEOREM RetiredAlways == Spec => []RetiredGenerationStops
<1>1. Inv => RetiredGenerationStops
  <2>. SUFFICES ASSUME Inv, slips \cap {"loaded over", "put back"} = {},
                       NEW i \in DOMAIN gen, i \notin Retained, i \notin UnderWay
                PROVE  gen[i].scope = "closed" /\ gen[i].record = 0 /\ gen[i].bindings = "dropped"
    BY DEF RetiredGenerationStops
  <2>1. i \in 1 .. Len(gen)
    BY InvFacts, Typed
  <2>2. i \notin Draining /\ (op.cand # 0 => i # Candidate)
    BY DEF UnderWay, Draining, Candidate
  <2>3. gen[i].record = 0
    BY <2>1, <2>2 DEF Inv, CleanedUp
  <2>4. op.step = "discard" => op.cand # 0
    BY DEF Inv, Staging, Pending
  <2>. QED BY <2>1, <2>2, <2>3, <2>4 DEF Inv, CleanedUp
<1>. QED BY <1>1, InvAlways, PTL

(***************************************************************************)
(* Outside a rollback at most one loaded object is ACTIVE, and it is the    *)
(* one that is registered and routed: a cut-over leaves no two of them.    *)
(***************************************************************************)
THEOREM OneActiveAlways == Spec => []OneActiveGeneration
<1>1. Inv => OneActiveGeneration
  <2>. SUFFICES ASSUME Inv, op.step # "discard", NEW o \in DOMAIN obj,
                       obj[o].state = "active", obj[o].status = "loaded"
                PROVE  Serves(o)
    BY DEF OneActiveGeneration
  <2>1. o \in 1 .. Len(obj)
    BY InvFacts, Typed
  <2>. QED BY <2>1 DEF Inv, OneServes, Serves, Routed
<1>. QED BY <1>1, InvAlways, PTL

(***************************************************************************)
(* What new turns are routed to is the generation of the registered, ACTIVE *)
(* object, its scope open, unless an object was loaded over one before.    *)
(***************************************************************************)
THEOREM RoutedAlways == Spec => []RoutedIsRegistered
<1>1. Inv => RoutedIsRegistered
  <2>. SUFFICES ASSUME Inv, "loaded over" \notin slips, Routed # 0
                PROVE  /\ gen[Routed].record # 0 /\ gen[Routed].record = plugins /\ active = Routed
                       /\ obj[plugins].state = "active" /\ gen[Routed].scope = "open"
    BY DEF RoutedIsRegistered, Routed
  <2>1. Routed \in Retained /\ Routed \in 1 .. Len(gen)
    BY InvFacts
  <2>. QED BY <2>1 DEF Inv, Matched, Recorded
<1>. QED BY <1>1, InvAlways, PTL

(***************************************************************************)
(* No removal, discarded package or failed install deletes the package of a *)
(* generation that a turn may still run, or a package that is on record.   *)
(* Left out: generations that no install answers for, because theirs       *)
(* failed after publishing them or was still waiting when they were loaded, *)
(* and all of them once one was put back as ACTIVE while draining.         *)
(***************************************************************************)
THEOREM PackageAlways == Spec => []RoutedPackageOnDisk
<1>1. Inv /\ Packs => RoutedPackageOnDisk
  <2>. SUFFICES ASSUME Inv, Packs PROVE RoutedPackageOnDisk
    OBVIOUS
  <2>1. "put back" \notin slips => \A i \in Retained \ unbacked : gen[i].digest \in files
    BY DEF Packs, Packaged, InUse
  <2>2. store.versions \subseteq files
    BY DEF Packs, Stored
  <2>. QED BY <2>1, <2>2 DEF RoutedPackageOnDisk
<1>. QED BY <1>1, PacksAlways, PTL
=============================================================================
