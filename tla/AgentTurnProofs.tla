--------------------------- MODULE AgentTurnProofs ---------------------------
(***************************************************************************)
(* Proofs about AgentTurn for any limits, budgets, earlier history, turns, *)
(* steers and stops: its types, that every request has whole tool blocks,  *)
(* that a turn which completes has shown the steers it consumed, and that  *)
(* a turn which ends is recorded once.                                     *)
(***************************************************************************)
EXTENDS AgentTurn, FiniteSetTheorems, SequenceTheorems, TLAPS

------------------------------------------------------------------------------
(* A choice of messages keeps their order *)

LEMMA LeastOf ==
  ASSUME NEW T, T \subseteq Nat, T # {}
  PROVE  \E x \in T : \A y \in T : x <= y
<1>1. PICK x \in T : \A y \in T : ~(<<y, x>> \in OpToRel(<, Nat))
  BY WFMin, NatLessThanWellFounded
<1>2. ASSUME NEW y \in T PROVE x <= y
  <2>1. x \in Nat /\ y \in Nat
    OBVIOUS
  <2>2. ~(y < x)
    BY <1>1, <2>1 DEF OpToRel
  <2>. QED BY <2>1, <2>2
<1>. QED BY <1>2

UpTo(keep, i) == {k \in keep : k <= i}
Rank(keep, i) == Cardinality(UpTo(keep, i))

LEMMA RankSteps ==
  ASSUME NEW n \in Nat, NEW keep \in SUBSET (1 .. n)
  PROVE  /\ IsFiniteSet(keep) /\ Cardinality(keep) \in Nat
         /\ Rank(keep, 0) = 0 /\ Rank(keep, n) = Cardinality(keep)
         /\ \A i \in Nat : Rank(keep, i) \in Nat /\ Rank(keep, i) <= Cardinality(keep)
         /\ \A i \in Nat : Rank(keep, i + 1) = IF i + 1 \in keep THEN Rank(keep, i) + 1 ELSE Rank(keep, i)
<1>0. \A k \in keep : k \in Nat /\ 1 <= k /\ k <= n
  OBVIOUS
<1>1. IsFiniteSet(keep) /\ Cardinality(keep) \in Nat
  <2>1. IsFiniteSet(1 .. n)
    BY FS_Interval, n \in Int, 1 \in Int, Zenon
  <2>2. IsFiniteSet(keep)
    BY <2>1, FS_Subset, Zenon
  <2>. QED BY <2>2, FS_CardinalityType
<1>2. UpTo(keep, 0) = {} /\ UpTo(keep, n) = keep
  <2>1. \A k \in keep : ~(k <= 0) /\ k <= n
    BY <1>0
  <2>. QED BY <2>1, Zenon DEF UpTo
<1>3. ASSUME NEW i \in Nat
      PROVE  IsFiniteSet(UpTo(keep, i)) /\ Rank(keep, i) \in Nat /\ Rank(keep, i) <= Cardinality(keep)
  <2>1. UpTo(keep, i) \in SUBSET keep
    BY DEF UpTo
  <2>. QED BY <1>1, <2>1, FS_Subset, FS_CardinalityType DEF Rank
<1>4. ASSUME NEW i \in Nat
      PROVE  Rank(keep, i + 1) = IF i + 1 \in keep THEN Rank(keep, i) + 1 ELSE Rank(keep, i)
  <2>1. CASE i + 1 \in keep
    <3>1. UpTo(keep, i + 1) = UpTo(keep, i) \cup {i + 1} /\ i + 1 \notin UpTo(keep, i)
      <4>1. /\ \A k \in keep : (k <= i + 1) <=> (k <= i \/ k = i + 1)
            /\ i + 1 <= i + 1 /\ ~(i + 1 <= i)
        BY <1>0
      <4>. QED BY <2>1, <4>1, Zenon DEF UpTo
    <3>. QED BY <1>3, <2>1, <3>1, FS_AddElement DEF Rank
  <2>2. CASE i + 1 \notin keep
    <3>1. UpTo(keep, i + 1) = UpTo(keep, i)
      <4>1. \A k \in keep : (k <= i + 1) <=> (k <= i)
        BY <1>0, <2>2
      <4>. QED BY <4>1, Zenon DEF UpTo
    <3>. QED BY <2>2, <3>1 DEF Rank
  <2>. QED BY <2>1, <2>2
<1>. QED BY <1>1, <1>2, <1>3, <1>4, FS_EmptySet DEF Rank

(* The first index with j of them up to it is one of them.                  *)
LEMMA JthExists ==
  ASSUME NEW n \in Nat, NEW keep \in SUBSET (1 .. n), NEW j \in 1 .. Cardinality(keep)
  PROVE  \E i \in keep : Rank(keep, i) = j
<1>. DEFINE T == {i \in Nat : Rank(keep, i) >= j}
<1>0. /\ Rank(keep, 0) = 0 /\ Rank(keep, n) = Cardinality(keep)
      /\ Cardinality(keep) \in Nat /\ \A i \in Nat : Rank(keep, i) \in Nat
      /\ \A i \in Nat : Rank(keep, i + 1) = IF i + 1 \in keep THEN Rank(keep, i) + 1 ELSE Rank(keep, i)
  BY RankSteps
<1>1. n \in T
  BY <1>0
<1>2. PICK i \in T : \A y \in T : i <= y
  BY <1>1, LeastOf
<1>3. i # 0
  BY <1>0, <1>2
<1>4. i - 1 \in Nat /\ i - 1 \notin T /\ i = (i - 1) + 1
  BY <1>2, <1>3
<1>5. Rank(keep, i - 1) \in Nat /\ Rank(keep, i - 1) < j /\ Rank(keep, i) >= j
  BY <1>0, <1>2, <1>4
<1>6. i \in keep /\ Rank(keep, i) = Rank(keep, i - 1) + 1
  <2>1. Rank(keep, i) = IF i \in keep THEN Rank(keep, i - 1) + 1 ELSE Rank(keep, i - 1)
    BY <1>0, <1>4
  <2>. QED BY <1>5, <2>1
<1>. QED BY <1>5, <1>6

LEMMA RankGrows ==
  ASSUME NEW n \in Nat, NEW keep \in SUBSET (1 .. n), NEW i \in keep, NEW l \in keep, i < l
  PROVE  Rank(keep, i) < Rank(keep, l)
<1>1. IsFiniteSet(keep) /\ UpTo(keep, i) \in SUBSET keep /\ UpTo(keep, l) \in SUBSET keep
  BY RankSteps DEF UpTo
<1>2. IsFiniteSet(UpTo(keep, i)) /\ IsFiniteSet(UpTo(keep, l))
  BY <1>1, FS_Subset
<1>3. l \notin UpTo(keep, i) /\ UpTo(keep, i) \cup {l} \in SUBSET UpTo(keep, l)
  <2>1. /\ \A k \in keep : k <= i => k <= l
        /\ l <= l /\ ~(l <= i)
    OBVIOUS
  <2>. QED BY <2>1, Zenon DEF UpTo
<1>4. Cardinality(UpTo(keep, i) \cup {l}) = Rank(keep, i) + 1
  BY <1>2, <1>3, FS_AddElement DEF Rank
<1>5. Cardinality(UpTo(keep, i) \cup {l}) <= Rank(keep, l)
  BY <1>2, <1>3, FS_Subset DEF Rank
<1>6. Rank(keep, i) \in Nat /\ Rank(keep, l) \in Nat
  BY RankSteps
<1>. QED BY <1>4, <1>5, <1>6

(* What Pick returns: the chosen messages, all of them, in their order.     *)
Enumerates(f, keep) ==
  /\ f \in [1 .. Cardinality(keep) -> keep]
  /\ \A i, j \in 1 .. Cardinality(keep) : i < j => f[i] < f[j]
  /\ \A k \in keep : \E j \in 1 .. Cardinality(keep) : f[j] = k

LEMMA InOrderEnumerates ==
  ASSUME NEW n \in Nat, NEW keep \in SUBSET (1 .. n)
  PROVE  /\ Cardinality(keep) \in Nat /\ Enumerates(InOrder[keep], keep)
         /\ DOMAIN InOrder[keep] = 1 .. Cardinality(keep)
<1>1. keep \in SUBSET Nat /\ \A i \in keep : i \in Nat /\ 1 <= i
  OBVIOUS
<1>0. /\ Cardinality(keep) \in Nat
      /\ \A i \in Nat : Rank(keep, i) \in Nat /\ Rank(keep, i) <= Cardinality(keep)
      /\ \A i \in Nat : Rank(keep, i + 1) = IF i + 1 \in keep THEN Rank(keep, i) + 1 ELSE Rank(keep, i)
  BY RankSteps
<1>2. Cardinality(keep) \in Nat /\ \A i \in keep : Rank(keep, i) \in 1 .. Cardinality(keep)
  <2>1. ASSUME NEW i \in keep PROVE Rank(keep, i) >= 1
    <3>1. i - 1 \in Nat /\ i = (i - 1) + 1
      BY <1>1
    <3>2. Rank(keep, i) = Rank(keep, i - 1) + 1 /\ Rank(keep, i - 1) \in Nat
      BY <1>0, <3>1
    <3>. QED BY <3>2
  <2>. QED BY <1>0, <1>1, <2>1
<1>. DEFINE f == InOrder[keep]
            N == Cardinality(keep)
<1>3. f = [j \in 1 .. N |-> CHOOSE i \in keep : Rank(keep, i) = j]
  BY <1>1 DEF InOrder, Rank, UpTo
<1>4. \A j \in 1 .. N : f[j] \in keep /\ Rank(keep, f[j]) = j
  <2>. SUFFICES ASSUME NEW j \in 1 .. N PROVE f[j] \in keep /\ Rank(keep, f[j]) = j
    OBVIOUS
  <2>1. \E i \in keep : Rank(keep, i) = j
    BY <1>1, JthExists, Zenon
  <2>2. f[j] = CHOOSE i \in keep : Rank(keep, i) = j
    BY <1>3
  <2>. QED BY <2>1, <2>2
<1>5. ASSUME NEW i \in 1 .. N, NEW j \in 1 .. N, i < j PROVE f[i] < f[j]
  <2>1. f[i] \in Nat /\ f[j] \in Nat /\ f[i] \in keep /\ f[j] \in keep
    BY <1>1, <1>4
  <2>2. f[i] # f[j] /\ ~(Rank(keep, f[j]) < Rank(keep, f[i]))
    BY <1>2, <1>4, <1>5
  <2>3. ~(f[j] < f[i])
    BY <1>1, <2>1, <2>2, RankGrows
  <2>. QED BY <2>1, <2>2, <2>3
<1>6. ASSUME NEW k \in keep PROVE \E j \in 1 .. N : f[j] = k
  <2>1. Rank(keep, k) \in 1 .. N
    BY <1>2
  <2>2. f[Rank(keep, k)] \in keep /\ Rank(keep, f[Rank(keep, k)]) = Rank(keep, k)
    BY <1>4, <2>1
  <2>3. f[Rank(keep, k)] \in Nat /\ k \in Nat
    BY <1>1, <2>2
  <2>4. f[Rank(keep, k)] = k
    <3>. DEFINE q == f[Rank(keep, k)]
    <3>1. Rank(keep, q) \in Nat /\ Rank(keep, k) \in Nat
      BY <1>0, <2>2, <2>3
    <3>2. q < k => Rank(keep, q) < Rank(keep, k)
      BY <1>1, <2>2, RankGrows, Zenon
    <3>3. k < q => Rank(keep, k) < Rank(keep, q)
      BY <1>1, <2>2, RankGrows, Zenon
    <3>. QED BY <2>2, <2>3, <3>1, <3>2, <3>3
  <2>. QED BY <2>1, <2>4
<1>7. Enumerates(f, keep)
  <2>1. f \in [1 .. N -> keep]
    BY <1>3, <1>4
  <2>. QED BY <1>5, <1>6, <2>1 DEF Enumerates
<1>. QED BY <1>2, <1>3, <1>7

LEMMA PickOrder ==
  ASSUME NEW S, NEW ms \in Seq(S), NEW keep \in SUBSET (DOMAIN ms)
  PROVE  /\ Cardinality(keep) \in Nat
         /\ Pick(ms, keep) \in Seq(S) /\ Len(Pick(ms, keep)) = Cardinality(keep)
         /\ \E f : Enumerates(f, keep) /\ \A j \in 1 .. Cardinality(keep) : Pick(ms, keep)[j] = ms[f[j]]
<1>1. PICK n \in Nat : DOMAIN ms = 1 .. n /\ keep \in SUBSET (1 .. n) /\ ms \in [1 .. n -> S]
  OBVIOUS
<1>2. PICK f : f = InOrder[keep]
  OBVIOUS
<1>3. PICK N \in Nat : N = Cardinality(keep) /\ Enumerates(f, keep) /\ DOMAIN f = 1 .. N
  BY <1>1, <1>2, InOrderEnumerates
<1>4. \A j \in 1 .. N : f[j] \in keep
  BY <1>3 DEF Enumerates
<1>5. Pick(ms, keep) = [j \in 1 .. N |-> ms[f[j]]]
  BY <1>2, <1>3 DEF Pick
<1>6. Pick(ms, keep) \in [1 .. N -> S]
  BY <1>1, <1>4, <1>5
<1>7. Pick(ms, keep) \in Seq(S) /\ Len(Pick(ms, keep)) = N
  BY <1>6
<1>. QED BY <1>3, <1>5, <1>7

LEMMA EnumeratesNext ==
  ASSUME NEW keep \in SUBSET Nat, NEW f, Enumerates(f, keep), NEW N \in Nat, N = Cardinality(keep)
  PROVE  \A j \in 1 .. N :
           /\ f[j] + 1 \in keep => j + 1 \in 1 .. N /\ f[j + 1] = f[j] + 1
           /\ f[j] - 1 \in keep => j - 1 \in 1 .. N /\ f[j - 1] = f[j] - 1
<1>. SUFFICES ASSUME NEW j \in 1 .. N
              PROVE  /\ f[j] + 1 \in keep => j + 1 \in 1 .. N /\ f[j + 1] = f[j] + 1
                     /\ f[j] - 1 \in keep => j - 1 \in 1 .. N /\ f[j - 1] = f[j] - 1
  OBVIOUS
<1>1. \A i \in 1 .. N : f[i] \in Nat
  <2>1. \A i \in 1 .. N : f[i] \in keep
    BY DEF Enumerates
  <2>2. \A k \in keep : k \in Nat
    OBVIOUS
  <2>. QED BY <2>1, <2>2
<1>2. \A i, l \in 1 .. N : i < l => f[i] < f[l]
  BY DEF Enumerates
<1>3. ASSUME f[j] + 1 \in keep PROVE j + 1 \in 1 .. N /\ f[j + 1] = f[j] + 1
  <2>1. PICK l \in 1 .. N : f[l] = f[j] + 1
    BY <1>3 DEF Enumerates
  <2>2. j < l
    BY <1>1, <1>2, <2>1
  <2>3. j + 1 \in 1 .. N /\ (j + 1 = l \/ j + 1 < l)
    BY <2>2
  <2>4. f[j + 1] \in Nat /\ f[j] < f[j + 1] /\ (j + 1 < l => f[j + 1] < f[l])
    BY <1>1, <1>2, <2>3
  <2>. QED BY <1>1, <2>1, <2>3, <2>4
<1>4. ASSUME f[j] - 1 \in keep PROVE j - 1 \in 1 .. N /\ f[j - 1] = f[j] - 1
  <2>1. PICK l \in 1 .. N : f[l] = f[j] - 1
    BY <1>4 DEF Enumerates
  <2>2. l < j
    BY <1>1, <1>2, <2>1
  <2>3. j - 1 \in 1 .. N /\ (j - 1 = l \/ l < j - 1)
    BY <2>2
  <2>4. f[j - 1] \in Nat /\ f[j - 1] < f[j] /\ (l < j - 1 => f[l] < f[j - 1])
    BY <1>1, <1>2, <2>3
  <2>. QED BY <1>1, <2>1, <2>3, <2>4
<1>. QED BY <1>3, <1>4

(* Every message picked is one of those chosen, and none is picked twice.   *)
Single(ms, m) == \A i, j \in DOMAIN ms : ms[i] = m /\ ms[j] = m => i = j

LEMMA PickElements ==
  ASSUME NEW S, NEW ms \in Seq(S), NEW keep \in SUBSET (DOMAIN ms)
  PROVE  /\ \A j \in DOMAIN Pick(ms, keep) : \E i \in keep : Pick(ms, keep)[j] = ms[i]
         /\ \A m : Single(ms, m) => Single(Pick(ms, keep), m)
<1>1. PICK f : Enumerates(f, keep) /\ \A j \in 1 .. Cardinality(keep) : Pick(ms, keep)[j] = ms[f[j]]
  BY PickOrder
<1>2. PICK N \in Nat : N = Cardinality(keep) /\ DOMAIN Pick(ms, keep) = 1 .. N
  BY PickOrder
<1>3. /\ \A j \in 1 .. N : f[j] \in keep /\ f[j] \in Nat /\ f[j] \in DOMAIN ms
      /\ \A i, j \in 1 .. N : i < j => f[i] < f[j]
  BY <1>1, <1>2 DEF Enumerates
<1>4. \A j \in DOMAIN Pick(ms, keep) : \E i \in keep : Pick(ms, keep)[j] = ms[i]
  BY <1>1, <1>2, <1>3
<1>5. ASSUME NEW m, Single(ms, m), NEW i \in 1 .. N, NEW j \in 1 .. N,
             Pick(ms, keep)[i] = m, Pick(ms, keep)[j] = m
      PROVE  i = j
  <2>1. ms[f[i]] = m /\ ms[f[j]] = m
    BY <1>1, <1>2, <1>5
  <2>2. f[i] = f[j]
    BY <1>3, <1>5, <2>1 DEF Single
  <2>3. ~(i < j) /\ ~(j < i)
    BY <1>3, <2>2
  <2>. QED BY <2>3
<1>6. \A m : Single(ms, m) => Single(Pick(ms, keep), m)
  BY <1>2, <1>5 DEF Single
<1>. QED BY <1>4, <1>6

------------------------------------------------------------------------------
(* The tool blocks of a request *)

InLoop == pc \in {"loop", "compact", "overflow", "llm", "tools", "hook"}

(* Every call is followed by its results and every result follows its call. *)
Paired(ms) ==
  \A i \in DOMAIN ms :
    /\ ms[i].k = "call" => i + 1 \in DOMAIN ms /\ ms[i + 1] = Msg("result", ms[i].n)
    /\ ms[i].k = "result" => i - 1 \in DOMAIN ms /\ ms[i - 1] = Msg("call", ms[i].n)

(* No batch number is used twice, and those to come are not used yet.       *)
Numbered(ms, b) ==
  /\ \A i \in DOMAIN ms : ms[i].k = "call" => ms[i].n <= b
  /\ \A i, j \in DOMAIN ms : ms[i].k = "call" /\ ms[i] = ms[j] => i = j

Toolless(ms) == \A i \in DOMAIN ms : ms[i].k \notin {"call", "result"}

Blocks ==
  /\ pc \in {"hooks", "context"} => Toolless(ctx.messages)
  /\ InLoop /\ pc # "tools" => Paired(ctx.messages)
  /\ pc = "tools" => Paired(Results)
  /\ InLoop => Numbered(ctx.messages, loop.batch)

(* Each batch has cost an iteration, but for the one that runs or was the last.*)
Spent ==
  /\ loop.batch + loop.budget <= MaxIterations + (IF pc = "tools" \/ loop.final THEN 1 ELSE 0)
  /\ pc = "tools" => ~loop.final

(* No signal waits twice.                                                   *)
Queued == \A i, j \in DOMAIN queue : queue[i] = queue[j] => i = j

------------------------------------------------------------------------------
(* Steers *)

Shown == \A i \in Steers : signal[i] = "consumed" => i \in seen

Steering == pc \in {"llm", "overflow", "tools", "hook"} \/ outcome = "completed" => Shown

------------------------------------------------------------------------------
(* What is saved *)

Absent(ms) == \A i \in DOMAIN ms : ms[i] # Ask
Once(ms) == \A i, j \in DOMAIN ms : ms[i] = Ask /\ ms[j] = Ask => i = j
Summed(ms) == \E i \in DOMAIN ms : ms[i] = Summary
Past(ms) == \A i \in DOMAIN ms : ms[i].k = "ask" => ms[i].n <= turn

EndsWithSay(ms) == ms # <<>> /\ ms[Len(ms)] = Say
Recorded(ms) == EndsWithSay(ms) /\ Once(ms) /\ (Absent(ms) => Summed(ms))

(* How the messages of a running turn stand to what the session holds.      *)
Joins(ms, c, st) ==
  /\ Once(ms)
  /\ IF c.mid
     THEN /\ Once(st) /\ Summed(st)
          /\ Len(st) = c.previous /\ c.previous <= Len(ms)
          /\ \A i \in 1 .. c.previous : ms[i] = st[i]
     ELSE Absent(st) /\ c.previous < Len(ms) /\ ms[c.previous + 1] = Ask
Underway(ms) == Joins(ms, ctx, stored)

Recording ==
  /\ Past(stored) /\ Past(ctx.messages) /\ Past(rows)
  /\ pc \in {"hooks", "context"} =>
       /\ Absent(stored) /\ Absent(ctx.messages) /\ ctx.previous = Len(ctx.messages)
       /\ ~ctx.mid /\ ~ctx.first
  /\ InLoop => Underway(ctx.messages)
  /\ pc = "hook" => EndsWithSay(ctx.messages)
  /\ pc = "save" /\ outcome \in {"completed", "failed"} => Recorded(stored \o rows)
  /\ pc = "window" => Recorded(ctx.messages)
  /\ pc = "idle" => rows = <<>>
  /\ pc \notin {"save", "window", "idle"} => outcome = "running"

Inv == TypeOK /\ Spent /\ Queued /\ Blocks /\ Steering /\ Recording

------------------------------------------------------------------------------
(* What appending and compacting do to the messages *)

LEMMA AppendElements ==
  ASSUME NEW S, NEW ms \in Seq(S), NEW m \in S
  PROVE  /\ Append(ms, m) \in Seq(S) /\ Len(Append(ms, m)) = Len(ms) + 1
         /\ DOMAIN Append(ms, m) = (DOMAIN ms) \cup {Len(ms) + 1} /\ Len(ms) + 1 \notin DOMAIN ms
         /\ \A i \in DOMAIN ms : Append(ms, m)[i] = ms[i]
         /\ Append(ms, m)[Len(ms) + 1] = m
  OBVIOUS

LEMMA MsgIs == \A k, n : Msg(k, n).k = k /\ Msg(k, n).n = n
  BY DEF Msg

LEMMA MessageTypes == \A m \in Messages : m.k \in Kinds /\ m.n \in Nat /\ m = Msg(m.k, m.n)
  BY DEF Messages, Msg

LEMMA AppendPaired ==
  ASSUME NEW ms \in Seq(Messages), NEW m \in Messages, m.k \notin {"call", "result"}, Paired(ms)
  PROVE  Paired(Append(ms, m))
  BY AppendElements DEF Paired

LEMMA AppendToolless ==
  ASSUME NEW ms \in Seq(Messages), NEW m \in Messages, m.k \notin {"call", "result"}, Toolless(ms)
  PROVE  Toolless(Append(ms, m)) /\ Paired(Append(ms, m)) /\ \A b : Numbered(Append(ms, m), b)
<1>1. Toolless(Append(ms, m))
  BY AppendElements DEF Toolless
<1>. QED BY <1>1 DEF Toolless, Paired, Numbered

LEMMA AppendBlock ==
  ASSUME NEW ms \in Seq(Messages), NEW n \in Nat, Msg("call", n) \in Messages, Msg("result", n) \in Messages,
         Paired(ms)
  PROVE  Paired(Append(Append(ms, Msg("call", n)), Msg("result", n)))
<1>1. PICK a : a = Append(ms, Msg("call", n))
  OBVIOUS
<1>2. PICK b : b = Append(a, Msg("result", n))
  OBVIOUS
<1>3. /\ a \in Seq(Messages) /\ Len(a) = Len(ms) + 1 /\ a[Len(a)] = Msg("call", n)
      /\ \A i \in DOMAIN ms : a[i] = ms[i]
  BY <1>1, AppendElements
<1>4. /\ b \in Seq(Messages) /\ Len(b) = Len(ms) + 2 /\ b[Len(ms) + 2] = Msg("result", n)
      /\ b[Len(ms) + 1] = Msg("call", n) /\ \A i \in DOMAIN ms : b[i] = ms[i]
  BY <1>2, <1>3, AppendElements
<1>5. ASSUME NEW i \in DOMAIN b
      PROVE  /\ b[i].k = "call" => i + 1 \in DOMAIN b /\ b[i + 1] = Msg("result", b[i].n)
             /\ b[i].k = "result" => i - 1 \in DOMAIN b /\ b[i - 1] = Msg("call", b[i].n)
  <2>1. DOMAIN b = 1 .. Len(ms) + 2 /\ DOMAIN ms = 1 .. Len(ms) /\ Len(ms) \in Nat
    BY <1>4
  <2>2. CASE i \in DOMAIN ms
    BY <1>4, <2>1, <2>2 DEF Paired
  <2>3. CASE i = Len(ms) + 1
    <3>1. i + 1 = Len(ms) + 2 /\ i + 1 \in DOMAIN b
      BY <2>1, <2>3
    <3>. QED BY <1>4, <2>3, <3>1, MsgIs
  <2>4. CASE i = Len(ms) + 2
    <3>1. i - 1 = Len(ms) + 1 /\ i - 1 \in DOMAIN b
      BY <2>1, <2>4
    <3>. QED BY <1>4, <2>4, <3>1, MsgIs
  <2>. QED BY <2>1, <2>2, <2>3, <2>4
<1>. QED BY <1>1, <1>2, <1>5 DEF Paired

LEMMA AppendNumbered ==
  ASSUME NEW ms \in Seq(Messages), NEW m \in Messages, NEW b \in Nat, Numbered(ms, b)
  PROVE  /\ m.k # "call" => Numbered(Append(ms, m), b)
         /\ m.k = "call" /\ m.n = b + 1 => Numbered(Append(ms, m), b + 1)
<1>1. \A i \in DOMAIN ms : ms[i].n \in Nat
  BY MessageTypes, ElementOfSeq
<1>2. PICK a : a = Append(ms, m)
  OBVIOUS
<1>3. PICK l : l = Len(ms) + 1
  OBVIOUS
<1>4. /\ DOMAIN a = (DOMAIN ms) \cup {l} /\ l \notin DOMAIN ms /\ a[l] = m
      /\ \A i \in DOMAIN ms : a[i] = ms[i]
  BY <1>2, <1>3, AppendElements
<1>5. ASSUME m.k # "call" PROVE Numbered(a, b)
  BY <1>4, <1>5 DEF Numbered
<1>6. ASSUME m.k = "call", m.n = b + 1 PROVE Numbered(a, b + 1)
  <2>1. \A i \in DOMAIN ms : ms[i].k = "call" => ms[i].n <= b + 1 /\ ms[i] # m
    BY <1>1, <1>6 DEF Numbered
  <2>. QED BY <1>4, <1>6, <2>1 DEF Numbered
<1>. QED BY <1>2, <1>5, <1>6

LEMMA AppendUnderway ==
  ASSUME TypeOK, NEW ms \in Seq(Messages), NEW m \in Messages, m # Ask, Underway(ms)
  PROVE  Underway(Append(ms, m))
<1>1. PICK a : a = Append(ms, m)
  OBVIOUS
<1>2. PICK l : l = Len(ms) + 1
  OBVIOUS
<1>3. /\ DOMAIN a = (DOMAIN ms) \cup {l} /\ l \notin DOMAIN ms /\ a[l] = m
      /\ \A i \in DOMAIN ms : a[i] = ms[i]
  BY <1>1, <1>2, AppendElements
<1>4. Len(ms) \in Nat /\ Len(a) = Len(ms) + 1 /\ DOMAIN ms = 1 .. Len(ms) /\ ctx.previous \in Nat
  BY <1>1, AppendElements DEF TypeOK
<1>5. Once(a)
  BY <1>3 DEF Underway, Joins, Once
<1>6. CASE ctx.mid
  <2>1. ctx.previous <= Len(ms) /\ \A i \in 1 .. ctx.previous : i \in DOMAIN ms /\ ms[i] = stored[i]
    BY <1>4, <1>6 DEF Underway, Joins
  <2>. QED BY <1>1, <1>3, <1>4, <1>5, <1>6, <2>1 DEF Underway, Joins
<1>7. CASE ~ctx.mid
  <2>1. ctx.previous < Len(ms) /\ ctx.previous + 1 \in DOMAIN ms /\ ms[ctx.previous + 1] = Ask
    BY <1>4, <1>7 DEF Underway, Joins
  <2>. QED BY <1>1, <1>3, <1>4, <1>5, <1>7, <2>1 DEF Underway, Joins
<1>. QED BY <1>6, <1>7

LEMMA AppendPast ==
  ASSUME NEW ms \in Seq(Messages), NEW m \in Messages, m.k = "ask" => m.n <= turn, Past(ms)
  PROVE  Past(Append(ms, m))
  BY AppendElements DEF Past

(* A compaction keeps the halves of a tool block together.                  *)
LEMMA KeptWhole ==
  ASSUME NEW ms \in Seq(Messages), Paired(ms), NEW b, Numbered(ms, b), NEW budget \in Budgets,
         NEW i \in Kept(ms, budget)
  PROVE  /\ i \in DOMAIN ms
         /\ ms[i].k = "call" => i + 1 \in Kept(ms, budget) /\ ms[i + 1] = Msg("result", ms[i].n)
         /\ ms[i].k = "result" => i - 1 \in Kept(ms, budget) /\ ms[i - 1] = Msg("call", ms[i].n)
<1>. DEFINE real == {q \in DOMAIN ms : ms[q].k # "summary"}
            users == {q \in DOMAIN ms : ms[q].k \in {"ask", "steer", "note", "told"}}
            recent == {q \in real : q > Len(ms) - budget.tail}
            tail == CompletePairs(ms, recent)
<1>1. Kept(ms, budget) = tail \cup {q \in users : q > Len(ms) - budget.users}
  BY DEF Kept
<1>2. i \in DOMAIN ms
  BY <1>1 DEF CompletePairs
<1>3. ASSUME ms[i].k \in {"call", "result"} PROVE i \in tail /\ i \in recent
  BY <1>1, <1>3 DEF CompletePairs
<1>. HIDE DEF real, users
<1>4. ASSUME ms[i].k = "call"
      PROVE  i + 1 \in tail /\ ms[i + 1] = Msg("result", ms[i].n)
  <2>1. i + 1 \in DOMAIN ms /\ ms[i + 1] = Msg("result", ms[i].n) /\ ms[i] = Msg("call", ms[i].n)
    BY <1>2, <1>4, MessageTypes, ElementOfSeq DEF Paired
  <2>2. PICK j \in recent : ms[j] = Msg("result", ms[i].n)
    BY <1>3, <1>4 DEF CompletePairs
  <2>3. j \in DOMAIN ms /\ j - 1 \in DOMAIN ms /\ ms[j - 1] = ms[i]
    BY <2>1, <2>2, MsgIs DEF Paired, real
  <2>4. j - 1 = i
    BY <1>2, <1>4, <2>3 DEF Numbered
  <2>5. j = i + 1
    BY <1>2, <2>3, <2>4
  <2>6. ms[j].k = "result" /\ ms[j].n = ms[i].n
    BY <2>2, MsgIs
  <2>7. j \in tail
    BY <1>3, <1>4, <2>1, <2>2, <2>6 DEF CompletePairs
  <2>. QED BY <2>1, <2>5, <2>7
<1>5. ASSUME ms[i].k = "result"
      PROVE  i - 1 \in tail /\ ms[i - 1] = Msg("call", ms[i].n)
  <2>1. i - 1 \in DOMAIN ms /\ ms[i - 1] = Msg("call", ms[i].n) /\ ms[i] = Msg("result", ms[i].n)
    BY <1>2, <1>5, MessageTypes, ElementOfSeq DEF Paired
  <2>2. PICK j \in recent : ms[j] = Msg("call", ms[i].n)
    BY <1>3, <1>5 DEF CompletePairs
  <2>3. j \in DOMAIN ms /\ ms[j] = ms[i - 1] /\ ms[j].k = "call" /\ ms[j].n = ms[i].n
    BY <2>1, <2>2, MsgIs DEF real
  <2>4. j = i - 1
    BY <2>1, <2>3, MsgIs DEF Numbered
  <2>5. j \in tail
    BY <1>3, <1>5, <2>1, <2>2, <2>3 DEF CompletePairs
  <2>. QED BY <2>1, <2>4, <2>5
<1>. QED BY <1>1, <1>2, <1>4, <1>5

LEMMA PickPaired ==
  ASSUME NEW ms \in Seq(Messages), NEW keep \in SUBSET (DOMAIN ms),
         \A i \in keep :
           /\ ms[i].k = "call" => i + 1 \in keep /\ ms[i + 1] = Msg("result", ms[i].n)
           /\ ms[i].k = "result" => i - 1 \in keep /\ ms[i - 1] = Msg("call", ms[i].n)
  PROVE  Paired(Pick(ms, keep))
<1>1. PICK p : p = Pick(ms, keep)
  OBVIOUS
<1>2. PICK f : Enumerates(f, keep) /\ \A j \in 1 .. Cardinality(keep) : p[j] = ms[f[j]]
  BY <1>1, PickOrder
<1>3. PICK N \in Nat : N = Cardinality(keep) /\ DOMAIN p = 1 .. N
  BY <1>1, PickOrder
<1>4. keep \in SUBSET Nat
  OBVIOUS
<1>5. \A j \in 1 .. N : f[j] \in keep /\ p[j] = ms[f[j]]
  BY <1>2, <1>3 DEF Enumerates
<1>6. \A j \in 1 .. N :
        /\ f[j] + 1 \in keep => j + 1 \in 1 .. N /\ f[j + 1] = f[j] + 1
        /\ f[j] - 1 \in keep => j - 1 \in 1 .. N /\ f[j - 1] = f[j] - 1
  <2>1. Enumerates(f, keep) /\ N = Cardinality(keep)
    BY <1>2, <1>3
  <2>. QED BY ONLY <1>4, <2>1, N \in Nat, EnumeratesNext
<1>7. ASSUME NEW j \in 1 .. N, p[j].k = "call" PROVE j + 1 \in 1 .. N /\ p[j + 1] = Msg("result", p[j].n)
  <2>1. f[j] \in keep /\ p[j] = ms[f[j]]
    BY <1>5
  <2>2. f[j] + 1 \in keep /\ ms[f[j] + 1] = Msg("result", p[j].n)
    BY <1>7, <2>1
  <2>3. j + 1 \in 1 .. N /\ f[j + 1] = f[j] + 1
    BY <1>6, <2>2
  <2>4. p[j + 1] = ms[f[j + 1]]
    BY <1>5, <2>3
  <2>. QED BY <2>2, <2>3, <2>4
<1>8. ASSUME NEW j \in 1 .. N, p[j].k = "result" PROVE j - 1 \in 1 .. N /\ p[j - 1] = Msg("call", p[j].n)
  <2>1. f[j] \in keep /\ p[j] = ms[f[j]]
    BY <1>5
  <2>2. f[j] - 1 \in keep /\ ms[f[j] - 1] = Msg("call", p[j].n)
    BY <1>8, <2>1
  <2>3. j - 1 \in 1 .. N /\ f[j - 1] = f[j] - 1
    BY <1>6, <2>2
  <2>4. p[j - 1] = ms[f[j - 1]]
    BY <1>5, <2>3
  <2>. QED BY <2>2, <2>3, <2>4
<1>. QED BY <1>1, <1>3, <1>7, <1>8 DEF Paired

LEMMA PickNumbered ==
  ASSUME NEW ms \in Seq(Messages), NEW keep \in SUBSET (DOMAIN ms), NEW b, Numbered(ms, b)
  PROVE  Numbered(Pick(ms, keep), b)
<1>1. PICK p \in Seq(Messages) : p = Pick(ms, keep)
  BY PickOrder
<1>2. \A j \in DOMAIN p : \E i \in DOMAIN ms : p[j] = ms[i]
  BY <1>1, PickElements
<1>3. \A m : Single(ms, m) => Single(p, m)
  BY <1>1, PickElements
<1>4. \A m : m.k = "call" => Single(ms, m)
  BY DEF Numbered, Single
<1>5. \A j \in DOMAIN p : p[j].k = "call" => p[j].n <= b
  BY <1>2 DEF Numbered
<1>6. \A i, j \in DOMAIN p : p[i].k = "call" /\ p[i] = p[j] => i = j
  BY <1>3, <1>4 DEF Single
<1>. QED BY <1>1, <1>5, <1>6 DEF Numbered

(* What holds of the messages that any choice of them keeps.                *)
LEMMA PickKeeps ==
  ASSUME NEW ms \in Seq(Messages), NEW keep \in SUBSET (DOMAIN ms)
  PROVE  /\ Toolless(ms) => Toolless(Pick(ms, keep))
         /\ Once(ms) => Once(Pick(ms, keep))
         /\ Absent(ms) => Absent(Pick(ms, keep))
         /\ Past(ms) => Past(Pick(ms, keep))
<1>1. PICK p \in Seq(Messages) : p = Pick(ms, keep)
  BY PickOrder
<1>2. \A j \in DOMAIN p : \E i \in DOMAIN ms : p[j] = ms[i]
  BY <1>1, PickElements
<1>3. Single(ms, Ask) => Single(p, Ask)
  BY <1>1, PickElements
<1>4. Once(ms) => Once(p)
  BY <1>3 DEF Once, Single
<1>5. (Toolless(ms) => Toolless(p)) /\ (Absent(ms) => Absent(p)) /\ (Past(ms) => Past(p))
  BY <1>2 DEF Toolless, Absent, Past
<1>. QED BY <1>1, <1>4, <1>5

LEMMA SummaryTypes == Summary \in Messages /\ Summary.k = "summary" /\ Summary # Ask
<1>1. Summary.k = "summary" /\ Ask.k = "ask"
  BY MsgIs DEF Summary, Ask
<1>. QED BY <1>1, LimitsAssumption DEF Summary, Msg, Messages, Kinds

(* A compaction: its messages are whole, and it adds a summary.             *)
LEMMA ReplacementKeeps ==
  ASSUME NEW ms \in Seq(Messages), NEW new \in Replacements(ms)
  PROVE  /\ new \in Seq(Messages) /\ Len(new) \in Nat \ {0} /\ Summed(new)
         /\ Toolless(ms) => Toolless(new)
         /\ Once(ms) => Once(new)
         /\ Absent(ms) => Absent(new)
         /\ Past(ms) => Past(new)
         /\ \A b : Paired(ms) /\ Numbered(ms, b) => Paired(new) /\ Numbered(new, b)
<1>1. PICK budget \in Budgets : new = Append(Pick(ms, Kept(ms, budget)), Summary)
  BY DEF Replacements
<1>2. PICK keep : keep = Kept(ms, budget)
  OBVIOUS
<1>3. keep \in SUBSET (DOMAIN ms)
  BY <1>2 DEF Kept, CompletePairs
<1>4. PICK p \in Seq(Messages) : p = Pick(ms, keep)
  BY <1>3, PickOrder
<1>5. /\ new = Append(p, Summary) /\ new \in Seq(Messages) /\ Len(new) = Len(p) + 1
      /\ new[Len(p) + 1] = Summary /\ DOMAIN new = (DOMAIN p) \cup {Len(p) + 1}
      /\ \A i \in DOMAIN p : new[i] = p[i]
  BY <1>1, <1>2, <1>4, SummaryTypes, AppendElements
<1>6. Summed(new)
  BY <1>5 DEF Summed
<1>7. /\ Toolless(ms) => Toolless(p)
      /\ Once(ms) => Once(p)
      /\ Absent(ms) => Absent(p)
      /\ Past(ms) => Past(p)
  BY <1>3, <1>4, PickKeeps
<1>8. /\ Toolless(ms) => Toolless(new)
      /\ Once(ms) => Once(new)
      /\ Absent(ms) => Absent(new)
      /\ Past(ms) => Past(new)
  BY <1>5, <1>7, SummaryTypes DEF Toolless, Once, Absent, Past
<1>9. ASSUME NEW b, Paired(ms), Numbered(ms, b) PROVE Paired(new) /\ Numbered(new, b)
  <2>1. \A i \in keep :
          /\ ms[i].k = "call" => i + 1 \in keep /\ ms[i + 1] = Msg("result", ms[i].n)
          /\ ms[i].k = "result" => i - 1 \in keep /\ ms[i - 1] = Msg("call", ms[i].n)
    BY <1>2, <1>9, KeptWhole
  <2>2. Paired(p) /\ Numbered(p, b)
    BY <1>3, <1>4, <1>9, <2>1, PickPaired, PickNumbered
  <2>3. Paired(new)
    BY <1>5, <2>2, SummaryTypes, AppendPaired
  <2>4. Numbered(new, b)
    <3>1. Len(p) + 1 \notin DOMAIN p
      OBVIOUS
    <3>. QED BY <1>5, <2>2, <3>1, SummaryTypes DEF Numbered
  <2>. QED BY <2>3, <2>4
<1>10. Len(new) \in Nat \ {0}
  BY <1>5
<1>. QED BY <1>5, <1>6, <1>8, <1>9, <1>10

------------------------------------------------------------------------------
(* Types *)

Contexts == [messages : Seq(Messages), previous : Nat, user : Nat, first : BOOLEAN, mid : BOOLEAN,
             image : BOOLEAN]
Loops == [budget : Nat, tries : [Defects -> Nat], postTool : BOOLEAN, ran : BOOLEAN, final : BOOLEAN,
          hook : BOOLEAN, overflow : BOOLEAN, compacted : Int, batch : Nat, same : Nat]
Places == {"idle", "hooks", "context", "loop", "compact", "overflow", "llm", "tools", "hook", "save",
           "window"}
Outcomes == {"running", "completed", "stopped", "failed", "lost"}

(* The parts of TypeOK that change together.                                *)
CtxTypes ==
  /\ ctx \in Contexts
  /\ ctx.previous \in 0 .. Len(ctx.messages) /\ ctx.user \in 1 .. Len(ctx.messages) + 1
LoopTypes ==
  /\ loop \in Loops
  /\ loop.budget \in 1 .. MaxIterations /\ loop.batch \in 0 .. MaxIterations
SteerTypes ==
  /\ signal \in [Steers -> {"none", "pending", "consumed", "expired"}]
  /\ queue \in Seq(Steers)
  /\ {i \in Steers : signal[i] = "pending"} = {queue[j] : j \in DOMAIN queue}
  /\ Len(queue) <= MaxPending /\ seen \subseteq Steers
RowTypes == stored \in Seq(Messages) /\ rows \in Seq(Messages)
PlaceTypes ==
  /\ turn \in 0 .. MaxTurns /\ stops \in 0 .. MaxStops /\ pc \in Places /\ outcome \in Outcomes
  /\ interrupt \in BOOLEAN

LEMMA TypesOfParts ==
  /\ TypeOK <=> CtxTypes /\ LoopTypes /\ SteerTypes /\ RowTypes /\ PlaceTypes
  /\ TypeOK' <=> CtxTypes' /\ LoopTypes' /\ SteerTypes' /\ RowTypes' /\ PlaceTypes'
  BY DEF TypeOK, CtxTypes, LoopTypes, SteerTypes, RowTypes, PlaceTypes, Contexts, Loops, Places, Outcomes

(* The parts that TypeOK needs for the bounds of batches and of the queue.  *)
Counted == Spent /\ Queued
Typed == TypeOK /\ Counted

LEMMA Numbers ==
  /\ MaxIterations \in Nat \ {0} /\ MaxIdentical \in Nat \ {0} /\ MaxPending \in Nat \ {0}
  /\ MaxTurns \in Nat /\ MaxSteers \in Nat /\ MaxStops \in Nat
  BY LimitsAssumption

LEMMA MessageMade ==
  /\ \A n \in 0 .. MaxTurns + MaxSteers + MaxIterations, k \in Kinds : Msg(k, n) \in Messages
  /\ Say \in Messages /\ Say.k = "say" /\ Msg("note", 0) \in Messages
  /\ \A n \in 0 .. MaxIterations : Msg("call", n) \in Messages /\ Msg("result", n) \in Messages
  /\ \A i \in Steers : Msg("steer", i) \in Messages
<1>1. \A n \in 0 .. MaxTurns + MaxSteers + MaxIterations, k \in Kinds : Msg(k, n) \in Messages
  BY DEF Msg, Messages
<1>2. /\ 0 \in 0 .. MaxTurns + MaxSteers + MaxIterations
      /\ \A n \in 0 .. MaxIterations : n \in 0 .. MaxTurns + MaxSteers + MaxIterations
      /\ \A i \in Steers : i \in 0 .. MaxTurns + MaxSteers + MaxIterations
  BY Numbers DEF Steers
<1>3. Say \in Messages /\ Say.k = "say" /\ Msg("note", 0) \in Messages
  BY <1>1, <1>2, MsgIs DEF Say, Kinds
<1>4. \A n \in 0 .. MaxIterations : Msg("call", n) \in Messages /\ Msg("result", n) \in Messages
  BY <1>1, <1>2 DEF Kinds
<1>5. \A i \in Steers : Msg("steer", i) \in Messages
  BY <1>1, <1>2 DEF Kinds
<1>. QED BY <1>1, <1>3, <1>4, <1>5

LEMMA AskTypes == ASSUME turn \in 0 .. MaxTurns PROVE Ask \in Messages /\ Ask.k = "ask" /\ Ask.n = turn
<1>1. turn \in 0 .. MaxTurns + MaxSteers + MaxIterations
  BY Numbers
<1>. QED BY <1>1, MessageMade, MsgIs DEF Ask, Kinds

LEMMA NewTypes == NewLoop \in Loops /\ NoContext \in Contexts
<1>1. NewLoop \in Loops
  BY Numbers DEF NewLoop, Loops
<1>2. NoContext \in Contexts
  BY EmptySeq DEF NoContext, Contexts
<1>. QED BY <1>1, <1>2

LEMMA InitTyped == Init => Typed
<1>. SUFFICES ASSUME Init PROVE Typed
  OBVIOUS
<1>. USE DEF Init
<1>1. CtxTypes
  <2>1. ctx.messages = <<>> /\ ctx.previous = 0 /\ ctx.user = 1 /\ Len(<<>>) = 0
    BY DEF NoContext
  <2>. QED BY <2>1, NewTypes DEF CtxTypes
<1>2. LoopTypes /\ Spent
  <2>1. loop.budget = MaxIterations /\ loop.batch = 0 /\ pc = "idle"
    BY DEF NewLoop
  <2>. QED BY <2>1, NewTypes, Numbers DEF LoopTypes, Spent
<1>3. SteerTypes /\ Queued
  BY Numbers, EmptySeq DEF SteerTypes, Queued
<1>4. RowTypes
  BY EarlierAssumption, EmptySeq DEF RowTypes
<1>5. PlaceTypes
  <2>1. turn \in 0 .. MaxTurns /\ stops \in 0 .. MaxStops
    BY Numbers
  <2>. QED BY <2>1 DEF PlaceTypes, Places, Outcomes
<1>. QED BY <1>1, <1>2, <1>3, <1>4, <1>5, TypesOfParts DEF Typed, Counted

(* Histories *)

LEMMA LoadedKeeps ==
  ASSUME RowTypes
  PROVE  /\ Loaded \in Seq(Messages) /\ Toolless(Loaded)
         /\ Past(stored) => Past(Loaded)
         /\ Absent(stored) => Absent(Loaded)
<1>1. PICK keep \in SUBSET (DOMAIN stored) : keep = {i \in DOMAIN stored : stored[i].k # "call"}
  OBVIOUS
<1>2. PICK p \in Seq(Messages) : p = Pick(stored, keep)
  BY <1>1, PickOrder DEF RowTypes
<1>3. PICK l : l = Loaded
  OBVIOUS
<1>4. l = [i \in DOMAIN p |-> IF p[i].k = "result" THEN Msg("told", p[i].n) ELSE p[i]]
  BY <1>1, <1>2, <1>3 DEF Loaded
<1>5. \A i \in DOMAIN p : \E q \in keep : p[i] = stored[q]
  <2>1. stored \in Seq(Messages)
    BY DEF RowTypes
  <2>2. \A j \in DOMAIN Pick(stored, keep) : \E q \in keep : Pick(stored, keep)[j] = stored[q]
    BY ONLY <2>1, keep \in SUBSET (DOMAIN stored), PickElements
  <2>. QED BY <1>2, <2>2
<1>6. \A i \in DOMAIN p : p[i] \in Messages /\ p[i].k # "call"
  BY <1>1, <1>2, <1>5, ElementOfSeq
<1>7. \A m \in Messages : Msg("told", m.n) \in Messages /\ Msg("told", m.n).k = "told"
  BY MessageMade, MsgIs DEF Messages, Kinds
<1>8. \A i \in DOMAIN p : l[i] \in Messages /\ l[i].k \notin {"call", "result"} /\ (l[i].k = "ask" => l[i] = p[i])
  BY <1>4, <1>6, <1>7
<1>9. l \in Seq(Messages) /\ DOMAIN l = DOMAIN p
  <2>1. DOMAIN p = 1 .. Len(p) /\ Len(p) \in Nat
    BY <1>2
  <2>2. l \in [1 .. Len(p) -> Messages]
    BY <1>4, <1>8, <2>1
  <2>. QED BY <1>4, <2>1, <2>2
<1>10. Toolless(l)
  BY <1>8, <1>9 DEF Toolless
<1>11. Past(stored) => Past(l)
  BY <1>1, <1>5, <1>8, <1>9 DEF Past
<1>12. Absent(stored) => Absent(l)
  <2>1. Ask.k = "ask"
    BY MsgIs DEF Ask
  <2>. QED BY <1>1, <1>5, <1>8, <1>9, <2>1 DEF Absent
<1>. QED BY <1>3, <1>9, <1>10, <1>11, <1>12

------------------------------------------------------------------------------
(* What a step leaves as it was *)

LEMMA RecordingNext ==
  ASSUME turn' = turn,
         Past(stored') /\ Past(ctx'.messages) /\ Past(rows'),
         pc' \in {"hooks", "context"} =>
           /\ Absent(stored') /\ Absent(ctx'.messages) /\ ctx'.previous = Len(ctx'.messages)
           /\ ~ctx'.mid /\ ~ctx'.first,
         InLoop' => Joins(ctx'.messages, ctx', stored'),
         pc' = "hook" => EndsWithSay(ctx'.messages),
         pc' = "save" /\ outcome' \in {"completed", "failed"} => Recorded(stored' \o rows'),
         pc' = "window" => Recorded(ctx'.messages),
         pc' = "idle" => rows' = <<>>,
         pc' \notin {"save", "window", "idle"} => outcome' = "running"
  PROVE  Recording'
<1>1. Ask' = Ask
  BY DEF Ask
<1>2. (Past(stored))' /\ (Past(ctx.messages))' /\ (Past(rows))'
  BY DEF Past
<1>3. (pc \in {"hooks", "context"} =>
        /\ Absent(stored) /\ Absent(ctx.messages) /\ ctx.previous = Len(ctx.messages)
        /\ ~ctx.mid /\ ~ctx.first)'
  BY <1>1, Zenon DEF Absent
<1>4. (InLoop => Underway(ctx.messages))'
  BY <1>1, Zenon DEF Underway, Joins, Once, Absent, Summed
<1>5. (Recorded(stored \o rows))' <=> Recorded(stored' \o rows')
  BY <1>1, Zenon DEF Recorded, EndsWithSay, Once, Absent, Summed
<1>6. (Recorded(ctx.messages))' <=> Recorded(ctx'.messages)
  BY <1>1, Zenon DEF Recorded, EndsWithSay, Once, Absent, Summed
<1>7. (EndsWithSay(ctx.messages))' <=> EndsWithSay(ctx'.messages)
  BY DEF EndsWithSay
<1>. QED BY <1>2, <1>3, <1>4, <1>5, <1>6, <1>7 DEF Recording

(* A step of the loop that leaves the messages as they are or adds to them. *)
LEMMA RecordingGoesOn ==
  ASSUME Recording, InLoop, InLoop', UNCHANGED <<stored, turn, rows, outcome>>,
         NEW ms, ctx'.messages = ms, Past(ms), Underway(ms),
         ctx'.previous = ctx.previous /\ ctx'.mid = ctx.mid,
         pc' = "hook" => EndsWithSay(ms)
  PROVE  Recording'
<1>1. Past(stored') /\ Past(rows') /\ outcome' = "running"
  BY DEF Recording, InLoop
<1>2. Joins(ctx'.messages, ctx', stored')
  BY Zenon DEF Underway, Joins
<1>3. /\ turn' = turn /\ Past(ctx'.messages)
      /\ pc' \notin {"hooks", "context", "save", "window", "idle"}
      /\ pc' = "hook" => EndsWithSay(ctx'.messages)
  BY DEF InLoop
<1>. QED BY <1>1, <1>2, <1>3, RecordingNext

(* The types of the messages and of the loop.                               *)
LEMMA CtxGrows ==
  ASSUME CtxTypes, NEW ms \in Seq(Messages), Len(ctx.messages) <= Len(ms), NEW image \in BOOLEAN,
         ctx' = [ctx EXCEPT !.messages = ms, !.image = image]
  PROVE  /\ CtxTypes' /\ ctx'.messages = ms /\ ctx'.previous = ctx.previous /\ ctx'.user = ctx.user
         /\ ctx'.mid = ctx.mid /\ ctx'.first = ctx.first
<1>1. /\ ctx'.messages = ms /\ ctx'.previous = ctx.previous /\ ctx'.user = ctx.user
      /\ ctx'.mid = ctx.mid /\ ctx'.first = ctx.first /\ ctx'.image = image /\ ctx' \in Contexts
  BY DEF CtxTypes, Contexts
<1>2. /\ Len(ctx.messages) \in Nat /\ Len(ms) \in Nat
      /\ ctx.previous \in 0 .. Len(ctx.messages) /\ ctx.user \in 1 .. Len(ctx.messages) + 1
  BY DEF CtxTypes, Contexts
<1>3. ctx.previous \in 0 .. Len(ms) /\ ctx.user \in 1 .. Len(ms) + 1
  BY <1>2
<1>. QED BY <1>1, <1>3 DEF CtxTypes

LEMMA MessagesGrow ==
  ASSUME CtxTypes, NEW ms \in Seq(Messages), Len(ctx.messages) <= Len(ms),
         ctx' = [ctx EXCEPT !.messages = ms]
  PROVE  /\ CtxTypes' /\ ctx'.messages = ms /\ ctx'.previous = ctx.previous /\ ctx'.user = ctx.user
         /\ ctx'.mid = ctx.mid /\ ctx'.first = ctx.first
<1>1. ctx.image \in BOOLEAN /\ ctx' = [ctx EXCEPT !.messages = ms, !.image = ctx.image]
  BY DEF CtxTypes, Contexts
<1>. QED BY <1>1, CtxGrows

LEMMA LoopReset == ASSUME loop' = NewLoop PROVE LoopTypes' /\ Spent'
<1>1. loop'.budget = MaxIterations /\ loop'.batch = 0 /\ loop'.final = FALSE
  BY DEF NewLoop
<1>2. MaxIterations \in 1 .. MaxIterations /\ 0 \in 0 .. MaxIterations
  BY Numbers
<1>3. Spent'
  BY <1>1, Numbers DEF Spent
<1>. QED BY <1>1, <1>2, <1>3, NewTypes DEF LoopTypes

LEMMA SteersKept ==
  ASSUME SteerTypes, Queued, UNCHANGED <<signal, queue>>, seen' \subseteq Steers
  PROVE  SteerTypes' /\ Queued'
  BY DEF SteerTypes, Queued

------------------------------------------------------------------------------
(* The end of a turn *)

LEMMA SuffixOf ==
  ASSUME NEW S, NEW ms \in Seq(S), NEW a \in Nat \ {0}, a <= Len(ms) + 1
  PROVE  /\ SubSeq(ms, a, Len(ms)) \in Seq(S) /\ Len(SubSeq(ms, a, Len(ms))) = Len(ms) + 1 - a
         /\ \A i \in 1 .. Len(ms) + 1 - a : SubSeq(ms, a, Len(ms))[i] = ms[a + i - 1]
<1>1. PICK n \in Nat : n = Len(ms) /\ ms \in [1 .. n -> S]
  OBVIOUS
<1>2. PICK s : s = SubSeq(ms, a, n)
  OBVIOUS
<1>3. PICK l \in Nat : l = n + 1 - a
  BY <1>1
<1>4. s = [i \in 1 .. l |-> ms[a + i - 1]]
  BY <1>1, <1>2, <1>3
<1>5. \A i \in 1 .. l : s[i] = ms[a + i - 1] /\ a + i - 1 \in 1 .. n
  BY <1>1, <1>3, <1>4
<1>6. s \in [1 .. l -> S]
  BY <1>1, <1>4, <1>5
<1>7. s \in Seq(S) /\ Len(s) = l
  BY <1>6
<1>. QED BY <1>1, <1>2, <1>3, <1>5, <1>7

LEMMA PastSuffix ==
  ASSUME NEW ms \in Seq(Messages), NEW a \in Nat \ {0}, a <= Len(ms) + 1, Past(ms)
  PROVE  SubSeq(ms, a, Len(ms)) \in Seq(Messages) /\ Past(SubSeq(ms, a, Len(ms)))
<1>1. PICK n \in Nat : n = Len(ms) /\ DOMAIN ms = 1 .. n
  OBVIOUS
<1>2. PICK s : s = SubSeq(ms, a, Len(ms))
  OBVIOUS
<1>3. /\ s \in Seq(Messages) /\ Len(s) = n + 1 - a
      /\ \A i \in 1 .. n + 1 - a : s[i] = ms[a + i - 1]
  BY <1>1, <1>2, SuffixOf
<1>4. \A i \in DOMAIN s : s[i] = ms[a + i - 1] /\ a + i - 1 \in DOMAIN ms
  <2>1. DOMAIN s = 1 .. n + 1 - a
    BY <1>3
  <2>2. \A i \in 1 .. n + 1 - a : a + i - 1 \in 1 .. n
    BY ONLY n \in Nat, a \in Nat \ {0}
  <2>. QED BY <1>1, <1>3, <2>1, <2>2
<1>5. Past(s)
  BY <1>4 DEF Past
<1>. QED BY <1>2, <1>3, <1>5

LEMMA ShortTurns ==
  ASSUME PlaceTypes
  PROVE  <<Ask>> \in Seq(Messages) /\ Past(<<Ask>>) /\ <<Say>> \in Seq(Messages) /\ Past(<<Say>>)
         /\ <<Ask, Say>> \in Seq(Messages) /\ Past(<<Ask, Say>>)
<1>1. Ask \in Messages /\ Ask.n = turn /\ turn \in Nat /\ Say \in Messages /\ Say.k = "say"
  BY AskTypes, MessageMade, Numbers DEF PlaceTypes
<1>. QED BY <1>1 DEF Past

LEMMA StoppedTypes ==
  ASSUME CtxTypes, PlaceTypes, Past(ctx.messages)
  PROVE  StoppedTranscript \in Seq(Messages) /\ Past(StoppedTranscript)
<1>1. PICK ms \in Seq(Messages) : ms = ctx.messages
  BY DEF CtxTypes, Contexts
<1>2. ctx.user \in Nat \ {0} /\ Past(ms)
  BY <1>1 DEF CtxTypes
<1>. DEFINE same == {i \in DOMAIN ms : ms[i] = Ask}
            cur == IF ctx.user <= Len(ms) THEN SubSeq(ms, ctx.user, Len(ms))
                   ELSE IF same # {} THEN SubSeq(ms, CHOOSE i \in same : \A j \in same : j <= i, Len(ms))
                   ELSE <<Ask>>
<1>3. cur \in Seq(Messages) /\ Past(cur)
  <2>1. CASE ctx.user <= Len(ms)
    <3>1. ctx.user <= Len(ms) + 1
      BY <1>1, <1>2, <2>1
    <3>. QED BY <1>2, <2>1, <3>1, PastSuffix
  <2>2. CASE ~(ctx.user <= Len(ms)) /\ same # {}
    <3>1. \E i \in same : \A j \in same : j <= i
      <4>1. PICK n \in Nat : same \subseteq 1 .. n
        BY <1>1
      <4>2. PICK x \in {n - i : i \in same} : \A y \in {n - i : i \in same} : x <= y
        <5>1. {n - i : i \in same} \subseteq Nat /\ {n - i : i \in same} # {}
          BY <2>2, <4>1
        <5>. QED BY <5>1, LeastOf
      <4>3. PICK i \in same : x = n - i
        BY <4>2
      <4>4. \A j \in same : j \in Nat /\ n - i <= n - j
        BY <4>1, <4>2, <4>3
      <4>. QED BY <4>1, <4>4
    <3>2. PICK a : a = CHOOSE i \in same : \A j \in same : j <= i
      OBVIOUS
    <3>3. a \in same
      BY <3>1, <3>2
    <3>4. a \in Nat \ {0} /\ a <= Len(ms) + 1
      <4>1. a \in DOMAIN ms
        BY <3>3
      <4>2. PICK n \in Nat : n = Len(ms) /\ DOMAIN ms = 1 .. n
        BY <1>1
      <4>3. a \in 1 .. n
        BY <4>1, <4>2
      <4>. QED BY <4>2, <4>3
    <3>. QED BY <1>2, <2>2, <3>2, <3>4, PastSuffix
  <2>3. CASE ~(ctx.user <= Len(ms)) /\ same = {}
    BY <2>3, ShortTurns
  <2>. QED BY <2>1, <2>2, <2>3
<1>. HIDE DEF cur
<1>4. PICK c \in Seq(Messages) : c = cur /\ Past(c)
  BY <1>3
<1>5. PICK keep : keep = CompletePairs(c, DOMAIN c)
  OBVIOUS
<1>6. keep \in SUBSET (DOMAIN c)
  BY <1>5 DEF CompletePairs
<1>7. PICK p \in Seq(Messages) : p = Pick(c, keep) /\ Past(p)
  BY <1>4, <1>6, PickOrder, PickKeeps
<1>8. Append(p, Say) \in Seq(Messages) /\ Past(Append(p, Say))
  BY <1>7, MessageMade, AppendElements, AppendPast
<1>9. StoppedTranscript = Append(p, Say)
  BY <1>1, <1>4, <1>5, <1>7 DEF StoppedTranscript, cur
<1>. QED BY <1>8, <1>9

(* Appending the reply, alone or after the user message, to what is stored. *)
LEMMA RecordedBySay ==
  ASSUME NEW st \in Seq(Messages), PlaceTypes
  PROVE  /\ Once(st) /\ Summed(st) => Recorded(st \o <<Say>>)
         /\ Absent(st) => Recorded(st \o <<Ask, Say>>)
<1>1. Ask # Say /\ Ask \in Messages /\ Say \in Messages
  BY AskTypes, MessageMade DEF PlaceTypes
<1>2. PICK n \in Nat : n = Len(st) /\ DOMAIN st = 1 .. n
  OBVIOUS
<1>3. ASSUME Once(st), Summed(st) PROVE Recorded(st \o <<Say>>)
  <2>1. PICK r : r = st \o <<Say>>
    OBVIOUS
  <2>2. /\ r \in Seq(Messages) /\ Len(r) = n + 1 /\ DOMAIN r = 1 .. n + 1 /\ r # <<>>
        /\ r[n + 1] = Say /\ \A i \in 1 .. n : r[i] = st[i]
    BY <1>1, <1>2, <2>1
  <2>3. Once(r)
    BY <1>1, <1>2, <1>3, <2>2 DEF Once
  <2>4. Summed(r)
    BY <1>2, <1>3, <2>2 DEF Summed
  <2>. QED BY <2>1, <2>2, <2>3, <2>4 DEF Recorded, EndsWithSay
<1>4. ASSUME Absent(st) PROVE Recorded(st \o <<Ask, Say>>)
  <2>1. PICK r : r = st \o <<Ask, Say>>
    OBVIOUS
  <2>2. /\ r \in Seq(Messages) /\ Len(r) = n + 2 /\ DOMAIN r = 1 .. n + 2 /\ r # <<>>
        /\ r[n + 2] = Say /\ r[n + 1] = Ask /\ \A i \in 1 .. n : r[i] = st[i]
    BY <1>1, <1>2, <2>1
  <2>3. Once(r)
    BY <1>1, <1>2, <1>4, <2>2 DEF Once, Absent
  <2>4. ~Absent(r)
    BY <2>2 DEF Absent
  <2>. QED BY <2>1, <2>2, <2>3, <2>4 DEF Recorded, EndsWithSay
<1>. QED BY <1>3, <1>4

LEMMA ConcatElements ==
  ASSUME NEW S, NEW s \in Seq(S), NEW t \in Seq(S), NEW q \in Nat, q = Len(s), NEW l \in Nat, l = Len(t)
  PROVE  /\ s \o t \in Seq(S) /\ Len(s \o t) = q + l /\ DOMAIN (s \o t) = 1 .. q + l
         /\ \A i \in 1 .. q : (s \o t)[i] = s[i]
         /\ \A i \in 1 .. l : (s \o t)[q + i] = t[i]
  OBVIOUS

(* The messages of a completed turn, after a checkpoint or none.            *)
LEMMA RecordedRest ==
  ASSUME NEW ms \in Seq(Messages), Underway(ms), EndsWithSay(ms), TypeOK
  PROVE  /\ ctx.mid => Recorded(ms)
         /\ ctx.first \/ ~ctx.mid => Recorded(stored \o SubSeq(ms, ctx.previous + 1, Len(ms)))
<1>0. PICK n \in Nat : n = Len(ms) /\ DOMAIN ms = 1 .. n /\ n # 0
  BY DEF EndsWithSay
<1>1. PICK p \in Nat : p = ctx.previous /\ p <= n
  BY <1>0 DEF TypeOK, Underway, Joins
<1>2. PICK q \in Nat : q = Len(stored) /\ DOMAIN stored = 1 .. q /\ stored \in Seq(Messages)
  BY DEF TypeOK
<1>3. Say # Ask /\ ms[n] = Say
  BY <1>0, AskTypes, MessageMade DEF TypeOK, EndsWithSay
<1>4. PICK rest : rest = SubSeq(ms, ctx.previous + 1, Len(ms))
  OBVIOUS
<1>5. /\ rest \in Seq(Messages) /\ Len(rest) = n - p
      /\ \A i \in 1 .. n - p : rest[i] = ms[p + i]
  <2>1. p + 1 \in Nat \ {0} /\ p + 1 <= Len(ms) + 1
    BY <1>0, <1>1
  <2>2. /\ rest \in Seq(Messages) /\ Len(rest) = Len(ms) + 1 - (p + 1)
        /\ \A i \in 1 .. Len(ms) + 1 - (p + 1) : rest[i] = ms[(p + 1) + i - 1]
    BY <1>1, <1>4, <2>1, SuffixOf
  <2>3. Len(ms) + 1 - (p + 1) = n - p /\ \A i \in 1 .. n - p : (p + 1) + i - 1 = p + i
    BY <1>0
  <2>. QED BY <2>2, <2>3
<1>6. PICK r : r = stored \o rest
  OBVIOUS
<1>7. /\ r \in Seq(Messages) /\ Len(r) = q + (n - p) /\ DOMAIN r = 1 .. q + (n - p)
      /\ \A i \in 1 .. q : r[i] = stored[i]
      /\ \A i \in 1 .. n - p : r[q + i] = rest[i]
  <2>1. PICK l \in Nat : l = n - p
    BY <1>0, <1>1
  <2>2. /\ r \in Seq(Messages) /\ Len(r) = q + l /\ DOMAIN r = 1 .. q + l
        /\ \A i \in 1 .. q : r[i] = stored[i]
        /\ \A i \in 1 .. l : r[q + i] = rest[i]
    <3>1. stored \in Seq(Messages) /\ rest \in Seq(Messages) /\ q = Len(stored) /\ l = Len(rest)
      BY <1>2, <1>5, <2>1
    <3>. QED BY ONLY q \in Nat, l \in Nat, <1>6, <3>1, ConcatElements
  <2>. QED BY <2>1, <2>2
<1>8. CASE ctx.mid
  <2>1. /\ Once(ms) /\ Summed(stored) /\ q = p /\ \A i \in 1 .. p : ms[i] = stored[i]
    BY <1>1, <1>2, <1>8 DEF Underway, Joins
  <2>2. Summed(ms)
    <3>1. PICK i \in 1 .. q : stored[i] = Summary
      BY <1>2, <2>1 DEF Summed
    <3>. QED BY <1>0, <1>1, <2>1, <3>1 DEF Summed
  <2>3. Recorded(ms)
    BY <2>1, <2>2 DEF Recorded
  <2>4. r = ms
    <3>1. Len(r) = n
      BY <1>0, <1>1, <1>7, <2>1
    <3>2. ASSUME NEW i \in 1 .. n PROVE r[i] = ms[i]
      <4>1. CASE i <= p
        BY <1>7, <2>1, <4>1
      <4>2. CASE ~(i <= p)
        <5>1. i - p \in 1 .. n - p /\ i = p + (i - p)
          BY <1>1, <4>2
        <5>. QED BY <1>5, <1>7, <2>1, <5>1
      <4>. QED BY <4>1, <4>2
    <3>. QED BY <1>0, <1>7, <3>1, <3>2, SeqEqual
  <2>. QED BY <1>4, <1>6, <2>3, <2>4
<1>9. CASE ~ctx.mid
  <2>1. Once(ms) /\ Absent(stored) /\ p < n /\ ms[p + 1] = Ask
    BY <1>0, <1>1, <1>9 DEF Underway, Joins
  <2>2. n - p \in Nat \ {0} /\ 1 \in 1 .. n - p /\ n - p \in 1 .. n - p /\ p + (n - p) = n
    BY <2>1
  <2>3. r[q + (n - p)] = Say /\ r[q + 1] = Ask
    BY <1>3, <1>5, <1>7, <2>1, <2>2
  <2>4. r # <<>> /\ Len(r) = q + (n - p) /\ q + 1 \in DOMAIN r
    BY <1>7, <2>2
  <2>5. Once(r)
    <3>1. ASSUME NEW i \in 1 .. q + (n - p), r[i] = Ask
          PROVE  i - q \in 1 .. n - p /\ p + (i - q) \in DOMAIN ms /\ ms[p + (i - q)] = Ask
      <4>1. i \notin 1 .. q
        BY <1>2, <1>7, <2>1, <3>1 DEF Absent
      <4>2. i - q \in 1 .. n - p /\ i = q + (i - q)
        BY <2>2, <4>1
      <4>3. p + (i - q) \in 1 .. n
        BY <4>2
      <4>. QED BY <1>0, <1>5, <1>7, <3>1, <4>2, <4>3
    <3>2. ASSUME NEW i \in 1 .. q + (n - p), NEW j \in 1 .. q + (n - p), r[i] = Ask, r[j] = Ask
          PROVE  i = j
      <4>1. p + (i - q) = p + (j - q)
        BY <2>1, <3>1, <3>2 DEF Once
      <4>. QED BY <2>2, <4>1
    <3>. QED BY <1>7, <3>2 DEF Once
  <2>6. ~Absent(r)
    BY <2>3, <2>4 DEF Absent
  <2>. QED BY <1>4, <1>6, <1>9, <2>3, <2>4, <2>5, <2>6 DEF Recorded, EndsWithSay
<1>. QED BY <1>8, <1>9

(* Leaving the loop keeps the invariant: a turn completes with its reply    *)
(* last, and shown what it consumed.                                        *)
LEMMA FinishKeeps ==
  ASSUME Inv, pc \in {"hooks", "context"} \/ InLoop,
         NEW ms \in Seq(Messages), Len(ctx.messages) <= Len(ms), Past(ms),
         NEW status \in {"completed", "stopped", "failed"},
         status = "completed" => InLoop /\ Underway(ms) /\ EndsWithSay(ms) /\ Shown,
         Finish(status, ms), interrupt' \in BOOLEAN, stops' \in 0 .. MaxStops
  PROVE  Inv'
<1>1. /\ CtxTypes /\ LoopTypes /\ SteerTypes /\ RowTypes /\ PlaceTypes /\ TypeOK
      /\ Spent /\ Queued /\ Blocks /\ Steering /\ Recording
  BY TypesOfParts DEF Inv
<1>2. /\ ctx' = [ctx EXCEPT !.messages = ms] /\ outcome' = status /\ loop' = NewLoop
      /\ UNCHANGED <<stored, turn, signal, queue, seen>>
      /\ pc' = IF status = "completed" /\ ctx.mid /\ ~ctx.first THEN "window" ELSE "save"
      /\ rows' = IF status = "completed" THEN SubSeq(ms, ctx.previous + 1, Len(ms))
                 ELSE IF status = "stopped" THEN StoppedTranscript ELSE MinimalTranscript
  BY Zenon DEF Finish
<1>3. CtxTypes' /\ ctx'.messages = ms /\ LoopTypes' /\ Spent' /\ SteerTypes' /\ Queued'
  <2>1. seen' \subseteq Steers
    BY <1>1, <1>2 DEF SteerTypes
  <2>. QED BY <1>1, <1>2, <2>1, MessagesGrow, LoopReset, SteersKept
<1>4. pc' \in {"window", "save"} /\ (pc' = "window" => status = "completed" /\ ctx.mid)
      /\ (pc' = "save" /\ status = "completed" => ctx.first \/ ~ctx.mid)
  BY <1>2
<1>5. PlaceTypes'
  BY <1>1, <1>2, <1>4 DEF PlaceTypes, Places, Outcomes
<1>6. Past(stored) /\ Past(ctx.messages) /\ ctx.mid \in BOOLEAN
  BY <1>1 DEF Recording, CtxTypes, Contexts
<1>7. rows' \in Seq(Messages) /\ Past(rows') /\ stored' \in Seq(Messages)
  <2>1. CASE status = "completed"
    <3>1. PICK a : a = ctx.previous + 1
      OBVIOUS
    <3>2. a \in Nat \ {0} /\ a <= Len(ms) + 1
      <4>1. ctx.previous \in 0 .. Len(ctx.messages) /\ Len(ctx.messages) \in Nat /\ Len(ms) \in Nat
        BY <1>1 DEF CtxTypes, Contexts
      <4>. QED BY <3>1, <4>1
    <3>3. SubSeq(ms, a, Len(ms)) \in Seq(Messages) /\ Past(SubSeq(ms, a, Len(ms)))
      BY <3>2, PastSuffix
    <3>. QED BY <1>1, <1>2, <2>1, <3>1, <3>3 DEF RowTypes
  <2>2. CASE status = "stopped"
    BY <1>1, <1>2, <1>6, <2>2, StoppedTypes DEF RowTypes
  <2>3. CASE status = "failed"
    BY <1>1, <1>2, <2>3, ShortTurns DEF MinimalTranscript, WholeTranscript, RowTypes
  <2>. QED BY <2>1, <2>2, <2>3
<1>8. ASSUME status \in {"completed", "failed"}, pc' = "save" PROVE Recorded(stored' \o rows')
  <2>1. CASE status = "completed"
    <3>1. Recorded(stored \o SubSeq(ms, ctx.previous + 1, Len(ms)))
      BY <1>1, <1>4, <1>8, <2>1, RecordedRest
    <3>. QED BY <1>2, <2>1, <3>1
  <2>2. CASE status = "failed"
    <3>1. IF ctx.mid THEN Once(stored) /\ Summed(stored) ELSE Absent(stored)
      BY <1>1 DEF Recording, Underway, Joins
    <3>2. Recorded(stored \o (IF ctx.mid THEN <<Say>> ELSE <<Ask, Say>>))
      BY <1>1, <3>1, RecordedBySay DEF RowTypes
    <3>. QED BY <1>2, <2>2, <3>2 DEF MinimalTranscript, WholeTranscript
  <2>. QED BY <1>8, <2>1, <2>2
<1>9. pc' = "window" => Recorded(ctx'.messages)
  BY <1>1, <1>3, <1>4, RecordedRest
<1>10. Recording'
  <2>1. turn' = turn /\ Past(stored') /\ Past(ctx'.messages) /\ Past(rows')
    BY <1>2, <1>3, <1>6, <1>7
  <2>2. pc' \notin {"hooks", "context", "hook", "idle"} /\ ~InLoop' /\ outcome' = status
    BY <1>2, <1>4 DEF InLoop
  <2>. QED BY <1>4, <1>8, <1>9, <2>1, <2>2, RecordingNext
<1>11. Steering'
  BY <1>2, <1>4 DEF Steering, Shown
<1>12. Blocks'
  BY <1>4 DEF Blocks, InLoop
<1>. QED BY <1>3, <1>5, <1>7, <1>10, <1>11, <1>12, TypesOfParts DEF Inv, RowTypes

------------------------------------------------------------------------------
(* The steps of the loop *)

LEMMA Going ==
  ASSUME Inv, InLoop
  PROVE  /\ CtxTypes /\ LoopTypes /\ SteerTypes /\ RowTypes /\ PlaceTypes
         /\ Spent /\ Queued /\ Past(ctx.messages) /\ Underway(ctx.messages)
         /\ Numbered(ctx.messages, loop.batch) /\ (pc # "tools" => Paired(ctx.messages))
         /\ ctx.messages \in Seq(Messages) /\ Len(ctx.messages) \in Nat
         /\ loop.batch \in Nat /\ outcome = "running"
<1>1. CtxTypes /\ LoopTypes /\ SteerTypes /\ RowTypes /\ PlaceTypes
  BY TypesOfParts DEF Inv
<1>2. ctx.messages \in Seq(Messages) /\ Len(ctx.messages) \in Nat /\ loop.batch \in Nat
  BY <1>1 DEF CtxTypes, Contexts, LoopTypes, Loops
<1>3. outcome = "running"
  BY DEF Inv, Recording, InLoop
<1>. QED BY <1>1, <1>2, <1>3 DEF Inv, Blocks, Recording

LEMMA LoopKeeps ==
  ASSUME Inv, InLoop, InLoop', UNCHANGED <<stored, turn, interrupt, rows, outcome, stops>>,
         CtxTypes', LoopTypes', SteerTypes', Queued', Spent', Steering',
         NEW ms, ctx'.messages = ms, ctx'.previous = ctx.previous, ctx'.mid = ctx.mid,
         Past(ms), Underway(ms), pc' = "hook" => EndsWithSay(ms),
         Numbered(ms, loop'.batch),
         IF pc' = "tools" THEN Paired(Append(ms, Msg("result", loop'.batch))) ELSE Paired(ms)
  PROVE  Inv'
<1>1. RowTypes' /\ PlaceTypes'
  <2>1. RowTypes /\ PlaceTypes /\ outcome = "running"
    BY Going
  <2>2. pc' \in Places
    BY DEF InLoop, Places
  <2>. QED BY <2>1, <2>2 DEF RowTypes, PlaceTypes
<1>2. Recording'
  BY RecordingGoesOn DEF Inv
<1>3. Blocks'
  <2>1. pc' \notin {"hooks", "context"} /\ (pc' = "tools" => Paired(Results'))
    BY Zenon DEF InLoop, Results
  <2>. QED BY <2>1 DEF Blocks
<1>. QED BY <1>1, <1>2, <1>3, TypesOfParts DEF Inv

LEMMA AgainKeeps ==
  ASSUME Inv, pc \in {"llm", "hook"}, NEW l, l \in Loops, l.budget = loop.budget, l.batch = loop.batch,
         loop.final => l.final, Again(l)
  PROVE  Inv'
<1>1. InLoop /\ InLoop' /\ pc' = "loop" /\ loop' = l
      /\ UNCHANGED <<stored, turn, ctx, interrupt, signal, queue, rows, outcome, seen, stops>>
  BY Zenon DEF InLoop, Again
<1>2. CtxTypes' /\ SteerTypes' /\ Queued'
  <2>1. CtxTypes /\ SteerTypes /\ Queued
    BY <1>1, Going
  <2>2. CtxTypes'
    BY <1>1, <2>1 DEF CtxTypes
  <2>. QED BY <1>1, <2>1, <2>2, SteersKept DEF SteerTypes
<1>3. LoopTypes' /\ Spent'
  <2>1. LoopTypes /\ Spent
    BY <1>1, Going
  <2>2. LoopTypes'
    BY <1>1, <2>1 DEF LoopTypes
  <2>3. loop.batch + loop.budget <= MaxIterations + (IF loop.final THEN 1 ELSE 0)
    BY <2>1 DEF Spent
  <2>4. loop.batch \in Nat /\ loop.budget \in Nat
    BY <2>1 DEF LoopTypes, Loops
  <2>5. l.batch + l.budget <= MaxIterations + (IF l.final THEN 1 ELSE 0)
    BY <2>3, <2>4, Numbers
  <2>6. loop'.batch + loop'.budget <= MaxIterations + (IF pc' = "tools" \/ loop'.final THEN 1 ELSE 0)
    BY <1>1, <2>5
  <2>. QED BY <1>1, <2>2, <2>6 DEF Spent
<1>4. Steering'
  <2>1. outcome' = "running"
    BY <1>1, Going
  <2>. QED BY <1>1, <2>1 DEF Steering
<1>5. PICK ms : ms = ctx.messages
  OBVIOUS
<1>6. Past(ms) /\ Underway(ms) /\ Numbered(ms, l.batch) /\ Paired(ms)
  BY <1>1, <1>5, Going
<1>7. /\ ctx'.messages = ms /\ ctx'.previous = ctx.previous /\ ctx'.mid = ctx.mid
      /\ Numbered(ms, loop'.batch)
  BY <1>1, <1>5, <1>6
<1>8. pc' # "tools" /\ pc' # "hook"
  BY <1>1
<1>. QED BY <1>1, <1>2, <1>3, <1>4, <1>6, <1>7, <1>8, LoopKeeps

LEMMA ModelDefectKeeps == Inv /\ ModelDefect => Inv'
<1>. SUFFICES ASSUME Inv, ModelDefect PROVE Inv'
  OBVIOUS
<1>1. PICK d \in Defects :
        pc = "llm" /\ ~loop.final /\ Again([loop EXCEPT !.tries[d] = @ + 1, !.ran = @ /\ d = "json"])
  BY Zenon DEF ModelDefect
<1>2. PICK l : l = [loop EXCEPT !.tries[d] = @ + 1, !.ran = @ /\ d = "json"]
  OBVIOUS
<1>3. loop \in Loops
  BY DEF Inv, TypeOK, Loops
<1>4. l \in Loops /\ l.budget = loop.budget /\ l.batch = loop.batch /\ l.final = loop.final
  <2>1. PICK tries : tries = [loop.tries EXCEPT ![d] = @ + 1]
    OBVIOUS
  <2>2. PICK ran \in BOOLEAN : ran = (loop.ran /\ d = "json")
    OBVIOUS
  <2>3. tries \in [Defects -> Nat]
    BY <1>3, <2>1 DEF Loops
  <2>4. l = [loop EXCEPT !.tries = tries, !.ran = ran]
    BY <1>2, <1>3, <2>1, <2>2 DEF Loops
  <2>. QED BY <1>3, <2>2, <2>3, <2>4 DEF Loops
<1>. QED BY <1>1, <1>2, <1>4, AgainKeeps

LEMMA OtherRetriesKeep ==
  ASSUME Inv, ModelEmptyAfterTools \/ ModelRepeats \/ StopHookContinues
  PROVE  Inv'
<1>1. loop \in Loops
  BY DEF Inv, TypeOK, Loops
<1>2. CASE ModelEmptyAfterTools
  <2>1. PICK l : l = [loop EXCEPT !.postTool = TRUE, !.final = TRUE, !.ran = FALSE]
    OBVIOUS
  <2>2. l \in Loops /\ l.budget = loop.budget /\ l.batch = loop.batch /\ l.final
    BY <1>1, <2>1 DEF Loops
  <2>3. pc = "llm" /\ Again(l)
    BY <1>2, <2>1 DEF ModelEmptyAfterTools
  <2>. QED BY <2>2, <2>3, AgainKeeps
<1>3. CASE ModelRepeats
  <2>1. PICK l : l = [loop EXCEPT !.final = TRUE, !.ran = FALSE]
    OBVIOUS
  <2>2. l \in Loops /\ l.budget = loop.budget /\ l.batch = loop.batch /\ l.final
    BY <1>1, <2>1 DEF Loops
  <2>3. pc = "llm" /\ Again(l)
    BY <1>3, <2>1 DEF ModelRepeats
  <2>. QED BY <2>2, <2>3, AgainKeeps
<1>4. CASE StopHookContinues
  <2>1. PICK l : l = [loop EXCEPT !.hook = TRUE, !.ran = FALSE]
    OBVIOUS
  <2>2. l \in Loops /\ l.budget = loop.budget /\ l.batch = loop.batch /\ l.final = loop.final
    BY <1>1, <2>1 DEF Loops
  <2>3. pc = "hook" /\ Again(l)
    BY <1>4, <2>1 DEF StopHookContinues
  <2>. QED BY <2>2, <2>3, AgainKeeps
<1>. QED BY <1>2, <1>3, <1>4

(* Text, a note or a steer joins the messages.                              *)
LEMMA TextJoins ==
  ASSUME TypeOK, NEW ms \in Seq(Messages), NEW b \in Nat, Past(ms), Underway(ms), Paired(ms), Numbered(ms, b),
         NEW m \in Messages, m.k \notin {"ask", "call", "result"}
  PROVE  /\ Append(ms, m) \in Seq(Messages) /\ Len(Append(ms, m)) = Len(ms) + 1
         /\ Past(Append(ms, m)) /\ Underway(Append(ms, m)) /\ Paired(Append(ms, m))
         /\ Numbered(Append(ms, m), b)
<1>1. m # Ask
  BY MsgIs DEF Ask
<1>2. Past(Append(ms, m))
  BY AppendPast
<1>3. Underway(Append(ms, m))
  BY <1>1, AppendUnderway
<1>4. Paired(Append(ms, m)) /\ Numbered(Append(ms, m), b)
  BY AppendPaired, AppendNumbered
<1>. QED BY <1>2, <1>3, <1>4, AppendElements

LEMMA ConsumeTypes ==
  ASSUME SteerTypes, ConsumeSteer, seen' \subseteq Steers
  PROVE  SteerTypes' /\ Queued'
<1>1. signal' = [i \in Steers |-> IF \E j \in DOMAIN queue : queue[j] = i THEN "consumed" ELSE signal[i]]
      /\ queue' = <<>>
  BY DEF ConsumeSteer, Consumed
<1>2. signal' \in [Steers -> {"none", "pending", "consumed", "expired"}]
  BY <1>1 DEF SteerTypes
<1>3. \A i \in Steers : signal'[i] # "pending"
  <2>1. \A i \in Steers : signal[i] = "pending" => \E j \in DOMAIN queue : queue[j] = i
    BY Zenon DEF SteerTypes
  <2>. QED BY <1>1, <2>1
<1>4. {i \in Steers : signal'[i] = "pending"} = {queue'[j] : j \in DOMAIN queue'}
  BY <1>1, <1>3
<1>5. queue' \in Seq(Steers) /\ Len(queue') <= MaxPending
  BY <1>1, Numbers, EmptySeq
<1>6. Queued'
  BY <1>1 DEF Queued
<1>. QED BY <1>2, <1>4, <1>5, <1>6 DEF SteerTypes

LEMMA SteerMessage ==
  ASSUME SteerTypes, queue # <<>>
  PROVE  Msg("steer", Head(queue)) \in Messages /\ Msg("steer", Head(queue)).k = "steer"
<1>1. Head(queue) \in Steers
  BY HeadTailProperties DEF SteerTypes
<1>. QED BY <1>1, MessageMade, MsgIs

LEMMA LoopTopKeeps == Inv /\ LoopTop => Inv'
<1>. SUFFICES ASSUME Inv, LoopTop PROVE Inv'
  OBVIOUS
<1>1. /\ pc = "loop" /\ ~interrupt /\ ConsumeSteer
      /\ ctx' = [ctx EXCEPT !.messages = Steered(ctx.messages)]
      /\ UNCHANGED <<stored, turn, loop, interrupt, rows, outcome, stops>>
      /\ \/ pc' = "llm" /\ seen' = seen \cup {i \in Steers : signal'[i] = "consumed"}
         \/ pc' = "compact" /\ UNCHANGED seen
  BY Zenon DEF LoopTop
<1>2. InLoop /\ InLoop' /\ pc # "tools" /\ pc' \notin {"tools", "hook"}
  BY <1>1 DEF InLoop
<1>3. /\ CtxTypes /\ LoopTypes /\ SteerTypes /\ Spent /\ Paired(ctx.messages) /\ TypeOK
      /\ ctx.messages \in Seq(Messages) /\ Len(ctx.messages) \in Nat /\ loop.batch \in Nat
      /\ Past(ctx.messages) /\ Underway(ctx.messages) /\ Numbered(ctx.messages, loop.batch)
  BY <1>2, Going DEF Inv
<1>4. PICK ms : ms = Steered(ctx.messages)
  OBVIOUS
<1>5. /\ ms \in Seq(Messages) /\ Len(ctx.messages) <= Len(ms)
      /\ Past(ms) /\ Underway(ms) /\ Paired(ms) /\ Numbered(ms, loop.batch)
  <2>1. CASE queue = <<>>
    BY <1>3, <1>4, <2>1 DEF Steered
  <2>2. CASE queue # <<>>
    <3>1. PICK m \in Messages : m = Msg("steer", Head(queue)) /\ m.k = "steer"
      BY <1>3, <2>2, SteerMessage
    <3>2. ms = Append(ctx.messages, m)
      BY <1>4, <2>2, <3>1 DEF Steered
    <3>. QED BY <1>3, <3>1, <3>2, TextJoins
  <2>. QED BY <2>1, <2>2
<1>6. CtxTypes' /\ ctx'.messages = ms /\ ctx'.previous = ctx.previous /\ ctx'.mid = ctx.mid
  BY <1>1, <1>3, <1>4, <1>5, MessagesGrow
<1>7. seen' \subseteq Steers
  BY <1>1, <1>3 DEF SteerTypes
<1>8. SteerTypes' /\ Queued'
  BY <1>1, <1>3, <1>7, ConsumeTypes
<1>9. LoopTypes' /\ Spent'
  BY <1>1, <1>3 DEF LoopTypes, Spent
<1>10. Steering'
  <2>1. outcome' = "running"
    BY <1>1, <1>2, Going
  <2>. QED BY <1>1, <2>1 DEF Steering, Shown
<1>11. Numbered(ms, loop'.batch)
  BY <1>1, <1>5
<1>12. UNCHANGED <<stored, turn, interrupt, rows, outcome, stops>>
  BY <1>1
<1>. QED BY <1>2, <1>5, <1>6, <1>8, <1>9, <1>10, <1>11, <1>12, LoopKeeps

(* A compaction while the turn runs: its checkpoint becomes the session.    *)
LEMMA CompactedKeeps ==
  ASSUME Inv, InLoop, pc # "tools", NEW new \in Replacements(ctx.messages), Compacted(new),
         loop' = [loop EXCEPT !.compacted = Len(new)], pc' = "loop",
         UNCHANGED <<turn, interrupt, signal, queue, rows, outcome, stops>>
  PROVE  Inv'
<1>1. /\ CtxTypes /\ LoopTypes /\ SteerTypes /\ RowTypes /\ PlaceTypes
      /\ Spent /\ Queued /\ Past(ctx.messages) /\ Underway(ctx.messages) /\ Paired(ctx.messages)
      /\ Numbered(ctx.messages, loop.batch) /\ ctx.messages \in Seq(Messages) /\ outcome = "running"
  BY Going
<1>2. /\ new \in Seq(Messages) /\ Len(new) \in Nat \ {0} /\ Summed(new) /\ Once(new) /\ Past(new)
      /\ Paired(new) /\ Numbered(new, loop.batch)
  <2>1. Once(ctx.messages)
    BY <1>1 DEF Underway, Joins
  <2>. QED BY <1>1, <2>1, ReplacementKeeps
<1>3. /\ stored' = new
      /\ ctx' = [ctx EXCEPT !.messages = new, !.previous = Len(new), !.user = Len(new) + 1, !.mid = TRUE]
      /\ seen' = seen \cup {i \in Steers : signal[i] = "consumed"}
  BY DEF Compacted
<1>4. /\ ctx' \in Contexts /\ ctx'.messages = new /\ ctx'.previous = Len(new) /\ ctx'.user = Len(new) + 1
      /\ ctx'.mid = TRUE
  <2>1. PICK n \in Nat : n = Len(new)
    BY <1>2
  <2>2. ctx' = [ctx EXCEPT !.messages = new, !.previous = n, !.user = n + 1, !.mid = TRUE]
    BY <1>3, <2>1
  <2>3. ctx \in Contexts /\ new \in Seq(Messages)
    BY <1>1, <1>2 DEF CtxTypes
  <2>4. /\ ctx' \in Contexts /\ ctx'.messages = new /\ ctx'.previous = n /\ ctx'.user = n + 1
        /\ ctx'.mid = TRUE
    <3>1. PICK u \in Nat : u = n + 1
      OBVIOUS
    <3>2. PICK yes \in BOOLEAN : yes = TRUE
      OBVIOUS
    <3>3. ctx' = [ctx EXCEPT !.messages = new, !.previous = n, !.user = u, !.mid = yes]
      BY <2>2, <3>1, <3>2
    <3>4. /\ ctx' \in Contexts /\ ctx'.messages = new /\ ctx'.previous = n /\ ctx'.user = u
          /\ ctx'.mid = yes
      BY ONLY n \in Nat, u \in Nat, yes \in BOOLEAN, <2>3, <3>3 DEF Contexts
    <3>. QED BY <3>1, <3>2, <3>4
  <2>. QED BY <2>1, <2>4
<1>5. CtxTypes'
  <2>1. Len(new) \in 0 .. Len(new) /\ Len(new) + 1 \in 1 .. Len(new) + 1
    BY <1>2
  <2>. QED BY <1>4, <2>1 DEF CtxTypes
<1>6. LoopTypes' /\ loop'.batch = loop.batch /\ loop'.budget = loop.budget /\ loop'.final = loop.final
  BY <1>1, <1>2 DEF LoopTypes, Loops
<1>7. Spent'
  BY <1>1, <1>6 DEF Spent
<1>8. SteerTypes' /\ Queued'
  <2>1. seen' \subseteq Steers
    BY <1>1, <1>3 DEF SteerTypes
  <2>. QED BY <1>1, <2>1, SteersKept
<1>9. RowTypes' /\ PlaceTypes'
  BY <1>1, <1>2, <1>3 DEF RowTypes, PlaceTypes, Places
<1>10. Steering'
  BY <1>1 DEF Steering
<1>11. Blocks'
  <2>1. Paired(ctx'.messages) /\ Numbered(ctx'.messages, loop'.batch)
    BY <1>2, <1>4, <1>6
  <2>. QED BY <2>1 DEF Blocks
<1>12. Recording'
  <2>1. Joins(ctx'.messages, ctx', stored')
    <3>1. \A i \in 1 .. Len(new) : new[i] = new[i]
      OBVIOUS
    <3>2. Len(new) <= Len(new)
      BY <1>2
    <3>. QED BY <1>2, <1>3, <1>4, <3>1, <3>2 DEF Joins
  <2>2. Past(rows)
    BY DEF Inv, Recording
  <2>3. turn' = turn /\ Past(stored') /\ Past(ctx'.messages) /\ Past(rows') /\ outcome' = "running"
    BY <1>1, <1>2, <1>3, <1>4, <2>2
  <2>4. pc' \notin {"hooks", "context", "hook", "save", "window", "idle"}
    OBVIOUS
  <2>. QED BY <2>1, <2>3, <2>4, RecordingNext
<1>. QED BY <1>5, <1>6, <1>7, <1>8, <1>9, <1>10, <1>11, <1>12, TypesOfParts DEF Inv

LEMMA CompactMidTurnKeeps == Inv /\ CompactMidTurn => Inv'
<1>. SUFFICES ASSUME Inv, CompactMidTurn PROVE Inv'
  OBVIOUS
<1>1. pc = "compact" /\ InLoop /\ UNCHANGED <<turn, interrupt, signal, queue, rows, outcome, stops>>
  BY Zenon DEF CompactMidTurn, InLoop
<1>2. ASSUME NEW new \in Replacements(ctx.messages), Compacted(new),
             loop' = [loop EXCEPT !.compacted = Len(new)], pc' = "loop"
      PROVE  Inv'
  BY <1>1, <1>2, CompactedKeeps
<1>3. ASSUME pc' = "llm", seen' = seen \cup {i \in Steers : signal[i] = "consumed"},
             UNCHANGED <<stored, ctx, loop>>
      PROVE  Inv'
  <2>1. /\ CtxTypes /\ LoopTypes /\ SteerTypes /\ Spent /\ Queued /\ Paired(ctx.messages)
        /\ Past(ctx.messages) /\ Underway(ctx.messages) /\ Numbered(ctx.messages, loop.batch)
    BY <1>1, Going
  <2>2. CtxTypes' /\ LoopTypes' /\ Spent'
    BY <1>1, <1>3, <2>1 DEF CtxTypes, LoopTypes, Spent
  <2>3. SteerTypes' /\ Queued'
    <3>1. seen' \subseteq Steers
      BY <1>3, <2>1 DEF SteerTypes
    <3>. QED BY <1>1, <2>1, <3>1, SteersKept
  <2>4. Steering'
    BY <1>1, <1>3 DEF Steering, Shown
  <2>5. PICK ms : ms = ctx.messages
    OBVIOUS
  <2>6. /\ ctx'.messages = ms /\ ctx'.previous = ctx.previous /\ ctx'.mid = ctx.mid
        /\ Past(ms) /\ Underway(ms) /\ Numbered(ms, loop'.batch) /\ Paired(ms)
    BY <1>3, <2>1, <2>5
  <2>7. InLoop' /\ pc' # "tools" /\ pc' # "hook"
    BY <1>3 DEF InLoop
  <2>8. UNCHANGED <<stored, turn, interrupt, rows, outcome, stops>>
    BY <1>1, <1>3
  <2>. QED BY <1>1, <2>2, <2>3, <2>4, <2>6, <2>7, <2>8, LoopKeeps
<1>. QED BY <1>2, <1>3 DEF CompactMidTurn

LEMMA CompactOverflowKeeps == Inv /\ CompactOverflow => Inv'
<1>. SUFFICES ASSUME Inv, CompactOverflow PROVE Inv'
  OBVIOUS
<1>1. pc = "overflow" /\ InLoop
  BY DEF CompactOverflow, InLoop
<1>2. ASSUME NEW new \in Replacements(ctx.messages), Compacted(new),
             loop' = [loop EXCEPT !.compacted = Len(new)], pc' = "loop",
             UNCHANGED <<turn, interrupt, signal, queue, rows, outcome, stops>>
      PROVE  Inv'
  BY <1>1, <1>2, CompactedKeeps
<1>3. ASSUME Finish("failed", ctx.messages), NoStop PROVE Inv'
  <2>1. /\ ctx.messages \in Seq(Messages) /\ Len(ctx.messages) <= Len(ctx.messages) /\ Past(ctx.messages)
        /\ PlaceTypes
    BY <1>1, Going
  <2>2. interrupt' \in BOOLEAN /\ stops' \in 0 .. MaxStops
    BY <1>3, <2>1 DEF NoStop, PlaceTypes
  <2>. QED BY <1>1, <1>3, <2>1, <2>2, FinishKeeps
<1>. QED BY <1>2, <1>3, Zenon DEF CompactOverflow

(* The turn stops or fails with the messages it has.                        *)
LEMMA BreaksOff ==
  ASSUME Inv, pc \in {"hooks", "context"} \/ InLoop, NEW status \in {"stopped", "failed"},
         Finish(status, ctx.messages), interrupt' \in BOOLEAN, stops' \in 0 .. MaxStops
  PROVE  Inv'
<1>1. CtxTypes /\ Past(ctx.messages)
  BY TypesOfParts DEF Inv, Recording
<1>2. PICK ms \in Seq(Messages) : ms = ctx.messages
  BY <1>1 DEF CtxTypes, Contexts
<1>3. Len(ctx.messages) <= Len(ms) /\ Past(ms) /\ Finish(status, ms)
  BY <1>1, <1>2
<1>4. status \in {"completed", "stopped", "failed"} /\ status # "completed"
  OBVIOUS
<1>. QED BY <1>3, <1>4, FinishKeeps

(* The turn completes with its reply last.                                  *)
LEMMA CompletesWith ==
  ASSUME Inv, InLoop, Shown, NEW ms \in Seq(Messages), Len(ctx.messages) <= Len(ms), Past(ms), Underway(ms),
         Complete(ms), NoStop
  PROVE  Inv'
<1>1. PlaceTypes /\ CtxTypes
  BY Going
<1>2. interrupt' \in BOOLEAN /\ stops' \in 0 .. MaxStops
  BY <1>1 DEF NoStop, PlaceTypes
<1>3. PICK a : a = Append(ms, Say)
  OBVIOUS
<1>4. Say # Ask /\ Say \in Messages /\ (Say.k = "ask" => Say.n <= turn)
  BY <1>1, AskTypes, MessageMade DEF PlaceTypes
<1>5. /\ a \in Seq(Messages) /\ Len(a) = Len(ms) + 1 /\ a[Len(a)] = Say /\ a # <<>>
  BY <1>3, <1>4, AppendElements
<1>6. Past(a) /\ Underway(a) /\ EndsWithSay(a)
  <2>1. TypeOK
    BY DEF Inv
  <2>. QED BY <1>3, <1>4, <1>5, <2>1, AppendPast, AppendUnderway DEF EndsWithSay
<1>7. Len(ctx.messages) <= Len(a)
  <2>1. Len(ctx.messages) \in Nat /\ Len(ms) \in Nat
    BY Going
  <2>. QED BY <1>5, <2>1
<1>8. Finish("completed", a)
  BY <1>3 DEF Complete
<1>. QED BY <1>2, <1>5, <1>6, <1>7, <1>8, FinishKeeps

LEMMA ModelRefusesKeeps == Inv /\ ModelRefusesContext => Inv'
<1>. SUFFICES ASSUME Inv, ModelRefusesContext PROVE Inv'
  OBVIOUS
<1>1. /\ pc = "llm" /\ loop' = [loop EXCEPT !.overflow = TRUE] /\ pc' = "overflow"
      /\ UNCHANGED <<stored, turn, ctx, interrupt, signal, queue, rows, outcome, seen, stops>>
  BY DEF ModelRefusesContext
<1>2. InLoop /\ InLoop' /\ pc # "tools" /\ pc' # "tools" /\ pc' # "hook"
  BY <1>1 DEF InLoop
<1>3. /\ CtxTypes /\ LoopTypes /\ SteerTypes /\ Spent /\ Queued /\ Paired(ctx.messages)
      /\ Past(ctx.messages) /\ Underway(ctx.messages) /\ Numbered(ctx.messages, loop.batch)
  BY <1>2, Going
<1>4. LoopTypes' /\ loop'.batch = loop.batch /\ loop'.budget = loop.budget /\ loop'.final = loop.final
  BY <1>1, <1>3 DEF LoopTypes, Loops
<1>5. CtxTypes' /\ Spent' /\ SteerTypes' /\ Queued'
  <2>1. seen' \subseteq Steers /\ UNCHANGED <<signal, queue>>
    BY <1>1, <1>3 DEF SteerTypes
  <2>2. SteerTypes' /\ Queued'
    BY <1>3, <2>1, SteersKept
  <2>. QED BY <1>1, <1>3, <1>4, <2>2 DEF CtxTypes, Spent
<1>6. Steering'
  BY <1>1 DEF Inv, Steering, Shown
<1>7. PICK ms : ms = ctx.messages
  OBVIOUS
<1>8. /\ ctx'.messages = ms /\ ctx'.previous = ctx.previous /\ ctx'.mid = ctx.mid
      /\ Past(ms) /\ Underway(ms) /\ Numbered(ms, loop'.batch) /\ Paired(ms)
  BY <1>1, <1>3, <1>4, <1>7
<1>9. UNCHANGED <<stored, turn, interrupt, rows, outcome, stops>>
  BY <1>1
<1>. QED BY <1>2, <1>4, <1>5, <1>6, <1>8, <1>9, LoopKeeps

LEMMA ModelRejectsImagesKeeps == Inv /\ ModelRejectsImages => Inv'
<1>. SUFFICES ASSUME Inv, ModelRejectsImages PROVE Inv'
  OBVIOUS
<1>1. /\ pc = "llm" /\ pc' = "loop"
      /\ ctx' = [ctx EXCEPT !.messages = Append(ctx.messages, Msg("note", 0)), !.image = FALSE]
      /\ UNCHANGED <<stored, turn, loop, interrupt, signal, queue, rows, outcome, seen, stops>>
  BY DEF ModelRejectsImages
<1>2. InLoop /\ InLoop' /\ pc # "tools" /\ pc' # "tools" /\ pc' # "hook"
  BY <1>1 DEF InLoop
<1>3. /\ CtxTypes /\ LoopTypes /\ SteerTypes /\ Spent /\ Queued /\ Paired(ctx.messages) /\ outcome = "running"
      /\ ctx.messages \in Seq(Messages) /\ Len(ctx.messages) \in Nat /\ loop.batch \in Nat
      /\ Past(ctx.messages) /\ Underway(ctx.messages) /\ Numbered(ctx.messages, loop.batch)
  BY <1>2, Going
<1>4. PICK m \in Messages : m = Msg("note", 0) /\ m.k = "note"
  BY MessageMade, MsgIs
<1>10. PICK ms : ms = Append(ctx.messages, m)
  OBVIOUS
<1>5. /\ ms \in Seq(Messages) /\ Len(ctx.messages) <= Len(ms)
      /\ Past(ms) /\ Underway(ms) /\ Paired(ms) /\ Numbered(ms, loop.batch)
  <2>1. TypeOK
    BY DEF Inv
  <2>2. /\ ms \in Seq(Messages) /\ Len(ms) = Len(ctx.messages) + 1
        /\ Past(ms) /\ Underway(ms) /\ Paired(ms) /\ Numbered(ms, loop.batch)
    BY <1>3, <1>4, <1>10, <2>1, TextJoins
  <2>. QED BY <1>3, <2>2
<1>6. CtxTypes' /\ ctx'.messages = ms /\ ctx'.previous = ctx.previous /\ ctx'.mid = ctx.mid
  <2>1. FALSE \in BOOLEAN /\ ctx' = [ctx EXCEPT !.messages = ms, !.image = FALSE]
    BY <1>1, <1>4, <1>10
  <2>. QED BY <1>3, <1>5, <2>1, CtxGrows
<1>7. SteerTypes' /\ Queued' /\ LoopTypes' /\ Spent'
  <2>1. seen' \subseteq Steers
    BY <1>1, <1>3 DEF SteerTypes
  <2>2. SteerTypes' /\ Queued'
    BY <1>1, <1>3, <2>1, SteersKept
  <2>. QED BY <1>1, <1>3, <2>2 DEF LoopTypes, Spent
<1>8. Steering' /\ Numbered(ms, loop'.batch) /\ UNCHANGED <<stored, turn, interrupt, rows, outcome, stops>>
  BY <1>1, <1>3, <1>5 DEF Steering
<1>. QED BY <1>2, <1>5, <1>6, <1>7, <1>8, LoopKeeps

LEMMA ModelAnswersKeeps == Inv /\ ModelAnswers => Inv'
<1>. SUFFICES ASSUME Inv, ModelAnswers PROVE Inv'
  OBVIOUS
<1>1. pc = "llm" /\ NoStop
  BY Zenon DEF ModelAnswers
<1>2. InLoop /\ pc # "tools" /\ Shown
  BY <1>1 DEF InLoop, Inv, Steering
<1>3. /\ CtxTypes /\ LoopTypes /\ SteerTypes /\ Spent /\ Queued /\ Paired(ctx.messages) /\ outcome = "running"
      /\ ctx.messages \in Seq(Messages) /\ Len(ctx.messages) \in Nat /\ loop.batch \in Nat /\ TypeOK
      /\ Past(ctx.messages) /\ Underway(ctx.messages) /\ Numbered(ctx.messages, loop.batch)
  BY <1>2, Going DEF Inv
<1>4. PICK ms : ms = Append(ctx.messages, Say)
  OBVIOUS
<1>5. /\ ms \in Seq(Messages) /\ Len(ms) = Len(ctx.messages) + 1 /\ EndsWithSay(ms)
      /\ Past(ms) /\ Underway(ms) /\ Paired(ms) /\ Numbered(ms, loop.batch)
  <2>1. Say \in Messages /\ Say.k = "say"
    BY MessageMade
  <2>2. /\ ms \in Seq(Messages) /\ Len(ms) = Len(ctx.messages) + 1
        /\ Past(ms) /\ Underway(ms) /\ Paired(ms) /\ Numbered(ms, loop.batch)
    BY <1>3, <1>4, <2>1, TextJoins
  <2>3. ms[Len(ctx.messages) + 1] = Say /\ ms # <<>>
    BY <1>3, <1>4, <2>1, <2>2, AppendElements
  <2>. QED BY <2>2, <2>3 DEF EndsWithSay
<1>6. Len(ctx.messages) <= Len(ms)
  BY <1>3, <1>5
<1>7. ASSUME queue # <<>>, SteerContinues(ms) PROVE Inv'
  <2>1. /\ ConsumeSteer /\ ctx' = [ctx EXCEPT !.messages = Append(ms, Msg("steer", Head(queue)))]
        /\ loop' = [loop EXCEPT !.ran = FALSE] /\ pc' = "loop"
        /\ UNCHANGED <<stored, turn, rows, outcome, seen>>
    BY <1>7, Zenon DEF SteerContinues, AnswerThen
  <2>2. PICK m \in Messages : m = Msg("steer", Head(queue)) /\ m.k = "steer"
    BY <1>3, <1>7, SteerMessage
  <2>3. PICK new : new = Append(ms, m)
    OBVIOUS
  <2>4. /\ new \in Seq(Messages) /\ Len(new) = Len(ms) + 1
        /\ Past(new) /\ Underway(new) /\ Paired(new) /\ Numbered(new, loop.batch)
    BY <1>3, <1>5, <2>2, <2>3, TextJoins
  <2>5. CtxTypes' /\ ctx'.messages = new /\ ctx'.previous = ctx.previous /\ ctx'.mid = ctx.mid
    <3>1. Len(ctx.messages) <= Len(new) /\ ctx' = [ctx EXCEPT !.messages = new]
      BY <1>3, <1>5, <2>1, <2>2, <2>3, <2>4
    <3>. QED BY <1>3, <2>4, <3>1, MessagesGrow
  <2>6. LoopTypes' /\ loop'.batch = loop.batch /\ loop'.budget = loop.budget /\ loop'.final = loop.final
    BY <1>3, <2>1 DEF LoopTypes, Loops
  <2>7. Spent' /\ SteerTypes' /\ Queued'
    <3>1. seen' \subseteq Steers
      BY <1>3, <2>1 DEF SteerTypes
    <3>2. SteerTypes' /\ Queued'
      BY <1>3, <2>1, <3>1, ConsumeTypes
    <3>. QED BY <1>1, <1>3, <2>1, <2>6, <3>2 DEF Spent
  <2>8. InLoop' /\ pc' # "tools" /\ pc' # "hook" /\ Steering' /\ Numbered(new, loop'.batch)
    BY <1>3, <2>1, <2>4, <2>6 DEF InLoop, Steering
  <2>9. UNCHANGED <<stored, turn, interrupt, rows, outcome, stops>>
    BY <1>1, <2>1 DEF NoStop
  <2>. QED BY <1>2, <2>4, <2>5, <2>6, <2>7, <2>8, <2>9, LoopKeeps
<1>8. ASSUME pc' = "hook", ctx' = [ctx EXCEPT !.messages = ms],
             UNCHANGED <<stored, turn, loop, signal, queue, rows, outcome, seen>>
      PROVE  Inv'
  <2>1. CtxTypes' /\ ctx'.messages = ms /\ ctx'.previous = ctx.previous /\ ctx'.mid = ctx.mid
    BY <1>3, <1>5, <1>6, <1>8, MessagesGrow
  <2>2. LoopTypes' /\ Spent' /\ SteerTypes' /\ Queued'
    <3>1. seen' \subseteq Steers
      BY <1>3, <1>8 DEF SteerTypes
    <3>2. SteerTypes' /\ Queued'
      BY <1>3, <1>8, <3>1, SteersKept
    <3>. QED BY <1>1, <1>3, <1>8, <3>2 DEF LoopTypes, Spent
  <2>3. Steering'
    BY <1>2, <1>8 DEF Steering, Shown
  <2>4. InLoop' /\ pc' # "tools" /\ Numbered(ms, loop'.batch)
        /\ UNCHANGED <<stored, turn, interrupt, rows, outcome, stops>>
    BY <1>1, <1>5, <1>8 DEF InLoop, NoStop
  <2>. QED BY <1>2, <1>5, <2>1, <2>2, <2>3, <2>4, LoopKeeps
<1>9. ASSUME Finish("completed", ms) PROVE Inv'
  <2>1. interrupt' \in BOOLEAN /\ stops' \in 0 .. MaxStops
    <3>1. PlaceTypes
      BY <1>2, Going
    <3>. QED BY <1>1, <3>1 DEF NoStop, PlaceTypes
  <2>. QED BY <1>2, <1>5, <1>6, <1>9, <2>1, FinishKeeps
<1>10. \/ queue # <<>> /\ SteerContinues(ms)
       \/ /\ pc' = "hook" /\ ctx' = [ctx EXCEPT !.messages = ms]
          /\ UNCHANGED <<stored, turn, loop, signal, queue, rows, outcome, seen>>
       \/ Finish("completed", ms)
  BY <1>4, Zenon DEF ModelAnswers
<1>. QED BY <1>7, <1>8, <1>9, <1>10

LEMMA ModelCallsToolsKeeps == Inv /\ ModelCallsTools => Inv'
<1>. SUFFICES ASSUME Inv, ModelCallsTools PROVE Inv'
  OBVIOUS
<1>1. /\ pc = "llm" /\ ~loop.final /\ pc' = "tools"
      /\ loop' = [loop EXCEPT !.batch = loop.batch + 1]
      /\ ctx' = [ctx EXCEPT !.messages = Append(ctx.messages, Msg("call", loop'.batch))]
      /\ UNCHANGED <<stored, turn, interrupt, signal, queue, rows, outcome, seen, stops>>
  BY DEF ModelCallsTools
<1>2. InLoop /\ InLoop' /\ pc # "tools" /\ pc' # "hook"
  BY <1>1 DEF InLoop
<1>3. /\ CtxTypes /\ LoopTypes /\ SteerTypes /\ Spent /\ Queued /\ Paired(ctx.messages) /\ TypeOK
      /\ ctx.messages \in Seq(Messages) /\ Len(ctx.messages) \in Nat /\ loop.batch \in Nat
      /\ Past(ctx.messages) /\ Underway(ctx.messages) /\ Numbered(ctx.messages, loop.batch)
  BY <1>2, Going DEF Inv
<1>4. PICK n \in Nat : n = loop.batch + 1
  BY <1>3
<1>5. n \in 0 .. MaxIterations /\ n + loop.budget <= MaxIterations + 1
  <2>1. loop.batch + loop.budget <= MaxIterations
    BY <1>1, <1>3, Numbers DEF Spent
  <2>2. loop.budget \in 1 .. MaxIterations
    BY <1>3 DEF LoopTypes
  <2>. QED BY <1>3, <1>4, <2>1, <2>2, Numbers
<1>6. /\ loop' \in Loops /\ loop'.batch = n /\ loop'.budget = loop.budget /\ loop'.final = loop.final
  BY <1>1, <1>3, <1>4 DEF LoopTypes, Loops
<1>7. LoopTypes' /\ Spent'
  <2>1. LoopTypes'
    BY <1>3, <1>5, <1>6 DEF LoopTypes
  <2>2. loop'.final = FALSE
    BY <1>1, <1>3, <1>6 DEF LoopTypes, Loops
  <2>. QED BY <1>1, <1>5, <1>6, <2>1, <2>2 DEF Spent
<1>8. PICK m \in Messages : m = Msg("call", n) /\ m.k = "call" /\ m.n = n
  BY <1>5, MessageMade, MsgIs
<1>9. PICK ms : ms = Append(ctx.messages, m)
  OBVIOUS
<1>10. ms \in Seq(Messages) /\ Len(ms) = Len(ctx.messages) + 1
  BY <1>3, <1>9, AppendElements
<1>11. Past(ms) /\ Underway(ms)
  <2>1. m # Ask /\ (m.k = "ask" => m.n <= turn)
    BY <1>8, MsgIs DEF Ask
  <2>. QED BY <1>3, <1>9, <2>1, AppendPast, AppendUnderway
<1>12. Numbered(ms, loop'.batch)
  BY <1>3, <1>4, <1>6, <1>8, <1>9, AppendNumbered
<1>13. Paired(Append(ms, Msg("result", loop'.batch)))
  <2>1. Msg("call", n) \in Messages /\ Msg("result", n) \in Messages
    BY <1>5, MessageMade
  <2>2. Paired(Append(Append(ctx.messages, Msg("call", n)), Msg("result", n)))
    BY <1>3, <2>1, AppendBlock
  <2>. QED BY <1>6, <1>8, <1>9, <2>2
<1>14. CtxTypes' /\ ctx'.messages = ms /\ ctx'.previous = ctx.previous /\ ctx'.mid = ctx.mid
  <2>1. Msg("call", loop'.batch) = m
    BY <1>6, <1>8
  <2>2. ctx' = [ctx EXCEPT !.messages = ms]
    BY <1>1, <1>9, <2>1, Zenon
  <2>3. Len(ctx.messages) <= Len(ms)
    BY <1>3, <1>10
  <2>. QED BY <1>3, <1>10, <2>2, <2>3, MessagesGrow
<1>15. SteerTypes' /\ Queued'
  <2>1. seen' \subseteq Steers
    BY <1>1, <1>3 DEF SteerTypes
  <2>. QED BY <1>1, <1>3, <2>1, SteersKept
<1>16. Steering' /\ UNCHANGED <<stored, turn, interrupt, rows, outcome, stops>>
  BY <1>1 DEF Inv, Steering, Shown
<1>. QED BY <1>1, <1>2, <1>7, <1>11, <1>12, <1>13, <1>14, <1>15, <1>16, LoopKeeps

(* The results of a batch, which the call right before them asked for.      *)
LEMMA ResultsJoin ==
  ASSUME Inv, pc = "tools"
  PROVE  /\ Results \in Seq(Messages) /\ Len(Results) = Len(ctx.messages) + 1
         /\ Past(Results) /\ Underway(Results) /\ Paired(Results) /\ Numbered(Results, loop.batch)
<1>1. InLoop
  BY DEF InLoop
<1>2. /\ LoopTypes /\ TypeOK /\ ctx.messages \in Seq(Messages) /\ loop.batch \in Nat
      /\ Past(ctx.messages) /\ Underway(ctx.messages) /\ Numbered(ctx.messages, loop.batch)
  BY <1>1, Going DEF Inv
<1>3. PICK m \in Messages : m = Msg("result", loop.batch) /\ m.k = "result"
  BY <1>2, MessageMade, MsgIs DEF LoopTypes
<1>4. Results = Append(ctx.messages, m)
  BY <1>3 DEF Results
<1>5. m # Ask
  BY <1>3, MsgIs DEF Ask
<1>6. /\ Append(ctx.messages, m) \in Seq(Messages) /\ Len(Append(ctx.messages, m)) = Len(ctx.messages) + 1
      /\ Past(Append(ctx.messages, m)) /\ Underway(Append(ctx.messages, m))
      /\ Numbered(Append(ctx.messages, m), loop.batch)
  BY <1>2, <1>3, <1>5, AppendElements, AppendPast, AppendUnderway, AppendNumbered
<1>7. Paired(Results)
  BY DEF Inv, Blocks
<1>. QED BY <1>4, <1>6, <1>7

LEMMA ToolsGoOn ==
  ASSUME Inv, pc = "tools", pc' = "loop", ctx' = [ctx EXCEPT !.messages = Results],
         loop' \in Loops, loop'.batch = loop.batch, loop'.budget \in 1 .. loop.budget,
         loop'.final \/ loop'.budget < loop.budget,
         UNCHANGED <<stored, turn, interrupt, signal, queue, rows, outcome, seen, stops>>
  PROVE  Inv'
<1>1. InLoop /\ InLoop' /\ pc' # "tools" /\ pc' # "hook"
  BY DEF InLoop
<1>2. /\ CtxTypes /\ LoopTypes /\ SteerTypes /\ Spent /\ Queued /\ Len(ctx.messages) \in Nat
      /\ outcome = "running"
  BY <1>1, Going
<1>3. PICK ms \in Seq(Messages) : ms = Results /\ Len(ms) = Len(ctx.messages) + 1
  BY ResultsJoin
<1>4. Past(ms) /\ Underway(ms) /\ Paired(ms) /\ Numbered(ms, loop'.batch)
  BY <1>3, ResultsJoin
<1>5. CtxTypes' /\ ctx'.messages = ms /\ ctx'.previous = ctx.previous /\ ctx'.mid = ctx.mid
  <2>1. Len(ctx.messages) <= Len(ms) /\ ctx' = [ctx EXCEPT !.messages = ms]
    BY <1>2, <1>3
  <2>. QED BY <1>2, <2>1, MessagesGrow
<1>6. LoopTypes' /\ Spent'
  <2>1. /\ loop.budget \in 1 .. MaxIterations /\ loop.batch \in 0 .. MaxIterations
        /\ loop.batch + loop.budget <= MaxIterations + 1
    BY <1>2 DEF LoopTypes, Spent
  <2>2. loop'.budget \in 1 .. MaxIterations
    BY <2>1, Numbers
  <2>3. loop'.batch + loop'.budget <= MaxIterations + (IF loop'.final THEN 1 ELSE 0)
    BY <2>1, <2>2, Numbers
  <2>. QED BY <2>1, <2>2, <2>3 DEF LoopTypes, Spent
<1>7. SteerTypes' /\ Queued'
  <2>1. seen' \subseteq Steers
    BY <1>2 DEF SteerTypes
  <2>. QED BY <1>2, <2>1, SteersKept
<1>8. Steering'
  BY <1>2 DEF Steering
<1>9. UNCHANGED <<stored, turn, interrupt, rows, outcome, stops>>
  OBVIOUS
<1>. QED BY <1>1, <1>4, <1>5, <1>6, <1>7, <1>8, <1>9, LoopKeeps

LEMMA ToolsEnd ==
  ASSUME Inv, pc = "tools", Complete(Results), NoStop
  PROVE  Inv'
<1>1. InLoop /\ Shown
  BY DEF InLoop, Inv, Steering
<1>2. Len(ctx.messages) \in Nat
  BY <1>1, Going
<1>3. PICK ms \in Seq(Messages) : ms = Results /\ Len(ms) = Len(ctx.messages) + 1 /\ Past(ms)
  BY ResultsJoin
<1>4. Underway(ms) /\ Len(ctx.messages) <= Len(ms) /\ Complete(ms)
  BY <1>2, <1>3, ResultsJoin
<1>. QED BY <1>1, <1>3, <1>4, CompletesWith

LEMMA ToolsKeep == Inv /\ (ToolsLackPermission \/ ToolsHitLimit \/ ToolsReturn) => Inv'
<1>. SUFFICES ASSUME Inv, ToolsLackPermission \/ ToolsHitLimit \/ ToolsReturn PROVE Inv'
  OBVIOUS
<1>1. loop \in Loops /\ loop.budget \in 1 .. MaxIterations /\ loop.batch \in Nat
  BY TypesOfParts DEF Inv, LoopTypes, Loops
<1>2. CASE ToolsLackPermission
  BY <1>2, ToolsEnd DEF ToolsLackPermission
<1>3. CASE ToolsHitLimit
  <2>1. /\ pc = "tools" /\ pc' = "loop" /\ ctx' = [ctx EXCEPT !.messages = Results]
        /\ loop' = [loop EXCEPT !.final = TRUE, !.ran = FALSE]
        /\ UNCHANGED <<stored, turn, interrupt, signal, queue, rows, outcome, seen, stops>>
    BY <1>3 DEF ToolsHitLimit
  <2>2. /\ loop' \in Loops /\ loop'.batch = loop.batch /\ loop'.budget = loop.budget /\ loop'.final
    BY <1>1, <2>1 DEF Loops
  <2>3. loop'.budget \in 1 .. loop.budget
    BY <1>1, <2>2, Numbers
  <2>. QED BY <2>1, <2>2, <2>3, ToolsGoOn
<1>4. CASE ToolsReturn
  <2>1. pc = "tools" /\ NoStop
    BY <1>4, Zenon DEF ToolsReturn
  <2>2. CASE loop.budget > 1
    <3>1. PICK ok \in {0, 1} :
            /\ pc' = "loop" /\ ctx' = [ctx EXCEPT !.messages = Results]
            /\ loop' = [loop EXCEPT !.budget = @ - 1, !.ran = TRUE, !.same = @ + ok]
            /\ UNCHANGED <<stored, turn, signal, queue, rows, outcome, seen>>
      BY <1>4, <2>2, Zenon DEF ToolsReturn
    <3>2. PICK b \in Nat, s \in Nat : b = loop.budget - 1 /\ s = loop.same + ok
      BY <1>1, <2>2, Numbers DEF Loops
    <3>3. loop' = [loop EXCEPT !.budget = b, !.ran = TRUE, !.same = s]
      BY <1>1, <3>1, <3>2 DEF Loops
    <3>4. loop' \in Loops /\ loop'.batch = loop.batch /\ loop'.budget = b
      BY <1>1, <3>2, <3>3 DEF Loops
    <3>5. loop'.budget \in 1 .. loop.budget /\ loop'.budget < loop.budget
      BY <1>1, <2>2, <3>2, <3>4, Numbers
    <3>6. UNCHANGED <<stored, turn, interrupt, signal, queue, rows, outcome, seen, stops>>
      BY <2>1, <3>1 DEF NoStop
    <3>. QED BY <2>1, <3>1, <3>4, <3>5, <3>6, ToolsGoOn
  <2>3. CASE ~(loop.budget > 1)
    <3>1. Complete(Results)
      BY <1>4, <2>3, Zenon DEF ToolsReturn
    <3>. QED BY <2>1, <3>1, ToolsEnd
  <2>. QED BY <2>2, <2>3
<1>. QED BY <1>2, <1>3, <1>4

LEMMA StopsAndFailuresKeep ==
  ASSUME Inv, LoopStops \/ ModelStops \/ ModelFails \/ ModelFinalizes \/ ModelStaysEmpty \/ StopHookAccepts \/ Raise
  PROVE  Inv'
<1>1. interrupt \in BOOLEAN /\ stops \in 0 .. MaxStops
  BY DEF Inv, TypeOK
<1>2. ASSUME pc \in {"hooks", "context"} \/ InLoop, NEW status \in {"stopped", "failed"},
             Finish(status, ctx.messages), NoStop
      PROVE  Inv'
  <2>1. interrupt' \in BOOLEAN /\ stops' \in 0 .. MaxStops
    BY <1>1, <1>2 DEF NoStop
  <2>. QED BY <1>2, <2>1, BreaksOff
<1>3. ASSUME pc = "llm", Complete(ctx.messages), NoStop PROVE Inv'
  <2>1. InLoop /\ Shown
    BY <1>3 DEF InLoop, Inv, Steering
  <2>2. /\ ctx.messages \in Seq(Messages) /\ Len(ctx.messages) <= Len(ctx.messages)
        /\ Past(ctx.messages) /\ Underway(ctx.messages)
    BY <2>1, Going
  <2>. QED BY <1>3, <2>1, <2>2, CompletesWith
<1>4. CASE LoopStops
  BY <1>2, <1>4 DEF LoopStops, InLoop
<1>5. CASE ModelStops
  BY <1>2, <1>5 DEF ModelStops, InLoop
<1>6. CASE ModelFails
  <2>1. pc = "llm" /\ NoStop /\ (Complete(ctx.messages) \/ Finish("failed", ctx.messages))
    BY <1>6, Zenon DEF ModelFails
  <2>. QED BY <1>2, <1>3, <2>1 DEF InLoop
<1>7. CASE ModelFinalizes
  BY <1>3, <1>7 DEF ModelFinalizes
<1>8. CASE ModelStaysEmpty
  BY <1>3, <1>8 DEF ModelStaysEmpty
<1>9. CASE StopHookAccepts
  <2>1. InLoop /\ Shown /\ EndsWithSay(ctx.messages) /\ Finish("completed", ctx.messages) /\ NoStop
    BY <1>9 DEF StopHookAccepts, InLoop, Inv, Steering, Recording
  <2>2. /\ ctx.messages \in Seq(Messages) /\ Len(ctx.messages) <= Len(ctx.messages)
        /\ Past(ctx.messages) /\ Underway(ctx.messages)
    BY <2>1, Going
  <2>3. interrupt' \in BOOLEAN /\ stops' \in 0 .. MaxStops
    BY <1>1, <2>1 DEF NoStop
  <2>. QED BY <2>1, <2>2, <2>3, FinishKeeps
<1>10. CASE Raise
  BY <1>2, <1>10 DEF Raise, InLoop
<1>. QED BY <1>4, <1>5, <1>6, <1>7, <1>8, <1>9, <1>10

------------------------------------------------------------------------------
(* Before the loop *)

LEMMA BeginTurnKeeps == Inv /\ BeginTurn => Inv'
<1>. SUFFICES ASSUME Inv, BeginTurn PROVE Inv'
  OBVIOUS
<1>1. /\ pc = "idle" /\ turn < MaxTurns /\ turn' = turn + 1 /\ pc' = "hooks" /\ outcome' = "running"
      /\ ctx' = [NoContext EXCEPT !.messages = Loaded, !.previous = Len(Loaded), !.image = turn' \in ImageTurns]
      /\ UNCHANGED <<stored, loop, interrupt, signal, queue, rows, seen, stops>>
  BY Zenon DEF BeginTurn
<1>2. /\ CtxTypes /\ LoopTypes /\ SteerTypes /\ RowTypes /\ PlaceTypes
      /\ Spent /\ Queued /\ Past(stored) /\ Past(rows) /\ rows = <<>>
  BY <1>1, TypesOfParts DEF Inv, Recording
<1>3. PICK ms \in Seq(Messages) : ms = Loaded /\ Toolless(ms) /\ Past(ms)
  BY <1>2, LoadedKeeps
<1>4. Len(ms) \in Nat
  OBVIOUS
<1>5. /\ ctx' \in Contexts /\ ctx'.messages = ms /\ ctx'.previous = Len(ms) /\ ctx'.user = 1
      /\ ctx'.mid = FALSE /\ ctx'.first = FALSE
  <2>1. PICK n \in Nat : n = Len(ms)
    BY <1>4
  <2>2. PICK image \in BOOLEAN : image = (turn' \in ImageTurns)
    <3>1. (turn' \in ImageTurns) \in BOOLEAN
      OBVIOUS
    <3>. QED BY <3>1, Zenon
  <2>3. ctx' = [NoContext EXCEPT !.messages = ms, !.previous = n, !.image = image]
    BY <1>1, <1>3, <2>1, <2>2
  <2>4. ctx' = [messages |-> ms, previous |-> n, user |-> 1, first |-> FALSE, mid |-> FALSE, image |-> image]
    BY <2>3 DEF NoContext
  <2>. QED BY <2>1, <2>4 DEF Contexts
<1>6. CtxTypes'
  <2>1. Len(ms) \in 0 .. Len(ms) /\ 1 \in 1 .. Len(ms) + 1
    BY <1>4
  <2>. QED BY <1>5, <2>1 DEF CtxTypes
<1>7. LoopTypes' /\ Spent'
  BY <1>1, <1>2 DEF LoopTypes, Spent
<1>8. SteerTypes' /\ Queued'
  <2>1. seen' \subseteq Steers
    BY <1>1, <1>2 DEF SteerTypes
  <2>. QED BY <1>1, <1>2, <2>1, SteersKept
<1>9. turn \in Nat /\ turn' \in 0 .. MaxTurns
  BY <1>1, <1>2, Numbers DEF PlaceTypes
<1>10. RowTypes' /\ PlaceTypes'
  BY <1>1, <1>2, <1>9 DEF RowTypes, PlaceTypes, Places, Outcomes
<1>11. Blocks' /\ Steering'
  <2>1. Toolless(ctx'.messages)
    BY <1>3, <1>5
  <2>2. Blocks'
    BY <1>1, <2>1 DEF Blocks, InLoop
  <2>. QED BY <1>1, <2>2 DEF Steering
<1>12. Recording'
  <2>1. \A q \in Seq(Messages) : Past(q) => \A i \in DOMAIN q : /\ q[i].k = "ask" => q[i].n <= turn + 1
                                                              /\ q[i] # Msg("ask", turn + 1)
    <3>. SUFFICES ASSUME NEW q \in Seq(Messages), Past(q), NEW i \in DOMAIN q
                  PROVE  /\ q[i].k = "ask" => q[i].n <= turn + 1
                         /\ q[i] # Msg("ask", turn + 1)
      OBVIOUS
    <3>1. q[i].n \in Nat /\ (q[i].k = "ask" => q[i].n <= turn)
      BY MessageTypes, ElementOfSeq DEF Past
    <3>2. Msg("ask", turn + 1).k = "ask" /\ Msg("ask", turn + 1).n = turn + 1
      BY MsgIs
    <3>. QED BY <1>9, <3>1, <3>2
  <2>2. /\ stored \in Seq(Messages) /\ rows \in Seq(Messages)
        /\ stored' = stored /\ rows' = rows /\ ctx'.messages = ms /\ Ask' = Msg("ask", turn + 1)
    BY <1>1, <1>2, <1>5 DEF RowTypes, Ask
  <2>3. (Past(stored))' /\ (Past(rows))' /\ (Past(ctx.messages))'
    BY <1>1, <1>2, <1>3, <2>1, <2>2 DEF Past
  <2>4. (Absent(stored))' /\ (Absent(ctx.messages))'
    BY <1>1, <1>2, <1>3, <2>1, <2>2 DEF Absent
  <2>. QED BY <1>1, <1>2, <1>5, <2>3, <2>4 DEF Recording, InLoop
<1>. QED BY <1>6, <1>7, <1>8, <1>10, <1>11, <1>12, TypesOfParts DEF Inv

LEMMA BeforeLoop ==
  ASSUME Inv, pc \in {"hooks", "context"}
  PROVE  /\ CtxTypes /\ LoopTypes /\ SteerTypes /\ RowTypes /\ PlaceTypes /\ TypeOK
         /\ Spent /\ Queued /\ ctx.messages \in Seq(Messages)
         /\ Past(stored) /\ Past(rows) /\ Past(ctx.messages) /\ Toolless(ctx.messages)
         /\ Absent(stored) /\ Absent(ctx.messages) /\ ctx.previous = Len(ctx.messages)
         /\ ~ctx.mid /\ ~ctx.first /\ outcome = "running"
<1>1. CtxTypes /\ LoopTypes /\ SteerTypes /\ RowTypes /\ PlaceTypes /\ TypeOK
  BY TypesOfParts DEF Inv
<1>2. ctx.messages \in Seq(Messages)
  BY <1>1 DEF CtxTypes, Contexts
<1>. QED BY <1>1, <1>2 DEF Inv, Recording, Blocks

LEMMA HooksKeep == Inv /\ (HookStops \/ ResetAgent) => Inv'
<1>. SUFFICES ASSUME Inv, HookStops \/ ResetAgent PROVE Inv'
  OBVIOUS
<1>1. pc = "hooks" /\ UNCHANGED <<stored, turn, ctx, signal, queue, seen, stops>>
  BY DEF HookStops, ResetAgent
<1>2. /\ CtxTypes /\ LoopTypes /\ SteerTypes /\ RowTypes /\ PlaceTypes
      /\ Spent /\ Queued /\ Past(stored) /\ Past(rows) /\ Past(ctx.messages) /\ Toolless(ctx.messages)
      /\ Absent(stored) /\ Absent(ctx.messages) /\ ctx.previous = Len(ctx.messages)
      /\ ~ctx.mid /\ ~ctx.first /\ outcome = "running"
  BY <1>1, BeforeLoop
<1>3. CtxTypes' /\ SteerTypes' /\ Queued'
  <2>1. seen' \subseteq Steers
    BY <1>1, <1>2 DEF SteerTypes
  <2>2. SteerTypes' /\ Queued'
    BY <1>1, <1>2, <2>1, SteersKept
  <2>. QED BY <1>1, <1>2, <2>2 DEF CtxTypes
<1>4. CASE HookStops
  <2>1. outcome' = "stopped" /\ pc' = "save" /\ rows' = <<Ask, Say>> /\ UNCHANGED <<loop, interrupt>>
    BY <1>4 DEF HookStops
  <2>2. rows' \in Seq(Messages) /\ Past(rows')
    BY <1>2, <2>1, ShortTurns
  <2>3. LoopTypes' /\ Spent' /\ RowTypes' /\ PlaceTypes'
    BY <1>1, <1>2, <2>1, <2>2 DEF LoopTypes, Spent, RowTypes, PlaceTypes, Places, Outcomes
  <2>4. Blocks' /\ Steering'
    BY <2>1 DEF Blocks, Steering, InLoop
  <2>5. Recording'
    <3>1. turn' = turn /\ Past(stored') /\ Past(ctx'.messages)
      BY <1>1, <1>2
    <3>2. pc' \notin {"hooks", "context", "hook", "window", "idle"} /\ ~InLoop'
          /\ outcome' \notin {"completed", "failed"} /\ pc' = "save"
      BY <2>1 DEF InLoop
    <3>. QED BY <2>2, <3>1, <3>2, RecordingNext
  <2>. QED BY <1>3, <2>3, <2>4, <2>5, TypesOfParts DEF Inv
<1>5. CASE ResetAgent
  <2>1. interrupt' = FALSE /\ loop' = NewLoop /\ pc' = "context" /\ UNCHANGED <<rows, outcome>>
    BY <1>5 DEF ResetAgent
  <2>2. LoopTypes' /\ Spent' /\ RowTypes' /\ PlaceTypes'
    BY <1>1, <1>2, <2>1, LoopReset DEF RowTypes, PlaceTypes, Places, Outcomes
  <2>3. Blocks' /\ Steering'
    <3>1. Toolless(ctx'.messages)
      BY <1>1, <1>2
    <3>. QED BY <1>2, <2>1, <3>1 DEF Blocks, Steering, InLoop
  <2>4. Recording'
    <3>1. /\ turn' = turn /\ Past(stored') /\ Past(ctx'.messages) /\ Past(rows')
          /\ Absent(stored') /\ Absent(ctx'.messages) /\ ctx'.previous = Len(ctx'.messages)
          /\ ~ctx'.mid /\ ~ctx'.first /\ outcome' = "running"
      BY <1>1, <1>2, <2>1
    <3>2. pc' \notin {"hook", "save", "window", "idle"} /\ ~InLoop'
      BY <2>1 DEF InLoop
    <3>. QED BY <3>1, <3>2, RecordingNext
  <2>. QED BY <1>3, <2>2, <2>3, <2>4, TypesOfParts DEF Inv
<1>. QED BY <1>4, <1>5

(* The user message joins a history that does not hold it.                  *)
LEMMA AskJoins ==
  ASSUME TypeOK, NEW base \in Seq(Messages), Toolless(base), Past(base), Absent(base),
         NEW st, Absent(st), NEW c, c.mid = FALSE, c.previous = Len(base)
  PROVE  /\ Append(base, Ask) \in Seq(Messages) /\ Len(Append(base, Ask)) = Len(base) + 1
         /\ Past(Append(base, Ask)) /\ Paired(Append(base, Ask)) /\ \A b : Numbered(Append(base, Ask), b)
         /\ Joins(Append(base, Ask), c, st)
<1>1. Ask \in Messages /\ Ask.k = "ask" /\ Ask.n = turn /\ turn \in Nat
  BY AskTypes, Numbers DEF TypeOK
<1>2. PICK a : a = Append(base, Ask)
  OBVIOUS
<1>3. PICK l \in Nat : l = Len(base)
  OBVIOUS
<1>4. /\ a \in Seq(Messages) /\ Len(a) = l + 1 /\ DOMAIN a = (DOMAIN base) \cup {l + 1}
      /\ a[l + 1] = Ask /\ \A i \in DOMAIN base : a[i] = base[i]
  BY <1>1, <1>2, <1>3, AppendElements
<1>5. Past(a) /\ Paired(a) /\ \A b : Numbered(a, b)
  BY <1>1, <1>2, AppendPast, AppendToolless
<1>6. Once(a)
  BY <1>4 DEF Absent, Once
<1>7. Joins(a, c, st)
  <2>1. c.previous < Len(a) /\ a[c.previous + 1] = Ask
    BY <1>3, <1>4
  <2>. QED BY <1>6, <2>1 DEF Joins
<1>. QED BY <1>2, <1>3, <1>4, <1>5, <1>7

LEMMA BuildContextKeeps == Inv /\ BuildContext => Inv'
<1>. SUFFICES ASSUME Inv, BuildContext PROVE Inv'
  OBVIOUS
<1>1. pc = "context" /\ pc' = "loop" /\ UNCHANGED <<turn, interrupt, signal, queue, rows, outcome, seen, stops>>
  BY Zenon DEF BuildContext
<1>2. /\ CtxTypes /\ LoopTypes /\ SteerTypes /\ RowTypes /\ PlaceTypes /\ TypeOK
      /\ Spent /\ Queued /\ ctx.messages \in Seq(Messages)
      /\ Past(stored) /\ Past(rows) /\ Past(ctx.messages) /\ Toolless(ctx.messages)
      /\ Absent(stored) /\ Absent(ctx.messages) /\ ctx.previous = Len(ctx.messages)
      /\ ctx.mid = FALSE /\ outcome = "running"
  <2>1. ctx.mid \in BOOLEAN
    BY <1>1, BeforeLoop DEF CtxTypes, Contexts
  <2>. QED BY <1>1, <2>1, BeforeLoop
<1>3. PICK base : /\ base \in Seq(Messages) /\ Toolless(base) /\ Past(base) /\ Absent(base)
                  /\ stored' \in Seq(Messages) /\ Past(stored') /\ Absent(stored')
                  /\ \E first \in BOOLEAN :
                       ctx' = [ctx EXCEPT !.messages = Append(base, Ask), !.previous = Len(base),
                                          !.user = Len(base) + 1, !.first = first]
                  /\ \E c \in Int : loop' = [loop EXCEPT !.compacted = c]
  <2>1. ASSUME ctx' = [ctx EXCEPT !.messages = Append(@, Ask), !.user = Len(ctx.messages) + 1],
               UNCHANGED <<stored, loop>>
        PROVE  /\ stored' \in Seq(Messages) /\ Past(stored') /\ Absent(stored')
               /\ ctx' = [ctx EXCEPT !.messages = Append(ctx.messages, Ask), !.previous = Len(ctx.messages),
                                     !.user = Len(ctx.messages) + 1, !.first = ctx.first]
               /\ loop' = [loop EXCEPT !.compacted = loop.compacted]
               /\ ctx.first \in BOOLEAN /\ loop.compacted \in Int
    <3>1. ctx \in Contexts /\ loop \in Loops /\ stored \in Seq(Messages)
      BY <1>2 DEF CtxTypes, LoopTypes, RowTypes
    <3>2. PICK l : l = Len(ctx.messages)
      OBVIOUS
    <3>3. PICK a : a = Append(ctx.messages, Ask)
      OBVIOUS
    <3>4. ctx.previous = l /\ ctx' = [ctx EXCEPT !.messages = a, !.user = l + 1]
      BY <1>2, <2>1, <3>2, <3>3
    <3>5. ctx' = [ctx EXCEPT !.messages = a, !.previous = l, !.user = l + 1, !.first = ctx.first]
      BY <3>1, <3>4 DEF Contexts
    <3>. QED BY <1>2, <2>1, <3>1, <3>2, <3>3, <3>5 DEF Contexts, Loops
  <2>2. ASSUME NEW new \in Replacements(ctx.messages), stored' = new,
               ctx' = [ctx EXCEPT !.messages = Append(new, Ask), !.previous = Len(new),
                                  !.user = Len(new) + 1, !.first = TRUE],
               loop' = [loop EXCEPT !.compacted = Len(new) + 1]
        PROVE  /\ new \in Seq(Messages) /\ Toolless(new) /\ Past(new) /\ Absent(new)
               /\ TRUE \in BOOLEAN /\ Len(new) + 1 \in Int
    BY <1>2, ReplacementKeeps
  <2>. QED BY <1>2, <2>1, <2>2, Zenon DEF BuildContext
<1>4. PICK ms : ms = Append(base, Ask)
  OBVIOUS
<1>5. PICK l \in Nat : l = Len(base)
  BY <1>3
<1>6. /\ ctx' \in Contexts /\ ctx'.messages = ms /\ ctx'.previous = l /\ ctx'.user = l + 1 /\ ctx'.mid = FALSE
      /\ ms \in Seq(Messages)
  <2>1. ms \in Seq(Messages)
    BY <1>2, <1>3, <1>4, AskTypes, AppendElements DEF PlaceTypes
  <2>2. PICK u \in Nat : u = l + 1
    OBVIOUS
  <2>3. PICK first \in BOOLEAN :
          ctx' = [ctx EXCEPT !.messages = ms, !.previous = l, !.user = u, !.first = first]
    BY <1>3, <1>4, <1>5, <2>2
  <2>4. ctx \in Contexts
    BY <1>2 DEF CtxTypes
  <2>5. /\ ctx' \in Contexts /\ ctx'.messages = ms /\ ctx'.previous = l /\ ctx'.user = u /\ ctx'.mid = ctx.mid
    BY ONLY l \in Nat, u \in Nat, first \in BOOLEAN, <2>1, <2>3, <2>4 DEF Contexts
  <2>. QED BY <1>2, <2>1, <2>2, <2>5
<1>7. /\ Len(ms) = l + 1 /\ Past(ms) /\ Paired(ms) /\ (\A b : Numbered(ms, b)) /\ Joins(ms, ctx', stored')
  <2>1. PICK c : c = ctx'
    OBVIOUS
  <2>2. PICK st : st = stored'
    OBVIOUS
  <2>3. /\ Len(ms) = l + 1 /\ Past(ms) /\ Paired(ms) /\ (\A b : Numbered(ms, b)) /\ Joins(ms, c, st)
    <3>1. /\ TypeOK /\ base \in Seq(Messages) /\ Toolless(base) /\ Past(base) /\ Absent(base)
          /\ Absent(st) /\ c.mid = FALSE /\ c.previous = Len(base)
      BY <1>2, <1>3, <1>5, <1>6, <2>1, <2>2
    <3>2. /\ Len(Append(base, Ask)) = Len(base) + 1 /\ Past(Append(base, Ask)) /\ Paired(Append(base, Ask))
          /\ (\A b : Numbered(Append(base, Ask), b)) /\ Joins(Append(base, Ask), c, st)
      BY ONLY <3>1, AskJoins
    <3>. QED BY <1>4, <1>5, <3>2
  <2>. QED BY <2>1, <2>2, <2>3
<1>8. CtxTypes'
  <2>1. l \in 0 .. Len(ms) /\ l + 1 \in 1 .. Len(ms) + 1
    BY <1>7
  <2>. QED BY <1>6, <2>1 DEF CtxTypes
<1>9. LoopTypes' /\ Spent'
  <2>1. /\ loop' \in Loops /\ loop'.budget = loop.budget /\ loop'.batch = loop.batch
        /\ loop'.final = loop.final
    BY <1>2, <1>3 DEF LoopTypes, Loops
  <2>. QED BY <1>1, <1>2, <2>1 DEF LoopTypes, Spent
<1>10. SteerTypes' /\ Queued'
  <2>1. seen' \subseteq Steers
    BY <1>1, <1>2 DEF SteerTypes
  <2>. QED BY <1>1, <1>2, <2>1, SteersKept
<1>11. RowTypes' /\ PlaceTypes'
  BY <1>1, <1>2, <1>3 DEF RowTypes, PlaceTypes, Places
<1>12. Blocks' /\ Steering'
  <2>1. Paired(ctx'.messages) /\ Numbered(ctx'.messages, loop'.batch)
    BY <1>6, <1>7
  <2>. QED BY <1>1, <1>2, <2>1 DEF Blocks, Steering
<1>13. Recording'
  <2>1. /\ turn' = turn /\ Past(stored') /\ Past(ctx'.messages) /\ Past(rows') /\ outcome' = "running"
        /\ Joins(ctx'.messages, ctx', stored')
    BY <1>1, <1>2, <1>3, <1>6, <1>7
  <2>2. pc' \notin {"hooks", "context", "hook", "save", "window", "idle"}
    BY <1>1
  <2>. QED BY <2>1, <2>2, RecordingNext
<1>. QED BY <1>8, <1>9, <1>10, <1>11, <1>12, <1>13, TypesOfParts DEF Inv

------------------------------------------------------------------------------
(* Saving and ending *)

LEMMA TurnOver ==
  ASSUME Inv, EndTurn, UNCHANGED <<stored, turn, seen>>, rows' = <<>>, outcome' \in Outcomes,
         outcome' = "completed" => Shown, interrupt' \in BOOLEAN, stops' \in 0 .. MaxStops
  PROVE  Inv'
<1>1. /\ SteerTypes /\ RowTypes /\ PlaceTypes /\ Past(stored)
  BY TypesOfParts DEF Inv, Recording
<1>2. /\ pc' = "idle" /\ queue' = <<>> /\ ctx' = NoContext /\ loop' = NewLoop
      /\ signal' = [i \in Steers |-> IF signal[i] = "pending" THEN "expired" ELSE signal[i]]
  BY DEF EndTurn
<1>3. ctx'.messages = <<>> /\ ctx'.previous = 0 /\ ctx'.user = 1
  BY <1>2 DEF NoContext
<1>4. CtxTypes' /\ LoopTypes' /\ Spent'
  <2>1. Len(<<>>) = 0
    OBVIOUS
  <2>. QED BY <1>2, <1>3, <2>1, NewTypes, LoopReset DEF CtxTypes
<1>5. SteerTypes' /\ Queued'
  <2>1. /\ signal' \in [Steers -> {"none", "pending", "consumed", "expired"}]
        /\ \A i \in Steers : signal'[i] # "pending"
    BY <1>1, <1>2 DEF SteerTypes
  <2>2. {i \in Steers : signal'[i] = "pending"} = {queue'[j] : j \in DOMAIN queue'}
    BY <1>2, <2>1
  <2>3. queue' \in Seq(Steers) /\ Len(queue') <= MaxPending
    BY <1>2, Numbers, EmptySeq
  <2>. QED BY <1>1, <1>2, <2>1, <2>2, <2>3 DEF SteerTypes, Queued
<1>6. RowTypes' /\ PlaceTypes'
  <2>1. rows' \in Seq(Messages)
    BY EmptySeq
  <2>. QED BY <1>1, <1>2, <2>1 DEF RowTypes, PlaceTypes, Places
<1>7. Blocks' /\ Steering'
  <2>1. Shown => Shown'
    BY <1>1, <1>2 DEF Shown, SteerTypes
  <2>. QED BY <1>2, <2>1 DEF Blocks, Steering, InLoop
<1>8. Recording'
  <2>1. turn' = turn /\ Past(stored') /\ Past(ctx'.messages) /\ Past(rows')
    BY <1>1, <1>3 DEF Past
  <2>2. pc' \notin {"hooks", "context", "hook", "save", "window"} /\ ~InLoop'
    BY <1>2 DEF InLoop
  <2>. QED BY <1>2, <2>1, <2>2, RecordingNext
<1>. QED BY <1>4, <1>5, <1>6, <1>7, <1>8, TypesOfParts DEF Inv

LEMMA EndsKeep == Inv /\ (Saved \/ SaveFails) => Inv'
<1>. SUFFICES ASSUME Inv, Saved \/ SaveFails PROVE Inv'
  OBVIOUS
<1>1. interrupt \in BOOLEAN /\ stops \in 0 .. MaxStops /\ outcome \in Outcomes
  BY TypesOfParts DEF Inv, PlaceTypes
<1>2. CASE Saved
  <2>1. rows = <<>> /\ EndTurn /\ UNCHANGED <<stored, turn, interrupt, rows, outcome, seen, stops>>
    BY <1>2 DEF Saved
  <2>2. outcome = "completed" => Shown
    BY DEF Inv, Steering
  <2>. QED BY <1>1, <2>1, <2>2, TurnOver
<1>3. CASE SaveFails
  <2>1. EndTurn /\ rows' = <<>> /\ outcome' = "lost" /\ UNCHANGED <<stored, turn, seen, interrupt, stops>>
    BY <1>3 DEF SaveFails, Lose, NoStop
  <2>. QED BY <1>1, <2>1, TurnOver DEF Outcomes
<1>. QED BY <1>2, <1>3

(* What the rest of a step of the save needs.                               *)
LEMMA SaveStep ==
  ASSUME Inv, pc \in {"save", "window"}, pc' = "save", stored' \in Seq(Messages), rows' \in Seq(Messages),
         UNCHANGED <<turn, ctx, loop, interrupt, signal, queue, outcome, seen, stops>>,
         Past(stored'), Past(rows'), outcome \in {"completed", "failed"} => Recorded(stored' \o rows')
  PROVE  Inv'
<1>1. CtxTypes /\ LoopTypes /\ SteerTypes /\ PlaceTypes /\ Spent /\ Queued /\ Past(ctx.messages)
  BY TypesOfParts DEF Inv, Recording
<1>2. SteerTypes' /\ Queued'
  <2>1. seen' \subseteq Steers
    BY <1>1 DEF SteerTypes
  <2>. QED BY <1>1, <2>1, SteersKept
<1>3. CtxTypes' /\ LoopTypes' /\ PlaceTypes' /\ RowTypes' /\ Spent'
  BY <1>1 DEF CtxTypes, LoopTypes, PlaceTypes, Places, RowTypes, Spent
<1>4. Blocks' /\ Steering'
  BY DEF Blocks, InLoop, Inv, Steering, Shown
<1>5. Recording'
  <2>1. turn' = turn /\ Past(ctx'.messages) /\ ~InLoop'
    BY <1>1 DEF InLoop
  <2>. QED BY <2>1, RecordingNext
<1>. QED BY <1>2, <1>3, <1>4, <1>5, TypesOfParts DEF Inv

LEMMA RowMoves ==
  ASSUME NEW S, NEW st \in Seq(S), NEW rs \in Seq(S), rs # <<>>
  PROVE  /\ Head(rs) = rs[1] /\ 1 \in DOMAIN rs /\ Head(rs) \in S /\ Tail(rs) \in Seq(S)
         /\ \A i \in DOMAIN Tail(rs) : i + 1 \in DOMAIN rs /\ Tail(rs)[i] = rs[i + 1]
         /\ Append(st, Head(rs)) \o Tail(rs) = st \o rs
<1>1. PICK l \in Nat : l = Len(rs) /\ l # 0 /\ DOMAIN rs = 1 .. l
  OBVIOUS
<1>2. PICK q \in Nat : q = Len(st)
  OBVIOUS
<1>3. Head(rs) = rs[1] /\ 1 \in DOMAIN rs /\ Head(rs) \in S
  BY <1>1
<1>4. PICK t : t = Tail(rs)
  OBVIOUS
<1>5. PICK m \in Nat : m = l - 1
  BY <1>1
<1>6. t \in Seq(S) /\ Len(t) = m /\ \A i \in 1 .. m : i + 1 \in 1 .. l /\ t[i] = rs[i + 1]
  BY <1>1, <1>4, <1>5
<1>7. PICK a : a = Append(st, rs[1])
  OBVIOUS
<1>8. /\ a \in Seq(S) /\ Len(a) = q + 1 /\ a[q + 1] = rs[1] /\ \A i \in 1 .. q : a[i] = st[i]
  BY <1>1, <1>2, <1>7
<1>9. PICK x : x = a \o t
  OBVIOUS
<1>10. PICK y : y = st \o rs
  OBVIOUS
<1>11. /\ x \in Seq(S) /\ Len(x) = (q + 1) + m
       /\ \A i \in 1 .. q + 1 : x[i] = a[i]
       /\ \A i \in 1 .. m : x[(q + 1) + i] = t[i]
  <2>1. PICK p \in Nat : p = q + 1
    OBVIOUS
  <2>2. /\ x \in Seq(S) /\ Len(x) = p + m
        /\ \A i \in 1 .. p : x[i] = a[i]
        /\ \A i \in 1 .. m : x[p + i] = t[i]
    <3>1. a \in Seq(S) /\ t \in Seq(S) /\ p = Len(a) /\ m = Len(t)
      BY <1>6, <1>8, <2>1
    <3>. QED BY ONLY p \in Nat, m \in Nat, <1>9, <3>1, ConcatElements
  <2>. QED BY <2>1, <2>2
<1>12. /\ y \in Seq(S) /\ Len(y) = q + l
       /\ \A i \in 1 .. q : y[i] = st[i]
       /\ \A i \in 1 .. l : y[q + i] = rs[i]
  BY ONLY q \in Nat, l \in Nat, st \in Seq(S), rs \in Seq(S), <1>1, <1>2, <1>10, ConcatElements
<1>13. x = y
  <2>1. Len(x) = q + l /\ Len(y) = q + l
    BY <1>5, <1>11, <1>12
  <2>2. ASSUME NEW i \in 1 .. q + l PROVE x[i] = y[i]
    <3>1. CASE i \in 1 .. q
      BY <1>8, <1>11, <1>12, <3>1
    <3>2. CASE i = q + 1
      BY <1>1, <1>8, <1>11, <1>12, <3>2
    <3>3. CASE i > q + 1
      <4>1. PICK j \in 1 .. m : i = (q + 1) + j /\ i = q + (j + 1) /\ j + 1 \in 1 .. l
        <5>1. i - (q + 1) \in 1 .. m /\ i = (q + 1) + (i - (q + 1)) /\ i = q + ((i - (q + 1)) + 1)
              /\ (i - (q + 1)) + 1 \in 1 .. l
          BY <1>5, <3>3
        <5>. QED BY <5>1
      <4>2. x[i] = t[j] /\ y[i] = rs[j + 1]
        BY <1>11, <1>12, <4>1
      <4>. QED BY <1>6, <4>2
    <3>. QED BY <3>1, <3>2, <3>3
  <2>. QED BY <1>11, <1>12, <2>1, <2>2, SeqEqual
<1>14. DOMAIN t = 1 .. m
  BY <1>6
<1>. QED BY <1>1, <1>3, <1>4, <1>6, <1>7, <1>9, <1>10, <1>13, <1>14

LEMMA SavesKeep == Inv /\ (SaveRow \/ SaveWindow) => Inv'
<1>. SUFFICES ASSUME Inv, SaveRow \/ SaveWindow PROVE Inv'
  OBVIOUS
<1>1. /\ stored \in Seq(Messages) /\ rows \in Seq(Messages) /\ CtxTypes
      /\ Past(stored) /\ Past(rows) /\ Past(ctx.messages)
  BY TypesOfParts DEF Inv, RowTypes, Recording
<1>2. CASE SaveRow
  <2>1. /\ pc = "save" /\ rows # <<>> /\ stored' = Append(stored, Head(rows)) /\ rows' = Tail(rows)
        /\ UNCHANGED <<turn, pc, ctx, loop, interrupt, signal, queue, outcome, seen, stops>>
    BY <1>2 DEF SaveRow
  <2>2. /\ Head(rows) = rows[1] /\ 1 \in DOMAIN rows /\ Head(rows) \in Messages /\ Tail(rows) \in Seq(Messages)
        /\ \A i \in DOMAIN Tail(rows) : i + 1 \in DOMAIN rows /\ Tail(rows)[i] = rows[i + 1]
        /\ Append(stored, Head(rows)) \o Tail(rows) = stored \o rows
    BY <1>1, <2>1, RowMoves
  <2>3. Past(Tail(rows))
    BY <1>1, <2>2 DEF Past
  <2>4. Append(stored, Head(rows)) \in Seq(Messages) /\ Past(Append(stored, Head(rows)))
    <3>1. Head(rows).k = "ask" => Head(rows).n <= turn
      BY <1>1, <2>2 DEF Past
    <3>. QED BY <1>1, <2>2, <3>1, AppendElements, AppendPast
  <2>5. outcome \in {"completed", "failed"} => Recorded(stored' \o rows')
    <3>1. outcome \in {"completed", "failed"} => Recorded(stored \o rows)
      BY <2>1 DEF Inv, Recording
    <3>. QED BY <2>1, <2>2, <3>1
  <2>. QED BY <2>1, <2>2, <2>3, <2>4, <2>5, SaveStep
<1>3. CASE SaveWindow
  <2>1. /\ pc = "window" /\ stored' = ctx.messages /\ rows' = <<>> /\ pc' = "save"
        /\ UNCHANGED <<turn, ctx, loop, interrupt, signal, queue, outcome, seen, stops>>
    BY <1>3 DEF SaveWindow
  <2>2. ctx.messages \in Seq(Messages) /\ rows' \in Seq(Messages) /\ Past(rows')
    BY <1>1, <2>1, EmptySeq DEF CtxTypes, Contexts, Past
  <2>3. Recorded(stored' \o rows')
    <3>1. Recorded(ctx.messages)
      BY <2>1 DEF Inv, Recording
    <3>2. ctx.messages \o <<>> = ctx.messages
      BY <2>2, ConcatEmptySeq
    <3>. QED BY <2>1, <3>1, <3>2
  <2>. QED BY <1>1, <2>1, <2>2, <2>3, SaveStep
<1>. QED BY <1>2, <1>3

------------------------------------------------------------------------------
(* The user *)

LEMMA SteerKeeps == Inv /\ Steer => Inv'
<1>. SUFFICES ASSUME Inv, Steer PROVE Inv'
  OBVIOUS
<1>1. PICK i \in Steers :
        /\ signal[i] = "none"
        /\ IF Len(queue) >= MaxPending
           THEN /\ signal' = [signal EXCEPT ![i] = "pending", ![Head(queue)] = "expired"]
                /\ queue' = Append(Tail(queue), i)
           ELSE /\ signal' = [signal EXCEPT ![i] = "pending"]
                /\ queue' = Append(queue, i)
  BY Zenon DEF Steer
<1>2. UNCHANGED <<stored, turn, pc, ctx, loop, interrupt, rows, outcome, seen, stops>>
  BY Zenon DEF Steer
<1>3. /\ CtxTypes /\ LoopTypes /\ SteerTypes /\ RowTypes /\ PlaceTypes /\ Spent /\ Queued
  BY TypesOfParts DEF Inv
<1>4. PICK n \in Nat : n = Len(queue) /\ DOMAIN queue = 1 .. n /\ n <= MaxPending
  BY <1>3 DEF SteerTypes
<1>5. /\ signal \in [Steers -> {"none", "pending", "consumed", "expired"}] /\ queue \in Seq(Steers)
      /\ \A k \in Steers : signal[k] = "pending" <=> \E j \in 1 .. n : queue[j] = k
      /\ \A j \in 1 .. n : queue[j] \in Steers
      /\ \A j, k \in 1 .. n : queue[j] = queue[k] => j = k
  <2>1. \A k \in Steers : signal[k] = "pending" <=> \E j \in DOMAIN queue : queue[j] = k
    BY <1>3, Zenon DEF SteerTypes
  <2>. QED BY <1>3, <1>4, <2>1 DEF SteerTypes, Queued
<1>6. \A j \in 1 .. n : queue[j] # i
  BY <1>1, <1>5
<1>7. /\ signal' \in [Steers -> {"none", "pending", "consumed", "expired"}]
      /\ queue' \in Seq(Steers) /\ Len(queue') <= MaxPending
      /\ \A k \in Steers : signal'[k] = "pending" <=> \E j \in DOMAIN queue' : queue'[j] = k
      /\ \A j, k \in DOMAIN queue' : queue'[j] = queue'[k] => j = k
      /\ \A k \in Steers : signal'[k] = "consumed" => signal[k] = "consumed"
  <2>1. CASE n >= MaxPending
    <3>1. queue # <<>> /\ n >= 1 /\ 1 \in 1 .. n
      BY <1>4, <2>1, Numbers
    <3>2. PICK h \in Steers : h = Head(queue) /\ h = queue[1] /\ h # i
      BY <1>4, <1>5, <1>6, <3>1
    <3>3. signal' = [signal EXCEPT ![i] = "pending", ![h] = "expired"] /\ queue' = Append(Tail(queue), i)
      BY <1>1, <1>4, <2>1, <3>2
    <3>4. /\ signal' \in [Steers -> {"none", "pending", "consumed", "expired"}]
          /\ signal'[i] = "pending" /\ signal'[h] = "expired"
          /\ \A k \in Steers : k # i /\ k # h => signal'[k] = signal[k]
      BY ONLY <1>5, <3>2, <3>3, i \in Steers, h \in Steers
    <3>5. PICK q : q = queue'
      OBVIOUS
    <3>6. /\ q \in Seq(Steers) /\ Len(q) = n /\ DOMAIN q = 1 .. n /\ q[n] = i
          /\ \A j \in 1 .. n : j < n => q[j] = queue[j + 1] /\ j + 1 \in 1 .. n
      BY <1>4, <1>5, <3>1, <3>3, <3>5
    <3>7. \A k \in Steers : signal'[k] = "pending" <=> \E j \in 1 .. n : q[j] = k
      <4>. SUFFICES ASSUME NEW k \in Steers
                    PROVE  signal'[k] = "pending" <=> \E j \in 1 .. n : q[j] = k
        OBVIOUS
      <4>1. CASE k = i
        BY <3>1, <3>4, <3>6, <4>1
      <4>2. CASE k = h
        <5>1. ASSUME NEW j \in 1 .. n, q[j] = k PROVE FALSE
          <6>1. j # n /\ j < n
            BY <3>2, <3>6, <4>2, <5>1
          <6>2. queue[j + 1] = queue[1] /\ j + 1 \in 1 .. n
            BY <3>2, <3>6, <4>2, <5>1, <6>1
          <6>. QED BY <1>5, <3>1, <6>1, <6>2
        <5>. QED BY <3>4, <4>2, <5>1
      <4>3. CASE k # i /\ k # h
        <5>1. signal'[k] = "pending" <=> \E j \in 1 .. n : queue[j] = k
          BY <1>5, <3>4, <4>3
        <5>2. ASSUME NEW j \in 1 .. n, queue[j] = k PROVE \E l \in 1 .. n : q[l] = k
          <6>1. j # 1
            BY <3>2, <4>3, <5>2
          <6>2. j - 1 \in 1 .. n /\ j - 1 < n /\ (j - 1) + 1 = j
            BY <6>1
          <6>3. q[j - 1] = queue[j]
            BY <3>6, <6>2
          <6>. QED BY <5>2, <6>2, <6>3
        <5>3. ASSUME NEW l \in 1 .. n, q[l] = k PROVE \E j \in 1 .. n : queue[j] = k
          <6>1. l < n
            BY <3>6, <4>3, <5>3
          <6>. QED BY <3>6, <5>3, <6>1
        <5>. QED BY <5>1, <5>2, <5>3
      <4>. QED BY <4>1, <4>2, <4>3
    <3>8. \A j, k \in 1 .. n : q[j] = q[k] => j = k
      <4>. SUFFICES ASSUME NEW j \in 1 .. n, NEW k \in 1 .. n, q[j] = q[k] PROVE j = k
        OBVIOUS
      <4>1. CASE j < n /\ k < n
        <5>1. queue[j + 1] = queue[k + 1] /\ j + 1 \in 1 .. n /\ k + 1 \in 1 .. n
          BY <3>6, <4>1
        <5>2. j + 1 = k + 1
          BY <1>5, <5>1
        <5>. QED BY <5>2
      <4>2. CASE j = n \/ k = n
        BY <1>6, <3>6, <4>2
      <4>. QED BY <4>1, <4>2
    <3>9. \A k \in Steers : signal'[k] = "consumed" => signal[k] = "consumed"
      BY <3>4
    <3>. QED BY <1>4, <3>4, <3>5, <3>6, <3>7, <3>8, <3>9
  <2>2. CASE ~(n >= MaxPending)
    <3>1. signal' = [signal EXCEPT ![i] = "pending"] /\ queue' = Append(queue, i)
      BY <1>1, <1>4, <2>2
    <3>2. /\ signal' \in [Steers -> {"none", "pending", "consumed", "expired"}]
          /\ signal'[i] = "pending" /\ \A k \in Steers : k # i => signal'[k] = signal[k]
      BY ONLY <1>5, <3>1, i \in Steers
    <3>3. PICK q : q = queue'
      OBVIOUS
    <3>4. /\ q \in Seq(Steers) /\ Len(q) = n + 1 /\ DOMAIN q = 1 .. n + 1 /\ q[n + 1] = i
          /\ \A j \in 1 .. n : q[j] = queue[j]
      BY <1>4, <1>5, <3>1, <3>3
    <3>5. n + 1 <= MaxPending /\ \A j \in 1 .. n + 1 : j \in 1 .. n \/ j = n + 1
      BY <2>2, Numbers
    <3>6. \A k \in Steers : signal'[k] = "pending" <=> \E j \in 1 .. n + 1 : q[j] = k
      <4>. SUFFICES ASSUME NEW k \in Steers
                    PROVE  signal'[k] = "pending" <=> \E j \in 1 .. n + 1 : q[j] = k
        OBVIOUS
      <4>1. CASE k = i
        BY <3>2, <3>4, <4>1
      <4>2. CASE k # i
        <5>1. signal'[k] = "pending" <=> \E j \in 1 .. n : queue[j] = k
          BY <1>5, <3>2, <4>2
        <5>2. (\E j \in 1 .. n : queue[j] = k) => \E j \in 1 .. n + 1 : q[j] = k
          BY <3>4
        <5>3. (\E j \in 1 .. n + 1 : q[j] = k) => \E j \in 1 .. n : queue[j] = k
          BY <3>4, <3>5, <4>2
        <5>. QED BY <5>1, <5>2, <5>3
      <4>. QED BY <4>1, <4>2
    <3>7. \A j, k \in 1 .. n + 1 : q[j] = q[k] => j = k
      BY <1>5, <1>6, <3>4, <3>5
    <3>8. \A k \in Steers : signal'[k] = "consumed" => signal[k] = "consumed"
      BY <3>2
    <3>. QED BY <3>2, <3>3, <3>4, <3>5, <3>6, <3>7, <3>8
  <2>. QED BY <2>1, <2>2
<1>8. SteerTypes' /\ Queued'
  <2>1. {k \in Steers : signal'[k] = "pending"} = {queue'[j] : j \in DOMAIN queue'}
    <3>1. PICK q \in Seq(Steers) : q = queue'
      BY <1>7
    <3>2. \A j \in DOMAIN q : q[j] \in Steers
      OBVIOUS
    <3>3. \A k \in Steers : signal'[k] = "pending" <=> \E j \in DOMAIN q : q[j] = k
      BY <1>7, <3>1
    <3>4. {k \in Steers : signal'[k] = "pending"} = {q[j] : j \in DOMAIN q}
      BY ONLY <3>2, <3>3, Zenon
    <3>. QED BY <3>1, <3>4
  <2>2. seen' \subseteq Steers
    BY <1>2, <1>3 DEF SteerTypes
  <2>. QED BY <1>7, <2>1, <2>2 DEF SteerTypes, Queued
<1>9. CtxTypes' /\ LoopTypes' /\ RowTypes' /\ PlaceTypes' /\ Spent'
  BY <1>2, <1>3 DEF CtxTypes, LoopTypes, RowTypes, PlaceTypes, Spent
<1>10. Steering'
  <2>1. Shown => Shown'
    BY <1>2, <1>7 DEF Shown
  <2>. QED BY <1>2, <2>1 DEF Inv, Steering
<1>11. Blocks' /\ Recording'
  <2>1. Blocks'
    BY <1>2 DEF Inv, Blocks, InLoop, Results
  <2>2. Recording'
    BY <1>2, Zenon DEF Inv, Recording, InLoop, Past, Absent, Underway, Joins, Once, Summed, EndsWithSay,
                       Recorded, Ask
  <2>. QED BY <2>1, <2>2
<1>. QED BY <1>8, <1>9, <1>10, <1>11, TypesOfParts DEF Inv

(* What does not touch the turn.                                            *)
LEMMA TurnUntouched ==
  ASSUME Inv, UNCHANGED <<stored, turn, pc, ctx, loop, signal, queue, rows, outcome, seen>>,
         interrupt' \in BOOLEAN, stops' \in 0 .. MaxStops
  PROVE  Inv'
<1>1. CtxTypes /\ LoopTypes /\ SteerTypes /\ RowTypes /\ PlaceTypes /\ Spent /\ Queued
  BY TypesOfParts DEF Inv
<1>2. SteerTypes' /\ Queued'
  <2>1. seen' \subseteq Steers
    BY <1>1 DEF SteerTypes
  <2>. QED BY <1>1, <2>1, SteersKept
<1>3. CtxTypes' /\ LoopTypes' /\ RowTypes' /\ PlaceTypes' /\ Spent'
  BY <1>1 DEF CtxTypes, LoopTypes, RowTypes, PlaceTypes, Spent
<1>4. Blocks' /\ Steering'
  BY DEF Inv, Blocks, InLoop, Results, Steering, Shown
<1>5. Recording'
  BY Zenon DEF Inv, Recording, InLoop, Past, Absent, Underway, Joins, Once, Summed, EndsWithSay, Recorded, Ask
<1>. QED BY <1>2, <1>3, <1>4, <1>5, TypesOfParts DEF Inv

LEMMA StopsKeep == Inv /\ (Stop \/ StopHere) => Inv'
<1>. SUFFICES ASSUME Inv, Stop \/ StopHere PROVE Inv'
  OBVIOUS
<1>1. stops < MaxStops /\ stops' = stops + 1 /\ interrupt' = TRUE
  BY DEF Stop, StopHere
<1>2. stops \in 0 .. MaxStops
  BY DEF Inv, TypeOK
<1>3. stops' \in 0 .. MaxStops /\ interrupt' \in BOOLEAN
  BY <1>1, <1>2, Numbers
<1>4. CASE Stop
  BY <1>3, <1>4, TurnUntouched DEF Stop
<1>5. CASE StopHere
  <2>1. CASE pc = "llm"
    <3>1. InLoop /\ Finish("stopped", ctx.messages)
      BY <1>5, <2>1 DEF StopHere, InLoop
    <3>. QED BY <1>3, <3>1, BreaksOff
  <2>2. CASE pc # "llm"
    <3>1. EndTurn /\ rows' = <<>> /\ outcome' = "lost" /\ UNCHANGED <<stored, turn, seen>>
      BY <1>5, <2>2 DEF StopHere, Lose
    <3>. QED BY <1>3, <3>1, TurnOver DEF Outcomes
  <2>. QED BY <2>1, <2>2
<1>. QED BY <1>4, <1>5

------------------------------------------------------------------------------
(* The theorems *)

LEMMA InitInv == Init => Inv
<1>. SUFFICES ASSUME Init PROVE Inv
  OBVIOUS
<1>1. /\ TypeOK /\ Spent /\ Queued
  BY InitTyped DEF Typed, Counted
<1>2. /\ stored = Earlier /\ turn = 0 /\ pc = "idle" /\ ctx.messages = <<>> /\ rows = <<>>
      /\ outcome = "running"
  BY DEF Init, NoContext
<1>3. Past(stored) /\ Past(ctx.messages) /\ Past(rows)
  BY <1>2, EarlierAssumption DEF Past
<1>. QED BY <1>1, <1>2, <1>3 DEF Inv, Blocks, Steering, Recording, InLoop

LEMMA NextInv == Inv /\ [Next]_vars => Inv'
<1>. SUFFICES ASSUME Inv, [Next]_vars PROVE Inv'
  OBVIOUS
<1>1. CASE BeginTurn
  BY <1>1, BeginTurnKeeps
<1>2. CASE HookStops \/ ResetAgent
  BY <1>2, HooksKeep
<1>3. CASE BuildContext
  BY <1>3, BuildContextKeeps
<1>4. CASE LoopTop
  BY <1>4, LoopTopKeeps
<1>5. CASE CompactMidTurn \/ CompactOverflow
  BY <1>5, CompactMidTurnKeeps, CompactOverflowKeeps
<1>6. CASE ModelRefusesContext \/ ModelRejectsImages
  BY <1>6, ModelRefusesKeeps, ModelRejectsImagesKeeps
<1>7. CASE ModelDefect \/ ModelEmptyAfterTools \/ ModelRepeats \/ StopHookContinues
  BY <1>7, ModelDefectKeeps, OtherRetriesKeep
<1>8. CASE LoopStops \/ ModelStops \/ ModelFails \/ ModelFinalizes \/ ModelStaysEmpty \/ StopHookAccepts
           \/ Raise
  BY <1>8, StopsAndFailuresKeep
<1>9. CASE ModelAnswers
  BY <1>9, ModelAnswersKeeps
<1>10. CASE ModelCallsTools
  BY <1>10, ModelCallsToolsKeeps
<1>11. CASE ToolsLackPermission \/ ToolsHitLimit \/ ToolsReturn
  BY <1>11, ToolsKeep
<1>12. CASE SaveRow \/ SaveWindow
  BY <1>12, SavesKeep
<1>13. CASE Saved \/ SaveFails
  BY <1>13, EndsKeep
<1>14. CASE Steer
  BY <1>14, SteerKeeps
<1>15. CASE Stop \/ StopHere
  BY <1>15, StopsKeep
<1>16. CASE UNCHANGED vars
  <2>1. UNCHANGED <<stored, turn, pc, ctx, loop, signal, queue, rows, outcome, seen, interrupt, stops>>
    BY <1>16 DEF vars
  <2>2. interrupt' \in BOOLEAN /\ stops' \in 0 .. MaxStops
    BY <2>1 DEF Inv, TypeOK
  <2>. QED BY <2>1, <2>2, TurnUntouched
<1>. QED BY <1>1, <1>2, <1>3, <1>4, <1>5, <1>6, <1>7, <1>8, <1>9, <1>10, <1>11, <1>12, <1>13, <1>14,
            <1>15, <1>16, Zenon DEF Next, TurnStep

LEMMA InvAlways == Spec => []Inv
  BY InitInv, NextInv, PTL DEF Spec

(* A turn's state keeps its types, within the limits of its iterations, of  *)
(* its batches of tool calls and of the steers that wait.                   *)
THEOREM TypeCorrect == Spec => []TypeOK
<1>1. Inv => TypeOK
  BY DEF Inv
<1>. QED BY <1>1, InvAlways, PTL

(* A model request never splits a tool block: whatever was steered, retried *)
(* or compacted, each call is followed by its results and each result       *)
(* follows its call.                                                        *)
THEOREM PairedAlways == Spec => []ModelSeesPairedTools
<1>1. Inv => ModelSeesPairedTools
  <2>. SUFFICES ASSUME Inv, pc = "llm", NEW i \in DOMAIN ctx.messages
                PROVE  LET m == ctx.messages[i] IN
                       /\ m.k = "call" =>
                            i < Len(ctx.messages) /\ ctx.messages[i + 1] = Msg("result", m.n)
                       /\ m.k = "result" => i > 1 /\ ctx.messages[i - 1] = Msg("call", m.n)
    BY Zenon DEF ModelSeesPairedTools
  <2>1. Paired(ctx.messages) /\ ctx.messages \in Seq(Messages)
    BY DEF Inv, Blocks, InLoop, TypeOK
  <2>2. PICK n \in Nat : n = Len(ctx.messages) /\ DOMAIN ctx.messages = 1 .. n
    BY <2>1
  <2>3. (i + 1 \in 1 .. n => i < n) /\ (i - 1 \in 1 .. n => i > 1)
    BY <2>2
  <2>. QED BY <2>1, <2>2, <2>3 DEF Paired
<1>. QED BY <1>1, InvAlways, PTL

(* A turn that completes has shown the model every steer it consumed.       *)
THEOREM SteersShown == Spec => []ConsumedSteerReachesModel
<1>1. Inv => ConsumedSteerReachesModel
  BY DEF Inv, Steering, Shown, ConsumedSteerReachesModel
<1>. QED BY <1>1, InvAlways, PTL

(* A turn that completes or fails leaves its user message in the session    *)
(* once, or summarised by its checkpoint, and its reply last.               *)
THEOREM TurnRecorded == Spec => []EndedTurnIsRecorded
<1>1. Inv => EndedTurnIsRecorded
  <2>. SUFFICES ASSUME Inv, pc = "save", rows = <<>>, outcome \in {"completed", "failed"},
                       NEW asked, asked = {i \in DOMAIN stored : stored[i] = Ask}
                PROVE  /\ stored # <<>> /\ stored[Len(stored)] = Say
                       /\ Cardinality(asked) <= 1
                       /\ asked = {} => \E i \in DOMAIN stored : stored[i] = Summary
    BY DEF EndedTurnIsRecorded
  <2>1. Recorded(stored)
    <3>1. stored \in Seq(Messages)
      BY DEF Inv, TypeOK
    <3>2. stored \o <<>> = stored
      BY <3>1, ConcatEmptySeq
    <3>. QED BY <3>2 DEF Inv, Recording
  <2>2. Cardinality(asked) <= 1
    <3>1. CASE asked = {}
      BY <3>1, FS_EmptySet
    <3>2. CASE asked # {}
      <4>1. PICK i : i \in asked
        BY <3>2
      <4>2. asked = {i}
        BY <2>1, <4>1 DEF Recorded, Once
      <4>3. Cardinality({i}) = 1
        BY FS_Singleton
      <4>4. Cardinality(asked) = 1
        BY <4>2, <4>3, Zenon
      <4>. QED BY <4>4
    <3>. QED BY <3>1, <3>2
  <2>. QED BY <2>1, <2>2 DEF Recorded, EndsWithSay, Absent, Summed
<1>. QED BY <1>1, InvAlways, PTL
=============================================================================
