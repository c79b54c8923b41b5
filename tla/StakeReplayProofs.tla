------------------------- MODULE StakeReplayProofs -------------------------
(***************************************************************************)
(* What the folds of StakeSnapshots compute, for any chain.  The loops are *)
(* unrolled once; then a transaction is followed row by row through both   *)
(* directions of the replay; then the stored transactions are matched with *)
(* the node's history: the forward fold and the reverse replay of a        *)
(* stretch of the chain lead from one state of the node to another.        *)
(***************************************************************************)
EXTENDS StakeSnapshots, FiniteSetTheorems, WellFoundedInduction, TLAPS

------------------------------------------------------------------------------
(* Induction. *)

\* A set of natural numbers has a least element.
LEMMA LeastNatural ==
  ASSUME NEW T \in SUBSET Nat, T # {}
  PROVE  \E m \in T : \A k \in T : m <= k
<1>1. PICK m \in T : \A k \in T : ~ (<<k, m>> \in OpToRel(<, Nat))
  BY NatLessThanWellFounded, WFMin
<1>2. \A k \in T : ~ (k < m)
  BY <1>1 DEF OpToRel
<1> QED
  BY <1>2

\* Induction, with the property as a set.
LEMMA UpwardInduction ==
  ASSUME NEW Good, 0 \in Good, \A k \in Nat : k \in Good => k + 1 \in Good
  PROVE  \A k \in Nat : k \in Good
<1> DEFINE Bad == {k \in Nat : k \notin Good}
<1> SUFFICES ASSUME Bad # {} PROVE FALSE
  OBVIOUS
<1>1. PICK m \in Bad : \A k \in Bad : m <= k
  BY LeastNatural
<1>2. m \in Nat /\ m # 0 /\ m \notin Good
  OBVIOUS
<1>3. m - 1 \in Nat /\ m - 1 \notin Bad
  <2> HIDE DEF Bad
  <2> QED
    BY <1>1, <1>2
<1>4. m - 1 \in Good
  BY <1>3
<1> QED
  BY <1>2, <1>3, <1>4

\* A set of positions that is not empty has a last one.
LEMMA MaxIn ==
  ASSUME NEW n \in Nat, NEW t \in SUBSET (1..n), t # {}
  PROVE  Max(t) \in t /\ \A x \in t : x <= Max(t)
<1> DEFINE T == {n - x : x \in t}
<1>1. T \in SUBSET Nat /\ T # {}
  <2>1. \A x \in t : n - x \in Nat
    OBVIOUS
  <2> QED
    BY <2>1
<1>2. PICK m \in T : \A k \in T : m <= k
  BY <1>1, LeastNatural
<1>3. PICK y \in t : m = n - y
  BY <1>2
<1>4. \A x \in t : x <= y
  <2> TAKE x \in t
  <2>1. n - x \in T
    OBVIOUS
  <2>2. n - y <= n - x
    BY <1>2, <1>3, <2>1
  <2> QED
    BY <2>2
<1> QED
  BY <1>4 DEF Max

------------------------------------------------------------------------------
(* The folds.  All of them are solutions of one recursion over the sets of positions. *)

Keep(kept, row) == IF row.format \in {1, 2} THEN Append(kept, row) ELSE kept
Collapse(kept, row) ==
  IF row.format = 1 /\ \E i \in DOMAIN kept : kept[i] = row THEN kept ELSE Append(kept, row)
Replay(acc, tx, day) ==
  IF tx.ts <= stake_snapshot_day_end(day) THEN apply_stake_snapshot_transaction(acc, tx, FALSE) ELSE acc
Load(txs, b, from, to) == IF from <= b.ts /\ b.ts <= to THEN Append(txs, TxOf(b)) ELSE txs

StepOf(kind, p, acc, x) ==
  IF kind = "projected" THEN Keep(acc, x)
  ELSE IF kind = "dedup" THEN Collapse(acc, x)
  ELSE IF kind = "row" THEN ApplyRow(acc, x, p.tx, classify_stake_snapshot_transaction(p.tx), p.reverse)
  ELSE IF kind = "load" THEN Load(acc, x, p.from, p.to)
  ELSE IF kind = "unwind" THEN apply_stake_snapshot_transaction(acc, x, TRUE)
  ELSE Replay(acc, x, p.day)

Folded(F, kind, p, base, s, t) ==
  IF t = {} THEN base ELSE StepOf(kind, p, F[t \ {Max(t)}], s[Max(t)])
Folds(F, kind, p, base, s) == F = [t \in SUBSET DOMAIN s |-> Folded(F, kind, p, base, s, t)]

\* h[k] is what the fold has after k elements
Unrolls(h, kind, p, base, s, n) == h[0] = base /\ \A k \in 1..n : h[k] = StepOf(kind, p, h[k - 1], s[k])

\* The recursion over the sets of positions has a solution.
LEMMA FoldExists ==
  ASSUME NEW kind, NEW p, NEW base, NEW s, NEW n \in Nat, DOMAIN s = 1..n
  PROVE  \E F : Folds(F, kind, p, base, s)
<1> DEFINE Part(F, t) == Folded(F, kind, p, base, s, t)
           Solves(F, k) == F = [t \in SUBSET (1..k) |-> Part(F, t)]
           Good == {k \in Nat : \E F : Solves(F, k)}
<1>0. ASSUME NEW F, NEW t
      PROVE  /\ t = {} => Part(F, t) = base
             /\ t # {} => Part(F, t) = StepOf(kind, p, F[t \ {Max(t)}], s[Max(t)])
  BY Zenon DEF Folded
<1> HIDE DEF Part
<1>1. 0 \in Good
  <2> DEFINE F == [t \in SUBSET (1..0) |-> base]
  <2>1. \A t \in SUBSET (1..0) : t = {}
    OBVIOUS
  <2>2. F = [t \in SUBSET (1..0) |-> Part(F, t)]
    BY <1>0, <2>1
  <2> QED
    BY <2>2
<1>2. ASSUME NEW k \in Nat, k \in Good PROVE k + 1 \in Good
  <2>0. k + 1 \in Nat
    OBVIOUS
  <2>1. PICK F : Solves(F, k)
    BY <1>2
  <2> DEFINE G == [t \in SUBSET (1..(k + 1)) |-> Part(F, t)]
  <2>2. ASSUME NEW t \in SUBSET (1..(k + 1)) PROVE Part(F, t) = Part(G, t)
    <3>1. CASE t = {}
      BY <1>0, <3>1
    <3>2. CASE t # {}
      <4> DEFINE r == t \ {Max(t)}
      <4>1. Max(t) \in t /\ \A x \in t : x <= Max(t)
        BY <2>0, <3>2, MaxIn
      <4>2. r \in SUBSET (1..k) /\ r \in SUBSET (1..(k + 1))
        <5>1. ASSUME NEW x \in t, x # Max(t) PROVE x \in 1..k
          <6>1. x \in 1..(k + 1) /\ Max(t) \in 1..(k + 1) /\ x <= Max(t)
            BY <4>1
          <6> QED
            BY <5>1, <6>1
        <5> QED
          BY <5>1
      <4>3. F[r] = Part(F, r)
        BY <2>1, <4>2
      <4>4. G[r] = Part(F, r)
        BY <4>2
      <4>5. F[r] = G[r]
        BY <4>3, <4>4
      <4> HIDE DEF G
      <4> QED
        BY <1>0, <3>2, <4>5
    <3> QED
      BY <3>1, <3>2
  <2>3. Solves(G, k + 1)
    BY <2>2
  <2> QED
    BY <2>0, <2>3
<1> HIDE DEF Good
<1>3. n \in Good
  BY <1>1, <1>2, UpwardInduction
<1> QED
  BY <1>3 DEF Good, Folds, Part

\* The prefixes of the sequence, one element at a time.
LEMMA FoldPrefix ==
  ASSUME NEW kind, NEW p, NEW base, NEW s, NEW n \in Nat, DOMAIN s = 1..n, NEW F, Folds(F, kind, p, base, s)
  PROVE  \E h : Unrolls(h, kind, p, base, s, n) /\ h[n] = F[DOMAIN s]
<1> DEFINE h == [k \in 0..n |-> F[1..k]]
<1>1. F[1..0] = base
  <2>1. 1..0 = {} /\ {} \in SUBSET DOMAIN s
    OBVIOUS
  <2>2. F[{}] = Folded(F, kind, p, base, s, {})
    BY <2>1 DEF Folds
  <2> QED
    BY <2>1, <2>2 DEF Folded
<1>2. ASSUME NEW k \in 1..n PROVE F[1..k] = StepOf(kind, p, F[1..(k - 1)], s[k])
  <2>0. \A x \in 1..k : x \in 1..n
    OBVIOUS
  <2>a. k \in 1..k
    OBVIOUS
  <2>1. 1..k \in SUBSET (1..n) /\ 1..k # {} /\ k \in 1..k
    BY <2>0, <2>a
  <2>2. Max(1..k) \in 1..k /\ \A x \in 1..k : x <= Max(1..k)
    BY <2>1, MaxIn
  <2>3. Max(1..k) = k
    BY <2>1, <2>2
  <2>4. (1..k) \ {k} = 1..(k - 1)
    OBVIOUS
  <2>5. F[1..k] = Folded(F, kind, p, base, s, 1..k)
    BY <2>1 DEF Folds
  <2>6. Folded(F, kind, p, base, s, 1..k) = StepOf(kind, p, F[(1..k) \ {Max(1..k)}], s[Max(1..k)])
    BY <2>1, Zenon DEF Folded
  <2> QED
    BY <2>3, <2>4, <2>5, <2>6
<1>3. \A k \in 1..n : k \in 0..n /\ k - 1 \in 0..n
  OBVIOUS
<1>4. 0 \in 0..n /\ n \in 0..n
  OBVIOUS
<1>5. \A k \in 0..n : h[k] = F[1..k]
  OBVIOUS
<1> HIDE DEF h
<1>6. h[0] = base /\ h[n] = F[DOMAIN s] /\ \A k \in 1..n : h[k] = StepOf(kind, p, h[k - 1], s[k])
  BY <1>1, <1>2, <1>3, <1>4, <1>5
<1> QED
  BY <1>6 DEF Unrolls


\* What the fold returns.
Result(kind, p, base, s) == (CHOOSE F : Folds(F, kind, p, base, s))[DOMAIN s]

\* The result of a fold, one element at a time.
LEMMA ResultUnrolls ==
  ASSUME NEW kind, NEW p, NEW base, NEW s, NEW n \in Nat, DOMAIN s = 1..n
  PROVE  \E h : Unrolls(h, kind, p, base, s, n) /\ h[n] = Result(kind, p, base, s)
<1> DEFINE F == CHOOSE G : Folds(G, kind, p, base, s)
<1>1. Folds(F, kind, p, base, s)
  BY FoldExists
<1>2. Result(kind, p, base, s) = F[DOMAIN s]
  BY DEF Result
<1> HIDE DEF F
<1> QED
  BY <1>1, <1>2, FoldPrefix

------------------------------------------------------------------------------
(* Each fold of the projector, unrolled: h[k] is what it has after k elements. *)

\* The rows of the projected formats.
Keeps(h, rows, n) ==
  /\ h[0] = << >> /\ h[n] = Projected(rows)
  /\ \A k \in 1..n : h[k] = Keep(h[k - 1], rows[k])

LEMMA ProjectedUnrolled ==
  ASSUME NEW rows, NEW n \in Nat, DOMAIN rows = 1..n
  PROVE  \E h : Keeps(h, rows, n)
<1> DEFINE p == << >>
           One(acc, x) == Keep(acc, x)
           Part(F, t) == IF t = {} THEN << >> ELSE One(F[t \ {Max(t)}], rows[Max(t)])
           Is(F) == F = [t \in SUBSET DOMAIN rows |-> Part(F, t)]
<1>1. Projected(rows) = (CHOOSE F : Is(F))[DOMAIN rows]
  BY DEF Projected, Keep, ForEach, MapThenFoldSet
<1>2. \A acc, x : StepOf("projected", p, acc, x) = One(acc, x)
  BY Zenon DEF StepOf
<1> HIDE DEF p, One
<1>3. \A F, t : Folded(F, "projected", p, << >>, rows, t) = Part(F, t)
  BY <1>2, Zenon DEF Folded
<1> HIDE DEF Part
<1>4. \A F : Is(F) <=> Folds(F, "projected", p, << >>, rows)
  BY <1>3 DEF Folds
<1> HIDE DEF Is
<1>5. Projected(rows) = Result("projected", p, << >>, rows)
  BY <1>1, <1>4, Zenon DEF Result
<1>6. PICK h : Unrolls(h, "projected", p, << >>, rows, n) /\ h[n] = Result("projected", p, << >>, rows)
  BY ResultUnrolls
<1>7. h[0] = << >> /\ h[n] = Projected(rows) /\ \A k \in 1..n : h[k] = One(h[k - 1], rows[k])
  BY <1>2, <1>5, <1>6, Zenon DEF Unrolls
<1> QED
  BY <1>7, Zenon DEF One, Keeps

\* deduplicate_stake_snapshot_tx_rows.
Collapses(h, rows, n) ==
  /\ h[0] = << >> /\ h[n] = deduplicate_stake_snapshot_tx_rows(rows)
  /\ \A k \in 1..n : h[k] = Collapse(h[k - 1], rows[k])

LEMMA DedupUnrolled ==
  ASSUME NEW rows, NEW n \in Nat, DOMAIN rows = 1..n
  PROVE  \E h : Collapses(h, rows, n)
<1> DEFINE p == << >>
           One(acc, x) == Collapse(acc, x)
           Part(F, t) == IF t = {} THEN << >> ELSE One(F[t \ {Max(t)}], rows[Max(t)])
           Is(F) == F = [t \in SUBSET DOMAIN rows |-> Part(F, t)]
<1>1. deduplicate_stake_snapshot_tx_rows(rows) = (CHOOSE F : Is(F))[DOMAIN rows]
  BY DEF deduplicate_stake_snapshot_tx_rows, Collapse, ForEach, MapThenFoldSet
<1>2. \A acc, x : StepOf("dedup", p, acc, x) = One(acc, x)
  BY Zenon DEF StepOf
<1> HIDE DEF p, One
<1>3. \A F, t : Folded(F, "dedup", p, << >>, rows, t) = Part(F, t)
  BY <1>2, Zenon DEF Folded
<1> HIDE DEF Part
<1>4. \A F : Is(F) <=> Folds(F, "dedup", p, << >>, rows)
  BY <1>3 DEF Folds
<1> HIDE DEF Is
<1>5. deduplicate_stake_snapshot_tx_rows(rows) = Result("dedup", p, << >>, rows)
  BY <1>1, <1>4, Zenon DEF Result
<1>6. PICK h : Unrolls(h, "dedup", p, << >>, rows, n) /\ h[n] = Result("dedup", p, << >>, rows)
  BY ResultUnrolls
<1>7. h[0] = << >> /\ h[n] = deduplicate_stake_snapshot_tx_rows(rows) /\ \A k \in 1..n : h[k] = One(h[k - 1], rows[k])
  BY <1>2, <1>5, <1>6, Zenon DEF Unrolls
<1> QED
  BY <1>7, Zenon DEF One, Collapses

\* apply_stake_snapshot_transaction.
LEMMA RowsUnrolled ==
  ASSUME NEW s, NEW tx, NEW reverse, NEW n \in Nat, DOMAIN deduplicate_stake_snapshot_tx_rows(tx.rows) = 1..n
  PROVE  \E h : /\ h[0] = [state |-> s, inflated |-> FALSE] /\ h[n].state = apply_stake_snapshot_transaction(s, tx, reverse)
                /\ \A k \in 1..n : h[k] = ApplyRow(h[k - 1], deduplicate_stake_snapshot_tx_rows(tx.rows)[k], tx, classify_stake_snapshot_transaction(tx), reverse)
<1> DEFINE p == [tx |-> tx, reverse |-> reverse]
           One(acc, x) == ApplyRow(acc, x, tx, classify_stake_snapshot_transaction(tx), reverse)
           Part(F, t) == IF t = {} THEN [state |-> s, inflated |-> FALSE] ELSE One(F[t \ {Max(t)}], deduplicate_stake_snapshot_tx_rows(tx.rows)[Max(t)])
           Is(F) == F = [t \in SUBSET DOMAIN deduplicate_stake_snapshot_tx_rows(tx.rows) |-> Part(F, t)]
<1>1. apply_stake_snapshot_transaction(s, tx, reverse) = (CHOOSE F : Is(F))[DOMAIN deduplicate_stake_snapshot_tx_rows(tx.rows)].state
  BY DEF apply_stake_snapshot_transaction, ForEach, MapThenFoldSet
<1>2. \A acc, x : StepOf("row", p, acc, x) = One(acc, x)
  <2>1. p.tx = tx /\ p.reverse = reverse
    OBVIOUS
  <2> HIDE DEF p
  <2> QED
    BY <2>1, Zenon DEF StepOf
<1> HIDE DEF p, One
<1>3. \A F, t : Folded(F, "row", p, [state |-> s, inflated |-> FALSE], deduplicate_stake_snapshot_tx_rows(tx.rows), t) = Part(F, t)
  BY <1>2, Zenon DEF Folded
<1> HIDE DEF Part
<1>4. \A F : Is(F) <=> Folds(F, "row", p, [state |-> s, inflated |-> FALSE], deduplicate_stake_snapshot_tx_rows(tx.rows))
  BY <1>3 DEF Folds
<1> HIDE DEF Is
<1>5. apply_stake_snapshot_transaction(s, tx, reverse) = Result("row", p, [state |-> s, inflated |-> FALSE], deduplicate_stake_snapshot_tx_rows(tx.rows)).state
  BY <1>1, <1>4, Zenon DEF Result
<1>6. PICK h : Unrolls(h, "row", p, [state |-> s, inflated |-> FALSE], deduplicate_stake_snapshot_tx_rows(tx.rows), n) /\ h[n] = Result("row", p, [state |-> s, inflated |-> FALSE], deduplicate_stake_snapshot_tx_rows(tx.rows))
  BY ResultUnrolls
<1>7. h[0] = [state |-> s, inflated |-> FALSE] /\ h[n].state = apply_stake_snapshot_transaction(s, tx, reverse) /\ \A k \in 1..n : h[k] = One(h[k - 1], deduplicate_stake_snapshot_tx_rows(tx.rows)[k])
  BY <1>2, <1>5, <1>6, Zenon DEF Unrolls
<1> QED
  BY <1>7, Zenon DEF One

\* load_stake_snapshot_events.
LEMMA LoadUnrolled ==
  ASSUME NEW from, NEW to, NEW n \in Nat, DOMAIN SubSeq(chain, 1, indexed) = 1..n
  PROVE  \E h : /\ h[0] = << >> /\ h[n] = load_stake_snapshot_events(from, to)
                /\ \A k \in 1..n : h[k] = Load(h[k - 1], SubSeq(chain, 1, indexed)[k], from, to)
<1> DEFINE p == [from |-> from, to |-> to]
           One(acc, x) == Load(acc, x, from, to)
           Part(F, t) == IF t = {} THEN << >> ELSE One(F[t \ {Max(t)}], SubSeq(chain, 1, indexed)[Max(t)])
           Is(F) == F = [t \in SUBSET DOMAIN SubSeq(chain, 1, indexed) |-> Part(F, t)]
<1>1. load_stake_snapshot_events(from, to) = (CHOOSE F : Is(F))[DOMAIN SubSeq(chain, 1, indexed)]
  BY DEF load_stake_snapshot_events, Load, ForEach, MapThenFoldSet
<1>2. \A acc, x : StepOf("load", p, acc, x) = One(acc, x)
  <2>1. p.from = from /\ p.to = to
    OBVIOUS
  <2> HIDE DEF p
  <2> QED
    BY <2>1, Zenon DEF StepOf
<1> HIDE DEF p, One
<1>3. \A F, t : Folded(F, "load", p, << >>, SubSeq(chain, 1, indexed), t) = Part(F, t)
  BY <1>2, Zenon DEF Folded
<1> HIDE DEF Part
<1>4. \A F : Is(F) <=> Folds(F, "load", p, << >>, SubSeq(chain, 1, indexed))
  BY <1>3 DEF Folds
<1> HIDE DEF Is
<1>5. load_stake_snapshot_events(from, to) = Result("load", p, << >>, SubSeq(chain, 1, indexed))
  BY <1>1, <1>4, Zenon DEF Result
<1>6. PICK h : Unrolls(h, "load", p, << >>, SubSeq(chain, 1, indexed), n) /\ h[n] = Result("load", p, << >>, SubSeq(chain, 1, indexed))
  BY ResultUnrolls
<1>7. h[0] = << >> /\ h[n] = load_stake_snapshot_events(from, to) /\ \A k \in 1..n : h[k] = One(h[k - 1], SubSeq(chain, 1, indexed)[k])
  BY <1>2, <1>5, <1>6, Zenon DEF Unrolls
<1> QED
  BY <1>7, Zenon DEF One

Replays(h, s, txs, day, n) ==
  /\ h[0] = s /\ h[n] = StateAt(s, txs, day)
  /\ \A k \in 1..n : h[k] = Replay(h[k - 1], txs[k], day)
Unwinds(h, s, txs, n) ==
  /\ h[0] = s /\ h[n] = reverse_replay_stake_snapshot_events(s, txs)
  /\ \A k \in 1..n : h[k] = apply_stake_snapshot_transaction(h[k - 1], Reversed(txs)[k], TRUE)

\* reverse_replay_stake_snapshot_events.
LEMMA UnwindUnrolled ==
  ASSUME NEW s, NEW txs, NEW n \in Nat, DOMAIN Reversed(txs) = 1..n
  PROVE  \E h : Unwinds(h, s, txs, n)
<1> DEFINE p == << >>
           One(acc, x) == apply_stake_snapshot_transaction(acc, x, TRUE)
           Part(F, t) == IF t = {} THEN s ELSE One(F[t \ {Max(t)}], Reversed(txs)[Max(t)])
           Is(F) == F = [t \in SUBSET DOMAIN Reversed(txs) |-> Part(F, t)]
<1>1. reverse_replay_stake_snapshot_events(s, txs) = (CHOOSE F : Is(F))[DOMAIN Reversed(txs)]
  BY DEF reverse_replay_stake_snapshot_events, ForEach, MapThenFoldSet
<1>2. \A acc, x : StepOf("unwind", p, acc, x) = One(acc, x)
  BY Zenon DEF StepOf
<1> HIDE DEF p, One
<1>3. \A F, t : Folded(F, "unwind", p, s, Reversed(txs), t) = Part(F, t)
  BY <1>2, Zenon DEF Folded
<1> HIDE DEF Part
<1>4. \A F : Is(F) <=> Folds(F, "unwind", p, s, Reversed(txs))
  BY <1>3 DEF Folds
<1> HIDE DEF Is
<1>5. reverse_replay_stake_snapshot_events(s, txs) = Result("unwind", p, s, Reversed(txs))
  BY <1>1, <1>4, Zenon DEF Result
<1>6. PICK h : Unrolls(h, "unwind", p, s, Reversed(txs), n) /\ h[n] = Result("unwind", p, s, Reversed(txs))
  BY ResultUnrolls
<1>7. h[0] = s /\ h[n] = reverse_replay_stake_snapshot_events(s, txs) /\ \A k \in 1..n : h[k] = One(h[k - 1], Reversed(txs)[k])
  BY <1>2, <1>5, <1>6, Zenon DEF Unrolls
<1> QED
  BY <1>7, Zenon DEF One, Unwinds

\* One day of build_stake_snapshot_daily_points.
LEMMA StateAtUnrolled ==
  ASSUME NEW s, NEW day, NEW txs, NEW n \in Nat, DOMAIN txs = 1..n
  PROVE  \E h : Replays(h, s, txs, day, n)
<1> DEFINE p == [day |-> day]
           One(acc, x) == Replay(acc, x, day)
           Part(F, t) == IF t = {} THEN s ELSE One(F[t \ {Max(t)}], txs[Max(t)])
           Is(F) == F = [t \in SUBSET DOMAIN txs |-> Part(F, t)]
<1>1. StateAt(s, txs, day) = (CHOOSE F : Is(F))[DOMAIN txs]
  BY DEF StateAt, Replay, ForEach, MapThenFoldSet
<1>2. \A acc, x : StepOf("day", p, acc, x) = One(acc, x)
  <2>1. p.day = day
    OBVIOUS
  <2> HIDE DEF p
  <2> QED
    BY <2>1, Zenon DEF StepOf
<1> HIDE DEF p, One
<1>3. \A F, t : Folded(F, "day", p, s, txs, t) = Part(F, t)
  BY <1>2, Zenon DEF Folded
<1> HIDE DEF Part
<1>4. \A F : Is(F) <=> Folds(F, "day", p, s, txs)
  BY <1>3 DEF Folds
<1> HIDE DEF Is
<1>5. StateAt(s, txs, day) = Result("day", p, s, txs)
  BY <1>1, <1>4, Zenon DEF Result
<1>6. PICK h : Unrolls(h, "day", p, s, txs, n) /\ h[n] = Result("day", p, s, txs)
  BY ResultUnrolls
<1>7. h[0] = s /\ h[n] = StateAt(s, txs, day) /\ \A k \in 1..n : h[k] = One(h[k - 1], txs[k])
  BY <1>2, <1>5, <1>6, Zenon DEF Unrolls
<1> QED
  BY <1>7, Zenon DEF One, Replays

------------------------------------------------------------------------------
(* Sums over finite sets, by induction on the subsets of the set. *)

\* What holds of a subset whenever it holds of the subset without any one element
\* holds of every subset of a finite set.
LEMMA SubsetInduction ==
  ASSUME NEW S, IsFiniteSet(S), NEW Good \in SUBSET (SUBSET S),
         \A T \in SUBSET S : (\A x \in T : T \ {x} \in Good) => T \in Good
  PROVE  \A T \in SUBSET S : T \in Good
<1> SUFFICES ASSUME NEW R \in SUBSET S, R \notin Good PROVE FALSE
  OBVIOUS
<1> DEFINE Sizes == {Cardinality(T) : T \in {U \in SUBSET S : U \notin Good}}
<1>0. \A T \in SUBSET S : IsFiniteSet(T) /\ Cardinality(T) \in Nat
  BY FS_Subset, FS_CardinalityType
<1>1. Sizes \in SUBSET Nat /\ Sizes # {}
  BY <1>0
<1>2. PICK m \in Sizes : \A k \in Sizes : m <= k
  BY <1>1, LeastNatural
<1>3. PICK T \in SUBSET S : T \notin Good /\ m = Cardinality(T)
  BY <1>2
<1>4. ASSUME NEW x \in T PROVE T \ {x} \in Good
  <2>1. Cardinality(T \ {x}) = Cardinality(T) - 1
    BY <1>0, FS_RemoveElement
  <2>2. T \ {x} \in SUBSET S /\ Cardinality(T) \in Nat
    BY <1>0
  <2>3. T \ {x} \notin Good => Cardinality(T \ {x}) \in Sizes
    BY <2>2
  <2> HIDE DEF Sizes
  <2> QED
    BY <1>2, <1>3, <2>1, <2>2, <2>3
<1> QED
  BY <1>3, <1>4

------------------------------------------------------------------------------
(* SumFunctionOnSet. *)

Pick(s) == CHOOSE x \in s : TRUE
SumOf(f, F, s) == IF s = {} THEN 0 ELSE f[Pick(s)] + F[s \ {Pick(s)}]
IsSum(F, f, S) == F = [s \in SUBSET S |-> SumOf(f, F, s)]

LEMMA PickIn == ASSUME NEW s, s # {} PROVE Pick(s) \in s
  BY DEF Pick

LEMMA SumDef ==
  ASSUME NEW f, NEW S
  PROVE  SumFunctionOnSet(f, S) = (CHOOSE F : IsSum(F, f, S))[S]
  BY DEF SumFunctionOnSet, FoldFunctionOnSet, MapThenFoldSet, IsSum, SumOf, Pick

LEMMA SumExists ==
  ASSUME NEW f, NEW S, IsFiniteSet(S)
  PROVE  \E F : IsSum(F, f, S)
<1> DEFINE Level(n) == {s \in SUBSET S : Cardinality(s) <= n}
           Solves(F, n) == F = [s \in Level(n) |-> SumOf(f, F, s)]
           Bad == {n \in Nat : ~ \E F : Solves(F, n)}
<1>0. \A s \in SUBSET S : IsFiniteSet(s) /\ Cardinality(s) \in Nat /\ Cardinality(s) <= Cardinality(S)
  BY FS_Subset, FS_CardinalityType
<1>1. Bad = {}
  <2> SUFFICES ASSUME Bad # {} PROVE FALSE
    OBVIOUS
  <2>1. PICK m \in Bad : \A k \in Bad : m <= k
    BY LeastNatural
  <2>2. CASE m = 0
    <3>1. \A s \in Level(0) : s = {}
      BY <1>0, FS_EmptySet
    <3> DEFINE F == [s \in Level(0) |-> 0]
    <3>2. F = [s \in Level(0) |-> SumOf(f, F, s)]
      BY <3>1 DEF SumOf
    <3> QED
      BY <2>2, <3>2
  <2>3. CASE m # 0
    <3>0. m - 1 \in Nat /\ m - 1 \notin Bad
      <4>1. m \in Nat
        OBVIOUS
      <4> HIDE DEF Bad
      <4> QED
        BY <2>1, <2>3, <4>1
    <3>1. PICK F : Solves(F, m - 1)
      BY <3>0
    <3> DEFINE G == [s \in Level(m) |-> SumOf(f, F, s)]
    <3>2. ASSUME NEW s \in Level(m) PROVE SumOf(f, F, s) = SumOf(f, G, s)
      <4>1. CASE s = {}
        BY <4>1 DEF SumOf
      <4>2. CASE s # {}
        <5> DEFINE t == s \ {Pick(s)}
        <5>1. Pick(s) \in s
          BY <4>2, PickIn
        <5>2. Cardinality(t) = Cardinality(s) - 1 /\ t \in SUBSET S
          BY <1>0, <5>1, FS_RemoveElement
        <5>3. t \in Level(m - 1) /\ t \in Level(m)
          BY <1>0, <5>2, <2>3
        <5>4. F[t] = SumOf(f, F, t)
          BY <3>1, <5>3
        <5>5. G[t] = SumOf(f, F, t)
          BY <5>3
        <5> QED
          BY <4>2, <5>4, <5>5 DEF SumOf
      <4> QED
        BY <4>1, <4>2
    <3>3. Solves(G, m)
      BY <3>2
    <3> QED
      BY <3>3
  <2> QED
    BY <2>2, <2>3
<1>2. Cardinality(S) \in Nat
  BY FS_CardinalityType
<1>3. PICK F : Solves(F, Cardinality(S))
  BY <1>1, <1>2
<1>4. Level(Cardinality(S)) = SUBSET S
  BY <1>0
<1> QED
  BY <1>3, <1>4 DEF IsSum

\* A solution for a set agrees with a solution for any of its subsets.
LEMMA SumAgree ==
  ASSUME NEW f, NEW S, IsFiniteSet(S), NEW R \in SUBSET S, NEW F, IsSum(F, f, S), NEW G, IsSum(G, f, R)
  PROVE  \A T \in SUBSET R : F[T] = G[T]
<1> DEFINE Good == {T \in SUBSET R : F[T] = G[T]}
<1>1. IsFiniteSet(R)
  BY FS_Subset
<1>2. ASSUME NEW T \in SUBSET R, \A x \in T : T \ {x} \in Good PROVE T \in Good
  <2>1. F[T] = SumOf(f, F, T) /\ G[T] = SumOf(f, G, T)
    BY DEF IsSum
  <2>2. SumOf(f, F, T) = SumOf(f, G, T)
    BY <1>2, PickIn DEF SumOf
  <2> QED
    BY <2>1, <2>2
<1>3. Good \in SUBSET (SUBSET R)
  OBVIOUS
<1> HIDE DEF Good
<1>4. \A T \in SUBSET R : T \in Good
  BY <1>1, <1>2, <1>3, SubsetInduction
<1> QED
  BY <1>4 DEF Good

LEMMA SumUnfold ==
  ASSUME NEW f, NEW S, IsFiniteSet(S)
  PROVE  /\ S = {} => SumFunctionOnSet(f, S) = 0
         /\ S # {} => SumFunctionOnSet(f, S) = f[Pick(S)] + SumFunctionOnSet(f, S \ {Pick(S)})
<1> DEFINE R == S \ {Pick(S)}
           F == CHOOSE H : IsSum(H, f, S)
           G == CHOOSE H : IsSum(H, f, R)
<1>1. IsFiniteSet(R) /\ R \in SUBSET S
  BY FS_Subset
<1>2. IsSum(F, f, S) /\ IsSum(G, f, R)
  BY <1>1, SumExists
<1>3. SumFunctionOnSet(f, S) = F[S] /\ SumFunctionOnSet(f, R) = G[R]
  BY SumDef
<1> HIDE DEF F, G, R
<1>4. F[S] = SumOf(f, F, S)
  BY <1>2 DEF IsSum
<1>5. F[R] = G[R]
  <2>1. \A T \in SUBSET R : F[T] = G[T]
    BY <1>1, <1>2, SumAgree
  <2> QED
    BY <2>1
<1> QED
  BY <1>3, <1>4, <1>5 DEF SumOf, R

LEMMA SumEmpty == ASSUME NEW f PROVE SumFunctionOnSet(f, {}) = 0
  BY SumUnfold, FS_EmptySet

LEMMA SumType ==
  ASSUME NEW f, NEW S, IsFiniteSet(S), \A x \in S : f[x] \in Nat
  PROVE  SumFunctionOnSet(f, S) \in Nat
<1> DEFINE Good == {T \in SUBSET S : SumFunctionOnSet(f, T) \in Nat}
<1>1. ASSUME NEW T \in SUBSET S, \A x \in T : T \ {x} \in Good PROVE T \in Good
  <2>1. IsFiniteSet(T)
    BY FS_Subset
  <2>2. CASE T = {}
    BY <2>2, SumEmpty
  <2>3. CASE T # {}
    <3>1. Pick(T) \in T /\ f[Pick(T)] \in Nat
      BY <2>3, PickIn
    <3>2. SumFunctionOnSet(f, T) = f[Pick(T)] + SumFunctionOnSet(f, T \ {Pick(T)})
      BY <2>1, <2>3, SumUnfold
    <3>3. SumFunctionOnSet(f, T \ {Pick(T)}) \in Nat
      BY <1>1, <3>1
    <3> QED
      BY <3>1, <3>2, <3>3
  <2> QED
    BY <2>2, <2>3
<1>2. Good \in SUBSET (SUBSET S)
  OBVIOUS
<1> HIDE DEF Good
<1>3. S \in Good
  BY <1>1, <1>2, SubsetInduction
<1> QED
  BY <1>3 DEF Good

\* Any element may be taken out first.
LEMMA SumRemove ==
  ASSUME NEW f, NEW S, IsFiniteSet(S), \A x \in S : f[x] \in Nat, NEW e \in S
  PROVE  SumFunctionOnSet(f, S) = f[e] + SumFunctionOnSet(f, S \ {e})
<1> DEFINE Sum(T) == SumFunctionOnSet(f, T)
           Good == {T \in SUBSET S : \A x \in T : Sum(T) = f[x] + Sum(T \ {x})}
<1>0. \A T \in SUBSET S : IsFiniteSet(T) /\ Sum(T) \in Nat
  BY FS_Subset, SumType
<1>1. ASSUME NEW T \in SUBSET S, \A x \in T : T \ {x} \in Good, NEW x \in T
      PROVE  Sum(T) = f[x] + Sum(T \ {x})
  <2> DEFINE y == Pick(T)
  <2>1. y \in T /\ Sum(T) = f[y] + Sum(T \ {y})
    BY <1>0, SumUnfold, PickIn
  <2> HIDE DEF y, Sum
  <2>2. CASE x = y
    BY <2>1, <2>2
  <2>3. CASE x # y
    <3>1. Sum(T \ {y}) = f[x] + Sum((T \ {y}) \ {x})
      BY <1>1, <2>1, <2>3
    <3>2. Sum(T \ {x}) = f[y] + Sum((T \ {x}) \ {y})
      BY <1>1, <2>1, <2>3
    <3>3. (T \ {y}) \ {x} = (T \ {x}) \ {y}
      OBVIOUS
    <3>4. Sum((T \ {x}) \ {y}) \in Nat /\ f[x] \in Nat /\ f[y] \in Nat
      BY <1>0, <2>1
    <3> DEFINE a == Sum((T \ {x}) \ {y})
               b == Sum(T \ {x})
               d == Sum(T \ {y})
    <3>5. d = f[x] + a /\ b = f[y] + a /\ Sum(T) = f[y] + d /\ a \in Nat
      BY <2>1, <3>1, <3>2, <3>3, <3>4
    <3> HIDE DEF a, b, d
    <3>6. Sum(T) = f[x] + b
      BY <3>4, <3>5
    <3> QED
      BY <3>6 DEF b
  <2> QED
    BY <2>2, <2>3
<1>2. Good \in SUBSET (SUBSET S) /\ \A T \in SUBSET S : (\A x \in T : T \ {x} \in Good) => T \in Good
  BY <1>1
<1> HIDE DEF Good
<1>3. S \in Good
  BY <1>2, SubsetInduction
<1> QED
  BY <1>3 DEF Good


\* Only the values on the set count.
LEMMA SumSame ==
  ASSUME NEW f, NEW g, NEW S, IsFiniteSet(S), \A x \in S : f[x] = g[x]
  PROVE  SumFunctionOnSet(f, S) = SumFunctionOnSet(g, S)
<1> DEFINE Good == {T \in SUBSET S : SumFunctionOnSet(f, T) = SumFunctionOnSet(g, T)}
<1>1. ASSUME NEW T \in SUBSET S, \A x \in T : T \ {x} \in Good PROVE T \in Good
  <2>1. IsFiniteSet(T)
    BY FS_Subset
  <2>2. CASE T = {}
    BY <2>2, SumEmpty
  <2>3. CASE T # {}
    <3>1. Pick(T) \in T /\ f[Pick(T)] = g[Pick(T)]
      BY <2>3, PickIn
    <3>2. /\ SumFunctionOnSet(f, T) = f[Pick(T)] + SumFunctionOnSet(f, T \ {Pick(T)})
          /\ SumFunctionOnSet(g, T) = g[Pick(T)] + SumFunctionOnSet(g, T \ {Pick(T)})
      BY <2>1, <2>3, SumUnfold
    <3>3. SumFunctionOnSet(f, T \ {Pick(T)}) = SumFunctionOnSet(g, T \ {Pick(T)})
      BY <1>1, <3>1
    <3> QED
      BY <3>1, <3>2, <3>3
  <2> QED
    BY <2>2, <2>3
<1>2. Good \in SUBSET (SUBSET S)
  OBVIOUS
<1> HIDE DEF Good
<1>3. S \in Good
  BY <1>1, <1>2, SubsetInduction
<1> QED
  BY <1>3 DEF Good

------------------------------------------------------------------------------
(* The counters of a state are a recount of its stakes. *)

Nodes == [stakes : [Addr -> Nat], supply : Nat]
CountOf(n) == CountStakes(n.stakes, n.supply)
Counted(s) == \E n \in Nodes : s = CountOf(n)
Floor(x) == IF x < 0 THEN 0 ELSE x
Adjusted(f, a, delta) == [f EXCEPT ![a] = Floor(f[a] + delta)]

\* A change of one value changes the sum by as much.
LEMMA SumExcept ==
  ASSUME NEW f \in [Addr -> Nat], NEW a \in Addr, NEW v \in Nat
  PROVE  /\ SumFunctionOnSet(f, Addr) \in Nat /\ f[a] <= SumFunctionOnSet(f, Addr)
         /\ SumFunctionOnSet([f EXCEPT ![a] = v], Addr) = SumFunctionOnSet(f, Addr) - f[a] + v
<1> DEFINE g == [f EXCEPT ![a] = v]
           R == Addr \ {a}
<1>0. IsFiniteSet(Addr) /\ IsFiniteSet(R)
  BY StakeAssumption, FS_Subset
<1>1. g \in [Addr -> Nat] /\ g[a] = v /\ \A x \in R : g[x] = f[x]
  OBVIOUS
<1> HIDE DEF g
<1>2. SumFunctionOnSet(f, Addr) = f[a] + SumFunctionOnSet(f, R)
  BY <1>0, SumRemove
<1>3. SumFunctionOnSet(g, Addr) = g[a] + SumFunctionOnSet(g, R)
  BY <1>0, <1>1, SumRemove
<1>4. SumFunctionOnSet(g, R) = SumFunctionOnSet(f, R)
  BY <1>0, <1>1, SumSame
<1>5. SumFunctionOnSet(f, R) \in Nat
  BY <1>0, SumType
<1> HIDE DEF R
<1>6. SumFunctionOnSet(g, Addr) = SumFunctionOnSet(f, Addr) - f[a] + v
  BY <1>1, <1>2, <1>3, <1>4, <1>5
<1> QED
  BY <1>2, <1>5, <1>6 DEF g

\* One element joins a set or leaves it.
LEMMA CardinalityChange ==
  ASSUME NEW P \in SUBSET Addr, NEW Q \in SUBSET Addr, NEW a \in Addr, P \ {a} = Q \ {a}
  PROVE  Cardinality(Q) = Cardinality(P) + Change(a \in P, a \in Q)
<1>0. IsFiniteSet(P) /\ IsFiniteSet(Q) /\ Cardinality(P) \in Nat /\ Cardinality(Q) \in Nat
  BY StakeAssumption, FS_Subset, FS_CardinalityType
<1>1. CASE a \in P /\ a \in Q
  <2>1. P = Q
    BY <1>1
  <2> QED
    BY <1>0, <1>1, <2>1 DEF Change
<1>2. CASE a \notin P /\ a \notin Q
  <2>1. P = Q
    BY <1>2
  <2> QED
    BY <1>0, <1>2, <2>1 DEF Change
<1>3. CASE a \in P /\ a \notin Q
  <2>1. Q = P \ {a}
    BY <1>3
  <2>2. Cardinality(P \ {a}) = Cardinality(P) - 1
    BY <1>0, <1>3, FS_RemoveElement
  <2> QED
    BY <1>0, <1>3, <2>1, <2>2 DEF Change
<1>4. CASE a \notin P /\ a \in Q
  <2>1. P = Q \ {a}
    BY <1>4
  <2>2. Cardinality(Q \ {a}) = Cardinality(Q) - 1
    BY <1>0, <1>4, FS_RemoveElement
  <2> QED
    BY <1>0, <1>4, <2>1, <2>2 DEF Change
<1> QED
  BY <1>1, <1>2, <1>3, <1>4

LEMMA StateFields ==
  ASSUME NEW f, NEW t, NEW u, NEW p, NEW q, NEW s,
         s = [stakes |-> f, total |-> t, supply |-> u, stakers |-> p, masters |-> q]
  PROVE  s.stakes = f /\ s.total = t /\ s.supply = u /\ s.stakers = p /\ s.masters = q
  OBVIOUS

LEMMA StateWithSupply ==
  ASSUME NEW f, NEW t, NEW u, NEW p, NEW q, NEW s,
         s = [stakes |-> f, total |-> t, supply |-> u, stakers |-> p, masters |-> q], NEW u2
  PROVE  [s EXCEPT !.supply = u2] = [stakes |-> f, total |-> t, supply |-> u2, stakers |-> p, masters |-> q]
  OBVIOUS

\* A delta on counted stakes leaves counted stakes: apply_stake_snapshot_stake_delta keeps its
\* total, its stakers and its masters a recount, clamped or not.
LEMMA DeltaCounts ==
  ASSUME NEW f \in [Addr -> Nat], NEW supply \in Nat, NEW a \in Addr, NEW delta \in Int
  PROVE  /\ apply_stake_snapshot_stake_delta(CountStakes(f, supply), a, delta)
              = CountStakes(Adjusted(f, a, delta), supply)
         /\ Adjusted(f, a, delta) \in [Addr -> Nat]
<1> DEFINE old == f[a]
           new == Floor(f[a] + delta)
           g == [f EXCEPT ![a] = new]
           s == CountStakes(f, supply)
           Held(h) == {x \in Addr : h[x] > 0}
           Master(h) == {x \in Addr : h[x] >= MasterThreshold}
<1>1. old \in Nat /\ new \in Nat /\ g \in [Addr -> Nat] /\ g[a] = new
  BY DEF Floor
<1>2. /\ SumFunctionOnSet(f, Addr) \in Nat /\ old <= SumFunctionOnSet(f, Addr)
      /\ SumFunctionOnSet(g, Addr) = SumFunctionOnSet(f, Addr) - old + new
  BY <1>1, SumExcept
<1>3. Cardinality(Held(g)) = Cardinality(Held(f)) + Change(old > 0, new > 0)
  <2>1. Held(f) \ {a} = Held(g) \ {a} /\ (a \in Held(f) <=> old > 0) /\ (a \in Held(g) <=> new > 0)
    BY <1>1
  <2>2. Cardinality(Held(g)) = Cardinality(Held(f)) + Change(a \in Held(f), a \in Held(g))
    BY <2>1, CardinalityChange
  <2> QED
    BY <2>1, <2>2 DEF Change
<1>4. Cardinality(Master(g)) = Cardinality(Master(f)) + Change(old >= MasterThreshold, new >= MasterThreshold)
  <2>1. /\ Master(f) \ {a} = Master(g) \ {a}
        /\ a \in Master(f) <=> old >= MasterThreshold
        /\ a \in Master(g) <=> new >= MasterThreshold
    BY <1>1
  <2>2. Cardinality(Master(g)) = Cardinality(Master(f)) + Change(a \in Master(f), a \in Master(g))
    BY <2>1, CardinalityChange
  <2> QED
    BY <2>1, <2>2 DEF Change
<1>5. s = [stakes |-> f, total |-> SumFunctionOnSet(f, Addr), supply |-> supply,
           stakers |-> Cardinality(Held(f)), masters |-> Cardinality(Master(f))]
  BY DEF CountStakes
<1>6. CountStakes(g, supply) = [stakes |-> g, total |-> SumFunctionOnSet(g, Addr), supply |-> supply,
                                stakers |-> Cardinality(Held(g)), masters |-> Cardinality(Master(g))]
  BY DEF CountStakes
<1> HIDE DEF s, Held, Master
<1>7. a # NoAddress
  BY StakeAssumption
<1>8. /\ s.stakes = f /\ s.total = SumFunctionOnSet(f, Addr) /\ s.supply = supply
      /\ s.stakers = Cardinality(Held(f)) /\ s.masters = Cardinality(Master(f))
  BY <1>5, StateFields
<1> DEFINE total == s.total + new - s.stakes[a]
<1>9. apply_stake_snapshot_stake_delta(s, a, delta)
        = [stakes  |-> [s.stakes EXCEPT ![a] = new],
           total   |-> IF total < 0 THEN 0 ELSE total,
           supply  |-> s.supply,
           stakers |-> s.stakers + Change(s.stakes[a] > 0, new > 0),
           masters |-> s.masters + Change(s.stakes[a] >= MasterThreshold, new >= MasterThreshold)]
  BY <1>7, <1>8, Zenon DEF apply_stake_snapshot_stake_delta, Floor
<1>10. total = SumFunctionOnSet(g, Addr) /\ ~(total < 0)
  BY <1>1, <1>2, <1>8
<1> HIDE DEF total, new
<1>11. apply_stake_snapshot_stake_delta(s, a, delta) = CountStakes(g, supply)
  BY <1>3, <1>4, <1>6, <1>8, <1>9, <1>10
<1> QED
  BY <1>1, <1>11 DEF s, new, Adjusted

\* A supply delta on a counted state (apply_supply_delta).
LEMMA SupplyCounts ==
  ASSUME NEW f \in [Addr -> Nat], NEW supply \in Nat, NEW sign \in {-1, 1}, NEW v \in Nat
  PROVE  /\ apply_supply_delta(CountStakes(f, supply), sign, v) = CountStakes(f, Floor(supply + sign * v))
         /\ Floor(supply + sign * v) \in Nat
<1> DEFINE s == CountStakes(f, supply)
<1>1. sign * v \in Int /\ (sign < 0 => supply + sign * v = supply - v) /\ (~(sign < 0) => supply + sign * v >= 0)
  <2>1. sign = -1 \/ sign = 1
    OBVIOUS
  <2>2. (-1) * v = -v /\ 1 * v = v
    OBVIOUS
  <2> QED
    BY <2>1, <2>2
<1>2. /\ s.supply = supply
      /\ [s EXCEPT !.supply = Floor(supply + sign * v)] = CountStakes(f, Floor(supply + sign * v))
  <2> DEFINE t == SumFunctionOnSet(f, Addr)
             p == Cardinality({a \in Addr : f[a] > 0})
             q == Cardinality({a \in Addr : f[a] >= MasterThreshold})
  <2>1. \A u : CountStakes(f, u) = [stakes |-> f, total |-> t, supply |-> u, stakers |-> p, masters |-> q]
    BY DEF CountStakes
  <2> HIDE DEF t, p, q
  <2>2. s = [stakes |-> f, total |-> t, supply |-> supply, stakers |-> p, masters |-> q]
    BY <2>1
  <2> HIDE DEF s
  <2> QED
    BY <2>1, <2>2, StateFields, StateWithSupply
<1>3. (IF sign < 0 /\ s.supply - v < 0 THEN 0 ELSE s.supply + sign * v) = Floor(supply + sign * v)
  BY <1>1, <1>2 DEF Floor
<1>4. Floor(supply + sign * v) \in Nat
  BY <1>1 DEF Floor
<1>5. apply_supply_delta(s, sign, v) = [s EXCEPT !.supply = Floor(supply + sign * v)]
  BY <1>3 DEF apply_supply_delta
<1> QED
  BY <1>2, <1>4, <1>5

------------------------------------------------------------------------------
(* The rows of a transaction. *)

\* A sequence given by its values grows by the next one.
LEMMA AppendNext ==
  ASSUME NEW f, NEW k \in Nat
  PROVE  Append([i \in 1..k |-> f[i]], f[k + 1]) = [i \in 1..(k + 1) |-> f[i]]
<1> DEFINE S == {f[i] : i \in 1..(k + 1)}
           s == [i \in 1..k |-> f[i]]
           t == [i \in 1..(k + 1) |-> f[i]]
<1>1. s \in Seq(S) /\ Len(s) = k /\ f[k + 1] \in S
  <2>1. \A i \in 1..k : i \in 1..(k + 1)
    OBVIOUS
  <2>2. \A i \in 1..k : f[i] \in S
    BY <2>1
  <2>3. k + 1 \in 1..(k + 1)
    OBVIOUS
  <2>4. f[k + 1] \in S
    BY <2>3
  <2> HIDE DEF S
  <2> QED
    BY <2>2, <2>4
<1>2. t \in Seq(S) /\ Len(t) = k + 1
  OBVIOUS
<1> DEFINE r == Append(s, f[k + 1])
<1> HIDE DEF S
<1>3. /\ r \in Seq(S) /\ Len(r) = k + 1 /\ r[k + 1] = f[k + 1]
      /\ \A i \in 1..k : r[i] = s[i]
  <2> HIDE DEF s
  <2> QED
    BY <1>1
<1>4. \A i \in 1..(k + 1) : r[i] = t[i]
  <2> HIDE DEF r
  <2> QED
    BY <1>3
<1> HIDE DEF r, t
<1>5. r = t
  BY <1>2, <1>3, <1>4
<1> QED
  BY <1>5 DEF r, t

\* The live history: no row is dropped, none is taken for another.
LEMMA LiveRows ==
  ASSUME NEW S, NEW rows \in Seq(S), \A i \in 1..Len(rows) : rows[i].format = 2
  PROVE  Projected(rows) = rows /\ deduplicate_stake_snapshot_tx_rows(rows) = rows
<1> DEFINE n == Len(rows)
           Prefix(k) == [i \in 1..k |-> rows[i]]
<1>0. n \in Nat /\ DOMAIN rows = 1..n /\ rows = Prefix(n)
  OBVIOUS
<1>a. Prefix(0) = << >>
  OBVIOUS
<1>b. ASSUME NEW k \in 1..n PROVE Append(Prefix(k - 1), rows[k]) = Prefix(k)
  <2>1. k - 1 \in Nat /\ (k - 1) + 1 = k
    OBVIOUS
  <2>2. Append(Prefix(k - 1), rows[(k - 1) + 1]) = Prefix((k - 1) + 1)
    BY <2>1, AppendNext
  <2> QED
    BY <2>1, <2>2
<1> HIDE DEF n, Prefix
<1>c. ASSUME NEW h, h[0] = << >>, \A k \in 1..n : h[k] = Append(h[k - 1], rows[k])
      PROVE  h[n] = rows
  <2> DEFINE Good == {k \in Nat : k <= n => h[k] = Prefix(k)}
  <2>1. 0 \in Good
    BY <1>a, <1>c
  <2>2. ASSUME NEW k \in Nat, k \in Good PROVE k + 1 \in Good
    <3>1. k + 1 \in Nat /\ (k + 1) - 1 = k
      OBVIOUS
    <3>2. ASSUME k + 1 <= n PROVE h[k + 1] = Prefix(k + 1)
      <4>1. k + 1 \in 1..n /\ k <= n
        BY <1>0, <3>2
      <4>2. h[k + 1] = Append(h[k], rows[k + 1])
        BY <1>c, <3>1, <4>1
      <4>3. h[k] = Prefix(k)
        BY <2>2, <4>1
      <4>4. Append(Prefix(k), rows[k + 1]) = Prefix(k + 1)
        BY <1>b, <3>1, <4>1
      <4> QED
        BY <4>2, <4>3, <4>4
    <3> QED
      BY <3>1, <3>2
  <2> HIDE DEF Good
  <2>3. n \in Good
    BY <1>0, <2>1, <2>2, UpwardInduction
  <2> QED
    BY <1>0, <2>3 DEF Good
<1>1. Projected(rows) = rows
  <2>0. PICK h : Keeps(h, rows, n)
    BY <1>0, ProjectedUnrolled
  <2>1. /\ h[0] = << >> /\ h[n] = Projected(rows)
        /\ \A k \in 1..n : h[k] = Keep(h[k - 1], rows[k])
    BY <2>0, Zenon DEF Keeps
  <2>2. \A k \in 1..n : h[k] = Append(h[k - 1], rows[k])
    BY <2>1 DEF n, Keep
  <2> QED
    BY <1>c, <2>1, <2>2
<1>2. deduplicate_stake_snapshot_tx_rows(rows) = rows
  <2>0. PICK h : Collapses(h, rows, n)
    BY <1>0, DedupUnrolled
  <2>1. /\ h[0] = << >> /\ h[n] = deduplicate_stake_snapshot_tx_rows(rows)
        /\ \A k \in 1..n : h[k] = Collapse(h[k - 1], rows[k])
    BY <2>0, Zenon DEF Collapses
  <2>2. \A k \in 1..n : h[k] = Append(h[k - 1], rows[k])
    <3>1. \A k \in 1..n : rows[k].format # 1
      BY DEF n
    <3> QED
      BY <2>1, <3>1, Zenon DEF Collapse
  <2> QED
    BY <1>c, <2>1, <2>2
<1> QED
  BY <1>1, <1>2

\* The backfilled history: a row and its copy count once.
LEMMA CopiedRows ==
  ASSUME NEW r, r.format = 1
  PROVE  Projected(<<r, r>>) = <<r, r>> /\ deduplicate_stake_snapshot_tx_rows(<<r, r>>) = <<r>>
<1> DEFINE rows == <<r, r>>
<1>0. /\ DOMAIN rows = 1..2 /\ 2 \in Nat /\ rows[1] = r /\ rows[2] = r
      /\ 1 \in 1..2 /\ 2 \in 1..2 /\ 1 - 1 = 0 /\ 2 - 1 = 1
  OBVIOUS
<1>a. Append(<< >>, r) = <<r>> /\ Append(<<r>>, r) = rows
  <2>1. [i \in 1..0 |-> rows[i]] = << >>
    OBVIOUS
  <2>2. [i \in 1..1 |-> rows[i]] = <<r>>
    <3>1. DOMAIN <<r>> = 1..1 /\ \A i \in 1..1 : <<r>>[i] = rows[i]
      OBVIOUS
    <3>2. <<r>> = [i \in 1..1 |-> <<r>>[i]]
      OBVIOUS
    <3> QED
      BY <3>1, <3>2
  <2>3. [i \in 1..2 |-> rows[i]] = rows
    OBVIOUS
  <2> HIDE DEF rows
  <2>4. Append([i \in 1..0 |-> rows[i]], rows[0 + 1]) = [i \in 1..(0 + 1) |-> rows[i]]
    BY AppendNext, Zenon
  <2>5. Append([i \in 1..1 |-> rows[i]], rows[1 + 1]) = [i \in 1..(1 + 1) |-> rows[i]]
    BY AppendNext, Zenon
  <2>6. 0 + 1 = 1 /\ 1 + 1 = 2
    OBVIOUS
  <2> QED
    BY <1>0, <2>1, <2>2, <2>3, <2>4, <2>5, <2>6
<1>b. Keep(<< >>, r) = <<r>> /\ Keep(<<r>>, r) = rows
  BY <1>a DEF Keep
<1>c. Collapse(<< >>, r) = <<r>> /\ Collapse(<<r>>, r) = <<r>>
  <2>1. 1 \in DOMAIN <<r>> /\ <<r>>[1] = r
    OBVIOUS
  <2>2. DOMAIN << >> = {}
    OBVIOUS
  <2> QED
    BY <1>a, <2>1, <2>2, Zenon DEF Collapse
<1> HIDE DEF rows
<1>1. Projected(rows) = rows
  <2>0. PICK h : Keeps(h, rows, 2)
    BY <1>0, ProjectedUnrolled
  <2>1. h[0] = << >> /\ h[2] = Projected(rows) /\ \A k \in 1..2 : h[k] = Keep(h[k - 1], rows[k])
    BY <2>0, Zenon DEF Keeps
  <2>2. h[1] = Keep(h[0], r) /\ h[2] = Keep(h[1], r)
    BY <1>0, <2>1
  <2> QED
    BY <1>b, <2>1, <2>2
<1>2. deduplicate_stake_snapshot_tx_rows(rows) = <<r>>
  <2>0. PICK h : Collapses(h, rows, 2)
    BY <1>0, DedupUnrolled
  <2>1. /\ h[0] = << >> /\ h[2] = deduplicate_stake_snapshot_tx_rows(rows)
        /\ \A k \in 1..2 : h[k] = Collapse(h[k - 1], rows[k])
    BY <2>0, Zenon DEF Collapses
  <2>2. h[1] = Collapse(h[0], r) /\ h[2] = Collapse(h[1], r)
    BY <1>0, <2>1
  <2> QED
    BY <1>c, <2>1, <2>2
<1> QED
  BY <1>1, <1>2 DEF rows

------------------------------------------------------------------------------
(* What one transaction does to a counted state. *)

Acc(s) == [state |-> s, inflated |-> FALSE]
Moved(s, a, v, sign) == IF v <= 0 THEN s ELSE apply_stake_snapshot_stake_delta(s, a, sign * v)

LEMMA AccState == ASSUME NEW s PROVE Acc(s).state = s
  BY DEF Acc

LEMMA AccFields ==
  ASSUME NEW s
  PROVE  /\ Acc(s).state = s /\ Acc(s).inflated = FALSE
         /\ \A r : [Acc(s) EXCEPT !.state = r] = Acc(r)
<1>1. Acc(s).state = s
  BY DEF Acc
<1>2. Acc(s).inflated = FALSE
  BY Zenon DEF Acc
<1>3. ASSUME NEW r PROVE [Acc(s) EXCEPT !.state = r] = Acc(r)
  <2> DEFINE no == FALSE
  <2>1. Acc(s) = [state |-> s, inflated |-> no] /\ Acc(r) = [state |-> r, inflated |-> no]
    BY Zenon DEF Acc
  <2> HIDE DEF no
  <2> QED
    BY <2>1
<1> QED
  BY <1>1, <1>2, <1>3

\* The rows of a transaction are applied one after the other.
Applies(h, s, tx, reverse, n) ==
  /\ h[0] = Acc(s)
  /\ \A k \in 1..n : h[k] = ApplyRow(h[k - 1], deduplicate_stake_snapshot_tx_rows(tx.rows)[k], tx,
                                     classify_stake_snapshot_transaction(tx), reverse)

LEMMA RowsApplied ==
  ASSUME NEW s, NEW tx, NEW reverse, NEW n \in Nat, DOMAIN deduplicate_stake_snapshot_tx_rows(tx.rows) = 1..n
  PROVE  \E h : Applies(h, s, tx, reverse, n) /\ h[n].state = apply_stake_snapshot_transaction(s, tx, reverse)
  BY RowsUnrolled DEF Acc, Applies

LEMMA NoRowApplied ==
  ASSUME NEW s, NEW tx, NEW reverse, deduplicate_stake_snapshot_tx_rows(tx.rows) = << >>
  PROVE  apply_stake_snapshot_transaction(s, tx, reverse) = s
<1>1. DOMAIN deduplicate_stake_snapshot_tx_rows(tx.rows) = 1..0 /\ 0 \in Nat
  OBVIOUS
<1>2. PICK h : Applies(h, s, tx, reverse, 0) /\ h[0].state = apply_stake_snapshot_transaction(s, tx, reverse)
  BY <1>1, RowsApplied, Zenon
<1> QED
  BY <1>2, AccFields DEF Applies

LEMMA OneRowApplied ==
  ASSUME NEW s, NEW tx, NEW reverse, NEW kind, kind = classify_stake_snapshot_transaction(tx),
         NEW a, deduplicate_stake_snapshot_tx_rows(tx.rows) = <<a>>
  PROVE  apply_stake_snapshot_transaction(s, tx, reverse)
           = ApplyRow(Acc(s), a, tx, kind, reverse).state
<1> DEFINE rows == deduplicate_stake_snapshot_tx_rows(tx.rows)
<1>1. /\ DOMAIN rows = 1..1 /\ rows[1] = a /\ 1 \in 1..1
      /\ 1 - 1 = 0 /\ 1 \in Nat
  OBVIOUS
<1>2. PICK h : Applies(h, s, tx, reverse, 1) /\ h[1].state = apply_stake_snapshot_transaction(s, tx, reverse)
  BY <1>1, RowsApplied, Zenon
<1> HIDE DEF rows
<1>3. \A k \in 1..1 : h[k] = ApplyRow(h[k - 1], rows[k], tx, kind, reverse)
  BY <1>2, Zenon DEF Applies, rows
<1>4. h[1] = ApplyRow(Acc(s), a, tx, kind, reverse)
  BY <1>1, <1>2, <1>3 DEF Applies
<1> QED
  BY <1>2, <1>4

LEMMA TwoRowsApplied ==
  ASSUME NEW s, NEW tx, NEW reverse, NEW kind, kind = classify_stake_snapshot_transaction(tx),
         NEW a, NEW b, deduplicate_stake_snapshot_tx_rows(tx.rows) = <<a, b>>
  PROVE  apply_stake_snapshot_transaction(s, tx, reverse)
           = ApplyRow(ApplyRow(Acc(s), a, tx, kind, reverse), b, tx, kind, reverse).state
<1> DEFINE rows == deduplicate_stake_snapshot_tx_rows(tx.rows)
<1>1. /\ DOMAIN rows = 1..2 /\ rows[1] = a /\ rows[2] = b /\ 1 \in 1..2 /\ 2 \in 1..2
      /\ 1 - 1 = 0 /\ 2 - 1 = 1 /\ 2 \in Nat
  OBVIOUS
<1>2. PICK h : Applies(h, s, tx, reverse, 2) /\ h[2].state = apply_stake_snapshot_transaction(s, tx, reverse)
  BY <1>1, RowsApplied, Zenon
<1> HIDE DEF rows
<1>3. \A k \in 1..2 : h[k] = ApplyRow(h[k - 1], rows[k], tx, kind, reverse)
  BY <1>2, Zenon DEF Applies, rows
<1>4. h[1] = ApplyRow(Acc(s), a, tx, kind, reverse) /\ h[2] = ApplyRow(h[1], b, tx, kind, reverse)
  BY <1>1, <1>2, <1>3 DEF Applies
<1> QED
  BY <1>2, <1>4

LEMMA ThreeRowsApplied ==
  ASSUME NEW s, NEW tx, NEW reverse, NEW kind, kind = classify_stake_snapshot_transaction(tx),
         NEW a, NEW b, NEW c, deduplicate_stake_snapshot_tx_rows(tx.rows) = <<a, b, c>>
  PROVE  apply_stake_snapshot_transaction(s, tx, reverse)
           = ApplyRow(ApplyRow(ApplyRow(Acc(s), a, tx, kind, reverse), b, tx, kind, reverse), c, tx, kind, reverse).state
<1> DEFINE rows == deduplicate_stake_snapshot_tx_rows(tx.rows)
<1>1. /\ DOMAIN rows = 1..3 /\ rows[1] = a /\ rows[2] = b /\ rows[3] = c /\ 1 \in 1..3 /\ 2 \in 1..3 /\ 3 \in 1..3
      /\ 1 - 1 = 0 /\ 2 - 1 = 1 /\ 3 - 1 = 2 /\ 3 \in Nat
  OBVIOUS
<1>2. PICK h : Applies(h, s, tx, reverse, 3) /\ h[3].state = apply_stake_snapshot_transaction(s, tx, reverse)
  BY <1>1, RowsApplied, Zenon
<1> HIDE DEF rows
<1>3. \A k \in 1..3 : h[k] = ApplyRow(h[k - 1], rows[k], tx, kind, reverse)
  BY <1>2, Zenon DEF Applies, rows
<1>4. h[1] = ApplyRow(Acc(s), a, tx, kind, reverse) /\ h[2] = ApplyRow(h[1], b, tx, kind, reverse) /\ h[3] = ApplyRow(h[2], c, tx, kind, reverse)
  BY <1>1, <1>2, <1>3 DEF Applies
<1> QED
  BY <1>2, <1>4

\* A row of another token, or of no amount, changes nothing.
LEMMA RowSkipped ==
  ASSUME NEW acc, NEW row, NEW tx, NEW kind, NEW reverse, row.token # Soul \/ row.value <= 0
  PROVE  ApplyRow(acc, row, tx, kind, reverse) = acc
  BY Zenon DEF ApplyRow

\* A stake or a claim counts in a plain transaction only.
LEMMA RowMoves ==
  ASSUME NEW s, NEW row, NEW tx, NEW kind, NEW reverse,
         row.token = Soul, row.kind \in {"TokenStake", "TokenClaim"}
  PROVE  ApplyRow(Acc(s), row, tx, kind, reverse)
           = IF kind = "Normal" THEN Acc(Moved(s, row.addr, row.value, Sign(row.kind, reverse))) ELSE Acc(s)
<1> DEFINE sign == Sign(row.kind, reverse)
           delta == apply_stake_snapshot_stake_delta(s, row.addr, sign * row.value)
<1>1. CASE row.value <= 0
  <2>1. Moved(s, row.addr, row.value, sign) = s
    BY <1>1, Zenon DEF Moved
  <2>0. row.token # Soul \/ row.value <= 0
    BY <1>1
  <2>2. ApplyRow(Acc(s), row, tx, kind, reverse) = Acc(s)
    BY <2>0, RowSkipped
  <2> HIDE DEF sign
  <2>3. CASE kind = "Normal"
    BY <2>1, <2>2, <2>3, Zenon DEF sign
  <2>4. CASE kind # "Normal"
    BY <2>2, <2>4, Zenon
  <2> QED
    BY <2>3, <2>4
<1>2. CASE ~(row.value <= 0)
  <2>1. ApplyRow(Acc(s), row, tx, kind, reverse)
          = IF kind # "Normal" THEN Acc(s)
            ELSE [Acc(s) EXCEPT !.state = apply_stake_snapshot_stake_delta(Acc(s).state, row.addr, sign * row.value)]
    BY <1>2, Zenon DEF ApplyRow
  <2>2. Moved(s, row.addr, row.value, sign) = delta
    BY <1>2, Zenon DEF Moved
  <2>3. Acc(s).state = s
    BY AccFields
  <2>4. [Acc(s) EXCEPT !.state = apply_stake_snapshot_stake_delta(Acc(s).state, row.addr, sign * row.value)] = Acc(delta)
    <3> DEFINE after == apply_stake_snapshot_stake_delta(Acc(s).state, row.addr, sign * row.value)
    <3>1. after = delta
      BY <2>3, Zenon
    <3> HIDE DEF after, delta
    <3>2. [Acc(s) EXCEPT !.state = after] = Acc(after)
      BY AccFields
    <3>3. [Acc(s) EXCEPT !.state = after] = Acc(delta)
      BY <3>1, <3>2
    <3> QED
      BY <3>3 DEF after
  <2>5. CASE kind = "Normal"
    BY <2>1, <2>2, <2>4, <2>5, Zenon
  <2>6. CASE kind # "Normal"
    BY <2>1, <2>6, Zenon
  <2> QED
    BY <2>5, <2>6
<1> QED
  BY <1>1, <1>2

\* A mint or a burn moves the supply by its amount, or by the result of the inflation, once.
LEMMA RowMints ==
  ASSUME NEW acc, NEW row, NEW tx, NEW kind, NEW reverse,
         row.token = Soul, row.kind \in {"TokenMint", "TokenBurn"}, ~(row.value <= 0)
  PROVE  /\ tx.result = << >> =>
              ApplyRow(acc, row, tx, kind, reverse)
                = [acc EXCEPT !.state = apply_supply_delta(acc.state, Sign(row.kind, reverse), row.value)]
         /\ tx.result # << >> /\ ~acc.inflated =>
              ApplyRow(acc, row, tx, kind, reverse)
                = [state |-> apply_supply_delta(acc.state, Sign(row.kind, reverse), tx.result[1]), inflated |-> TRUE]
         /\ tx.result # << >> /\ acc.inflated => ApplyRow(acc, row, tx, kind, reverse) = acc
<1>1. row.kind \notin {"TokenStake", "TokenClaim"}
  OBVIOUS
<1> QED
  BY <1>1, Zenon DEF ApplyRow

LEMMA Signs ==
  ASSUME NEW reverse \in BOOLEAN
  PROVE  /\ Sign("TokenStake", reverse) = (IF reverse THEN -1 ELSE 1)
         /\ Sign("TokenMint", reverse) = (IF reverse THEN -1 ELSE 1)
         /\ Sign("TokenClaim", reverse) = (IF reverse THEN 1 ELSE -1)
         /\ Sign("TokenBurn", reverse) = (IF reverse THEN 1 ELSE -1)
<1>1. /\ ("TokenStake" \in {"TokenStake", "TokenMint"}) = TRUE
      /\ ("TokenMint" \in {"TokenStake", "TokenMint"}) = TRUE
      /\ ("TokenClaim" \in {"TokenStake", "TokenMint"}) = FALSE
      /\ ("TokenBurn" \in {"TokenStake", "TokenMint"}) = FALSE
  OBVIOUS
<1> QED
  BY <1>1 DEF Sign

\* A move of a counted state is counted.
LEMMA MovedCounts ==
  ASSUME NEW f \in [Addr -> Nat], NEW u \in Nat, NEW a \in Addr, NEW v \in Nat, NEW sign \in {-1, 1}
  PROVE  /\ Moved(CountStakes(f, u), a, v, sign) = CountStakes(Adjusted(f, a, sign * v), u)
         /\ Adjusted(f, a, sign * v) \in [Addr -> Nat]
<1> DEFINE delta == sign * v
<1>1. delta \in Int /\ (v = 0 => delta = 0)
  OBVIOUS
<1>2. CASE v = 0
  <2>1. Moved(CountStakes(f, u), a, v, sign) = CountStakes(f, u)
    BY <1>2 DEF Moved
  <2>2. Adjusted(f, a, delta) = f
    BY <1>1, <1>2 DEF Adjusted, Floor
  <2> QED
    BY <2>1, <2>2
<1>3. CASE v # 0
  <2>1. Moved(CountStakes(f, u), a, v, sign) = apply_stake_snapshot_stake_delta(CountStakes(f, u), a, delta)
    BY <1>3 DEF Moved
  <2> HIDE DEF delta
  <2>2. /\ apply_stake_snapshot_stake_delta(CountStakes(f, u), a, delta) = CountStakes(Adjusted(f, a, delta), u)
        /\ Adjusted(f, a, delta) \in [Addr -> Nat]
    BY <1>1, DeltaCounts
  <2> QED
    BY <2>1, <2>2 DEF delta
<1> QED
  BY <1>2, <1>3

\* A stake or a claim of any other transaction changes nothing.
LEMMA RowKept ==
  ASSUME NEW acc, NEW row, NEW tx, NEW kind, NEW reverse, kind # "Normal", row.kind \in {"TokenStake", "TokenClaim"}
  PROVE  ApplyRow(acc, row, tx, kind, reverse) = acc
  BY Zenon DEF ApplyRow

LEMMA TxFields ==
  ASSUME NEW b
  PROVE  /\ TxOf(b).ts = b.ts /\ TxOf(b).rows = Projected(RowsOf(b.op))
         /\ TxOf(b).stakeCall <=> b.op.do \in {"stake", "restake", "backfill"}
         /\ TxOf(b).unstakeCall <=> b.op.do \in {"unstake", "restake"}
         /\ TxOf(b).claimCall <=> b.op.do = "reward"
         /\ b.op.do # "inflation" => TxOf(b).result = << >>
         /\ b.op.do = "inflation" => TxOf(b).result = <<b.op.value>>
  BY Zenon DEF TxOf

\* A transaction whose rows are all live: its rows, and what its kind depends on.
LEMMA LiveTx ==
  ASSUME NEW b, NEW S, NEW rows \in Seq(S), RowsOf(b.op) = rows, \A i \in 1..Len(rows) : rows[i].format = 2
  PROVE  /\ TxOf(b).rows = rows /\ deduplicate_stake_snapshot_tx_rows(TxOf(b).rows) = rows
<1>1. Projected(rows) = rows /\ deduplicate_stake_snapshot_tx_rows(rows) = rows
  BY LiveRows
<1>2. TxOf(b).rows = Projected(RowsOf(b.op))
  BY TxFields
<1> QED
  BY <1>1, <1>2

\* No mint of SOUL, no bare claim call and no market order: a plain transaction.
LEMMA PlainTx ==
  ASSUME NEW b, NEW rows, TxOf(b).rows = rows, b.op.do # "reward",
         \A i \in DOMAIN rows : ~(rows[i].kind = "TokenMint" /\ rows[i].token = Soul) /\ rows[i].quote = FALSE
  PROVE  classify_stake_snapshot_transaction(TxOf(b)) = "Normal"
<1>1. ~TxOf(b).claimCall
  BY TxFields
<1>2. /\ ~ \E i \in DOMAIN TxOf(b).rows : TxOf(b).rows[i].kind = "TokenMint" /\ TxOf(b).rows[i].token = Soul
      /\ ~ \E i \in DOMAIN TxOf(b).rows : TxOf(b).rows[i].quote
  BY Zenon
<1> QED
  BY <1>1, <1>2, Zenon DEF classify_stake_snapshot_transaction

Typed(op) == op.addr \in Addr /\ op.value \in Nat
Way(reverse) == IF reverse THEN -1 ELSE 1
Back(reverse) == IF reverse THEN 1 ELSE -1

\* A stake: the mint of KCAL beside it is no mint of SOUL.
LEMMA StakeTx ==
  ASSUME NEW s, NEW b, NEW reverse \in BOOLEAN, b.op.do = "stake"
  PROVE  apply_stake_snapshot_transaction(s, TxOf(b), reverse) = Moved(s, b.op.addr, b.op.value, Way(reverse))
<1> DEFINE m == Row("TokenMint", Kcal, b.op.addr, 1, 2)
           r == Row("TokenStake", Soul, b.op.addr, b.op.value, 2)
           rows == <<m, r>>
           tx == TxOf(b)
<1>1. RowsOf(b.op) = rows
  BY Zenon DEF RowsOf
<1>2. /\ m.kind = "TokenMint" /\ m.token = Kcal /\ m.format = 2 /\ m.quote = FALSE
      /\ r.kind = "TokenStake" /\ r.token = Soul /\ r.format = 2 /\ r.quote = FALSE
      /\ r.addr = b.op.addr /\ r.value = b.op.value
  BY Zenon DEF Row
<1> HIDE DEF m, r, tx
<1>3. rows \in Seq({m, r}) /\ DOMAIN rows = {1, 2} /\ Len(rows) = 2 /\ rows[1] = m /\ rows[2] = r
  OBVIOUS
<1> HIDE DEF rows
<1>4. tx.rows = rows /\ deduplicate_stake_snapshot_tx_rows(tx.rows) = rows
  <2>1. \A i \in 1..Len(rows) : i = 1 \/ i = 2
    BY <1>3
  <2>2. \A i \in 1..Len(rows) : rows[i].format = 2
    BY <1>2, <1>3, <2>1
  <2> QED
    BY <1>1, <1>3, <2>2, LiveTx DEF tx
<1>5. classify_stake_snapshot_transaction(tx) = "Normal"
  <2>1. \A i \in DOMAIN rows : ~(rows[i].kind = "TokenMint" /\ rows[i].token = Soul) /\ rows[i].quote = FALSE
    BY <1>2, <1>3 DEF Kcal, Soul
  <2> QED
    BY <1>4, <2>1, PlainTx DEF tx
<1>6. apply_stake_snapshot_transaction(s, tx, reverse)
        = ApplyRow(ApplyRow(Acc(s), m, tx, "Normal", reverse), r, tx, "Normal", reverse).state
  BY <1>4, <1>5, TwoRowsApplied DEF rows
<1>7. ApplyRow(Acc(s), m, tx, "Normal", reverse) = Acc(s)
  BY <1>2, RowSkipped DEF Kcal, Soul
<1>8. ApplyRow(Acc(s), r, tx, "Normal", reverse) = Acc(Moved(s, b.op.addr, b.op.value, Sign("TokenStake", reverse)))
  BY <1>2, RowMoves
<1>9. Sign("TokenStake", reverse) = Way(reverse)
  BY Signs DEF Way
<1> QED
  BY <1>6, <1>7, <1>8, <1>9, AccState DEF tx
\* An unstake is a claim of SOUL.
LEMMA UnstakeTx ==
  ASSUME NEW s, NEW b, NEW reverse \in BOOLEAN, b.op.do = "unstake"
  PROVE  apply_stake_snapshot_transaction(s, TxOf(b), reverse) = Moved(s, b.op.addr, b.op.value, Back(reverse))
<1> DEFINE r == Row("TokenClaim", Soul, b.op.addr, b.op.value, 2)
           rows == <<r>>
           tx == TxOf(b)
<1>1. RowsOf(b.op) = rows
  BY Zenon DEF RowsOf
<1>2. /\ r.kind = "TokenClaim" /\ r.token = Soul /\ r.addr = b.op.addr /\ r.value = b.op.value /\ r.format = 2 /\ r.quote = FALSE
  BY Zenon DEF Row
<1> HIDE DEF r, tx
<1>3. rows \in Seq({r}) /\ DOMAIN rows = {1} /\ Len(rows) = 1 /\ rows[1] = r
  OBVIOUS
<1> HIDE DEF rows
<1>4. tx.rows = rows /\ deduplicate_stake_snapshot_tx_rows(tx.rows) = rows
  <2>1. \A i \in 1..Len(rows) : i = 1
    BY <1>3
  <2>2. \A i \in 1..Len(rows) : rows[i].format = 2
    BY <1>2, <1>3, <2>1
  <2> QED
    BY <1>1, <1>3, <2>2, LiveTx DEF tx
<1>5. classify_stake_snapshot_transaction(tx) = "Normal"
  <2>1. \A i \in DOMAIN rows : ~(rows[i].kind = "TokenMint" /\ rows[i].token = Soul) /\ rows[i].quote = FALSE
    BY <1>2, <1>3 DEF Kcal, Soul
  <2> QED
    BY <1>4, <2>1, PlainTx DEF tx
<1>6. apply_stake_snapshot_transaction(s, tx, reverse)
        = ApplyRow(Acc(s), r, tx, "Normal", reverse).state
  BY <1>4, <1>5, OneRowApplied DEF rows
<1>7. ApplyRow(Acc(s), r, tx, "Normal", reverse) = Acc(Moved(s, b.op.addr, b.op.value, Sign("TokenClaim", reverse)))
  BY <1>2, RowMoves
<1>8. Sign("TokenClaim", reverse) = Back(reverse)
  BY Signs DEF Back
<1> QED
  BY <1>6, <1>7, <1>8, AccState DEF tx

\* A claim and two stakes in one transaction.
LEMMA RestakeTx ==
  ASSUME NEW s, NEW b, NEW reverse \in BOOLEAN, b.op.do = "restake"
  PROVE  apply_stake_snapshot_transaction(s, TxOf(b), reverse) = 
           Moved(Moved(Moved(s, b.op.addr, b.op.value, Back(reverse)), b.op.addr, 1, Way(reverse)), b.op.addr, 1, Way(reverse))
<1> DEFINE r == Row("TokenClaim", Soul, b.op.addr, b.op.value, 2)
           p == Row("TokenStake", Soul, b.op.addr, 1, 2)
           q == Row("TokenStake", Soul, b.op.addr, 1, 2)
           rows == <<r, p, q>>
           tx == TxOf(b)
<1>1. RowsOf(b.op) = rows
  BY Zenon DEF RowsOf
<1>2. /\ r.kind = "TokenClaim" /\ r.token = Soul /\ r.addr = b.op.addr /\ r.value = b.op.value /\ r.format = 2 /\ r.quote = FALSE
      /\ p.kind = "TokenStake" /\ p.token = Soul /\ p.addr = b.op.addr /\ p.value = 1 /\ p.format = 2 /\ p.quote = FALSE
      /\ q.kind = "TokenStake" /\ q.token = Soul /\ q.addr = b.op.addr /\ q.value = 1 /\ q.format = 2 /\ q.quote = FALSE
  BY Zenon DEF Row
<1> HIDE DEF r, p, q, tx
<1>3. rows \in Seq({r, p, q}) /\ DOMAIN rows = {1, 2, 3} /\ Len(rows) = 3 /\ rows[1] = r /\ rows[2] = p /\ rows[3] = q
  OBVIOUS
<1> HIDE DEF rows
<1>4. tx.rows = rows /\ deduplicate_stake_snapshot_tx_rows(tx.rows) = rows
  <2>1. \A i \in 1..Len(rows) : i = 1 \/ i = 2 \/ i = 3
    BY <1>3
  <2>2. \A i \in 1..Len(rows) : rows[i].format = 2
    BY <1>2, <1>3, <2>1
  <2> QED
    BY <1>1, <1>3, <2>2, LiveTx DEF tx
<1>5. classify_stake_snapshot_transaction(tx) = "Normal"
  <2>1. \A i \in DOMAIN rows : ~(rows[i].kind = "TokenMint" /\ rows[i].token = Soul) /\ rows[i].quote = FALSE
    BY <1>2, <1>3 DEF Kcal, Soul
  <2> QED
    BY <1>4, <2>1, PlainTx DEF tx
<1>6. apply_stake_snapshot_transaction(s, tx, reverse)
        = ApplyRow(ApplyRow(ApplyRow(Acc(s), r, tx, "Normal", reverse), p, tx, "Normal", reverse), q, tx, "Normal", reverse).state
  BY <1>4, <1>5, ThreeRowsApplied DEF rows
<1> DEFINE s1 == Moved(s, b.op.addr, b.op.value, Back(reverse))
           s2 == Moved(s1, b.op.addr, 1, Way(reverse))
           s3 == Moved(s2, b.op.addr, 1, Way(reverse))
<1>7. Sign("TokenClaim", reverse) = Back(reverse) /\ Sign("TokenStake", reverse) = Way(reverse)
  BY Signs DEF Way, Back
<1>8. ApplyRow(Acc(s), r, tx, "Normal", reverse) = Acc(s1)
  BY <1>2, <1>7, RowMoves
<1> HIDE DEF s1
<1>9. ApplyRow(Acc(s1), p, tx, "Normal", reverse) = Acc(s2)
  BY <1>2, <1>7, RowMoves, SMTT(30)
<1> HIDE DEF s2
<1>10. ApplyRow(Acc(s2), q, tx, "Normal", reverse) = Acc(s3)
  BY <1>2, <1>7, RowMoves, SMTT(30)
<1> HIDE DEF s3
<1>11. apply_stake_snapshot_transaction(s, tx, reverse) = s3
  BY <1>6, <1>8, <1>9, <1>10, AccState
<1> QED
  BY <1>11 DEF tx, s1, s2, s3

\* The claim of a reward moves no stake.
LEMMA RewardTx ==
  ASSUME NEW s, NEW b, NEW reverse \in BOOLEAN, b.op.do = "reward"
  PROVE  apply_stake_snapshot_transaction(s, TxOf(b), reverse) = s
<1> DEFINE m == Row("TokenMint", Kcal, b.op.addr, 1, 2)
           r == Row("TokenClaim", Soul, b.op.addr, b.op.value, 2)
           rows == <<m, r>>
           tx == TxOf(b)
<1>1. RowsOf(b.op) = rows
  BY Zenon DEF RowsOf
<1>2. /\ m.kind = "TokenMint" /\ m.token = Kcal /\ m.addr = b.op.addr /\ m.value = 1 /\ m.format = 2 /\ m.quote = FALSE
      /\ r.kind = "TokenClaim" /\ r.token = Soul /\ r.addr = b.op.addr /\ r.value = b.op.value /\ r.format = 2 /\ r.quote = FALSE
  BY Zenon DEF Row
<1> HIDE DEF m, r, tx
<1>3. rows \in Seq({m, r}) /\ DOMAIN rows = {1, 2} /\ Len(rows) = 2 /\ rows[1] = m /\ rows[2] = r
  OBVIOUS
<1> HIDE DEF rows
<1>4. tx.rows = rows /\ deduplicate_stake_snapshot_tx_rows(tx.rows) = rows
  <2>1. \A i \in 1..Len(rows) : i = 1 \/ i = 2
    BY <1>3
  <2>2. \A i \in 1..Len(rows) : rows[i].format = 2
    BY <1>2, <1>3, <2>1
  <2> QED
    BY <1>1, <1>3, <2>2, LiveTx DEF tx
<1>5. classify_stake_snapshot_transaction(tx) = "StakeReward"
  <2>1. ~ \E i \in DOMAIN tx.rows : tx.rows[i].kind = "TokenMint" /\ tx.rows[i].token = Soul
    BY <1>2, <1>3, <1>4 DEF Kcal, Soul
  <2>2. tx.claimCall /\ ~tx.stakeCall /\ ~tx.unstakeCall
    BY TxFields DEF tx
  <2> QED
    BY <2>1, <2>2, Zenon DEF classify_stake_snapshot_transaction
<1>6. apply_stake_snapshot_transaction(s, tx, reverse)
        = ApplyRow(ApplyRow(Acc(s), m, tx, "StakeReward", reverse), r, tx, "StakeReward", reverse).state
  BY <1>4, <1>5, TwoRowsApplied DEF rows
<1>7. ApplyRow(Acc(s), m, tx, "StakeReward", reverse) = Acc(s)
  BY <1>2, RowSkipped DEF Kcal, Soul
<1>8. ApplyRow(Acc(s), r, tx, "StakeReward", reverse) = Acc(s)
  BY <1>2, RowMoves
<1> QED
  BY <1>6, <1>7, <1>8, AccState DEF tx

\* A burn lowers the supply.
LEMMA BurnTx ==
  ASSUME NEW s, NEW b, NEW reverse \in BOOLEAN, b.op.do = "burn", b.op.value \in Nat
  PROVE  apply_stake_snapshot_transaction(s, TxOf(b), reverse) = 
           IF b.op.value = 0 THEN s ELSE apply_supply_delta(s, Back(reverse), b.op.value)
<1> DEFINE r == Row("TokenBurn", Soul, b.op.addr, b.op.value, 2)
           rows == <<r>>
           tx == TxOf(b)
<1>1. RowsOf(b.op) = rows
  BY Zenon DEF RowsOf
<1>2. /\ r.kind = "TokenBurn" /\ r.token = Soul /\ r.addr = b.op.addr /\ r.value = b.op.value /\ r.format = 2 /\ r.quote = FALSE
  BY Zenon DEF Row
<1> HIDE DEF r, tx
<1>3. rows \in Seq({r}) /\ DOMAIN rows = {1} /\ Len(rows) = 1 /\ rows[1] = r
  OBVIOUS
<1> HIDE DEF rows
<1>4. tx.rows = rows /\ deduplicate_stake_snapshot_tx_rows(tx.rows) = rows
  <2>1. \A i \in 1..Len(rows) : i = 1
    BY <1>3
  <2>2. \A i \in 1..Len(rows) : rows[i].format = 2
    BY <1>2, <1>3, <2>1
  <2> QED
    BY <1>1, <1>3, <2>2, LiveTx DEF tx
<1>5. classify_stake_snapshot_transaction(tx) = "Normal"
  <2>1. \A i \in DOMAIN rows : ~(rows[i].kind = "TokenMint" /\ rows[i].token = Soul) /\ rows[i].quote = FALSE
    BY <1>2, <1>3 DEF Kcal, Soul
  <2> QED
    BY <1>4, <2>1, PlainTx DEF tx
<1>6. apply_stake_snapshot_transaction(s, tx, reverse)
        = ApplyRow(Acc(s), r, tx, "Normal", reverse).state
  BY <1>4, <1>5, OneRowApplied DEF rows
<1>7. Sign("TokenBurn", reverse) = Back(reverse) /\ tx.result = << >>
  BY Signs, TxFields DEF Back, tx
<1>8. CASE b.op.value = 0
  <2>1. ApplyRow(Acc(s), r, tx, "Normal", reverse) = Acc(s)
    BY <1>2, <1>8, RowSkipped
  <2> QED
    BY <1>6, <1>8, <2>1, AccFields DEF tx
<1>9. CASE b.op.value # 0
  <2> DEFINE after == apply_supply_delta(Acc(s).state, Sign(r.kind, reverse), r.value)
  <2>1. ~(r.value <= 0) /\ r.token = Soul /\ r.kind \in {"TokenMint", "TokenBurn"}
    BY <1>2, <1>9
  <2>2. ApplyRow(Acc(s), r, tx, "Normal", reverse) = [Acc(s) EXCEPT !.state = after]
    BY <1>7, <2>1, RowMints
  <2>3. after = apply_supply_delta(s, Back(reverse), b.op.value)
    BY <1>2, <1>7, AccFields
  <2> HIDE DEF after
  <2>4. [Acc(s) EXCEPT !.state = after] = Acc(after)
    BY AccFields
  <2> QED
    BY <1>6, <1>9, <2>2, <2>3, <2>4, AccState DEF tx
<1> QED
  BY <1>8, <1>9

\* An inflation raises the supply once, by the result of the call, and moves no stake.
LEMMA InflationTx ==
  ASSUME NEW s, NEW b, NEW reverse \in BOOLEAN, b.op.do = "inflation"
  PROVE  apply_stake_snapshot_transaction(s, TxOf(b), reverse) = apply_supply_delta(s, Way(reverse), b.op.value)
<1> DEFINE m == Row("TokenMint", Soul, b.op.addr, 1, 2)
           k == Row("TokenMint", Soul, b.op.addr, 1, 2)
           r == Row("TokenStake", Soul, b.op.addr, 1, 2)
           rows == <<m, k, r>>
           tx == TxOf(b)
<1>1. RowsOf(b.op) = rows
  BY Zenon DEF RowsOf
<1>2. /\ m.kind = "TokenMint" /\ m.token = Soul /\ m.addr = b.op.addr /\ m.value = 1 /\ m.format = 2 /\ m.quote = FALSE
      /\ k.kind = "TokenMint" /\ k.token = Soul /\ k.addr = b.op.addr /\ k.value = 1 /\ k.format = 2 /\ k.quote = FALSE
      /\ r.kind = "TokenStake" /\ r.token = Soul /\ r.addr = b.op.addr /\ r.value = 1 /\ r.format = 2 /\ r.quote = FALSE
  BY Zenon DEF Row
<1> HIDE DEF m, k, r, tx
<1>3. rows \in Seq({m, k, r}) /\ DOMAIN rows = {1, 2, 3} /\ Len(rows) = 3 /\ rows[1] = m /\ rows[2] = k /\ rows[3] = r
  OBVIOUS
<1> HIDE DEF rows
<1>4. tx.rows = rows /\ deduplicate_stake_snapshot_tx_rows(tx.rows) = rows
  <2>1. \A i \in 1..Len(rows) : i = 1 \/ i = 2 \/ i = 3
    BY <1>3
  <2>2. \A i \in 1..Len(rows) : rows[i].format = 2
    BY <1>2, <1>3, <2>1
  <2> QED
    BY <1>1, <1>3, <2>2, LiveTx DEF tx
<1>5. classify_stake_snapshot_transaction(tx) = "SmReward"
  <2>1. 1 \in DOMAIN tx.rows /\ tx.rows[1].kind = "TokenMint" /\ tx.rows[1].token = Soul
    BY <1>2, <1>3, <1>4
  <2> QED
    BY <2>1, Zenon DEF classify_stake_snapshot_transaction
<1>6. apply_stake_snapshot_transaction(s, tx, reverse)
        = ApplyRow(ApplyRow(ApplyRow(Acc(s), m, tx, "SmReward", reverse), k, tx, "SmReward", reverse), r, tx, "SmReward", reverse).state
  BY <1>4, <1>5, ThreeRowsApplied DEF rows
<1> DEFINE one == [state |-> apply_supply_delta(s, Way(reverse), b.op.value), inflated |-> TRUE]
<1>7. Sign("TokenMint", reverse) = Way(reverse) /\ tx.result = <<b.op.value>> /\ tx.result # << >> /\ tx.result[1] = b.op.value
  <2>1. tx.result = <<b.op.value>>
    BY TxFields DEF tx
  <2> QED
    BY <2>1, Signs DEF Way
<1>a. /\ ~(m.value <= 0) /\ m.token = Soul /\ m.kind \in {"TokenMint", "TokenBurn"}
      /\ ~(k.value <= 0) /\ k.token = Soul /\ k.kind \in {"TokenMint", "TokenBurn"}
  BY <1>2
<1>b. ~Acc(s).inflated /\ Acc(s).state = s
  BY AccFields
<1>8. ApplyRow(Acc(s), m, tx, "SmReward", reverse) = one
  <2>1. ApplyRow(Acc(s), m, tx, "SmReward", reverse)
          = [state |-> apply_supply_delta(Acc(s).state, Sign(m.kind, reverse), tx.result[1]), inflated |-> TRUE]
    <3>1. m.kind \notin {"TokenStake", "TokenClaim"}
      BY <1>2
    <3> QED
      BY <1>7, <1>a, <1>b, <3>1, Zenon DEF ApplyRow
  <2>2. apply_supply_delta(Acc(s).state, Sign(m.kind, reverse), tx.result[1]) = apply_supply_delta(s, Way(reverse), b.op.value)
    BY <1>2, <1>7, <1>b
  <2> QED
    BY <2>1, <2>2, Zenon
<1>c. one.inflated
  BY Zenon
<1>d. one.state = apply_supply_delta(s, Way(reverse), b.op.value)
  BY Zenon
<1> HIDE DEF one
<1>9. ApplyRow(one, k, tx, "SmReward", reverse) = one
  BY <1>7, <1>a, <1>c, RowMints
<1>10. ApplyRow(one, r, tx, "SmReward", reverse) = one
  BY <1>2, RowKept
<1> QED
  BY <1>6, <1>8, <1>9, <1>10, <1>d DEF tx

\* A stake that the backfill stored twice counts once.
LEMMA BackfillTx ==
  ASSUME NEW s, NEW b, NEW reverse \in BOOLEAN, b.op.do = "backfill"
  PROVE  apply_stake_snapshot_transaction(s, TxOf(b), reverse) = Moved(s, b.op.addr, b.op.value, Way(reverse))
<1> DEFINE r == Row("TokenStake", Soul, b.op.addr, b.op.value, 1)
           rows == <<r, r>>
           tx == TxOf(b)
<1>1. RowsOf(b.op) = rows
  BY Zenon DEF RowsOf
<1>2. /\ r.kind = "TokenStake" /\ r.token = Soul /\ r.addr = b.op.addr /\ r.value = b.op.value
      /\ r.format = 1 /\ r.quote = FALSE
  BY Zenon DEF Row
<1> HIDE DEF r, tx
<1>3. DOMAIN rows = {1, 2} /\ rows[1] = r /\ rows[2] = r
  OBVIOUS
<1>4. tx.rows = rows /\ deduplicate_stake_snapshot_tx_rows(tx.rows) = <<r>>
  <2>1. Projected(rows) = rows /\ deduplicate_stake_snapshot_tx_rows(rows) = <<r>>
    BY <1>2, CopiedRows
  <2>2. tx.rows = Projected(RowsOf(b.op))
    BY TxFields DEF tx
  <2> QED
    BY <1>1, <2>1, <2>2
<1> HIDE DEF rows
<1>5. classify_stake_snapshot_transaction(tx) = "Normal"
  <2>1. \A i \in DOMAIN rows : ~(rows[i].kind = "TokenMint" /\ rows[i].token = Soul) /\ rows[i].quote = FALSE
    BY <1>2, <1>3
  <2> QED
    BY <1>4, <2>1, PlainTx DEF tx
<1>6. apply_stake_snapshot_transaction(s, tx, reverse) = ApplyRow(Acc(s), r, tx, "Normal", reverse).state
  BY <1>4, <1>5, OneRowApplied
<1>7. ApplyRow(Acc(s), r, tx, "Normal", reverse) = Acc(Moved(s, b.op.addr, b.op.value, Sign("TokenStake", reverse)))
  BY <1>2, RowMoves
<1>8. Sign("TokenStake", reverse) = Way(reverse)
  BY Signs DEF Way
<1> QED
  BY <1>6, <1>7, <1>8, AccState DEF tx

\* A stake row of a market order moves no stake.
LEMMA MarketTx ==
  ASSUME NEW s, NEW b, NEW reverse \in BOOLEAN, b.op.do = "market"
  PROVE  apply_stake_snapshot_transaction(s, TxOf(b), reverse) = s
<1> DEFINE m == [Row("OrderFilled", "", b.op.addr, 0, 2) EXCEPT !.quote = TRUE]
           r == Row("TokenStake", Soul, b.op.addr, b.op.value, 2)
           rows == <<m, r>>
           tx == TxOf(b)
<1>1. RowsOf(b.op) = rows
  BY Zenon DEF RowsOf
<1>2. /\ m.kind = "OrderFilled" /\ m.token # Soul /\ m.format = 2
      /\ r.kind = "TokenStake" /\ r.token = Soul /\ r.format = 2
  <2>1. /\ r.kind = "TokenStake" /\ r.token = Soul /\ r.format = 2
    BY Zenon DEF Row
  <2>2. m.kind = "OrderFilled" /\ m.token # Soul /\ m.format = 2
    BY Zenon DEF Row, Soul
  <2> QED
    BY <2>1, <2>2
<1>q. m.quote
  BY Zenon DEF Row
<1> HIDE DEF m, r, tx
<1>3. rows \in Seq({m, r}) /\ DOMAIN rows = {1, 2} /\ Len(rows) = 2 /\ rows[1] = m /\ rows[2] = r
  OBVIOUS
<1> HIDE DEF rows
<1>4. tx.rows = rows /\ deduplicate_stake_snapshot_tx_rows(tx.rows) = rows
  <2>1. \A i \in 1..Len(rows) : i = 1 \/ i = 2
    BY <1>3
  <2>2. \A i \in 1..Len(rows) : rows[i].format = 2
    BY <1>2, <1>3, <2>1
  <2> QED
    BY <1>1, <1>3, <2>2, LiveTx DEF tx
<1>5. classify_stake_snapshot_transaction(tx) = "MarketEvent"
  <2>1. ~ \E i \in DOMAIN tx.rows : tx.rows[i].kind = "TokenMint" /\ tx.rows[i].token = Soul
    BY <1>2, <1>3, <1>4
  <2>2. ~tx.claimCall
    BY TxFields DEF tx
  <2>3. 1 \in DOMAIN tx.rows /\ tx.rows[1].quote
    BY <1>3, <1>4, <1>q
  <2> QED
    BY <2>1, <2>2, <2>3, Zenon DEF classify_stake_snapshot_transaction
<1>6. apply_stake_snapshot_transaction(s, tx, reverse)
        = ApplyRow(ApplyRow(Acc(s), m, tx, "MarketEvent", reverse), r, tx, "MarketEvent", reverse).state
  BY <1>4, <1>5, TwoRowsApplied DEF rows
<1>7. ApplyRow(Acc(s), m, tx, "MarketEvent", reverse) = Acc(s)
  BY <1>2, RowSkipped
<1>8. ApplyRow(Acc(s), r, tx, "MarketEvent", reverse) = Acc(s)
  BY <1>2, RowKept
<1> QED
  BY <1>6, <1>7, <1>8, AccState DEF tx

\* A transaction without rows.
LEMMA OtherTx ==
  ASSUME NEW s, NEW b, NEW reverse,
         b.op.do \notin {"stake", "unstake", "restake", "backfill", "reward", "market", "inflation", "burn"}
  PROVE  apply_stake_snapshot_transaction(s, TxOf(b), reverse) = s
<1>1. RowsOf(b.op) = << >>
  BY Zenon DEF RowsOf
<1>2. << >> \in Seq({}) /\ \A i \in 1..Len(<< >>) : << >>[i].format = 2
  OBVIOUS
<1>3. deduplicate_stake_snapshot_tx_rows(TxOf(b).rows) = << >>
  BY <1>1, <1>2, LiveTx
<1> QED
  BY <1>3, NoRowApplied

------------------------------------------------------------------------------
(* A transaction in both directions. *)

Directions == {-1, 1}
Holdings == [Addr -> Nat]

\* stakes after a move of v one way or the other
Shift(f, a, v, sign) == Adjusted(f, a, sign * v)

LEMMA MovedShift ==
  ASSUME NEW f \in Holdings, NEW u \in Nat, NEW a \in Addr, NEW v \in Nat, NEW sign \in Directions
  PROVE  /\ Moved(CountStakes(f, u), a, v, sign) = CountStakes(Shift(f, a, v, sign), u)
         /\ Shift(f, a, v, sign) \in Holdings
  BY MovedCounts DEF Shift, Directions, Holdings

\* the supply after a mint or a burn
Refill(u, v, sign) == Floor(u + sign * v)

LEMMA SupplyShift ==
  ASSUME NEW f \in Holdings, NEW u \in Nat, NEW v \in Nat, NEW sign \in Directions
  PROVE  /\ apply_supply_delta(CountStakes(f, u), sign, v) = CountStakes(f, Refill(u, v, sign))
         /\ Refill(u, v, sign) \in Nat
<1>1. sign \in {-1, 1} /\ f \in [Addr -> Nat]
  BY DEF Directions, Holdings
<1>2. Refill(u, v, sign) \in Nat
  BY <1>1 DEF Refill, Floor
<1>3. apply_supply_delta(CountStakes(f, u), sign, v) = CountStakes(f, Floor(u + sign * v))
  <2>1. CASE sign = 1
    BY <1>1, <2>1, SupplyCounts
  <2>2. CASE sign = -1
    BY <1>1, <2>2, SupplyCounts
  <2> QED
    BY <1>1, <2>1, <2>2
<1> QED
  BY <1>2, <1>3, Zenon DEF Refill

LEMMA RefillNone == ASSUME NEW u \in Nat, NEW sign \in Directions PROVE Refill(u, 0, sign) = u
  BY DEF Refill, Floor, Directions

\* The three rows of a restake.
LEMMA ThreeMoves ==
  ASSUME NEW f \in Holdings, NEW u \in Nat, NEW a \in Addr, NEW v \in Nat, NEW w \in Nat,
         NEW back \in Directions, NEW way \in Directions
  PROVE  /\ Moved(Moved(Moved(CountStakes(f, u), a, v, back), a, w, way), a, w, way)
              = CountStakes(Shift(Shift(Shift(f, a, v, back), a, w, way), a, w, way), u)
         /\ Shift(Shift(Shift(f, a, v, back), a, w, way), a, w, way) \in Holdings
<1> DEFINE g1 == Shift(f, a, v, back)
           g2 == Shift(g1, a, w, way)
           g3 == Shift(g2, a, w, way)
<1>1. Moved(CountStakes(f, u), a, v, back) = CountStakes(g1, u) /\ g1 \in Holdings
  BY MovedShift
<1> HIDE DEF g1
<1>2. Moved(CountStakes(g1, u), a, w, way) = CountStakes(g2, u) /\ g2 \in Holdings
  BY <1>1, MovedShift, ZenonT(40)
<1> HIDE DEF g2
<1>3. Moved(CountStakes(g2, u), a, w, way) = CountStakes(g3, u) /\ g3 \in Holdings
  BY <1>2, MovedShift, ZenonT(40)
<1> QED
  BY <1>1, <1>2, <1>3, Zenon DEF g1, g2

\* The node whose recount a transaction leaves, forward or in reverse.
After(n, op, reverse) ==
  IF op.do \in {"stake", "backfill"}
  THEN [stakes |-> Shift(n.stakes, op.addr, op.value, Way(reverse)), supply |-> n.supply]
  ELSE IF op.do = "unstake"
  THEN [stakes |-> Shift(n.stakes, op.addr, op.value, Back(reverse)), supply |-> n.supply]
  ELSE IF op.do = "restake"
  THEN [stakes |-> Shift(Shift(Shift(n.stakes, op.addr, op.value, Back(reverse)), op.addr, 1, Way(reverse)),
                         op.addr, 1, Way(reverse)),
        supply |-> n.supply]
  ELSE IF op.do = "inflation"
  THEN [stakes |-> n.stakes, supply |-> Refill(n.supply, op.value, Way(reverse))]
  ELSE IF op.do = "burn"
  THEN [stakes |-> n.stakes, supply |-> Refill(n.supply, op.value, Back(reverse))]
  ELSE n

LEMMA NodeFields ==
  ASSUME NEW f, NEW u
  PROVE  /\ [stakes |-> f, supply |-> u].stakes = f /\ [stakes |-> f, supply |-> u].supply = u
         /\ CountOf([stakes |-> f, supply |-> u]) = CountStakes(f, u)
         /\ f \in [Addr -> Nat] /\ u \in Nat => [stakes |-> f, supply |-> u] \in Nodes
<1>1. [stakes |-> f, supply |-> u].stakes = f /\ [stakes |-> f, supply |-> u].supply = u
  OBVIOUS
<1>2. f \in [Addr -> Nat] /\ u \in Nat => [stakes |-> f, supply |-> u] \in Nodes
  BY DEF Nodes
<1> QED
  BY <1>1, <1>2, Zenon DEF CountOf

LEMMA NodeShape ==
  ASSUME NEW n \in Nodes
  PROVE  n.stakes \in [Addr -> Nat] /\ n.supply \in Nat /\ n = [stakes |-> n.stakes, supply |-> n.supply]
  BY DEF Nodes

LEMMA Ways == ASSUME NEW reverse \in BOOLEAN PROVE Way(reverse) \in Directions /\ Back(reverse) \in Directions
  BY DEF Way, Back, Directions

\* A transaction takes a counted state to a counted state: whatever the seed was, the counters
\* never drift from the stakes.
LEMMA TxAfter ==
  ASSUME NEW n \in Nodes, NEW b, NEW reverse \in BOOLEAN, Typed(b.op) \/ b.op.do = "none"
  PROVE  /\ apply_stake_snapshot_transaction(CountOf(n), TxOf(b), reverse) = CountOf(After(n, b.op, reverse))
         /\ After(n, b.op, reverse) \in Nodes
<1> DEFINE f == n.stakes
           u == n.supply
           a == b.op.addr
           v == b.op.value
           way == Way(reverse)
           back == Back(reverse)
           after == After(n, b.op, reverse)
           result == apply_stake_snapshot_transaction(CountOf(n), TxOf(b), reverse)
<1>0. f \in Holdings /\ u \in Nat /\ CountOf(n) = CountStakes(f, u)
  BY NodeShape DEF CountOf, Holdings
<1>w. way \in Directions /\ back \in Directions
  BY Ways
<1>t. b.op.do # "none" => a \in Addr /\ v \in Nat
  BY DEF Typed
<1> SUFFICES result = CountOf(after) /\ after \in Nodes
  BY Zenon
<1>1. CASE b.op.do \in {"stake", "backfill"}
  <2> DEFINE g == Shift(f, a, v, way)
  <2>1. result = Moved(CountStakes(f, u), a, v, way)
    <3>1. CASE b.op.do = "stake"
      BY <1>0, <3>1, StakeTx
    <3>2. CASE b.op.do = "backfill"
      BY <1>0, <3>2, BackfillTx
    <3> QED
      BY <1>1, <3>1, <3>2
  <2>2. Moved(CountStakes(f, u), a, v, way) = CountStakes(g, u) /\ g \in Holdings
    BY <1>0, <1>1, <1>t, <1>w, MovedShift
  <2>3. after = [stakes |-> g, supply |-> u]
    BY <1>1, Zenon DEF After
  <2> HIDE DEF g, f, u, after, result
  <2> QED
    BY <1>0, <2>1, <2>2, <2>3, NodeFields DEF Holdings
<1>2. CASE b.op.do = "unstake"
  <2> DEFINE g == Shift(f, a, v, back)
  <2>1. result = Moved(CountStakes(f, u), a, v, back)
    BY <1>0, <1>2, UnstakeTx
  <2>2. Moved(CountStakes(f, u), a, v, back) = CountStakes(g, u) /\ g \in Holdings
    BY <1>0, <1>2, <1>t, <1>w, MovedShift
  <2>3. after = [stakes |-> g, supply |-> u]
    BY <1>2, Zenon DEF After
  <2> HIDE DEF g, f, u, after, result
  <2> QED
    BY <1>0, <2>1, <2>2, <2>3, NodeFields DEF Holdings
<1>3. CASE b.op.do = "restake"
  <2> DEFINE g == Shift(Shift(Shift(f, a, v, back), a, 1, way), a, 1, way)
  <2>1. result = Moved(Moved(Moved(CountStakes(f, u), a, v, back), a, 1, way), a, 1, way)
    BY <1>0, <1>3, RestakeTx
  <2>2. Moved(Moved(Moved(CountStakes(f, u), a, v, back), a, 1, way), a, 1, way) = CountStakes(g, u) /\ g \in Holdings
    <3>1. a \in Addr /\ v \in Nat /\ 1 \in Nat
      BY <1>3, <1>t
    <3> QED
      BY <1>0, <1>w, <3>1, ThreeMoves, Zenon
  <2>3. after = [stakes |-> g, supply |-> u]
    BY <1>3, Zenon DEF After
  <2> HIDE DEF g, f, u, after, result
  <2> QED
    BY <1>0, <2>1, <2>2, <2>3, NodeFields DEF Holdings
<1>4. CASE b.op.do = "inflation"
  <2> DEFINE w == Refill(u, v, way)
  <2>1. result = apply_supply_delta(CountStakes(f, u), way, v)
    BY <1>0, <1>4, InflationTx
  <2>2. apply_supply_delta(CountStakes(f, u), way, v) = CountStakes(f, w) /\ w \in Nat
    BY <1>0, <1>4, <1>t, <1>w, SupplyShift
  <2>3. after = [stakes |-> f, supply |-> w]
    BY <1>4, Zenon DEF After
  <2> HIDE DEF w, f, u, after, result
  <2> QED
    BY <1>0, <2>1, <2>2, <2>3, NodeFields DEF Holdings
<1>5. CASE b.op.do = "burn"
  <2> DEFINE w == Refill(u, v, back)
  <2>0. v \in Nat
    BY <1>5, <1>t
  <2>1. result = IF v = 0 THEN CountStakes(f, u) ELSE apply_supply_delta(CountStakes(f, u), back, v)
    BY <1>0, <1>5, <2>0, BurnTx
  <2>2. apply_supply_delta(CountStakes(f, u), back, v) = CountStakes(f, w) /\ w \in Nat
    BY <1>0, <2>0, <1>w, SupplyShift, Zenon
  <2>3. after = [stakes |-> f, supply |-> w]
    BY <1>5, Zenon DEF After
  <2>4. v = 0 => w = u
    BY <1>0, <1>w, RefillNone
  <2> HIDE DEF w, f, u, after, result
  <2> QED
    BY <1>0, <2>1, <2>2, <2>3, <2>4, NodeFields DEF Holdings
<1>6. CASE b.op.do \notin {"stake", "backfill", "unstake", "restake", "inflation", "burn"}
  <2>1. result = CountOf(n)
    <3>1. CASE b.op.do = "reward"
      BY <3>1, RewardTx
    <3>2. CASE b.op.do = "market"
      BY <3>2, MarketTx
    <3>3. CASE b.op.do \notin {"reward", "market"}
      BY <1>6, <3>3, OtherTx
    <3> QED
      BY <3>1, <3>2, <3>3
  <2>2. after = n
    BY <1>6, Zenon DEF After
  <2> QED
    BY <2>1, <2>2
<1> QED
  BY <1>1, <1>2, <1>3, <1>4, <1>5, <1>6

\* Replayed forward, a transaction does to the counted state what it did to the node.
LEMMA ForwardIsNode ==
  ASSUME NEW n \in Nodes, NEW op, Typed(op), Executes(n, op)
  PROVE  After(n, op, FALSE) = NodeStep(n, op)
<1> DEFINE f == n.stakes
           u == n.supply
           a == op.addr
           v == op.value
<1>0. f \in [Addr -> Nat] /\ u \in Nat /\ n = [stakes |-> f, supply |-> u]
  BY NodeShape
<1>w. Way(FALSE) = 1 /\ Back(FALSE) = -1
  BY DEF Way, Back
<1>t. a \in Addr /\ v \in Nat
  BY DEF Typed
<1>1. CASE op.do \in {"stake", "backfill"}
  <2>1. NodeStep(n, op) = [n EXCEPT !.stakes[op.addr] = @ + op.value]
    BY <1>1, Zenon DEF NodeStep
  <2>2. After(n, op, FALSE) = [stakes |-> Adjusted(f, a, 1 * v), supply |-> u]
    BY <1>1, <1>w, Zenon DEF After, Shift
  <2>3. Adjusted(f, a, 1 * v) = [f EXCEPT ![a] = f[a] + v]
    BY <1>0, <1>t DEF Adjusted, Floor
  <2> QED
    BY <1>0, <1>t, <2>1, <2>2, <2>3
<1>2. CASE op.do = "unstake"
  <2>0. f[a] >= v
    BY <1>2 DEF Executes
  <2>1. NodeStep(n, op) = [n EXCEPT !.stakes[op.addr] = @ - op.value]
    BY <1>2, Zenon DEF NodeStep
  <2>2. After(n, op, FALSE) = [stakes |-> Adjusted(f, a, (-1) * v), supply |-> u]
    BY <1>2, <1>w, Zenon DEF After, Shift
  <2>3. Adjusted(f, a, (-1) * v) = [f EXCEPT ![a] = f[a] - v]
    BY <1>0, <1>t, <2>0 DEF Adjusted, Floor
  <2> QED
    BY <1>0, <1>t, <2>1, <2>2, <2>3
<1>3. CASE op.do = "restake"
  <2>0. f[a] >= v
    BY <1>3 DEF Executes
  <2>1. NodeStep(n, op) = [n EXCEPT !.stakes[op.addr] = @ - op.value + 2]
    BY <1>3, Zenon DEF NodeStep
  <2> DEFINE g1 == [f EXCEPT ![a] = f[a] - v]
             g2 == [f EXCEPT ![a] = f[a] - v + 1]
             g3 == [f EXCEPT ![a] = f[a] - v + 2]
  <2>2. After(n, op, FALSE) = [stakes |-> Adjusted(Adjusted(Adjusted(f, a, (-1) * v), a, 1 * 1), a, 1 * 1), supply |-> u]
    BY <1>3, <1>w, Zenon DEF After, Shift
  <2>3. Adjusted(f, a, (-1) * v) = g1
    BY <1>0, <1>t, <2>0 DEF Adjusted, Floor
  <2>4. Adjusted(g1, a, 1 * 1) = g2
    BY <1>0, <1>t, <2>0 DEF Adjusted, Floor
  <2>5. Adjusted(g2, a, 1 * 1) = g3
    BY <1>0, <1>t, <2>0 DEF Adjusted, Floor
  <2>6. After(n, op, FALSE) = [stakes |-> g3, supply |-> u]
    <3> HIDE DEF g1, g2, g3
    <3> QED
      BY <2>2, <2>3, <2>4, <2>5, Zenon
  <2> QED
    BY <1>0, <1>t, <2>1, <2>6
<1>4. CASE op.do = "inflation"
  <2>1. NodeStep(n, op) = [n EXCEPT !.supply = @ + op.value]
    BY <1>4, Zenon DEF NodeStep
  <2>2. After(n, op, FALSE) = [stakes |-> f, supply |-> Floor(u + 1 * v)]
    BY <1>4, <1>w, Zenon DEF After, Refill
  <2>3. Floor(u + 1 * v) = u + v
    BY <1>0, <1>t DEF Floor
  <2> QED
    BY <1>0, <1>t, <2>1, <2>2, <2>3
<1>5. CASE op.do = "burn"
  <2>0. u >= v
    BY <1>5 DEF Executes
  <2>1. NodeStep(n, op) = [n EXCEPT !.supply = @ - op.value]
    BY <1>5, Zenon DEF NodeStep
  <2>2. After(n, op, FALSE) = [stakes |-> f, supply |-> Floor(u + (-1) * v)]
    BY <1>5, <1>w, Zenon DEF After, Refill
  <2>3. Floor(u + (-1) * v) = u - v
    BY <1>0, <1>t, <2>0 DEF Floor
  <2> QED
    BY <1>0, <1>t, <2>1, <2>2, <2>3
<1>6. CASE op.do \notin {"stake", "backfill", "unstake", "restake", "inflation", "burn"}
  BY <1>6, Zenon DEF After, NodeStep
<1> QED
  BY <1>1, <1>2, <1>3, <1>4, <1>5, <1>6

\* A move that was not clamped is undone by its opposite.
LEMMA AdjustedBack ==
  ASSUME NEW f \in [Addr -> Nat], NEW a \in Addr, NEW x \in Nat, NEW d \in Int, x + d = f[a]
  PROVE  Adjusted([f EXCEPT ![a] = x], a, d) = f
<1> DEFINE g == [f EXCEPT ![a] = x]
<1>1. g[a] = x /\ Floor(x + d) = f[a]
  BY DEF Floor
<1>2. Adjusted(g, a, d) = [g EXCEPT ![a] = f[a]]
  BY <1>1, Zenon DEF Adjusted
<1>3. [g EXCEPT ![a] = f[a]] = f
  OBVIOUS
<1> QED
  BY <1>2, <1>3, Zenon

\* Replayed in reverse, it takes the node's state after it back to the state before it.
LEMMA BackwardIsNode ==
  ASSUME NEW n \in Nodes, NEW op, Typed(op), Executes(n, op)
  PROVE  After(NodeStep(n, op), op, TRUE) = n
<1> DEFINE f == n.stakes
           u == n.supply
           a == op.addr
           v == op.value
           m == NodeStep(n, op)
<1>0. f \in [Addr -> Nat] /\ u \in Nat /\ n = [stakes |-> f, supply |-> u]
  BY NodeShape
<1>w. Way(TRUE) = -1 /\ Back(TRUE) = 1
  BY DEF Way, Back
<1>t. a \in Addr /\ v \in Nat
  BY DEF Typed
<1>1. CASE op.do \in {"stake", "backfill"}
  <2> DEFINE g == [f EXCEPT ![a] = f[a] + v]
  <2>1. m = [n EXCEPT !.stakes[op.addr] = @ + op.value]
    BY <1>1, Zenon DEF NodeStep
  <2>2. m.stakes = g /\ m.supply = u
    BY <1>0, <1>t, <2>1
  <2>3. After(m, op, TRUE) = [stakes |-> Adjusted(m.stakes, a, (-1) * v), supply |-> m.supply]
    BY <1>1, <1>w, Zenon DEF After, Shift
  <2>4. Adjusted(g, a, (-1) * v) = f
    <3>1. f[a] + v \in Nat /\ (-1) * v \in Int /\ (f[a] + v) + (-1) * v = f[a]
      BY <1>0, <1>t
    <3> QED
      BY <1>0, <1>t, <3>1, AdjustedBack
  <2> QED
    BY <1>0, <2>2, <2>3, <2>4, Zenon
<1>2. CASE op.do = "unstake"
  <2> DEFINE g == [f EXCEPT ![a] = f[a] - v]
  <2>0. f[a] >= v
    BY <1>2 DEF Executes
  <2>1. m = [n EXCEPT !.stakes[op.addr] = @ - op.value]
    BY <1>2, Zenon DEF NodeStep
  <2>2. m.stakes = g /\ m.supply = u
    BY <1>0, <1>t, <2>1
  <2>3. After(m, op, TRUE) = [stakes |-> Adjusted(m.stakes, a, 1 * v), supply |-> m.supply]
    BY <1>2, <1>w, Zenon DEF After, Shift
  <2>4. Adjusted(g, a, 1 * v) = f
    <3>1. f[a] - v \in Nat /\ 1 * v \in Int /\ (f[a] - v) + 1 * v = f[a]
      BY <1>0, <1>t, <2>0
    <3> QED
      BY <1>0, <1>t, <3>1, AdjustedBack
  <2> QED
    BY <1>0, <2>2, <2>3, <2>4, Zenon
<1>3. CASE op.do = "restake"
  <2>0. f[a] >= v
    BY <1>3 DEF Executes
  <2> DEFINE g == [f EXCEPT ![a] = f[a] - v + 2]
             g1 == [f EXCEPT ![a] = f[a] + 2]
             g2 == [f EXCEPT ![a] = f[a] + 1]
  <2>1. m = [n EXCEPT !.stakes[op.addr] = @ - op.value + 2]
    BY <1>3, Zenon DEF NodeStep
  <2>2. m.stakes = g /\ m.supply = u
    BY <1>0, <1>t, <2>1
  <2>3. After(m, op, TRUE)
          = [stakes |-> Adjusted(Adjusted(Adjusted(m.stakes, a, 1 * v), a, (-1) * 1), a, (-1) * 1), supply |-> m.supply]
    BY <1>3, <1>w, Zenon DEF After, Shift
  <2>4. Adjusted(g, a, 1 * v) = g1
    BY <1>0, <1>t, <2>0 DEF Adjusted, Floor
  <2>5. Adjusted(g1, a, (-1) * 1) = g2
    BY <1>0, <1>t DEF Adjusted, Floor
  <2>6. Adjusted(g2, a, (-1) * 1) = f
    <3>1. f[a] + 1 \in Nat /\ (-1) * 1 \in Int /\ (f[a] + 1) + (-1) * 1 = f[a]
      BY <1>0, <1>t
    <3> QED
      BY <1>0, <1>t, <3>1, AdjustedBack
  <2> HIDE DEF g, g1, g2
  <2> QED
    BY <1>0, <2>2, <2>3, <2>4, <2>5, <2>6, Zenon
<1>4. CASE op.do = "inflation"
  <2>1. m = [n EXCEPT !.supply = @ + op.value]
    BY <1>4, Zenon DEF NodeStep
  <2>2. m.stakes = f /\ m.supply = u + v
    BY <1>0, <1>t, <2>1
  <2>3. After(m, op, TRUE) = [stakes |-> m.stakes, supply |-> Floor(m.supply + (-1) * v)]
    BY <1>4, <1>w, Zenon DEF After, Refill
  <2>4. Floor((u + v) + (-1) * v) = u
    BY <1>0, <1>t DEF Floor
  <2> QED
    BY <1>0, <2>2, <2>3, <2>4, Zenon
<1>5. CASE op.do = "burn"
  <2>0. u >= v
    BY <1>5 DEF Executes
  <2>1. m = [n EXCEPT !.supply = @ - op.value]
    BY <1>5, Zenon DEF NodeStep
  <2>2. m.stakes = f /\ m.supply = u - v
    BY <1>0, <1>t, <2>1
  <2>3. After(m, op, TRUE) = [stakes |-> m.stakes, supply |-> Floor(m.supply + 1 * v)]
    BY <1>5, <1>w, Zenon DEF After, Refill
  <2>4. Floor((u - v) + 1 * v) = u
    BY <1>0, <1>t, <2>0 DEF Floor
  <2> QED
    BY <1>0, <2>2, <2>3, <2>4, Zenon
<1>6. CASE op.do \notin {"stake", "backfill", "unstake", "restake", "inflation", "burn"}
  BY <1>6, Zenon DEF After, NodeStep
<1> QED
  BY <1>1, <1>2, <1>3, <1>4, <1>5, <1>6

\* The two directions, on counted states.
LEMMA StepForward ==
  ASSUME NEW n \in Nodes, NEW b, Typed(b.op), Executes(n, b.op)
  PROVE  /\ apply_stake_snapshot_transaction(CountOf(n), TxOf(b), FALSE) = CountOf(NodeStep(n, b.op))
         /\ NodeStep(n, b.op) \in Nodes
  BY TxAfter, ForwardIsNode

LEMMA StepBackward ==
  ASSUME NEW n \in Nodes, NEW b, Typed(b.op), Executes(n, b.op)
  PROVE  apply_stake_snapshot_transaction(CountOf(NodeStep(n, b.op)), TxOf(b), TRUE) = CountOf(n)
<1>1. NodeStep(n, b.op) \in Nodes
  BY StepForward
<1>2. apply_stake_snapshot_transaction(CountOf(NodeStep(n, b.op)), TxOf(b), TRUE)
        = CountOf(After(NodeStep(n, b.op), b.op, TRUE))
  BY <1>1, TxAfter
<1> QED
  BY <1>2, BackwardIsNode

------------------------------------------------------------------------------
(* The node's history, and the stored transactions as a segment of it. *)

\* Stored blocks are a prefix of a chain of timestamped blocks.
ChainInv ==
  /\ \E S : chain \in Seq(S)
  /\ Len(chain) > 0 /\ \A i \in 1..Len(chain) : chain[i].ts \in Nat
  /\ indexed \in 0..Len(chain)

\* The node's history: every block leaves what its operation does to the stakes before it.
HistoryInv ==
  /\ node \in Seq(Nodes) /\ Len(node) = Len(chain)
  /\ chain[1].ts = BoundaryTime /\ chain[1].op.do = "none"
  /\ \A i \in 1..(Len(chain) - 1) :
       /\ chain[i].ts <= chain[i + 1].ts
       /\ Typed(chain[i + 1].op) /\ Executes(node[i], chain[i + 1].op)
       /\ node[i + 1] = NodeStep(node[i], chain[i + 1].op)

\* The transactions of the blocks after lo, up to hi.
Segment(lo, hi) == [i \in 1..(hi - lo) |-> TxOf(chain[lo + i])]

\* Block i is the last one of the day, and a later one exists.
EndOfDay(d, i) ==
  /\ i \in 1..(Len(chain) - 1)
  /\ chain[i].ts <= stake_snapshot_day_end(d) /\ stake_snapshot_day_end(d) < chain[i + 1].ts

\* The blocks of a chain are in the order of their timestamps.
LEMMA Ordered ==
  ASSUME ChainInv, HistoryInv, NEW i \in 1..Len(chain), NEW j \in 1..Len(chain), i <= j
  PROVE  chain[i].ts <= chain[j].ts
<1> DEFINE Good == {k \in Nat : i + k \in 1..Len(chain) => chain[i].ts <= chain[i + k].ts}
<1>0. Len(chain) \in Nat /\ i \in Nat /\ \A k \in 1..Len(chain) : chain[k].ts \in Nat
  BY DEF ChainInv
<1>1. 0 \in Good
  BY <1>0
<1>2. ASSUME NEW k \in Nat, k \in Good PROVE k + 1 \in Good
  <2> SUFFICES ASSUME i + (k + 1) \in 1..Len(chain) PROVE chain[i].ts <= chain[i + (k + 1)].ts
    OBVIOUS
  <2>1. i + k \in 1..(Len(chain) - 1) /\ i + k \in 1..Len(chain) /\ (i + k) + 1 = i + (k + 1)
    BY <1>0
  <2>2. chain[i + k].ts <= chain[(i + k) + 1].ts
    BY <2>1 DEF HistoryInv
  <2>3. chain[i].ts <= chain[i + k].ts
    BY <1>2, <2>1
  <2> QED
    BY <1>0, <2>1, <2>2, <2>3
<1>3. \A k \in Nat : k \in Good
  <2> HIDE DEF Good
  <2> QED
    BY <1>1, <1>2, UpwardInduction
<1>4. j - i \in Nat /\ i + (j - i) = j
  BY <1>0
<1> QED
  BY <1>3, <1>4

\* The blocks of 1..n that a bound admits are the first ones.
LEMMA Cut ==
  ASSUME NEW n \in Nat, NEW S, \A i, j \in 1..n : i <= j /\ j \in S => i \in S
  PROVE  \E m \in 0..n : \A i \in 1..n : i \in S <=> i <= m
<1> DEFINE T == {i \in 1..n : i \notin S}
<1>1. CASE T = {}
  BY <1>1
<1>2. CASE T # {}
  <2>1. PICK m \in T : \A k \in T : m <= k
    <3>1. T \in SUBSET Nat
      OBVIOUS
    <3> QED
      BY <1>2, <3>1, LeastNatural
  <2>2. m - 1 \in 0..n
    BY <2>1
  <2>3. \A i \in 1..n : i \in S <=> i <= m - 1
    BY <2>1
  <2> QED
    BY <2>2, <2>3
<1> QED
  BY <1>1, <1>2

\* The next block joins the segment.
LEMMA SegmentGrows ==
  ASSUME NEW lo \in Nat, NEW k \in Nat, lo < k
  PROVE  Append(Segment(lo, k - 1), TxOf(chain[k])) = Segment(lo, k)
<1> DEFINE f == [i \in 1..(k - lo) |-> TxOf(chain[lo + i])]
           m == k - lo - 1
<1>1. m \in Nat /\ m + 1 = k - lo /\ (k - 1) - lo = m /\ lo + (m + 1) = k /\ m + 1 \in 1..(k - lo)
  OBVIOUS
<1>2. f[m + 1] = TxOf(chain[k])
  BY <1>1
<1>3. Segment(lo, k) = [i \in 1..(m + 1) |-> f[i]]
  BY <1>1 DEF Segment
<1>4. Segment(lo, k - 1) = [i \in 1..m |-> f[i]]
  <2>1. \A i \in 1..m : i \in 1..(k - lo)
    BY <1>1
  <2> QED
    BY <1>1, <2>1 DEF Segment
<1> HIDE DEF f, m
<1>5. Append([i \in 1..m |-> f[i]], f[m + 1]) = [i \in 1..(m + 1) |-> f[i]]
  BY <1>1, AppendNext
<1> QED
  BY <1>2, <1>3, <1>4, <1>5, Zenon

LEMMA SegmentEmpty ==
  ASSUME NEW lo \in Int, NEW hi \in Int, hi <= lo
  PROVE  Segment(lo, hi) = << >>
<1>1. 1..(hi - lo) = {}
  OBVIOUS
<1> QED
  BY <1>1 DEF Segment

Selects(from, to, lo, hi) ==
  /\ load_stake_snapshot_events(from, to) = Segment(lo, hi)
  /\ \A i \in 1..indexed : (chain[i].ts < from <=> i <= lo) /\ (chain[i].ts <= to <=> i <= hi)

\* A time range of the stored transactions is a segment of the chain (load_stake_snapshot_events).
LEMMA LoadSegment ==
  ASSUME ChainInv, HistoryInv, NEW from \in Int, NEW to \in Int
  PROVE  \E lo, hi \in 0..indexed : Selects(from, to, lo, hi)
<1> DEFINE stored == SubSeq(chain, 1, indexed)
<1>0. /\ Len(chain) \in Nat /\ indexed \in Nat /\ indexed <= Len(chain)
      /\ \A i \in 1..indexed : i \in 1..Len(chain) /\ chain[i].ts \in Nat
  BY DEF ChainInv
<1>1. DOMAIN stored = 1..indexed /\ \A i \in 1..indexed : stored[i] = chain[i]
  <2>1. PICK S : chain \in Seq(S)
    BY DEF ChainInv
  <2> QED
    BY <1>0, <2>1
<1>2. PICK lo \in 0..indexed : \A i \in 1..indexed : chain[i].ts < from <=> i <= lo
  <2> DEFINE S == {i \in 1..indexed : chain[i].ts < from}
  <2>1. \A i, j \in 1..indexed : i <= j /\ j \in S => i \in S
    BY <1>0, Ordered
  <2>2. \E m \in 0..indexed : \A i \in 1..indexed : i \in S <=> i <= m
    <3> HIDE DEF S
    <3> QED
      BY <1>0, <2>1, Cut
  <2> QED
    BY <2>2
<1>3. PICK hi \in 0..indexed : \A i \in 1..indexed : chain[i].ts <= to <=> i <= hi
  <2> DEFINE S == {i \in 1..indexed : chain[i].ts <= to}
  <2>1. \A i, j \in 1..indexed : i <= j /\ j \in S => i \in S
    BY <1>0, Ordered
  <2>2. \E m \in 0..indexed : \A i \in 1..indexed : i \in S <=> i <= m
    <3> HIDE DEF S
    <3> QED
      BY <1>0, <2>1, Cut
  <2> QED
    BY <2>2
<1>4. PICK h : /\ h[0] = << >> /\ h[indexed] = load_stake_snapshot_events(from, to)
               /\ \A k \in 1..indexed : h[k] = Load(h[k - 1], stored[k], from, to)
  BY <1>0, <1>1, LoadUnrolled
<1> DEFINE Upto(k) == IF k <= hi THEN k ELSE hi
           Good == {k \in Nat : k <= indexed => h[k] = Segment(lo, Upto(k))}
<1>5. 0 \in Good
  <2>1. Upto(0) = 0 /\ 0 <= lo
    OBVIOUS
  <2>2. Segment(lo, 0) = << >>
    BY <2>1, SegmentEmpty
  <2> QED
    BY <1>4, <2>1, <2>2
<1>6. ASSUME NEW k \in Nat, k \in Good PROVE k + 1 \in Good
  <2> SUFFICES ASSUME k + 1 <= indexed PROVE h[k + 1] = Segment(lo, Upto(k + 1))
    OBVIOUS
  <2>0. k + 1 \in 1..indexed /\ (k + 1) - 1 = k /\ k <= indexed
    BY <1>0
  <2>1. h[k] = Segment(lo, Upto(k))
    BY <1>6, <2>0
  <2>2. h[k + 1] = Load(h[k], chain[k + 1], from, to)
    BY <1>1, <1>4, <2>0
  <2>3. CASE lo < k + 1 /\ k + 1 <= hi
    <3>1. Upto(k) = k /\ Upto(k + 1) = k + 1
      BY <2>3
    <3>2. from <= chain[k + 1].ts /\ chain[k + 1].ts <= to
      BY <1>0, <1>2, <1>3, <2>0, <2>3
    <3>3. h[k + 1] = Append(h[k], TxOf(chain[k + 1]))
      BY <2>2, <3>2 DEF Load
    <3>4. Append(Segment(lo, (k + 1) - 1), TxOf(chain[k + 1])) = Segment(lo, k + 1)
      BY <2>3, SegmentGrows
    <3> QED
      BY <2>0, <2>1, <3>1, <3>3, <3>4
  <2>4. CASE ~(lo < k + 1)
    <3>1. ~(from <= chain[k + 1].ts)
      BY <1>0, <1>2, <2>0, <2>4
    <3>2. Upto(k) <= lo /\ Upto(k + 1) <= lo /\ Upto(k) \in Int /\ Upto(k + 1) \in Int
      BY <2>4
    <3>3. h[k + 1] = h[k]
      BY <2>2, <3>1 DEF Load
    <3> HIDE DEF Upto
    <3>4. Segment(lo, Upto(k)) = << >> /\ Segment(lo, Upto(k + 1)) = << >>
      BY <3>2, SegmentEmpty
    <3> QED
      BY <2>1, <3>3, <3>4
  <2>5. CASE ~(k + 1 <= hi)
    <3>1. ~(chain[k + 1].ts <= to)
      BY <1>0, <1>3, <2>0, <2>5
    <3>2. Upto(k) = Upto(k + 1)
      BY <2>5
    <3>3. h[k + 1] = h[k]
      BY <2>2, <3>1 DEF Load
    <3> QED
      BY <2>1, <3>2, <3>3
  <2> QED
    BY <2>3, <2>4, <2>5
<1>7. indexed \in Good
  <2> HIDE DEF Good
  <2> QED
    BY <1>0, <1>5, <1>6, UpwardInduction
<1>8. Upto(indexed) = hi
  BY <1>0
<1>9. load_stake_snapshot_events(from, to) = Segment(lo, hi)
  BY <1>0, <1>4, <1>7, <1>8
<1> QED
  BY <1>2, <1>3, <1>9 DEF Selects

\* The types of the history.
LEMMA HistoryNodes ==
  ASSUME ChainInv, HistoryInv
  PROVE  /\ Len(chain) \in Nat /\ Len(chain) > 0
         /\ \A i \in 1..Len(chain) : /\ node[i] \in Nodes /\ chain[i].ts \in Nat
                                     /\ Typed(chain[i].op) \/ chain[i].op.do = "none"
         /\ \A i \in 1..(Len(chain) - 1) : Typed(chain[i + 1].op) /\ Executes(node[i], chain[i + 1].op)
<1>1. Len(chain) \in Nat /\ Len(chain) > 0 /\ \A i \in 1..Len(chain) : chain[i].ts \in Nat
  BY DEF ChainInv
<1>2. \A i \in 1..Len(chain) : node[i] \in Nodes
  BY <1>1 DEF HistoryInv
<1>3. \A i \in 1..(Len(chain) - 1) : Typed(chain[i + 1].op) /\ Executes(node[i], chain[i + 1].op)
  BY DEF HistoryInv
<1>4. ASSUME NEW i \in 1..Len(chain) PROVE Typed(chain[i].op) \/ chain[i].op.do = "none"
  <2>1. CASE i = 1
    BY <2>1 DEF HistoryInv
  <2>2. CASE i # 1
    <3>1. i - 1 \in 1..(Len(chain) - 1) /\ (i - 1) + 1 = i
      BY <1>1, <2>2
    <3> QED
      BY <1>3, <3>1
  <2> QED
    BY <2>1, <2>2
<1> QED
  BY <1>1, <1>2, <1>3, <1>4

LEMMA FunctionIsSeq ==
  ASSUME NEW S, NEW n \in Nat, NEW f \in [1..n -> S]
  PROVE  f \in Seq(S) /\ Len(f) = n
  OBVIOUS

LEMMA SegmentTx ==
  ASSUME NEW lo \in Nat, NEW hi \in Nat, lo <= hi
  PROVE  /\ hi - lo \in Nat /\ DOMAIN Segment(lo, hi) = 1..(hi - lo)
         /\ \A k \in 1..(hi - lo) : Segment(lo, hi)[k] = TxOf(chain[lo + k])
  BY DEF Segment

\* Folding a segment forward from the node's state before it meets the node's state at the last
\* block of the day (build_stake_snapshot_daily_points).
LEMMA ForwardFold ==
  ASSUME ChainInv, HistoryInv, NEW lo \in 1..Len(chain), NEW hi \in 1..Len(chain), NEW m \in lo..hi, NEW d,
         \A i \in (lo + 1)..hi : chain[i].ts <= stake_snapshot_day_end(d) <=> i <= m
  PROVE  StateAt(CountOf(node[lo]), Segment(lo, hi), d) = CountOf(node[m])
<1> DEFINE s == CountOf(node[lo])
           txs == Segment(lo, hi)
           n == hi - lo
           Upto(k) == IF lo + k <= m THEN lo + k ELSE m
<1>0. /\ Len(chain) \in Nat /\ lo \in Nat /\ hi \in Nat /\ m \in Nat /\ lo <= m /\ m <= hi /\ hi <= Len(chain)
      /\ n \in Nat
  <2>1. Len(chain) \in Nat
    BY HistoryNodes
  <2> QED
    BY <2>1
<1>1. DOMAIN txs = 1..n /\ \A k \in 1..n : txs[k] = TxOf(chain[lo + k])
  BY <1>0, SegmentTx
<1> HIDE DEF txs
<1>p. PICK h : Replays(h, s, txs, d, n)
  <2>1. n \in Nat /\ DOMAIN txs = 1..n
    BY <1>0, <1>1
  <2> HIDE DEF s, n
  <2> QED
    BY <2>1, StateAtUnrolled, Zenon
<1>2. /\ h[0] = s /\ h[n] = StateAt(s, txs, d)
      /\ \A k \in 1..n : h[k] = Replay(h[k - 1], txs[k], d)
  BY <1>p, Zenon DEF Replays
<1> DEFINE Good == {k \in Nat : k <= n => h[k] = CountOf(node[Upto(k)])}
<1>3. 0 \in Good
  <2>1. Upto(0) = lo
    BY <1>0
  <2> QED
    BY <1>2, <2>1
<1>4. ASSUME NEW k \in Nat, k \in Good PROVE k + 1 \in Good
  <2> SUFFICES ASSUME k + 1 <= n PROVE h[k + 1] = CountOf(node[Upto(k + 1)])
    OBVIOUS
  <2> DEFINE i == lo + k
  <2>0. /\ k + 1 \in 1..n /\ (k + 1) - 1 = k /\ k <= n /\ lo + (k + 1) = i + 1
        /\ i \in 1..(Len(chain) - 1) /\ i \in 1..Len(chain) /\ i + 1 \in (lo + 1)..hi
    BY <1>0
  <2>1. h[k] = CountOf(node[Upto(k)])
    BY <1>4, <2>0
  <2>2. h[k + 1] = Replay(h[k], TxOf(chain[i + 1]), d)
    BY <1>1, <1>2, <2>0
  <2>3. TxOf(chain[i + 1]).ts = chain[i + 1].ts
    BY DEF TxOf
  <2>4. CASE i + 1 <= m
    <3>1. Upto(k) = i /\ Upto(k + 1) = i + 1
      BY <1>0, <2>4
    <3>2. chain[i + 1].ts <= stake_snapshot_day_end(d)
      BY <2>0, <2>4
    <3>3. h[k + 1] = apply_stake_snapshot_transaction(CountOf(node[i]), TxOf(chain[i + 1]), FALSE)
      BY <2>1, <2>2, <2>3, <3>1, <3>2 DEF Replay
    <3>4. /\ node[i] \in Nodes /\ Typed(chain[i + 1].op) /\ Executes(node[i], chain[i + 1].op)
          /\ node[i + 1] = NodeStep(node[i], chain[i + 1].op)
      BY <2>0, HistoryNodes DEF HistoryInv
    <3>5. apply_stake_snapshot_transaction(CountOf(node[i]), TxOf(chain[i + 1]), FALSE) = CountOf(NodeStep(node[i], chain[i + 1].op))
      <4> HIDE DEF i
      <4> QED
        BY <3>4, StepForward
    <3> QED
      BY <3>1, <3>3, <3>4, <3>5, Zenon
  <2>5. CASE ~(i + 1 <= m)
    <3>1. Upto(k) = Upto(k + 1)
      BY <1>0, <2>5
    <3>2. ~(chain[i + 1].ts <= stake_snapshot_day_end(d))
      BY <2>0, <2>5
    <3>3. h[k + 1] = h[k]
      BY <2>2, <2>3, <3>2 DEF Replay
    <3> QED
      BY <2>1, <3>1, <3>3
  <2> QED
    BY <2>4, <2>5
<1>5. n \in Good
  <2> HIDE DEF Good
  <2> QED
    BY <1>0, <1>3, <1>4, UpwardInduction
<1>6. Upto(n) = m
  BY <1>0
<1> QED
  BY <1>0, <1>2, <1>5, <1>6 DEF txs

\* A segment read backwards.
LEMMA ReversedSegment ==
  ASSUME NEW lo \in Nat, NEW hi \in Nat
  PROVE  LET n == IF lo <= hi THEN hi - lo ELSE 0
         IN /\ n \in Nat /\ DOMAIN Reversed(Segment(lo, hi)) = 1..n
            /\ \A k \in 1..n : Reversed(Segment(lo, hi))[k] = TxOf(chain[(hi - k) + 1])
<1> DEFINE n == IF lo <= hi THEN hi - lo ELSE 0
           txs == Segment(lo, hi)
<1>0. n \in Nat /\ 1..n = 1..(hi - lo)
  OBVIOUS
<1>1. DOMAIN txs = 1..n /\ \A k \in 1..n : txs[k] = TxOf(chain[lo + k])
  BY <1>0 DEF Segment
<1>2. Len(txs) = n
  <2>1. txs = [k \in 1..n |-> txs[k]]
    BY <1>0, <1>1 DEF Segment
  <2>2. txs \in Seq({txs[k] : k \in 1..n})
    <3>1. [k \in 1..n |-> txs[k]] \in [1..n -> {txs[k] : k \in 1..n}]
      OBVIOUS
    <3> QED
      BY <1>0, <2>1, <3>1, FunctionIsSeq
  <2> QED
    BY <1>0, <1>1, <2>2
<1> HIDE DEF txs
<1>3. Reversed(txs) = [i \in 1..n |-> txs[(n - i) + 1]]
  BY <1>2 DEF Reversed
<1>4. \A k \in 1..n : (n - k) + 1 \in 1..n /\ lo + ((n - k) + 1) = (hi - k) + 1
  BY <1>0
<1>5. DOMAIN Reversed(txs) = 1..n /\ \A k \in 1..n : Reversed(txs)[k] = TxOf(chain[(hi - k) + 1])
  BY <1>1, <1>3, <1>4
<1> QED
  BY <1>0, <1>5 DEF txs

\* Unwinding a segment from the node's state after it meets the node's state before it.
LEMMA ReverseFold ==
  ASSUME ChainInv, HistoryInv, NEW lo \in 1..Len(chain), NEW hi \in 1..Len(chain), lo <= hi
  PROVE  reverse_replay_stake_snapshot_events(CountOf(node[hi]), Segment(lo, hi)) = CountOf(node[lo])
<1> DEFINE s == CountOf(node[hi])
           txs == Segment(lo, hi)
           n == hi - lo
<1>0. Len(chain) \in Nat /\ lo \in Nat /\ hi \in Nat /\ lo <= hi /\ hi <= Len(chain) /\ n \in Nat
  <2>1. Len(chain) \in Nat
    BY HistoryNodes
  <2> QED
    BY <2>1
<1>1. DOMAIN Reversed(txs) = 1..n /\ \A k \in 1..n : Reversed(txs)[k] = TxOf(chain[(hi - k) + 1])
  BY <1>0, ReversedSegment
<1> HIDE DEF txs
<1>p. PICK h : Unwinds(h, s, txs, n)
  <2>1. n \in Nat /\ DOMAIN Reversed(txs) = 1..n
    BY <1>0, <1>1
  <2> HIDE DEF s, n
  <2> QED
    BY <2>1, UnwindUnrolled, Zenon
<1>2. /\ h[0] = s /\ h[n] = reverse_replay_stake_snapshot_events(s, txs)
      /\ \A k \in 1..n : h[k] = apply_stake_snapshot_transaction(h[k - 1], Reversed(txs)[k], TRUE)
  BY <1>p, Zenon DEF Unwinds
<1> DEFINE Good == {k \in Nat : k <= n => h[k] = CountOf(node[hi - k])}
<1>3. 0 \in Good
  <2>1. hi - 0 = hi
    BY <1>0
  <2> QED
    BY <1>2, <2>1
<1>4. ASSUME NEW k \in Nat, k \in Good PROVE k + 1 \in Good
  <2> SUFFICES ASSUME k + 1 <= n PROVE h[k + 1] = CountOf(node[hi - (k + 1)])
    OBVIOUS
  <2> DEFINE i == hi - (k + 1)
  <2>0. /\ k + 1 \in 1..n /\ (k + 1) - 1 = k /\ k <= n /\ hi - k = i + 1
        /\ i \in 1..(Len(chain) - 1) /\ i \in 1..Len(chain)
    BY <1>0
  <2>1. h[k] = CountOf(node[i + 1])
    BY <1>4, <2>0
  <2>2. h[k + 1] = apply_stake_snapshot_transaction(h[k], TxOf(chain[i + 1]), TRUE)
    BY <1>1, <1>2, <2>0
  <2>3. /\ node[i] \in Nodes /\ Typed(chain[i + 1].op) /\ Executes(node[i], chain[i + 1].op)
        /\ node[i + 1] = NodeStep(node[i], chain[i + 1].op)
    BY <2>0, HistoryNodes DEF HistoryInv
  <2>4. apply_stake_snapshot_transaction(CountOf(NodeStep(node[i], chain[i + 1].op)), TxOf(chain[i + 1]), TRUE) = CountOf(node[i])
    <3> HIDE DEF i
    <3> QED
      BY <2>3, StepBackward
  <2> QED
    BY <2>1, <2>2, <2>3, <2>4, Zenon
<1>5. n \in Good
  <2> HIDE DEF Good
  <2> QED
    BY <1>0, <1>3, <1>4, UpwardInduction
<1>6. hi - n = lo
  BY <1>0
<1> QED
  BY <1>0, <1>2, <1>5, <1>6 DEF txs

LEMMA CountedStep ==
  ASSUME NEW s, Counted(s), NEW b, NEW reverse \in BOOLEAN, Typed(b.op) \/ b.op.do = "none"
  PROVE  Counted(apply_stake_snapshot_transaction(s, TxOf(b), reverse))
<1>1. PICK n \in Nodes : s = CountOf(n)
  BY DEF Counted
<1>2. /\ apply_stake_snapshot_transaction(CountOf(n), TxOf(b), reverse) = CountOf(After(n, b.op, reverse))
      /\ After(n, b.op, reverse) \in Nodes
  BY TxAfter
<1> QED
  BY <1>1, <1>2, Zenon DEF Counted

\* Whatever the counters started from, a fold keeps them a recount of its stakes.
LEMMA StateAtCounted ==
  ASSUME ChainInv, HistoryInv, NEW lo \in 0..Len(chain), NEW hi \in 0..Len(chain), NEW s, Counted(s), NEW d
  PROVE  Counted(StateAt(s, Segment(lo, hi), d))
<1> DEFINE n == IF lo <= hi THEN hi - lo ELSE 0
           txs == Segment(lo, hi)
<1>0. lo \in Nat /\ hi \in Nat /\ Len(chain) \in Nat /\ n \in Nat /\ \A k \in 1..n : lo + k \in 1..Len(chain)
  BY HistoryNodes
<1>1. DOMAIN txs = 1..n /\ \A k \in 1..n : txs[k] = TxOf(chain[lo + k])
  <2>1. 1..n = 1..(hi - lo)
    BY <1>0
  <2> QED
    BY <2>1 DEF Segment
<1> HIDE DEF txs, n
<1>p. PICK h : Replays(h, s, txs, d, n)
  BY <1>0, <1>1, StateAtUnrolled, Zenon
<1>2. /\ h[0] = s /\ h[n] = StateAt(s, txs, d)
      /\ \A k \in 1..n : h[k] = Replay(h[k - 1], txs[k], d)
  BY <1>p, Zenon DEF Replays
<1> DEFINE Good == {k \in Nat : k <= n => Counted(h[k])}
<1>3. 0 \in Good
  BY <1>2
<1>4. ASSUME NEW k \in Nat, k \in Good PROVE k + 1 \in Good
  <2> SUFFICES ASSUME k + 1 <= n PROVE Counted(h[k + 1])
    OBVIOUS
  <2> DEFINE b == chain[lo + (k + 1)]
  <2>0. k + 1 \in 1..n /\ (k + 1) - 1 = k /\ k <= n
    BY <1>0
  <2>1. Counted(h[k])
    BY <1>4, <2>0
  <2>2. h[k + 1] = Replay(h[k], TxOf(b), d)
    BY <1>1, <1>2, <2>0
  <2>3. Typed(b.op) \/ b.op.do = "none"
    BY <1>0, <2>0, HistoryNodes
  <2> HIDE DEF b
  <2>4. Counted(apply_stake_snapshot_transaction(h[k], TxOf(b), FALSE))
    BY <2>1, <2>3, CountedStep
  <2> QED
    BY <2>1, <2>2, <2>4, Zenon DEF Replay
<1>5. n \in Good
  <2> HIDE DEF Good
  <2> QED
    BY <1>0, <1>3, <1>4, UpwardInduction
<1> QED
  BY <1>0, <1>2, <1>5 DEF txs

\* The same for the reverse replay.
LEMMA UnwindCounted ==
  ASSUME ChainInv, HistoryInv, NEW lo \in 0..Len(chain), NEW hi \in 0..Len(chain), NEW s, Counted(s)
  PROVE  Counted(reverse_replay_stake_snapshot_events(s, Segment(lo, hi)))
<1> DEFINE n == IF lo <= hi THEN hi - lo ELSE 0
           txs == Segment(lo, hi)
<1>0. lo \in Nat /\ hi \in Nat /\ Len(chain) \in Nat /\ n \in Nat /\ \A k \in 1..n : (hi - k) + 1 \in 1..Len(chain)
  BY HistoryNodes
<1>1. DOMAIN Reversed(txs) = 1..n /\ \A k \in 1..n : Reversed(txs)[k] = TxOf(chain[(hi - k) + 1])
  BY <1>0, ReversedSegment
<1> HIDE DEF txs, n
<1>p. PICK h : Unwinds(h, s, txs, n)
  BY <1>0, <1>1, UnwindUnrolled, Zenon
<1>2. /\ h[0] = s /\ h[n] = reverse_replay_stake_snapshot_events(s, txs)
      /\ \A k \in 1..n : h[k] = apply_stake_snapshot_transaction(h[k - 1], Reversed(txs)[k], TRUE)
  BY <1>p, Zenon DEF Unwinds
<1> DEFINE Good == {k \in Nat : k <= n => Counted(h[k])}
<1>3. 0 \in Good
  BY <1>2
<1>4. ASSUME NEW k \in Nat, k \in Good PROVE k + 1 \in Good
  <2> SUFFICES ASSUME k + 1 <= n PROVE Counted(h[k + 1])
    OBVIOUS
  <2> DEFINE b == chain[(hi - (k + 1)) + 1]
  <2>0. k + 1 \in 1..n /\ (k + 1) - 1 = k /\ k <= n
    BY <1>0
  <2>1. Counted(h[k])
    BY <1>4, <2>0
  <2>2. h[k + 1] = apply_stake_snapshot_transaction(h[k], TxOf(b), TRUE)
    BY <1>1, <1>2, <2>0
  <2>3. Typed(b.op) \/ b.op.do = "none"
    BY <1>0, <2>0, HistoryNodes
  <2> HIDE DEF b
  <2> QED
    BY <2>1, <2>2, <2>3, CountedStep
<1>5. n \in Good
  <2> HIDE DEF Good
  <2> QED
    BY <1>0, <1>3, <1>4, UpwardInduction
<1> QED
  BY <1>0, <1>2, <1>5 DEF txs

\* A counted state recounts to itself.
LEMMA CountedRecounts ==
  ASSUME NEW s, Counted(s)
  PROVE  s = CountStakes(s.stakes, s.supply) /\ [stakes |-> s.stakes, supply |-> s.supply] \in Nodes
<1>1. PICK n \in Nodes : s = CountOf(n)
  BY DEF Counted
<1>2. s.stakes = n.stakes /\ s.supply = n.supply
  BY <1>1 DEF CountOf, CountStakes
<1>3. s = CountStakes(n.stakes, n.supply)
  BY <1>1 DEF CountOf
<1>4. [stakes |-> n.stakes, supply |-> n.supply] \in Nodes
  BY NodeShape
<1> QED
  BY <1>2, <1>3, <1>4, Zenon

\* Max is the element that no other exceeds.
LEMMA MaxIs ==
  ASSUME NEW S \in SUBSET Nat, NEW m \in S, \A x \in S : x <= m
  PROVE  Max(S) = m
<1>1. \A y \in S : m >= y
  OBVIOUS
<1>2. Max(S) \in S /\ \A y \in S : Max(S) >= y
  BY <1>1 DEF Max
<1>3. Max(S) \in Nat /\ m \in Nat /\ Max(S) <= m /\ Max(S) >= m
  BY <1>2
<1> QED
  BY <1>3

\* The node's state at the end of a day that a later block closes.
LEMMA NodeAtEnd ==
  ASSUME ChainInv, HistoryInv, NEW d \in Int, NEW i, EndOfDay(d, i)
  PROVE  NodeAt(d) = node[i]
<1> DEFINE S == {j \in DOMAIN chain : chain[j].ts <= stake_snapshot_day_end(d)}
<1>0. Len(chain) \in Nat /\ DOMAIN chain = 1..Len(chain) /\ i \in 1..(Len(chain) - 1)
  BY DEF ChainInv, EndOfDay
<1>1. i \in S /\ S \in SUBSET Nat
  BY <1>0 DEF EndOfDay
<1>2. ASSUME NEW j \in S PROVE j <= i
  <2>1. SUFFICES ASSUME i + 1 <= j PROVE FALSE
    BY <1>0, <1>1
  <2>2. chain[i + 1].ts <= chain[j].ts
    BY <1>0, <2>1, Ordered
  <2>3. /\ stake_snapshot_day_end(d) < chain[i + 1].ts /\ chain[j].ts <= stake_snapshot_day_end(d)
    BY DEF EndOfDay
  <2>4. stake_snapshot_day_end(d) \in Int
    BY StakeAssumption DEF stake_snapshot_day_end
  <2>5. chain[i + 1].ts \in Nat /\ chain[j].ts \in Nat
    BY <1>0, HistoryNodes
  <2> QED
    BY <2>2, <2>3, <2>4, <2>5
<1> HIDE DEF S
<1>3. Max(S) = i
  BY <1>1, <1>2, MaxIs
<1> QED
  BY <1>3 DEF NodeAt, S
=============================================================================
