-------------------------- MODULE RateLimiterProofs --------------------------
(***************************************************************************)
(* The in-flight counter and the sliding windows of RateLimiter for any    *)
(* number of requests, segments and partitions, any capacity and any       *)
(* limits.                                                                 *)
(***************************************************************************)
EXTENDS RateLimiter, FiniteSetTheorems, WellFoundedInduction, TLAPS

------------------------------------------------------------------------------
(* Sums over finite sets, by induction on the subsets of the set. *)

\* A set of natural numbers has a least element.
LEMMA LeastNatural ==
  ASSUME NEW T \in SUBSET Nat, T # {}
  PROVE  \E m \in T : \A k \in T : m <= k
<1>1. PICK m \in T : \A k \in T : ~ (<<k, m>> \in OpToRel(<, Nat))
  BY NatLessThanWellFounded, WFMin
<1>2. \A k \in T : ~ (k < m)
  BY <1>1 DEF OpToRel
<1> QED
  BY <1>2

\* What holds of a subset whenever it holds of the subset without any one element
\* holds of every subset of a finite set.
LEMMA SubsetInduction ==
  ASSUME NEW S, IsFiniteSet(S), NEW Good \in SUBSET (SUBSET S),
         \A T \in SUBSET S : (\A x \in T : T \ {x} \in Good) => T \in Good
  PROVE  \A T \in SUBSET S : T \in Good
<1> SUFFICES ASSUME NEW R \in SUBSET S, R \notin Good PROVE FALSE
  OBVIOUS
<1> DEFINE Sizes == {Cardinality(T) : T \in {U \in SUBSET S : U \notin Good}}
<1>0. \A T \in SUBSET S : IsFiniteSet(T) /\ Cardinality(T) \in Nat
  BY FS_Subset, FS_CardinalityType
<1>1. Sizes \in SUBSET Nat /\ Sizes # {}
  BY <1>0
<1>2. PICK m \in Sizes : \A k \in Sizes : m <= k
  BY <1>1, LeastNatural
<1>3. PICK T \in SUBSET S : T \notin Good /\ m = Cardinality(T)
  BY <1>2
<1>4. ASSUME NEW x \in T PROVE T \ {x} \in Good
  <2>1. Cardinality(T \ {x}) = Cardinality(T) - 1
    BY <1>0, FS_RemoveElement
  <2>2. T \ {x} \in SUBSET S /\ Cardinality(T) \in Nat
    BY <1>0
  <2>3. T \ {x} \notin Good => Cardinality(T \ {x}) \in Sizes
    BY <2>2
  <2> HIDE DEF Sizes
  <2> QED
    BY <1>2, <1>3, <2>1, <2>2, <2>3
<1> QED
  BY <1>3, <1>4

------------------------------------------------------------------------------
(* SumFunctionOnSet. *)

Pick(s) == CHOOSE x \in s : TRUE
SumOf(f, F, s) == IF s = {} THEN 0 ELSE f[Pick(s)] + F[s \ {Pick(s)}]
IsSum(F, f, S) == F = [s \in SUBSET S |-> SumOf(f, F, s)]

LEMMA PickIn == ASSUME NEW s, s # {} PROVE Pick(s) \in s
  BY DEF Pick

LEMMA SumDef ==
  ASSUME NEW f, NEW S
  PROVE  SumFunctionOnSet(f, S) = (CHOOSE F : IsSum(F, f, S))[S]
  BY DEF SumFunctionOnSet, FoldFunctionOnSet, MapThenFoldSet, IsSum, SumOf, Pick

LEMMA SumExists ==
  ASSUME NEW f, NEW S, IsFiniteSet(S)
  PROVE  \E F : IsSum(F, f, S)
<1> DEFINE Level(n) == {s \in SUBSET S : Cardinality(s) <= n}
           Solves(F, n) == F = [s \in Level(n) |-> SumOf(f, F, s)]
           Bad == {n \in Nat : ~ \E F : Solves(F, n)}
<1>0. \A s \in SUBSET S : IsFiniteSet(s) /\ Cardinality(s) \in Nat /\ Cardinality(s) <= Cardinality(S)
  BY FS_Subset, FS_CardinalityType
<1>1. Bad = {}
  <2> SUFFICES ASSUME Bad # {} PROVE FALSE
    OBVIOUS
  <2>1. PICK m \in Bad : \A k \in Bad : m <= k
    BY LeastNatural
  <2>2. CASE m = 0
    <3>1. \A s \in Level(0) : s = {}
      BY <1>0, FS_EmptySet
    <3> DEFINE F == [s \in Level(0) |-> 0]
    <3>2. F = [s \in Level(0) |-> SumOf(f, F, s)]
      BY <3>1 DEF SumOf
    <3> QED
      BY <2>2, <3>2
  <2>3. CASE m # 0
    <3>0. m - 1 \in Nat /\ m - 1 \notin Bad
      <4>1. m \in Nat
        OBVIOUS
      <4> HIDE DEF Bad
      <4> QED
        BY <2>1, <2>3, <4>1
    <3>1. PICK F : Solves(F, m - 1)
      BY <3>0
    <3> DEFINE G == [s \in Level(m) |-> SumOf(f, F, s)]
    <3>2. ASSUME NEW s \in Level(m) PROVE SumOf(f, F, s) = SumOf(f, G, s)
      <4>1. CASE s = {}
        BY <4>1 DEF SumOf
      <4>2. CASE s # {}
        <5> DEFINE t == s \ {Pick(s)}
        <5>1. Pick(s) \in s
          BY <4>2, PickIn
        <5>2. Cardinality(t) = Cardinality(s) - 1 /\ t \in SUBSET S
          BY <1>0, <5>1, FS_RemoveElement
        <5>3. t \in Level(m - 1) /\ t \in Level(m)
          BY <1>0, <5>2, <2>3
        <5>4. F[t] = SumOf(f, F, t)
          BY <3>1, <5>3
        <5>5. G[t] = SumOf(f, F, t)
          BY <5>3
        <5> QED
          BY <4>2, <5>4, <5>5 DEF SumOf
      <4> QED
        BY <4>1, <4>2
    <3>3. Solves(G, m)
      BY <3>2
    <3> QED
      BY <3>3
  <2> QED
    BY <2>2, <2>3
<1>2. Cardinality(S) \in Nat
  BY FS_CardinalityType
<1>3. PICK F : Solves(F, Cardinality(S))
  BY <1>1, <1>2
<1>4. Level(Cardinality(S)) = SUBSET S
  BY <1>0
<1> QED
  BY <1>3, <1>4 DEF IsSum
\* A solution for a set agrees with a solution for any of its subsets.
LEMMA SumAgree ==
  ASSUME NEW f, NEW S, IsFiniteSet(S), NEW R \in SUBSET S, NEW F, IsSum(F, f, S), NEW G, IsSum(G, f, R)
  PROVE  \A T \in SUBSET R : F[T] = G[T]
<1> DEFINE Good == {T \in SUBSET R : F[T] = G[T]}
<1>1. IsFiniteSet(R)
  BY FS_Subset
<1>2. ASSUME NEW T \in SUBSET R, \A x \in T : T \ {x} \in Good PROVE T \in Good
  <2>1. F[T] = SumOf(f, F, T) /\ G[T] = SumOf(f, G, T)
    BY DEF IsSum
  <2>2. SumOf(f, F, T) = SumOf(f, G, T)
    BY <1>2, PickIn DEF SumOf
  <2> QED
    BY <2>1, <2>2
<1>3. Good \in SUBSET (SUBSET R)
  OBVIOUS
<1> HIDE DEF Good
<1>4. \A T \in SUBSET R : T \in Good
  BY <1>1, <1>2, <1>3, SubsetInduction
<1> QED
  BY <1>4 DEF Good

LEMMA SumUnfold ==
  ASSUME NEW f, NEW S, IsFiniteSet(S)
  PROVE  /\ S = {} => SumFunctionOnSet(f, S) = 0
         /\ S # {} => SumFunctionOnSet(f, S) = f[Pick(S)] + SumFunctionOnSet(f, S \ {Pick(S)})
<1> DEFINE R == S \ {Pick(S)}
           F == CHOOSE H : IsSum(H, f, S)
           G == CHOOSE H : IsSum(H, f, R)
<1>1. IsFiniteSet(R) /\ R \in SUBSET S
  BY FS_Subset
<1>2. IsSum(F, f, S) /\ IsSum(G, f, R)
  BY <1>1, SumExists
<1>3. SumFunctionOnSet(f, S) = F[S] /\ SumFunctionOnSet(f, R) = G[R]
  BY SumDef
<1> HIDE DEF F, G, R
<1>4. F[S] = SumOf(f, F, S)
  BY <1>2 DEF IsSum
<1>5. F[R] = G[R]
  <2>1. \A T \in SUBSET R : F[T] = G[T]
    BY <1>1, <1>2, SumAgree
  <2> QED
    BY <2>1
<1> QED
  BY <1>3, <1>4, <1>5 DEF SumOf, R

LEMMA SumEmpty == ASSUME NEW f PROVE SumFunctionOnSet(f, {}) = 0
  BY SumUnfold, FS_EmptySet

LEMMA SumType ==
  ASSUME NEW f, NEW S, IsFiniteSet(S), \A x \in S : f[x] \in Nat
  PROVE  SumFunctionOnSet(f, S) \in Nat
<1> DEFINE Good == {T \in SUBSET S : SumFunctionOnSet(f, T) \in Nat}
<1>1. ASSUME NEW T \in SUBSET S, \A x \in T : T \ {x} \in Good PROVE T \in Good
  <2>1. IsFiniteSet(T)
    BY FS_Subset
  <2>2. CASE T = {}
    BY <2>2, SumEmpty
  <2>3. CASE T # {}
    <3>1. Pick(T) \in T /\ f[Pick(T)] \in Nat
      BY <2>3, PickIn
    <3>2. SumFunctionOnSet(f, T) = f[Pick(T)] + SumFunctionOnSet(f, T \ {Pick(T)})
      BY <2>1, <2>3, SumUnfold
    <3>3. SumFunctionOnSet(f, T \ {Pick(T)}) \in Nat
      BY <1>1, <3>1
    <3> QED
      BY <3>1, <3>2, <3>3
  <2> QED
    BY <2>2, <2>3
<1>2. Good \in SUBSET (SUBSET S)
  OBVIOUS
<1> HIDE DEF Good
<1>3. S \in Good
  BY <1>1, <1>2, SubsetInduction
<1> QED
  BY <1>3 DEF Good

\* Any element may be taken out first.
LEMMA SumRemove ==
  ASSUME NEW f, NEW S, IsFiniteSet(S), \A x \in S : f[x] \in Nat, NEW e \in S
  PROVE  SumFunctionOnSet(f, S) = f[e] + SumFunctionOnSet(f, S \ {e})
<1> DEFINE Sum(T) == SumFunctionOnSet(f, T)
           Good == {T \in SUBSET S : \A x \in T : Sum(T) = f[x] + Sum(T \ {x})}
<1>0. \A T \in SUBSET S : IsFiniteSet(T) /\ Sum(T) \in Nat
  BY FS_Subset, SumType
<1>1. ASSUME NEW T \in SUBSET S, \A x \in T : T \ {x} \in Good, NEW x \in T
      PROVE  Sum(T) = f[x] + Sum(T \ {x})
  <2> DEFINE y == Pick(T)
  <2>1. y \in T /\ Sum(T) = f[y] + Sum(T \ {y})
    BY <1>0, SumUnfold, PickIn
  <2> HIDE DEF y, Sum
  <2>2. CASE x = y
    BY <2>1, <2>2
  <2>3. CASE x # y
    <3>1. Sum(T \ {y}) = f[x] + Sum((T \ {y}) \ {x})
      BY <1>1, <2>1, <2>3
    <3>2. Sum(T \ {x}) = f[y] + Sum((T \ {x}) \ {y})
      BY <1>1, <2>1, <2>3
    <3>3. (T \ {y}) \ {x} = (T \ {x}) \ {y}
      OBVIOUS
    <3>4. Sum((T \ {x}) \ {y}) \in Nat /\ f[x] \in Nat /\ f[y] \in Nat
      BY <1>0, <2>1
    <3> DEFINE a == Sum((T \ {x}) \ {y})
               b == Sum(T \ {x})
               d == Sum(T \ {y})
    <3>5. d = f[x] + a /\ b = f[y] + a /\ Sum(T) = f[y] + d /\ a \in Nat
      BY <2>1, <3>1, <3>2, <3>3, <3>4
    <3> HIDE DEF a, b, d
    <3>6. Sum(T) = f[x] + b
      BY <3>4, <3>5
    <3> QED
      BY <3>6 DEF b
  <2> QED
    BY <2>2, <2>3
<1>2. Good \in SUBSET (SUBSET S) /\ \A T \in SUBSET S : (\A x \in T : T \ {x} \in Good) => T \in Good
  BY <1>1
<1> HIDE DEF Good
<1>3. S \in Good
  BY <1>2, SubsetInduction
<1> QED
  BY <1>3 DEF Good

\* A sum is at most the sum over a set it maps into, term by term, without collisions.
LEMMA SumInjection ==
  ASSUME NEW G, IsFiniteSet(G), NEW S, IsFiniteSet(S), NEW f, NEW c, NEW m,
         \A g \in G : f[g] \in Nat /\ m[g] \in S /\ f[g] <= c[m[g]],
         \A s \in S : c[s] \in Nat,
         \A g, h \in G : m[g] = m[h] => g = h
  PROVE  SumFunctionOnSet(f, G) <= SumFunctionOnSet(c, S)
<1> DEFINE Good == {T \in SUBSET G : \A U \in SUBSET S :
                      (\A g \in T : m[g] \in U) => SumFunctionOnSet(f, T) <= SumFunctionOnSet(c, U)}
<1>0. /\ \A T \in SUBSET G : IsFiniteSet(T) /\ SumFunctionOnSet(f, T) \in Nat
      /\ \A U \in SUBSET S : IsFiniteSet(U) /\ SumFunctionOnSet(c, U) \in Nat
  <2>1. (\A T \in SUBSET G : IsFiniteSet(T)) /\ (\A U \in SUBSET S : IsFiniteSet(U))
    BY FS_Subset
  <2> QED
    BY <2>1, SumType
<1>1. ASSUME NEW T \in SUBSET G, \A x \in T : T \ {x} \in Good, NEW U \in SUBSET S,
             \A g \in T : m[g] \in U
      PROVE  SumFunctionOnSet(f, T) <= SumFunctionOnSet(c, U)
  <2>1. CASE T = {}
    <3>1. SumFunctionOnSet(f, T) = 0
      BY <2>1, SumEmpty
    <3> QED
      BY <1>0, <3>1
  <2>2. CASE T # {}
    <3>1. PICK x \in T : TRUE
      BY <2>2
    <3> DEFINE R == T \ {x}
               V == U \ {m[x]}
    <3>2. SumFunctionOnSet(f, T) = f[x] + SumFunctionOnSet(f, R)
      BY <1>0, SumRemove
    <3>3. SumFunctionOnSet(c, U) = c[m[x]] + SumFunctionOnSet(c, V)
      BY <1>0, <1>1, SumRemove
    <3>4. SumFunctionOnSet(f, R) <= SumFunctionOnSet(c, V)
      <4>1. R \in Good /\ V \in SUBSET S
        BY <1>1
      <4>2. \A g \in R : m[g] \in V
        BY <1>1
      <4> QED
        BY <4>1, <4>2
    <3>5. /\ f[x] \in Nat /\ c[m[x]] \in Nat /\ f[x] <= c[m[x]]
          /\ SumFunctionOnSet(f, R) \in Nat /\ SumFunctionOnSet(c, V) \in Nat
      BY <1>0, <1>1
    <3> HIDE DEF R, V
    <3> QED
      BY <3>2, <3>3, <3>4, <3>5
  <2> QED
    BY <2>1, <2>2
<1>2. Good \in SUBSET (SUBSET G) /\ \A T \in SUBSET G : (\A x \in T : T \ {x} \in Good) => T \in Good
  BY <1>1
<1> HIDE DEF Good
<1>3. G \in Good
  BY <1>2, SubsetInduction
<1> QED
  BY <1>3 DEF Good

------------------------------------------------------------------------------
(* Remainders. *)

LEMMA Division ==
  ASSUME NEW n \in Int, n > 0, NEW x \in Int
  PROVE  x \div n \in Int /\ x % n \in 0..(n - 1) /\ x = n * (x \div n) + (x % n)
<1>1. x \div n \in Int /\ x % n \in 0..(n - 1)
  OBVIOUS
<1>2. x = n * (x \div n) + (x % n)
  BY Z3T(20)
<1> QED
  BY <1>1, <1>2

\* Numbers less than n apart have different remainders.
LEMMA RemainderApart ==
  ASSUME NEW n \in Int, n > 0, NEW x \in Int, NEW y \in Int, x - y < n, y - x < n, x % n = y % n
  PROVE  x = y
<1> DEFINE a == x \div n
           b == y \div n
           d == a - b
<1>1. /\ a \in Int /\ x = n * a + (x % n) /\ x % n \in 0..(n - 1)
      /\ b \in Int /\ y = n * b + (y % n) /\ y % n \in 0..(n - 1)
  BY Division
<1> HIDE DEF a, b
<1>2. n * a - n * b = n * d /\ d \in Int /\ n * a \in Int /\ n * b \in Int
  BY <1>1
<1>3. x - y = n * d
  BY <1>1, <1>2
<1> HIDE DEF d
<1>4. ASSUME d >= 1 PROVE FALSE
  <2>1. n * d >= n * 1
    BY <1>2, <1>4
  <2> QED
    BY <1>2, <1>3, <2>1
<1>5. ASSUME d <= -1 PROVE FALSE
  <2>1. n * d <= n * (-1)
    BY <1>2, <1>5
  <2> QED
    BY <1>2, <1>3, <2>1
<1>6. d = 0
  BY <1>2, <1>4, <1>5
<1>7. n * d = 0
  BY <1>6
<1> QED
  BY <1>3, <1>7

------------------------------------------------------------------------------
(* The in-flight counter. *)

USE RateLimiterAssumption

Places == {"new", "window", "enter", "swap", "serving", "served", "refused", "limited", "shed"}

Serving == {r \in Requests : pc[r] = "serving"}

\* A request that is about to swap has seen a free slot; the swap succeeds only if
\* the counter still has that value.
IInv ==
  /\ pc \in [Requests -> Places]
  /\ current \in [Requests -> Nat]
  /\ in_flight \in Nat
  /\ in_flight = Cardinality(Serving)
  /\ in_flight <= Capacity
  /\ \A r \in Requests : pc[r] = "swap" => current[r] < Capacity

LEMMA ServingFinite == IsFiniteSet(Serving) /\ Cardinality(Serving) \in Nat
<1>1. Serving \in SUBSET Requests
  BY DEF Serving
<1>2. IsFiniteSet(Serving)
  BY <1>1, FS_Subset
<1> QED
  BY <1>2, FS_CardinalityType

LEMMA IInvInit == Init => IInv
<1> SUFFICES ASSUME Init PROVE IInv
  OBVIOUS
<1>1. /\ in_flight = 0 /\ pc = [r \in Requests |-> "new"]
      /\ current = [r \in Requests |-> 0]
  BY DEF Init
<1>2. Serving = {}
  BY <1>1 DEF Serving
<1> QED
  BY <1>1, <1>2, FS_EmptySet DEF IInv, Places

\* A step of a request that neither takes nor gives back a slot.
LEMMA OtherStep ==
  ASSUME IInv, NEW r \in Requests, NEW s \in Places, pc[r] # "serving", s # "serving",
         pc' = [pc EXCEPT ![r] = s], in_flight' = in_flight,
         current' \in [Requests -> Nat], \A q \in Requests \ {r} : current'[q] = current[q],
         s = "swap" => current'[r] < Capacity
  PROVE  IInv'
<1>1. Serving' = Serving
  BY DEF Serving, IInv
<1>2. pc' \in [Requests -> Places]
  BY DEF IInv
<1> QED
  BY <1>1, <1>2 DEF IInv

LEMMA ObserveStep ==
  ASSUME IInv, NEW r \in Requests, pc[r] # "serving", Observe(r), UNCHANGED in_flight
  PROVE  IInv'
<1>1. CASE in_flight >= Capacity
  <2>1. /\ current' = [current EXCEPT ![r] = 0] /\ pc' = [pc EXCEPT ![r] = "shed"]
    BY <1>1 DEF Observe
  <2>2. /\ current' \in [Requests -> Nat]
        /\ \A q \in Requests \ {r} : current'[q] = current[q]
    BY <2>1 DEF IInv
  <2> QED
    BY <2>1, <2>2, OtherStep DEF Places
<1>2. CASE ~(in_flight >= Capacity)
  <2>1. /\ current' = [current EXCEPT ![r] = in_flight]
        /\ pc' = [pc EXCEPT ![r] = "swap"]
        /\ in_flight < Capacity /\ in_flight \in Nat
    BY <1>2 DEF Observe, IInv
  <2>2. /\ current' \in [Requests -> Nat] /\ current'[r] < Capacity
        /\ \A q \in Requests \ {r} : current'[q] = current[q]
    BY <2>1 DEF IInv
  <2> QED
    BY <2>1, <2>2, OtherStep DEF Places
<1> QED
  BY <1>1, <1>2

LEMMA IInvStep == IInv /\ [Next]_vars => IInv'
<1> SUFFICES ASSUME IInv, [Next]_vars PROVE IInv'
  OBVIOUS
<1>1. ASSUME NEW r \in Requests, Unauthorized(r) PROVE IInv'
  <2>1. /\ pc[r] = "new" /\ pc' = [pc EXCEPT ![r] = "refused"]
        /\ UNCHANGED <<in_flight, current>>
    BY <1>1 DEF Unauthorized
  <2> QED
    BY <2>1, OtherStep DEF IInv, Places
<1>2. ASSUME NEW r \in Requests, ReadClock(r) PROVE IInv'
  <2>1. /\ pc[r] = "new" /\ \E s \in {"enter", "window"} : pc' = [pc EXCEPT ![r] = s]
        /\ UNCHANGED <<in_flight, current>>
    BY <1>2 DEF ReadClock
  <2> QED
    BY <2>1, OtherStep DEF IInv, Places
<1>3. ASSUME NEW r \in Requests, AdmitPartition(r) PROVE IInv'
  <2>1. PICK s \in {"enter", "limited"} : pc' = [pc EXCEPT ![r] = s]
    BY <1>3 DEF AdmitPartition
  <2>2. pc[r] = "window" /\ UNCHANGED <<in_flight, current>>
    BY <1>3 DEF AdmitPartition
  <2> QED
    BY <2>1, <2>2, OtherStep DEF IInv, Places
<1>4. ASSUME NEW r \in Requests, LoadInFlight(r) PROVE IInv'
  BY <1>4, ObserveStep DEF LoadInFlight
<1>5. ASSUME NEW r \in Requests, SwapInFlight(r) PROVE IInv'
  <2>1. CASE Observe(r) /\ UNCHANGED in_flight
    BY <1>5, <2>1, ObserveStep DEF SwapInFlight
  <2>2. CASE /\ in_flight = current[r]
             /\ in_flight' = current[r] + 1
             /\ current' = [current EXCEPT ![r] = 0]
             /\ pc' = [pc EXCEPT ![r] = "serving"]
    <3>1. pc[r] = "swap"
      BY <1>5 DEF SwapInFlight
    <3>2. Serving' = Serving \cup {r} /\ r \notin Serving
      BY <2>2, <3>1 DEF Serving, IInv
    <3>3. Cardinality(Serving') = Cardinality(Serving) + 1
      BY <3>2, ServingFinite, FS_AddElement
    <3>4. in_flight' = Cardinality(Serving') /\ in_flight' <= Capacity /\ in_flight' \in Nat
      <4>1. /\ in_flight \in Nat /\ in_flight = Cardinality(Serving)
            /\ current[r] < Capacity /\ Capacity \in Nat
        BY <3>1 DEF IInv
      <4>2. in_flight' = in_flight + 1
        BY <2>2
      <4> QED
        BY <3>3, <4>1, <4>2, <2>2
    <3>5. pc' \in [Requests -> Places] /\ current' \in [Requests -> Nat]
      BY <2>2 DEF IInv, Places
    <3>6. \A q \in Requests : pc'[q] = "swap" => current'[q] < Capacity
      BY <2>2 DEF IInv
    <3> QED
      BY <3>4, <3>5, <3>6 DEF IInv
  <2> QED
    BY <1>5, <2>1, <2>2 DEF SwapInFlight
<1>6. ASSUME NEW r \in Requests, Finish(r) PROVE IInv'
  <2>1. /\ pc[r] = "serving" /\ in_flight' = in_flight - 1
        /\ pc' = [pc EXCEPT ![r] = "served"] /\ current' = current
    BY <1>6 DEF Finish
  <2>2. Serving' = Serving \ {r} /\ r \in Serving
    BY <2>1 DEF Serving, IInv
  <2>3. Cardinality(Serving') = Cardinality(Serving) - 1 /\ Cardinality(Serving') \in Nat
    BY <2>2, ServingFinite, FS_RemoveElement, FS_CardinalityType
  <2>4. pc' \in [Requests -> Places] /\ current' \in [Requests -> Nat]
    BY <2>1 DEF IInv, Places
  <2> QED
    BY <2>1, <2>3, <2>4 DEF IInv
<1>7. CASE Tick
  BY <1>7 DEF Tick, IInv, Serving
<1>8. CASE UNCHANGED vars
  BY <1>8 DEF vars, IInv, Serving
<1> QED
  BY <1>1, <1>2, <1>3, <1>4, <1>5, <1>6, <1>7, <1>8 DEF Next

\* The in-flight counter (try_enter, InFlightGuard) is exactly the number of requests
\* being served and never passes the capacity, whatever the interleaving of the loads,
\* the swaps, their spurious failures and the releases.
THEOREM InFlightIsExact == Spec => []InFlightExact
<1>1. IInv => InFlightExact
  BY DEF IInv, InFlightExact, Serving
<1> QED
  BY IInvInit, IInvStep, <1>1, PTL DEF Spec

------------------------------------------------------------------------------
(* The sliding windows. *)

Window == WindowStart(now)..now

Buckets == [Slots -> [segment : 0..now, count : Nat]]

WindowOf(p) == IF p \in DOMAIN windows THEN windows[p] ELSE Empty

\* Every segment of the trailing window has its own slot, and the slot holds what was
\* admitted in it: a bucket is reset, overwritten or swept only once its segment has
\* left the window, of a late clock value too.
Counts(w, p) ==
  \A g \in Window :
    admitted[p][g] = IF w[g % SEGMENTS].segment = g THEN w[g % SEGMENTS].count ELSE 0

WInv ==
  /\ now \in Segments
  /\ DOMAIN windows \in SUBSET Partitions
  /\ admitted \in [Partitions -> [Segments -> Nat]]
  /\ stamp \in [Requests -> Nat]
  /\ pc \in [Requests -> Places]
  /\ \A r \in Requests : pc[r] = "window" => part[r] \in Partitions /\ stamp[r] \in Window
  /\ \A p \in Partitions : \A g \in Segments : g > now => admitted[p][g] = 0
  /\ \A p \in Partitions : WindowOf(p) \in Buckets /\ Counts(WindowOf(p), p)
  /\ \A p \in Partitions : Recent(p) <= Limit(p)

LEMMA LimitType == \A p \in Partitions : Limit(p) \in Nat
<1>1. ASSUME NEW p \in KeyPartitions PROVE PerMinute[p] % U32 \in Nat
  BY <1>1
<1> QED
  BY <1>1 DEF Limit

\* The window at a segment.
LEMMA WindowAt ==
  ASSUME NEW g \in Nat
  PROVE  /\ WindowStart(g) \in Nat /\ WindowStart(g) <= g /\ g - WindowStart(g) < SEGMENTS
         /\ \A h \in Nat : h <= g => WindowStart(h) <= WindowStart(g)
         /\ \A h \in Nat : h <= g /\ g - h < SEGMENTS => WindowStart(g) <= h
         /\ WindowStart(g)..g \in SUBSET (0..g)
  BY DEF WindowStart, MaxOf

LEMMA WindowFacts ==
  ASSUME WInv
  PROVE  /\ IsFiniteSet(Window) /\ IsFiniteSet(Slots)
         /\ Window \in SUBSET Segments /\ Window \in SUBSET Nat
         /\ now \in Nat /\ now \in Window
         /\ \A g \in Window : g % SEGMENTS \in Slots
         /\ \A g, h \in Window : g % SEGMENTS = h % SEGMENTS => g = h
<1>1. now \in Nat /\ now <= MaxSegment
  BY DEF WInv, Segments
<1>2. /\ WindowStart(now) \in Nat /\ WindowStart(now) <= now
      /\ now - WindowStart(now) < SEGMENTS
  BY <1>1, WindowAt
<1>3. IsFiniteSet(Window)
  BY <1>1, <1>2, FS_Interval DEF Window
<1>4. IsFiniteSet(Slots)
  <2> DEFINE last == SEGMENTS - 1
  <2>1. 0 \in Int /\ last \in Int
    OBVIOUS
  <2> HIDE DEF last
  <2>2. IsFiniteSet(0..last)
    BY <2>1, FS_Interval
  <2> QED
    BY <2>2 DEF last, Slots
<1>5. \A g \in Window : g % SEGMENTS \in Slots
  BY <1>1, <1>2 DEF Window, Slots
<1>6. ASSUME NEW g \in Window, NEW h \in Window, g % SEGMENTS = h % SEGMENTS PROVE g = h
  <2>1. g \in Int /\ h \in Int /\ g - h < SEGMENTS /\ h - g < SEGMENTS
    BY <1>1, <1>2 DEF Window
  <2>2. SEGMENTS \in Int /\ SEGMENTS > 0
    OBVIOUS
  <2> QED
    BY <1>6, <2>1, <2>2, RemainderApart
<1> QED
  BY <1>1, <1>2, <1>3, <1>4, <1>5, <1>6 DEF Window, Segments

LEMMA WInvInit == Init => WInv
<1> SUFFICES ASSUME Init PROVE WInv
  OBVIOUS
<1>1. /\ now = 0 /\ windows = [p \in {} |-> Empty] /\ pc = [r \in Requests |-> "new"]
      /\ stamp = [r \in Requests |-> 0]
      /\ admitted = [p \in Partitions |-> [s \in Segments |-> 0]]
  BY DEF Init
<1>2. now \in Segments /\ Window = {0}
  BY <1>1 DEF Window, WindowStart, MaxOf, Segments
<1>3. \A p \in Partitions : WindowOf(p) = Empty
  BY <1>1 DEF WindowOf
<1>4. Empty \in Buckets
  BY <1>1 DEF Empty, Buckets
<1>5. 0 % SEGMENTS \in Slots
  BY DEF Slots
<1>6. \A p \in Partitions : Counts(Empty, p)
  BY <1>1, <1>2, <1>5 DEF Counts, Empty, Segments
<1>7. ASSUME NEW p \in Partitions PROVE Recent(p) <= Limit(p)
  <2>1. admitted[p][0] = 0
    BY <1>1 DEF Segments
  <2>2. SumFunctionOnSet(admitted[p], {0}) = admitted[p][0] + SumFunctionOnSet(admitted[p], {0} \ {0})
    <3>1. IsFiniteSet({0})
      BY FS_Singleton
    <3>2. 0 \in {0} /\ \A x \in {0} : admitted[p][x] \in Nat
      BY <2>1
    <3> QED
      BY <3>1, <3>2, SumRemove
  <2>3. {0} \ {0} = {}
    OBVIOUS
  <2>4. SumFunctionOnSet(admitted[p], {0}) = 0
    BY <2>1, <2>2, <2>3, SumEmpty
  <2>5. Recent(p) = 0
    BY <1>2, <2>4 DEF Recent, Window
  <2> QED
    BY <2>5, LimitType
<1>8. admitted \in [Partitions -> [Segments -> Nat]] /\ stamp \in [Requests -> Nat]
  BY <1>1
<1>9. \A p \in Partitions : \A g \in Segments : g > now => admitted[p][g] = 0
  BY <1>1
<1> QED
  BY <1>1, <1>2, <1>3, <1>4, <1>6, <1>7, <1>8, <1>9 DEF WInv, Places

\* Dropping buckets that are older than the window at t loses nothing that is counted.
LEMMA RolledKeeps ==
  ASSUME WInv, NEW p \in Partitions, NEW t \in Window, NEW w \in Buckets, Counts(w, p)
  PROVE  Rolled(w, t) \in Buckets /\ Counts(Rolled(w, t), p)
<1> DEFINE v == Rolled(w, t)
<1>1. t \in Nat /\ now \in Nat /\ t <= now
  BY WindowFacts DEF Window
<1>2. WindowStart(t) \in Nat /\ WindowStart(now) \in Nat /\ WindowStart(t) <= WindowStart(now)
  BY <1>1, WindowAt
<1>3. \A s \in Slots : v[s] = IF w[s].segment < WindowStart(t) THEN [segment |-> 0, count |-> 0] ELSE w[s]
  BY DEF Rolled
<1>4. \A s \in Slots : w[s].segment \in 0..now /\ w[s].count \in Nat /\ w[s] \in [segment : 0..now, count : Nat]
  BY DEF Buckets
<1>5. v \in Buckets
  BY <1>1, <1>4 DEF Rolled, Buckets
<1>6. ASSUME NEW g \in Window
      PROVE  admitted[p][g] = IF v[g % SEGMENTS].segment = g THEN v[g % SEGMENTS].count ELSE 0
  <2>1. /\ g % SEGMENTS \in Slots /\ g \in Nat /\ WindowStart(now) <= g
    BY <1>2, WindowFacts DEF Window
  <2>2. admitted[p][g] = IF w[g % SEGMENTS].segment = g THEN w[g % SEGMENTS].count ELSE 0
    BY DEF Counts
  <2> DEFINE s == g % SEGMENTS
  <2>3. s \in Slots
    BY <2>1
  <2> HIDE DEF s, v
  <2>4. CASE w[s].segment < WindowStart(t)
    <3>1. w[s].segment # g
      BY <1>2, <1>4, <2>1, <2>3, <2>4
    <3>2. v[s].count = 0
      BY <1>3, <2>3, <2>4
    <3> QED
      BY <2>2, <3>1, <3>2 DEF s
  <2>5. CASE ~(w[s].segment < WindowStart(t))
    <3>1. v[s] = w[s]
      BY <1>3, <2>3, <2>5
    <3> QED
      BY <2>2, <3>1 DEF s
  <2> QED
    BY <2>4, <2>5
<1> QED
  BY <1>5, <1>6 DEF Counts

LEMMA EmptyBuckets == ASSUME WInv PROVE Empty \in Buckets
  BY WindowFacts DEF Empty, Buckets

\* Sweeping a partition's window at t loses nothing that is counted.
LEMMA SweepKeeps ==
  ASSUME WInv, NEW p \in Partitions, NEW t \in Window, NEW ws,
         ws = windows \/ ws = Sweep(windows, t)
  PROVE  LET w == IF p \in DOMAIN ws THEN ws[p] ELSE Empty
         IN  w \in Buckets /\ Counts(w, p)
<1> DEFINE w == IF p \in DOMAIN ws THEN ws[p] ELSE Empty
<1>0. WindowOf(p) \in Buckets /\ Counts(WindowOf(p), p)
  BY DEF WInv
<1>1. CASE p \in DOMAIN ws \/ p \notin DOMAIN windows
  <2>1. w = WindowOf(p)
    BY <1>1 DEF WindowOf, Sweep, Restrict
  <2> QED
    BY <1>0, <2>1
<1>2. CASE p \notin DOMAIN ws /\ p \in DOMAIN windows
  <2>1. w = Empty /\ WindowOf(p) = windows[p]
    BY <1>2 DEF WindowOf
  <2>2. \A s \in Slots : ~(windows[p][s].segment >= WindowStart(t))
    BY <1>2 DEF Sweep, Restrict
  <2>3. t \in Nat /\ now \in Nat /\ t <= now
    BY WindowFacts DEF Window
  <2>4. WindowStart(t) \in Nat /\ WindowStart(now) \in Nat /\ WindowStart(t) <= WindowStart(now)
    BY <2>3, WindowAt
  <2>5. ASSUME NEW g \in Window
        PROVE  admitted[p][g] = IF Empty[g % SEGMENTS].segment = g THEN Empty[g % SEGMENTS].count ELSE 0
    <3>1. g % SEGMENTS \in Slots /\ g \in Nat /\ WindowStart(now) <= g
      BY <2>4, WindowFacts DEF Window
    <3> DEFINE s == g % SEGMENTS
    <3>2. s \in Slots
      BY <3>1
    <3>3. admitted[p][g] = IF windows[p][s].segment = g THEN windows[p][s].count ELSE 0
      BY <1>0, <2>1 DEF Counts
    <3> HIDE DEF s
    <3>4. windows[p][s].segment \in 0..now
      BY <1>0, <2>1, <3>2 DEF Buckets
    <3>5. windows[p][s].segment # g
      BY <2>2, <2>4, <3>1, <3>2, <3>4
    <3>6. Empty[s].count = 0
      BY <3>2 DEF Empty
    <3> QED
      BY <3>3, <3>5, <3>6 DEF s
  <2> QED
    BY <2>1, <2>5, EmptyBuckets DEF Counts
<1> QED
  BY <1>1, <1>2

\* What try_admit compares with the limit is at least what the window has admitted.
LEMMA TotalCovers ==
  ASSUME WInv, NEW p \in Partitions, NEW w \in Buckets, Counts(w, p)
  PROVE  Recent(p) <= Total(w) /\ Recent(p) \in Nat /\ Total(w) \in Nat
<1> DEFINE c == [s \in Slots |-> w[s].count]
           m == [g \in Window |-> g % SEGMENTS]
           f == admitted[p]
<1>1. Total(w) = SumFunctionOnSet(c, Slots)
  <2>1. DOMAIN c = Slots
    OBVIOUS
  <2> QED
    BY <2>1 DEF Total, SumFunction, FoldFunction, SumFunctionOnSet
<1>2. Recent(p) = SumFunctionOnSet(f, Window)
  BY DEF Recent, Window
<1>3. \A s \in Slots : c[s] \in Nat
  BY DEF Buckets
<1>4. \A g \in Window : f[g] \in Nat
  BY WindowFacts DEF WInv
<1>5. \A g \in Window : m[g] \in Slots /\ f[g] <= c[m[g]]
  <2> TAKE g \in Window
  <2>1. m[g] = g % SEGMENTS /\ m[g] \in Slots
    BY WindowFacts
  <2>2. f[g] = IF w[m[g]].segment = g THEN w[m[g]].count ELSE 0
    BY <2>1 DEF Counts
  <2>3. c[m[g]] = w[m[g]].count /\ c[m[g]] \in Nat
    BY <1>3, <2>1
  <2> QED
    BY <2>1, <2>2, <2>3
<1>6. \A g, h \in Window : m[g] = m[h] => g = h
  BY WindowFacts
<1> HIDE DEF c, m, f
<1>7. SumFunctionOnSet(f, Window) <= SumFunctionOnSet(c, Slots)
  BY <1>3, <1>4, <1>5, <1>6, WindowFacts, SumInjection
<1>8. SumFunctionOnSet(f, Window) \in Nat /\ SumFunctionOnSet(c, Slots) \in Nat
  BY <1>3, <1>4, WindowFacts, SumType
<1> QED
  BY <1>1, <1>2, <1>7, <1>8

\* Recording an admission at t adds one to the count of t and to no other segment's:
\* no other segment of the window shares its slot.
LEMMA RecordKeeps ==
  ASSUME WInv, NEW p \in Partitions, NEW t \in Window, NEW w \in Buckets, Counts(w, p),
         now' = now, admitted' = [admitted EXCEPT ![p][t] = @ + 1]
  PROVE  Record(w, t) \in Buckets /\ Counts(Record(w, t), p)'
<1> DEFINE v == Record(w, t)
           k == t % SEGMENTS
<1>1. k \in Slots /\ t \in 0..now /\ t \in Segments /\ Window' = Window
  BY WindowFacts DEF Window, WindowStart
<1>2. w[k].segment \in 0..now /\ w[k].count \in Nat
  BY <1>1 DEF Buckets
<1> DEFINE n == IF w[k].segment = t THEN w[k].count + 1 ELSE 1
<1>3. v = [w EXCEPT ![k] = [segment |-> t, count |-> n]] /\ n \in Nat
  BY <1>2 DEF Record
<1>4. v \in Buckets
  BY <1>1, <1>3 DEF Buckets
<1>5. v[k] = [segment |-> t, count |-> n] /\ \A s \in Slots \ {k} : v[s] = w[s]
  BY <1>1, <1>3 DEF Buckets
<1>6. /\ admitted'[p][t] = admitted[p][t] + 1
      /\ \A g \in Window \ {t} : admitted'[p][g] = admitted[p][g]
  BY <1>1, WindowFacts DEF WInv
<1>7. admitted[p][t] = IF w[k].segment = t THEN w[k].count ELSE 0
  BY DEF Counts
<1>8. ASSUME NEW g \in Window
      PROVE  admitted'[p][g] = IF v[g % SEGMENTS].segment = g THEN v[g % SEGMENTS].count ELSE 0
  <2>1. CASE g = t
    <3>1. admitted[p][t] + 1 = n
      BY <1>2, <1>7
    <3>2. v[k].segment = t /\ v[k].count = n
      BY <1>5
    <3> HIDE DEF v, n
    <3> QED
      BY <1>6, <2>1, <3>1, <3>2
  <2>2. CASE g # t
    <3>1. g % SEGMENTS \in Slots /\ g % SEGMENTS # k
      BY <2>2, WindowFacts
    <3>2. v[g % SEGMENTS] = w[g % SEGMENTS]
      BY <1>5, <3>1
    <3>3. admitted[p][g] = IF w[g % SEGMENTS].segment = g THEN w[g % SEGMENTS].count ELSE 0
      BY DEF Counts
    <3> QED
      BY <1>6, <2>2, <3>2, <3>3
  <2> QED
    BY <2>1, <2>2
<1>9. Counts(v, p)'
  BY <1>1, <1>8 DEF Counts
<1> QED
  BY <1>4, <1>9

\* One more admission is one more in the window.
LEMMA RecentGrows ==
  ASSUME WInv, NEW p \in Partitions, NEW t \in Window, now' = now,
         admitted' = [admitted EXCEPT ![p][t] = @ + 1]
  PROVE  Recent(p)' <= Recent(p) + 1
<1> DEFINE f == admitted[p]
           h == admitted'[p]
           W == Window
           V == W \ {t}
<1>1. t \in Segments /\ Window' = W /\ W \in SUBSET Segments /\ IsFiniteSet(W)
  BY WindowFacts DEF Window, WindowStart
<1>2. /\ h[t] = f[t] + 1 /\ \A g \in W : f[g] \in Nat /\ h[g] \in Nat
      /\ \A g \in V : h[g] = f[g]
  BY <1>1 DEF WInv
<1>3. Recent(p) = SumFunctionOnSet(f, W) /\ Recent(p)' = SumFunctionOnSet(h, W)
  BY <1>1 DEF Recent, Window
<1> HIDE DEF f, h, W
<1>4. IsFiniteSet(V) /\ t \in W
  BY <1>1, FS_Subset DEF W
<1>5. /\ SumFunctionOnSet(f, W) = f[t] + SumFunctionOnSet(f, V)
      /\ SumFunctionOnSet(h, W) = h[t] + SumFunctionOnSet(h, V)
  BY <1>1, <1>2, <1>4, SumRemove
<1>6. SumFunctionOnSet(h, V) <= SumFunctionOnSet(f, V)
  <2> DEFINE m == [g \in V |-> g]
  <2>1. /\ \A g \in V : h[g] \in Nat /\ m[g] \in V /\ h[g] <= f[m[g]]
        /\ \A g \in V : f[g] \in Nat
        /\ \A g, j \in V : m[g] = m[j] => g = j
    BY <1>2
  <2> HIDE DEF m, V
  <2> QED
    BY <1>4, <2>1, SumInjection
<1>7. SumFunctionOnSet(h, V) \in Nat /\ SumFunctionOnSet(f, V) \in Nat
  BY <1>2, <1>4, SumType
<1> HIDE DEF V
<1> QED
  BY <1>2, <1>3, <1>4, <1>5, <1>6, <1>7

LEMMA AdmitKeeps ==
  ASSUME WInv, NEW r \in Requests, AdmitPartition(r), UNCHANGED part
  PROVE  WInv'
<1>0. PICK p, t, swept, w :
        /\ p = part[r] /\ t = stamp[r]
        /\ swept = IF ops >= SweepEveryOps THEN Sweep(windows, t) ELSE windows
        /\ w = Rolled(IF p \in DOMAIN swept THEN swept[p] ELSE Empty, t)
  OBVIOUS
<1> DEFINE admits == Total(w) < Limit(p)
<1>1. /\ pc[r] = "window" /\ now' = now
      /\ windows' = [q \in DOMAIN swept \cup {p} |->
                       IF q # p THEN swept[q] ELSE IF admits THEN Record(w, t) ELSE w]
      /\ admitted' = IF admits THEN [admitted EXCEPT ![p][t] = @ + 1] ELSE admitted
      /\ pc' = [pc EXCEPT ![r] = IF admits THEN "enter" ELSE "limited"]
      /\ stamp' = [stamp EXCEPT ![r] = 0]
  BY <1>0 DEF AdmitPartition
<1>2. p \in Partitions /\ t \in Window /\ now \in Segments
  BY <1>0, <1>1 DEF WInv
<1>3. swept = windows \/ swept = Sweep(windows, t)
  BY <1>0
<1>4. ASSUME NEW q \in Partitions
      PROVE  LET v == IF q \in DOMAIN swept THEN swept[q] ELSE Empty
             IN  v \in Buckets /\ Counts(v, q)
  BY <1>2, <1>3, SweepKeeps
<1>5. w \in Buckets /\ Counts(w, p)
  BY <1>0, <1>2, <1>4, RolledKeeps
<1>6. Window' = Window /\ Buckets' = Buckets
  BY <1>1 DEF Window, Buckets, WindowStart
<1>7. DOMAIN windows' \in SUBSET Partitions
  <2>1. DOMAIN swept \in SUBSET DOMAIN windows
    BY <1>3 DEF Sweep, Restrict
  <2> QED
    BY <1>1, <1>2, <2>1 DEF WInv
<1>8. ASSUME NEW q \in Partitions, q # p
      PROVE  /\ (WindowOf(q) \in Buckets)' /\ Counts(WindowOf(q), q)'
             /\ Recent(q)' = Recent(q) /\ admitted'[q] = admitted[q]
  <2>1. admitted'[q] = admitted[q]
    BY <1>1, <1>8 DEF WInv
  <2>2. WindowOf(q)' = IF q \in DOMAIN swept THEN swept[q] ELSE Empty
    BY <1>1, <1>8 DEF WindowOf
  <2>3. Counts(WindowOf(q)', q)
    BY <1>4, <2>2
  <2>4. Recent(q)' = Recent(q)
    BY <1>1, <2>1 DEF Recent, WindowStart
  <2>5. Counts(WindowOf(q), q)'
    BY <1>6, <2>1, <2>3 DEF Counts
  <2> QED
    BY <1>4, <1>6, <2>1, <2>2, <2>4, <2>5
<1>9. /\ (WindowOf(p) \in Buckets)' /\ Counts(WindowOf(p), p)' /\ Recent(p)' <= Limit(p)
      /\ admitted' \in [Partitions -> [Segments -> Nat]]
      /\ \A q \in Partitions : \A g \in Segments : g > now => admitted'[q][g] = 0
  <2>1. CASE admits
    <3>1. admitted' = [admitted EXCEPT ![p][t] = @ + 1] /\ WindowOf(p)' = Record(w, t)
      BY <1>1, <2>1 DEF WindowOf
    <3>2. Record(w, t) \in Buckets /\ Counts(Record(w, t), p)'
      BY <1>1, <1>2, <1>5, <3>1, RecordKeeps
    <3>3. Recent(p)' <= Recent(p) + 1
      BY <1>1, <1>2, <3>1, RecentGrows
    <3>4. /\ Recent(p) <= Total(w) /\ Recent(p) \in Nat /\ Total(w) \in Nat
          /\ Total(w) < Limit(p) /\ Limit(p) \in Nat
      BY <1>2, <1>5, <2>1, TotalCovers, LimitType
    <3>5. t \in Segments /\ t \in Nat /\ t <= now
      BY <1>2, WindowFacts DEF Window
    <3>6. admitted' \in [Partitions -> [Segments -> Nat]]
      BY <1>2, <3>1, <3>5 DEF WInv
    <3>7. \A q \in Partitions : \A g \in Segments : g > now => admitted'[q][g] = 0
      BY <1>2, <3>1, <3>5, WindowFacts DEF WInv
    <3>8. Recent(p)' \in Nat
      <4>1. \A g \in Window : admitted'[p][g] \in Nat
        BY <1>2, <3>6, WindowFacts
      <4>2. SumFunctionOnSet(admitted'[p], Window) \in Nat
        BY <4>1, WindowFacts, SumType
      <4> QED
        BY <1>6, <4>2 DEF Recent, Window
    <3>9. Recent(p)' <= Limit(p)
      BY <3>3, <3>4, <3>8
    <3>10. Counts(WindowOf(p), p)'
      BY <3>1, <3>2 DEF Counts
    <3> QED
      BY <1>6, <3>1, <3>2, <3>6, <3>7, <3>9, <3>10
  <2>2. CASE ~admits
    <3>1. admitted' = admitted /\ WindowOf(p)' = w
      BY <1>1, <2>2 DEF WindowOf
    <3>2. Recent(p)' = Recent(p) /\ Recent(p) <= Limit(p)
      BY <1>1, <1>2, <3>1 DEF Recent, WindowStart, WInv
    <3>3. Counts(WindowOf(p), p)'
      BY <1>5, <1>6, <3>1 DEF Counts
    <3> QED
      BY <1>5, <1>6, <3>1, <3>2, <3>3 DEF WInv
  <2> QED
    BY <2>1, <2>2
<1>10. stamp' \in [Requests -> Nat] /\ pc' \in [Requests -> Places]
  BY <1>1 DEF WInv, Places
<1>11. \A q \in Requests : pc'[q] = "window" => part'[q] \in Partitions /\ stamp'[q] \in Window'
  BY <1>1, <1>6 DEF WInv
<1> QED
  BY <1>1, <1>2, <1>7, <1>8, <1>9, <1>10, <1>11 DEF WInv

LEMMA TickKeeps ==
  ASSUME WInv, Tick, UNCHANGED part
  PROVE  WInv'
<1> DEFINE W == Window
           V == WindowStart(now + 1)..(now + 1)
<1>1. /\ now \in Nat /\ now < MaxSegment /\ now' = now + 1
      /\ \A r \in Requests : pc[r] = "window" => now + 1 - stamp[r] < SEGMENTS
      /\ UNCHANGED <<windows, pc, stamp, admitted>>
  BY WindowFacts DEF Tick
<1>2. Window' = V /\ now' \in Segments /\ now' \in Nat /\ now + 1 \in Segments
  BY <1>1 DEF Window, Segments
<1>3. /\ WindowStart(now) \in Nat /\ WindowStart(now + 1) \in Nat
      /\ WindowStart(now) <= WindowStart(now + 1) /\ WindowStart(now + 1) <= now + 1
      /\ \A h \in Nat : h <= now + 1 /\ now + 1 - h < SEGMENTS => WindowStart(now + 1) <= h
  BY <1>1, WindowAt
<1>4. V \ {now + 1} \in SUBSET W /\ now + 1 \in V /\ \A g \in V : g = now + 1 \/ g \in W
  BY <1>1, <1>3 DEF Window
<1>5. \A p \in Partitions : admitted[p][now + 1] = 0
  BY <1>1, <1>2 DEF WInv
<1>6. ASSUME NEW r \in Requests, pc'[r] = "window" PROVE part'[r] \in Partitions /\ stamp'[r] \in V
  <2>1. part[r] \in Partitions /\ stamp[r] \in Window /\ now + 1 - stamp[r] < SEGMENTS
    BY <1>1, <1>6 DEF WInv
  <2>2. stamp[r] \in Nat /\ stamp[r] <= now
    BY <1>1, <1>3, <2>1 DEF Window
  <2> QED
    BY <1>1, <1>3, <2>1, <2>2
<1>7. ASSUME NEW p \in Partitions
      PROVE  (WindowOf(p) \in Buckets)' /\ Counts(WindowOf(p), p)' /\ Recent(p)' <= Limit(p)
  <2>1. WindowOf(p)' = WindowOf(p) /\ WindowOf(p) \in Buckets /\ Counts(WindowOf(p), p)
    BY <1>1 DEF WindowOf, WInv
  <2>2. (WindowOf(p) \in Buckets)'
    <3>1. 0..now \in SUBSET (0..now')
      BY <1>1
    <3> QED
      BY <2>1, <3>1 DEF Buckets
  <2> DEFINE w == WindowOf(p)
  <2>3. ASSUME NEW g \in V
        PROVE  admitted[p][g] = IF w[g % SEGMENTS].segment = g THEN w[g % SEGMENTS].count ELSE 0
    <3>1. CASE g = now + 1
      <4>1. g % SEGMENTS \in Slots
        BY <1>1, <3>1 DEF Slots
      <4>2. w[g % SEGMENTS].segment \in 0..now
        BY <2>1, <4>1 DEF Buckets
      <4>3. w[g % SEGMENTS].segment # g
        BY <1>1, <3>1, <4>2
      <4> QED
        BY <1>5, <3>1, <4>3
    <3>2. CASE g # now + 1
      BY <1>4, <2>1, <3>2 DEF Counts
    <3> QED
      BY <3>1, <3>2
  <2>4. Counts(WindowOf(p), p)'
    <3> HIDE DEF V
    <3> QED
      BY <1>1, <1>2, <2>1, <2>3 DEF Counts
  <2>5. Recent(p)' <= Limit(p)
    <3> DEFINE f == admitted[p]
               U == V \ {now + 1}
               m == [g \in U |-> g]
    <3>1. IsFiniteSet(V) /\ IsFiniteSet(W) /\ W \in SUBSET Segments
      BY <1>1, <1>3, FS_Interval, WindowFacts
    <3>2. Recent(p)' = SumFunctionOnSet(f, V) /\ Recent(p) = SumFunctionOnSet(f, W)
      <4>1. admitted' = admitted /\ now' = now + 1
        BY <1>1
      <4>2. Recent(p)' = SumFunctionOnSet(admitted'[p], WindowStart(now')..now')
        BY Zenon DEF Recent
      <4>3. Recent(p)' = SumFunctionOnSet(f, V)
        BY <4>1, <4>2, Zenon
      <4>4. Recent(p) = SumFunctionOnSet(f, W)
        BY Zenon DEF Recent, Window
      <4> QED
        BY <4>3, <4>4
    <3>3. (\A g \in W : f[g] \in Nat) /\ \A g \in V : f[g] \in Nat
      BY <1>4, <1>5, <3>1 DEF WInv
    <3>4. /\ \A g \in U : f[g] \in Nat /\ m[g] \in W /\ f[g] <= f[m[g]]
          /\ \A g, h \in U : m[g] = m[h] => g = h
      BY <1>4, <3>3
    <3>5. f[now + 1] = 0
      BY <1>5
    <3> HIDE DEF f, W, V, m
    <3>6. IsFiniteSet(U)
      BY <3>1, FS_Subset
    <3>7. SumFunctionOnSet(f, V) = f[now + 1] + SumFunctionOnSet(f, U)
      BY <1>4, <3>1, <3>3, SumRemove
    <3> HIDE DEF U
    <3>8. SumFunctionOnSet(f, U) <= SumFunctionOnSet(f, W)
      BY <3>1, <3>3, <3>4, <3>6, SumInjection
    <3>9. SumFunctionOnSet(f, U) \in Nat /\ SumFunctionOnSet(f, W) \in Nat
      BY <3>1, <3>3, <3>4, <3>6, SumType
    <3>10. Recent(p) <= Limit(p) /\ Limit(p) \in Nat
      BY LimitType DEF WInv
    <3> QED
      BY <3>2, <3>5, <3>7, <3>8, <3>9, <3>10
  <2> QED
    BY <2>2, <2>4, <2>5
<1>8. \A p \in Partitions : \A g \in Segments : g > now' => admitted'[p][g] = 0
  <2>1. \A g \in Segments : g > now + 1 => g > now
    BY <1>1 DEF Segments
  <2> QED
    BY <1>1, <2>1 DEF WInv
<1> QED
  BY <1>1, <1>2, <1>6, <1>7, <1>8 DEF WInv

\* A step that leaves the clock and the windows alone.
LEMMA WindowsKept ==
  ASSUME WInv, UNCHANGED <<now, windows, admitted, part>>,
         stamp' \in [Requests -> Nat], pc' \in [Requests -> Places],
         \A r \in Requests : pc'[r] = "window" => part[r] \in Partitions /\ stamp'[r] \in Window
  PROVE  WInv'
<1>1. Window' = Window /\ Buckets' = Buckets
  BY DEF Window, WindowStart, Buckets
<1>2. ASSUME NEW p \in Partitions
      PROVE  (WindowOf(p) \in Buckets)' /\ Counts(WindowOf(p), p)' /\ Recent(p)' <= Limit(p)
  <2>1. WindowOf(p)' = WindowOf(p) /\ Recent(p)' = Recent(p)
    <3>1. WindowOf(p)' = WindowOf(p)
      BY DEF WindowOf
    <3>2. Recent(p)' = Recent(p)
      BY Zenon DEF Recent
    <3> QED
      BY <3>1, <3>2
  <2>2. WindowOf(p) \in Buckets /\ Counts(WindowOf(p), p) /\ Recent(p) <= Limit(p)
    BY Zenon DEF WInv
  <2>3. Counts(WindowOf(p), p)'
    BY <1>1, <2>1, <2>2 DEF Counts
  <2> QED
    BY <1>1, <2>1, <2>2, <2>3
<1> QED
  BY <1>1, <1>2 DEF WInv

\* So does a request that moves to any place but the window.
LEMMA ElsewhereKeeps ==
  ASSUME WInv, NEW r \in Requests, NEW s \in Places, s # "window",
         pc' = [pc EXCEPT ![r] = s], UNCHANGED <<now, windows, stamp, admitted, part>>
  PROVE  WInv'
<1>1. pc' \in [Requests -> Places] /\ stamp' \in [Requests -> Nat]
  BY DEF WInv
<1>2. \A q \in Requests : pc'[q] = "window" => part[q] \in Partitions /\ stamp'[q] \in Window
  BY DEF WInv
<1> QED
  BY <1>1, <1>2, WindowsKept

LEMMA WInvStep == WInv /\ part \in [Requests -> Partitions \cup {NoPartition}] /\ [Next]_vars => WInv'
<1> SUFFICES ASSUME WInv, part \in [Requests -> Partitions \cup {NoPartition}], [Next]_vars
             PROVE  WInv'
  OBVIOUS
<1>1. CASE UNCHANGED vars
  <2>1. UNCHANGED <<now, windows, admitted, part, stamp, pc>>
    BY <1>1 DEF vars
  <2> QED
    BY <2>1, WindowsKept DEF WInv
<1>2. CASE Tick /\ UNCHANGED part
  BY <1>2, TickKeeps
<1>3. ASSUME NEW r \in Requests, Unauthorized(r), UNCHANGED part PROVE WInv'
  BY <1>3, ElsewhereKeeps DEF Unauthorized, Places
<1>4. ASSUME NEW r \in Requests, ReadClock(r), UNCHANGED part PROVE WInv'
  <2>1. CASE Unlimited(part[r])
    BY <1>4, <2>1, ElsewhereKeeps DEF ReadClock, Places
  <2>2. CASE ~Unlimited(part[r])
    <3>1. /\ stamp' = [stamp EXCEPT ![r] = now] /\ pc' = [pc EXCEPT ![r] = "window"]
          /\ UNCHANGED <<now, windows, admitted, part>>
      BY <1>4, <2>2 DEF ReadClock
    <3>2. part[r] \in Partitions /\ now \in Window /\ now \in Nat
      BY <2>2, WindowFacts DEF Unlimited
    <3>3. stamp' \in [Requests -> Nat] /\ pc' \in [Requests -> Places]
      BY <3>1, <3>2 DEF WInv, Places
    <3>4. \A q \in Requests : pc'[q] = "window" => part[q] \in Partitions /\ stamp'[q] \in Window
      BY <3>1, <3>2 DEF WInv
    <3> QED
      BY <3>1, <3>3, <3>4, WindowsKept
  <2> QED
    BY <2>1, <2>2
<1>5. ASSUME NEW r \in Requests, AdmitPartition(r), UNCHANGED part PROVE WInv'
  BY <1>5, AdmitKeeps
<1>6. ASSUME NEW r \in Requests, UNCHANGED part,
             LoadInFlight(r) \/ SwapInFlight(r) \/ Finish(r)
      PROVE  WInv'
  <2>1. UNCHANGED <<now, windows, stamp, admitted>>
    BY <1>6 DEF LoadInFlight, SwapInFlight, Finish
  <2>2. \E s \in {"shed", "swap", "serving", "served"} : pc' = [pc EXCEPT ![r] = s]
    BY <1>6 DEF LoadInFlight, SwapInFlight, Finish, Observe
  <2> QED
    BY <1>6, <2>1, <2>2, ElsewhereKeeps DEF Places
<1> QED
  BY <1>1, <1>2, <1>3, <1>4, <1>5, <1>6 DEF Next

\* No partition gets more than its limit in any trailing window (try_admit,
\* sweep_dead_windows), for every number of segments, requests and partitions and every
\* limit: late clock values, reused slots, lazy resets and sweeps lose no admission that
\* is still inside the window.
THEOREM WindowIsHonoured == Spec => []WindowHonoured
<1> DEFINE PartType == part \in [Requests -> Partitions \cup {NoPartition}]
<1>1. Init => PartType
  BY DEF Init
<1>2. PartType /\ [Next]_vars => PartType'
  BY DEF Next, vars
<1>3. WInv => WindowHonoured
  BY DEF WInv, WindowHonoured
<1>4. WInv /\ PartType /\ [Next]_vars => WInv'
  BY WInvStep
<1> QED
  BY WInvInit, <1>1, <1>2, <1>3, <1>4, PTL DEF Spec
==============================================================================
