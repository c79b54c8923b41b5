-------------------------- MODULE RpcFailoverProofs --------------------------
(***************************************************************************)
(* Proofs about how the node is asked: the rounds of RpcFailover, for      *)
(* every number of endpoints and calls, every base timeout and round count *)
(* and every counter width; and the waits of Worker between two passes.    *)
(***************************************************************************)
EXTENDS RpcFailover, TLAPS

------------------------------------------------------------------------------
(* The arithmetic of the slots. *)

LEMMA Division ==
  ASSUME NEW n \in Int, n > 0, NEW x \in Int
  PROVE  x \div n \in Int /\ x % n \in 0..(n - 1) /\ x = n * (x \div n) + (x % n)
<1>1. x \div n \in Int /\ x % n \in 0..(n - 1)
  OBVIOUS
<1>2. x = n * (x \div n) + (x % n)
  BY Z3T(20)
<1> QED
  BY <1>1, <1>2

LEMMA Products ==
  ASSUME NEW a \in Int, NEW b \in Int, NEW c \in Int
  PROVE  a * b \in Int /\ (a * b) * c = a * (b * c) /\ a * (b - c) = a * b - a * c
  OBVIOUS

\* A remainder is determined by its range.
LEMMA RemainderUnique ==
  ASSUME NEW n \in Int, n > 0, NEW q \in Int, NEW r \in 0..(n - 1)
  PROVE  (n * q + r) % n = r
<1> DEFINE x == n * q + r
           d == q - (x \div n)
<1>1. x \in Int
  OBVIOUS
<1>2. x \div n \in Int /\ x % n \in 0..(n - 1) /\ x = n * (x \div n) + (x % n)
  BY <1>1, Division
<1>3. d \in Int /\ n * d = (x % n) - r
  BY <1>1, <1>2
<1>4. n * d < n /\ n * d > 0 - n
  BY <1>2, <1>3
<1> HIDE DEF d
<1>5. ASSUME d >= 1 PROVE FALSE
  <2>1. n * d >= n * 1
    BY <1>3, <1>5
  <2> QED
    BY <1>3, <1>4, <2>1
<1>6. ASSUME d <= -1 PROVE FALSE
  <2>1. n * d <= n * (-1)
    BY <1>3, <1>6
  <2> QED
    BY <1>3, <1>4, <2>1
<1>7. d = 0
  BY <1>3, <1>5, <1>6
<1>8. n * d = 0
  BY <1>7
<1> QED
  BY <1>2, <1>3, <1>8

USE FailoverAssumption

SlotAt(s, k) == ((s + k) % UsizeRange) % N

\* The counter does not wrap in a round that starts at s, or wraps onto the same slots.
Seamless(s) == s + N <= UsizeRange \/ UsizeRange % N = 0

\* The N slots from s are all endpoints.
LEMMA SlotsCover ==
  ASSUME NEW s \in 0..(UsizeRange - 1), Seamless(s), NEW e \in Endpoints
  PROVE  \E k \in 0..(N - 1) : SlotAt(s, k) = e
<1> DEFINE q == (e - s) \div N
           k == (e - s) % N
           m == UsizeRange \div N
           j == (s + k) \div UsizeRange
<1>0. N \in Int /\ N > 0 /\ UsizeRange \in Int /\ UsizeRange > 0
  OBVIOUS
<1>1. e \in Int /\ e \in 0..(N - 1) /\ s \in Int /\ s >= 0
  BY DEF Endpoints
<1>2. q \in Int /\ k \in 0..(N - 1) /\ e - s = N * q + k
  BY <1>0, <1>1, Division
<1>3. s + k = N * (0 - q) + e /\ s + k \in Int
  BY <1>0, <1>1, <1>2
<1>4. CASE s + N <= UsizeRange
  <2>1. (s + k) % UsizeRange = s + k
    BY <1>0, <1>1, <1>2, <1>4
  <2>2. (N * (0 - q) + e) % N = e
    <3>1. 0 - q \in Int
      BY <1>2
    <3> QED
      BY <1>0, <1>1, <3>1, RemainderUnique
  <2>3. ((s + k) % UsizeRange) % N = e
    BY <1>3, <2>1, <2>2
  <2> QED
    BY <1>2, <2>3 DEF SlotAt
<1>5. CASE UsizeRange % N = 0
  <2>1. m \in Int /\ UsizeRange = N * m
    <3>1. m \in Int /\ UsizeRange = N * m + (UsizeRange % N)
      BY <1>0, Division
    <3> QED
      BY <1>0, <1>5, <3>1
  <2>2. j \in Int /\ s + k = UsizeRange * j + ((s + k) % UsizeRange) /\ (s + k) % UsizeRange \in Int
    BY <1>0, <1>3, Division
  <2> DEFINE t == (s + k) % UsizeRange
  <2>4. (N * m) * j = N * (m * j) /\ m * j \in Int
    <3>1. N \in Int /\ m \in Int /\ j \in Int
      BY <1>0, <2>1, <2>2
    <3> HIDE DEF m, j
    <3> QED
      BY <3>1, Products
  <2>3. t = N * (0 - q) + e - N * (m * j)
    <3>1. s + k = N * (m * j) + t
      <4>1. UsizeRange * j = (N * m) * j
        BY <2>1
      <4> HIDE DEF m, j
      <4> QED
        BY <2>2, <2>4, <4>1
    <3>2. N * (0 - q) \in Int /\ N * (m * j) \in Int
      BY <1>0, <1>2, <2>4, Products
    <3> HIDE DEF t, q, k
    <3> QED
      BY <1>1, <1>3, <2>2, <3>1, <3>2 DEF t
  <2> DEFINE p == (0 - q) - m * j
  <2>5. p \in Int /\ t = N * p + e
    <3>1. p \in Int
      BY <1>2, <2>4
    <3>2. N * p = N * (0 - q) - N * (m * j)
      BY <1>0, <1>2, <2>4, Products
    <3> QED
      BY <3>1, <3>2, <2>3, <2>4, <1>0, <1>1, <1>2
  <2>6. t % N = e
    <3> HIDE DEF p, t
    <3>1. (N * p + e) % N = e
      BY <1>0, <1>1, <2>5, RemainderUnique
    <3> QED
      BY <2>5, <3>1
  <2> QED
    BY <1>2, <2>6 DEF SlotAt
<1> QED
  BY <1>4, <1>5 DEF Seamless
------------------------------------------------------------------------------
(* The invariant. *)

Tried(c) == {SlotAt(start[c], k) : k \in 0..(offset[c] - 1)}
InRound(c) == pc[c] \in {"try", "backoff", "failed"}

\* This round's timeout would have let a healthy endpoint answer.
LongEnough(c) == ~(AttemptTimeout(c, attempt[c]) < need[c])

TypeInv ==
  /\ next_endpoint \in 0..(UsizeRange - 1)
  /\ pc \in [Calls -> {"start", "try", "backoff", "ok", "failed"}]
  /\ attempt \in [Calls -> Nat]
  /\ start \in [Calls -> 0..(UsizeRange - 1)]
  /\ offset \in [Calls -> 0..N]
  /\ last \in [Calls -> {"none", "transient", "permanent"}]
  /\ faults \in 0..MaxFaults
  /\ tried \in [Calls -> SUBSET Endpoints]

\* What a call knows of its round: which slots it asked, that each answer lost in
\* a round with a sufficient timeout was a fault, and why it gave up.
CallInv(c) ==
  /\ attempt[c] < Attempts(c)
  /\ pc[c] = "backoff" => attempt[c] + 1 < Attempts(c)
  /\ InRound(c) => tried[c] = Tried(c)
  /\ pc[c] \in {"backoff", "failed"} => offset[c] = N
  /\ InRound(c) /\ offset[c] > 0 => last[c] # "none"
  /\ InRound(c) /\ LongEnough(c) => offset[c] <= faults
  /\ pc[c] = "failed" => ~RetriesAfter(c)

IInv ==
  /\ TypeInv
  /\ need \in [Calls -> Needs]
  /\ \A c \in Calls : CallInv(c)

LEMMA AttemptsType == \A c \in Calls : Attempts(c) \in Nat \ {0}
  BY DEF Attempts

LEMMA SlotType == ASSUME TypeInv, NEW c \in Calls PROVE Slot(c) \in Endpoints
<1>1. start[c] + offset[c] \in Int
  BY DEF TypeInv
<1>2. UsizeRange \in Int /\ UsizeRange > 0 /\ N \in Int /\ N > 0
  OBVIOUS
<1>3. (start[c] + offset[c]) % UsizeRange \in Int
  BY <1>1, <1>2
<1>4. ((start[c] + offset[c]) % UsizeRange) % N \in 0..(N - 1)
  BY <1>2, <1>3, Division
<1> QED
  BY <1>4 DEF Slot, Endpoints

LEMMA IInvInit == Init => IInv
<1> SUFFICES ASSUME Init PROVE IInv
  OBVIOUS
<1>1. TypeInv
  BY DEF Init, TypeInv
<1>2. ASSUME NEW c \in Calls PROVE CallInv(c)
  <2>1. pc[c] = "start" /\ attempt[c] = 0
    BY DEF Init
  <2> QED
    BY <2>1, AttemptsType DEF CallInv, InRound
<1> QED
  BY <1>1, <1>2 DEF Init, IInv

\* The calls that do not move keep their invariant: faults only grow.
LEMMA OthersKeep ==
  ASSUME IInv, NEW c \in Calls, CallStep(c), NEW d \in Calls \ {c}
  PROVE  CallInv(d)'
<1>1. /\ pc'[d] = pc[d] /\ attempt'[d] = attempt[d] /\ start'[d] = start[d]
      /\ offset'[d] = offset[d] /\ last'[d] = last[d] /\ tried'[d] = tried[d]
      /\ need' = need
  <2>0. /\ d # c /\ DOMAIN pc = Calls /\ DOMAIN attempt = Calls /\ DOMAIN start = Calls
        /\ DOMAIN offset = Calls /\ DOMAIN last = Calls /\ DOMAIN tried = Calls
    BY DEF IInv, TypeInv
  <2>1. CASE BeginRound(c)
    BY <2>0, <2>1 DEF BeginRound
  <2>2. ASSUME NEW result, TryEndpoint(c, result)
        PROVE  /\ pc'[d] = pc[d] /\ attempt'[d] = attempt[d] /\ start'[d] = start[d]
               /\ offset'[d] = offset[d] /\ last'[d] = last[d] /\ tried'[d] = tried[d]
               /\ need' = need
    BY <2>0, <2>2 DEF TryEndpoint
  <2>3. CASE EndRound(c)
    BY <2>0, <2>3 DEF EndRound
  <2>4. CASE Backoff(c)
    BY <2>0, <2>4 DEF Backoff
  <2> QED
    BY <2>1, <2>2, <2>3, <2>4, Zenon DEF CallStep
<1>2. faults \in Nat /\ faults' \in Nat /\ faults <= faults'
  BY DEF IInv, TypeInv, CallStep, BeginRound, TryEndpoint, EndRound, Backoff, Outcome
<1>3. CallInv(d) /\ offset[d] \in Nat
  BY DEF IInv, TypeInv
<1>4. /\ InRound(d)' = InRound(d) /\ LongEnough(d)' = LongEnough(d)
      /\ RetriesAfter(d)' = RetriesAfter(d) /\ Tried(d)' = Tried(d)
  BY <1>1 DEF InRound, LongEnough, RetriesAfter, Tried
<1>5. Attempts(d)' = Attempts(d)
  BY DEF Attempts
<1>6. InRound(d) /\ LongEnough(d) => offset[d] <= faults'
  BY <1>2, <1>3 DEF CallInv
<1> QED
  BY <1>1, <1>3, <1>4, <1>5, <1>6 DEF CallInv
LEMMA BeginRoundKeeps ==
  ASSUME IInv, NEW c \in Calls, BeginRound(c)
  PROVE  TypeInv' /\ CallInv(c)'
<1>0. TypeInv /\ CallInv(c)
  BY DEF IInv
<1>1. next_endpoint' \in 0..(UsizeRange - 1)
  <2>1. next_endpoint' = (next_endpoint + 1) % UsizeRange
    BY DEF BeginRound
  <2>2. next_endpoint + 1 \in Int /\ UsizeRange \in Int /\ UsizeRange > 0
    BY <1>0 DEF TypeInv
  <2> QED
    BY <2>1, <2>2, Division
<1>2. TypeInv'
  BY <1>0, <1>1 DEF TypeInv, BeginRound
<1>3. /\ pc'[c] = "try" /\ offset'[c] = 0 /\ tried'[c] = {} /\ attempt' = attempt
      /\ faults' = faults /\ faults \in Nat
  BY <1>0 DEF TypeInv, BeginRound
<1>4. Tried(c)' = {}
  BY <1>3 DEF Tried
<1> QED
  BY <1>0, <1>2, <1>3, <1>4 DEF CallInv, Attempts

LEMMA TryEndpointKeeps ==
  ASSUME IInv, NEW c \in Calls, NEW result \in {"ok", "transient", "permanent"},
         TryEndpoint(c, result)
  PROVE  TypeInv' /\ CallInv(c)'
<1>0. TypeInv /\ CallInv(c) /\ Slot(c) \in Endpoints
  BY SlotType DEF IInv
<1>1. /\ pc[c] = "try" /\ offset[c] < N /\ offset[c] \in Nat
      /\ offset' = [offset EXCEPT ![c] = @ + 1] /\ offset'[c] = offset[c] + 1
      /\ tried' = [tried EXCEPT ![c] = @ \cup {Slot(c)}]
      /\ UNCHANGED <<next_endpoint, need, attempt, start>>
  BY <1>0 DEF TypeInv, TryEndpoint
<1>2. /\ faults' \in 0..MaxFaults
      /\ LongEnough(c) /\ result # "ok" => faults' = faults + 1
  BY <1>0 DEF TypeInv, TryEndpoint, Outcome, LongEnough
<1>3. /\ pc' \in [Calls -> {"start", "try", "backoff", "ok", "failed"}]
      /\ last' \in [Calls -> {"none", "transient", "permanent"}]
  BY <1>0 DEF TypeInv, TryEndpoint
<1>4. offset' \in [Calls -> 0..N] /\ tried' \in [Calls -> SUBSET Endpoints]
  BY <1>0, <1>1 DEF TypeInv
<1>5. TypeInv'
  BY <1>0, <1>1, <1>2, <1>3, <1>4 DEF TypeInv
<1>6. attempt'[c] < Attempts(c)' /\ pc'[c] \in {"try", "ok"}
  BY <1>0, <1>1 DEF CallInv, Attempts, TypeInv, TryEndpoint
<1>7. CASE result = "ok"
  <2>1. pc'[c] = "ok"
    BY <1>0, <1>7 DEF TryEndpoint, TypeInv
  <2> QED
    BY <1>5, <1>6, <2>1 DEF CallInv, InRound
<1>8. CASE result # "ok"
  <2>1. pc'[c] = "try" /\ last'[c] = result /\ result # "none"
    BY <1>0, <1>1, <1>8 DEF TryEndpoint, TypeInv
  <2>2. tried'[c] = Tried(c)'
    <3>1. tried'[c] = tried[c] \cup {Slot(c)}
      BY <1>0, <1>1 DEF TypeInv
    <3>2. tried[c] = {SlotAt(start[c], k) : k \in 0..(offset[c] - 1)}
      BY <1>0, <1>1 DEF CallInv, InRound, Tried
    <3>3. Slot(c) = SlotAt(start[c], offset[c])
      BY DEF Slot, SlotAt
    <3>4. 0..offset[c] = (0..(offset[c] - 1)) \cup {offset[c]}
      BY <1>1
    <3>5. Tried(c)' = {SlotAt(start[c], k) : k \in 0..offset[c]}
      <4>1. offset'[c] - 1 = offset[c]
        BY <1>1
      <4> QED
        BY <1>1, <4>1 DEF Tried, SlotAt
    <3> QED
      BY <3>1, <3>2, <3>3, <3>4, <3>5
  <2>3. LongEnough(c)' => offset'[c] <= faults'
    <3>1. LongEnough(c)' = LongEnough(c)
      BY <1>1 DEF LongEnough, AttemptTimeout
    <3>2. LongEnough(c) => offset[c] <= faults
      BY <1>0, <1>1 DEF CallInv, InRound
    <3> QED
      BY <1>0, <1>1, <1>2, <1>8, <3>1, <3>2 DEF TypeInv
  <2> QED
    BY <1>5, <1>6, <2>1, <2>2, <2>3 DEF CallInv
<1> QED
  BY <1>7, <1>8

LEMMA EndRoundKeeps ==
  ASSUME IInv, NEW c \in Calls, EndRound(c)
  PROVE  TypeInv' /\ CallInv(c)'
<1>0. TypeInv /\ CallInv(c)
  BY DEF IInv
<1>1. /\ pc[c] = "try" /\ offset[c] = N
      /\ pc' = [pc EXCEPT ![c] = IF RetriesAfter(c) THEN "backoff" ELSE "failed"]
      /\ UNCHANGED <<next_endpoint, need, attempt, start, offset, last, tried, faults>>
  BY DEF EndRound
<1>2. TypeInv'
  BY <1>0, <1>1 DEF TypeInv
<1>3. /\ LongEnough(c)' = LongEnough(c) /\ RetriesAfter(c)' = RetriesAfter(c)
      /\ Tried(c)' = Tried(c) /\ Attempts(c)' = Attempts(c)
  BY <1>1 DEF LongEnough, AttemptTimeout, RetriesAfter, Tried, SlotAt, Attempts
<1>4. InRound(c)
  BY <1>1 DEF InRound
<1>5. CASE RetriesAfter(c)
  <2>1. pc'[c] = "backoff" /\ attempt[c] + 1 < Attempts(c)
    BY <1>0, <1>1, <1>5 DEF TypeInv, RetriesAfter
  <2> QED
    BY <1>0, <1>1, <1>2, <1>3, <1>4, <2>1 DEF CallInv
<1>6. CASE ~RetriesAfter(c)
  <2>1. pc'[c] = "failed"
    BY <1>0, <1>1, <1>6 DEF TypeInv
  <2> QED
    BY <1>0, <1>1, <1>2, <1>3, <1>4, <1>6, <2>1 DEF CallInv
<1> QED
  BY <1>5, <1>6

LEMMA BackoffKeeps ==
  ASSUME IInv, NEW c \in Calls, Backoff(c)
  PROVE  TypeInv' /\ CallInv(c)'
<1>0. TypeInv /\ CallInv(c)
  BY DEF IInv
<1>1. /\ pc[c] = "backoff" /\ pc' = [pc EXCEPT ![c] = "start"]
      /\ attempt' = [attempt EXCEPT ![c] = @ + 1]
      /\ UNCHANGED <<next_endpoint, need, start, offset, last, tried, faults>>
  BY DEF Backoff
<1>2. TypeInv'
  BY <1>0, <1>1 DEF TypeInv
<1>3. pc'[c] = "start" /\ attempt'[c] < Attempts(c)'
  BY <1>0, <1>1 DEF TypeInv, CallInv, Attempts
<1> QED
  BY <1>2, <1>3 DEF CallInv, InRound
LEMMA IInvStep == IInv /\ [Next]_vars => IInv'
<1> SUFFICES ASSUME IInv, [Next]_vars PROVE IInv'
  OBVIOUS
<1>1. CASE UNCHANGED vars
  BY <1>1 DEF vars, IInv, TypeInv, CallInv, InRound, Tried, SlotAt, LongEnough, AttemptTimeout,
              RetriesAfter, Attempts
<1>2. ASSUME NEW c \in Calls, CallStep(c) PROVE IInv'
  <2>1. TypeInv' /\ CallInv(c)'
    BY <1>2, BeginRoundKeeps, TryEndpointKeeps, EndRoundKeeps, BackoffKeeps DEF CallStep
  <2>2. \A d \in Calls \ {c} : CallInv(d)'
    BY <1>2, OthersKeep
  <2>3. need' \in [Calls -> Needs]
    BY <1>2 DEF IInv, CallStep, BeginRound, TryEndpoint, EndRound, Backoff
  <2> QED
    BY <2>1, <2>2, <2>3 DEF IInv
<1> QED
  BY <1>1, <1>2 DEF Next

LEMMA Invariance == Spec => []IInv
  BY IInvInit, IInvStep, PTL DEF Spec

------------------------------------------------------------------------------
(* Theorems. *)

\* A round that gave up asked every endpoint, unless the counter wrapped inside it and
\* the number of endpoints does not divide its range.
SeamlessRoundsAskAll ==
  \A c \in Calls : pc[c] \in {"backoff", "failed"} /\ Seamless(start[c]) => tried[c] = Endpoints

LEMMA RoundAsksAll == IInv => SeamlessRoundsAskAll
<1> SUFFICES ASSUME IInv, NEW c \in Calls, pc[c] \in {"backoff", "failed"}, Seamless(start[c])
             PROVE  tried[c] = Endpoints
  BY DEF SeamlessRoundsAskAll
<1>1. /\ offset[c] = N /\ tried[c] = Tried(c) /\ start[c] \in 0..(UsizeRange - 1)
      /\ tried[c] \subseteq Endpoints
  BY DEF IInv, TypeInv, CallInv, InRound
<1>2. \A e \in Endpoints : e \in tried[c]
  <2>1. tried[c] = {SlotAt(start[c], k) : k \in 0..(N - 1)}
    BY <1>1 DEF Tried
  <2> QED
    BY <1>1, <2>1, SlotsCover
<1> QED
  BY <1>1, <1>2

\* try_endpoints_once leaves no endpoint out of a failed round, for any number of
\* endpoints and of concurrent calls, as long as the shared counter does not pass
\* the end of its type during the round.
THEOREM RoundsAskAll == Spec => []SeamlessRoundsAskAll
  BY Invariance, RoundAsksAll, PTL

\* With a number of endpoints that divides the counter's range (1, 2, 4, ... of them)
\* the wrap of wrapping_add is harmless too.
THEOREM EndpointsAsked ==
  ASSUME UsizeRange % N = 0
  PROVE  Spec => []EveryEndpointAsked
<1>1. SeamlessRoundsAskAll => EveryEndpointAsked
  BY DEF SeamlessRoundsAskAll, EveryEndpointAsked, Seamless
<1> QED
  BY <1>1, RoundsAskAll, PTL

\* The last round's timeout is the longest: 2^16 base timeouts pass the ceiling.
LEMMA LastRoundLongest ==
  ASSUME NEW c \in BlockFetches, NEW n \in Nat, ~(n > LongestBlock)
  PROVE  ~(AttemptTimeout(c, BlockRounds - 1) < n)
<1> DEFINE r == BlockRounds - 1
<1>0. r \in Nat /\ BaseTimeout \in Nat
  OBVIOUS
<1>1. /\ AttemptTimeout(c, r) = MinOf(BaseTimeout * 2 ^ MinOf(r, 16), 600)
      /\ LongestBlock = MinOf(BaseTimeout * 2 ^ r, 600)
  BY DEF AttemptTimeout, LongestBlock, BLOCK_FETCH_MAX_TIMEOUT
<1> HIDE DEF r
<1>2. 2 ^ r \in Int
  BY <1>0
<1>3. BaseTimeout * 2 ^ r \in Int
  BY <1>0, <1>2
<1>4. CASE r <= 16
  <2>1. MinOf(r, 16) = r
    BY <1>4 DEF MinOf
  <2> QED
    BY <1>1, <1>3, <2>1 DEF r, MinOf
<1>5. CASE ~(r <= 16)
  <2>1. MinOf(r, 16) = 16
    BY <1>5 DEF MinOf
  <2>2. 2 ^ MinOf(r, 16) = 2 ^ 16
    BY Zenon, <2>1
  <2>3. 2 ^ 16 = 65536
    OBVIOUS
  <2>4. AttemptTimeout(c, r) = MinOf(BaseTimeout * 65536, 600)
    <3>1. 2 ^ MinOf(r, 16) = 65536
      BY <2>2, <2>3
    <3> QED
      BY <1>1, <3>1
  <2>5. CASE BaseTimeout = 0
    <3>1. LongestBlock = 0
      BY <1>1, <1>2, <2>5 DEF MinOf
    <3> QED
      BY <2>4, <2>5, <3>1 DEF r, MinOf
  <2>6. CASE BaseTimeout >= 1
    <3>1. AttemptTimeout(c, r) = 600
      BY <1>0, <2>4, <2>6 DEF MinOf
    <3>2. LongestBlock <= 600 /\ LongestBlock \in Int
      BY <1>1, <1>3 DEF MinOf
    <3> QED
      BY <3>1, <3>2 DEF r
  <2> QED
    BY <1>0, <2>5, <2>6
<1> QED
  BY <1>0, <1>4, <1>5

\* A block that needs more than the base timeout is served all the same (attempt_timeout):
\* with fewer faults than endpoints, a block fetch fails only on an RPC-level verdict or
\* on a block slower than the longest round, for any base timeout and round count.
THEOREM DenseBlocksServed == Spec => []DenseBlockServed
<1>1. IInv => DenseBlockServed
  <2> SUFFICES ASSUME IInv, NEW c \in BlockFetches, pc[c] = "failed", MaxFaults < N,
                      last[c] # "permanent", ~(need[c] > LongestBlock)
               PROVE  FALSE
    BY DEF DenseBlockServed
  <2>0. c \in Calls /\ TypeInv /\ CallInv(c) /\ need[c] \in Nat
    BY DEF IInv
  <2>1. offset[c] = N /\ InRound(c) /\ ~RetriesAfter(c) /\ attempt[c] < BlockRounds
    BY <2>0 DEF CallInv, InRound, Attempts
  <2>2. last[c] = "transient"
    BY <2>0, <2>1 DEF TypeInv, CallInv
  <2>3. attempt[c] = BlockRounds - 1
    BY <2>0, <2>1, <2>2 DEF RetriesAfter, Attempts, TypeInv
  <2>4. LongEnough(c)
    BY <2>0, <2>3, LastRoundLongest DEF LongEnough
  <2>5. N <= faults /\ faults <= MaxFaults /\ faults \in Nat
    BY <2>0, <2>1, <2>4 DEF CallInv, TypeInv
  <2> QED
    BY <2>5
<1> QED
  BY <1>1, Invariance, PTL

------------------------------------------------------------------------------
(* The block loop around the passes: what it waits after a failed pass. *)

CONSTANTS Spawns, MaxHeight, FetchBatchSize, LagThreshold, EndpointLag
VARIABLES tip, cursor, relief, report, failures, wait, near, permit, family, shutdown, owed, stalls

W == INSTANCE Worker

\* What the passes need of WorkerAssumption.
WorkerConstants == FetchBatchSize \in Nat \ {0} /\ EndpointLag \in Nat

\* A height that has failed stalls times is the one the relief state counts, and
\* its count is no smaller: it is not reset by what does not end the streak.
StallInv ==
  /\ tip \in Nat /\ cursor \in Nat
  /\ relief \in W!ReliefState
  /\ stalls \in Nat /\ failures \in Nat /\ wait \in Nat
  /\ stalls > 0 => /\ relief.stalled_height = cursor + 1
                   /\ stalls <= relief.stall_count
                   /\ W!ReliefStallBackoff(stalls) <= wait

------------------------------------------------------------------------------
(* The schedules. *)

LEMMA PowersOfTwo ==
  ASSUME NEW k \in 0..5
  PROVE  /\ (k = 0 => 2 ^ k = 1) /\ (k = 1 => 2 ^ k = 2) /\ (k = 2 => 2 ^ k = 4)
         /\ (k = 3 => 2 ^ k = 8) /\ (k = 4 => 2 ^ k = 16) /\ (k = 5 => 2 ^ k = 32)
<1>1. CASE k = 0
  <2>1. 2 ^ k = 2 ^ 0
    BY <1>1, Zenon
  <2>2. 2 ^ 0 = 1
    OBVIOUS
  <2> QED
    BY <1>1, <2>1, <2>2
<1>2. CASE k = 1
  <2>1. 2 ^ k = 2 ^ 1
    BY <1>2, Zenon
  <2>2. 2 ^ 1 = 2
    OBVIOUS
  <2> QED
    BY <1>2, <2>1, <2>2
<1>3. CASE k = 2
  <2>1. 2 ^ k = 2 ^ 2
    BY <1>3, Zenon
  <2>2. 2 ^ 2 = 4
    OBVIOUS
  <2> QED
    BY <1>3, <2>1, <2>2
<1>4. CASE k = 3
  <2>1. 2 ^ k = 2 ^ 3
    BY <1>4, Zenon
  <2>2. 2 ^ 3 = 8
    OBVIOUS
  <2> QED
    BY <1>4, <2>1, <2>2
<1>5. CASE k = 4
  <2>1. 2 ^ k = 2 ^ 4
    BY <1>5, Zenon
  <2>2. 2 ^ 4 = 16
    OBVIOUS
  <2> QED
    BY <1>5, <2>1, <2>2
<1>6. CASE k = 5
  <2>1. 2 ^ k = 2 ^ 5
    BY <1>6, Zenon
  <2>2. 2 ^ 5 = 32
    OBVIOUS
  <2> QED
    BY <1>6, <2>1, <2>2
<1> QED
  BY <1>1, <1>2, <1>3, <1>4, <1>5, <1>6

LEMMA Doublings ==
  ASSUME NEW i \in 0..5, NEW j \in 0..5, i <= j
  PROVE  2 ^ i \in Nat /\ 2 ^ j \in Nat /\ 2 ^ i <= 2 ^ j
<1>1. /\ (i = 0 => 2 ^ i = 1) /\ (i = 1 => 2 ^ i = 2) /\ (i = 2 => 2 ^ i = 4)
      /\ (i = 3 => 2 ^ i = 8) /\ (i = 4 => 2 ^ i = 16) /\ (i = 5 => 2 ^ i = 32)
      /\ (j = 0 => 2 ^ j = 1) /\ (j = 1 => 2 ^ j = 2) /\ (j = 2 => 2 ^ j = 4)
      /\ (j = 3 => 2 ^ j = 8) /\ (j = 4 => 2 ^ j = 16) /\ (j = 5 => 2 ^ j = 32)
  BY PowersOfTwo
<1> QED
  BY <1>1

\* More stalls never earn a shorter wait.
LEMMA BackoffMonotone ==
  ASSUME NEW a \in Nat, NEW b \in Nat, a <= b
  PROVE  /\ W!ReliefStallBackoff(a) \in Nat /\ W!ReliefStallBackoff(b) \in Nat
         /\ W!ReliefStallBackoff(a) <= W!ReliefStallBackoff(b)
<1> DEFINE i == W!MinOf(a - 1, 5)
           j == W!MinOf(b - 1, 5)
<1>1. CASE a = 0 /\ b = 0
  BY <1>1 DEF W!ReliefStallBackoff
<1>2. CASE a = 0 /\ b # 0
  <2>1. j \in 0..5
    BY <1>2 DEF W!MinOf
  <2> HIDE DEF j
  <2>2. 2 ^ j \in Nat
    <3>1. j <= j
      BY <2>1
    <3> QED
      BY <2>1, <3>1, Doublings
  <2>3. W!ReliefStallBackoff(b) = W!MinOf(30 * 2 ^ j, 300)
    BY <1>2 DEF W!ReliefStallBackoff, W!RELIEF_STALL_BACKOFF_BASE, W!RELIEF_STALL_BACKOFF_MAX,
       W!RELIEF_STALL_BACKOFF_MAX_DOUBLINGS, j
  <2>4. W!ReliefStallBackoff(a) = 0
    BY <1>2 DEF W!ReliefStallBackoff
  <2> QED
    BY <2>2, <2>3, <2>4 DEF W!MinOf
<1>3. CASE a # 0
  <2>1. i \in 0..5 /\ j \in 0..5 /\ i <= j
    BY <1>3 DEF W!MinOf
  <2> HIDE DEF i, j
  <2>2. 2 ^ i \in Nat /\ 2 ^ j \in Nat /\ 2 ^ i <= 2 ^ j
    BY <2>1, Doublings
  <2>3. /\ W!ReliefStallBackoff(a) = W!MinOf(30 * 2 ^ i, 300)
        /\ W!ReliefStallBackoff(b) = W!MinOf(30 * 2 ^ j, 300)
    BY <1>3 DEF W!ReliefStallBackoff, W!RELIEF_STALL_BACKOFF_BASE, W!RELIEF_STALL_BACKOFF_MAX,
       W!RELIEF_STALL_BACKOFF_MAX_DOUBLINGS, i, j
  <2> QED
    BY <2>2, <2>3 DEF W!MinOf
<1> QED
  BY <1>1, <1>2, <1>3

\* What a stall does to the load-shedding state.
LEMMA StallRegistered ==
  ASSUME NEW r \in W!ReliefState, NEW h \in Nat
  PROVE  /\ W!RegisterStall(r, h) \in W!ReliefState
         /\ W!RegisterStall(r, h).stalled_height = h
         /\ W!RegisterStall(r, h).stall_count =
              (IF r.stalled_height = h THEN r.stall_count + 1 ELSE 1)
         /\ W!RegisterStall(r, h).stall_count \in Nat
BY DEF W!ReliefState, W!RegisterStall

\* What committed blocks do to it.
LEMMA ProgressRegistered ==
  ASSUME NEW r \in W!ReliefState, NEW n \in Nat
  PROVE  W!RegisterProgress(r, n) \in W!ReliefState
<1>1. r.committed_streak + n \in Nat
  BY DEF W!ReliefState
<1> QED
  BY <1>1 DEF W!ReliefState, W!RegisterProgress, W!RELIEF_RECOVERY_COMMIT_BLOCKS

\* What catching up does to it.
LEMMA ReliefCleared ==
  ASSUME NEW r \in W!ReliefState
  PROVE  W!Clear(r) \in W!ReliefState
BY DEF W!ReliefState, W!Clear

------------------------------------------------------------------------------
(* Every pass. *)

\* After a stall the streak and the wait are those of the height that stalled.
LEMMA StallKeeps ==
  ASSUME StallInv, NEW h \in Nat, relief' = W!RegisterStall(relief, h),
         cursor' \in Nat, tip' = tip, failures' \in Nat, wait' \in Nat,
         h = cursor' + 1, stalls' \in Nat \ {0},
         stalls' = 1 \/ (h = cursor + 1 /\ stalls' = stalls + 1),
         W!ReliefStallBackoff(relief'.stall_count) <= wait'
  PROVE  StallInv'
<1>1. /\ relief' \in W!ReliefState /\ relief'.stalled_height = h
      /\ relief'.stall_count = IF relief.stalled_height = h THEN relief.stall_count + 1 ELSE 1
  <2>1. relief \in W!ReliefState
    BY DEF StallInv
  <2> QED
    BY <2>1, StallRegistered
<1>2. relief.stall_count \in Nat /\ relief'.stall_count \in Nat
  <2>1. relief \in W!ReliefState
    BY DEF StallInv
  <2> QED
    BY <1>1, <2>1 DEF W!ReliefState
<1>3. stalls' <= relief'.stall_count
  <2>1. CASE stalls' = 1
    BY <1>1, <1>2, <2>1
  <2>2. CASE h = cursor + 1 /\ stalls' = stalls + 1
    <3>1. /\ stalls \in Nat
          /\ stalls > 0 => relief.stalled_height = cursor + 1 /\ stalls <= relief.stall_count
      BY DEF StallInv
    <3> QED
      BY <1>1, <1>2, <2>2, <3>1
  <2> QED
    BY <2>1, <2>2
<1>4. W!ReliefStallBackoff(stalls') <= wait'
  <2>1. /\ W!ReliefStallBackoff(stalls') \in Nat /\ W!ReliefStallBackoff(relief'.stall_count) \in Nat
        /\ W!ReliefStallBackoff(stalls') <= W!ReliefStallBackoff(relief'.stall_count)
    BY <1>2, <1>3, BackoffMonotone
  <2> QED
    BY <2>1
<1> QED
  BY <1>1, <1>3, <1>4 DEF StallInv

LEMMA PassKeeps ==
  ASSUME WorkerConstants, StallInv, W!SyncPass
  PROVE  StallInv'
<1>1. tip' = tip /\ tip \in Nat /\ cursor \in Nat /\ failures \in Nat /\ stalls \in Nat
  BY DEF W!SyncPass, StallInv
<1>2. relief \in W!ReliefState /\ relief.stall_count \in Nat
  BY DEF StallInv, W!ReliefState
<1>3. ASSUME NEW rpcTip \in (tip - EndpointLag)..tip, W!PassCaughtUp(rpcTip) PROVE StallInv'
  <2>1. /\ relief' = W!Clear(relief)
        /\ cursor' = cursor + 0 /\ failures' = 0 /\ stalls' = 0 /\ wait' = wait
    BY <1>3 DEF W!PassCaughtUp, W!PassOk
  <2>2. relief' \in W!ReliefState
    BY <1>2, <2>1, ReliefCleared
  <2> QED
    BY <1>1, <2>1, <2>2 DEF StallInv
<1>4. ASSUME NEW rpcTip \in (tip - EndpointLag)..tip, W!PassCommits(rpcTip) PROVE StallInv'
  <2>1. W!Window(rpcTip) \in Nat
    <3>1. FetchBatchSize \in Nat /\ EndpointLag \in Nat
      BY DEF WorkerConstants
    <3> QED
      BY <1>1, <1>4, <3>1 DEF W!PassCommits, W!Window, W!MinOf
  <2>2. /\ relief' = W!RegisterProgress(relief, W!Window(rpcTip))
        /\ cursor' = cursor + W!Window(rpcTip) /\ failures' = 0 /\ stalls' = 0 /\ wait' = wait
    BY <1>4 DEF W!PassCommits, W!PassOk
  <2>3. relief' \in W!ReliefState
    BY <1>2, <2>1, <2>2, ProgressRegistered
  <2>4. cursor' \in Nat /\ wait' \in Nat
    BY <1>1, <2>1, <2>2 DEF StallInv
  <2> QED
    BY <1>1, <2>2, <2>3, <2>4 DEF StallInv
<1>5. ASSUME NEW rpcTip \in (tip - EndpointLag)..tip, W!PassFails(rpcTip) PROVE StallInv'
  <2>1. /\ relief' = W!RegisterStall(relief, cursor + 1) /\ cursor' = cursor
        /\ failures' = failures + 1 /\ stalls' = stalls + 1
    BY <1>5 DEF W!PassFails, W!PassErr
  <2>2. relief'.stall_count \in Nat
    <3>1. cursor + 1 \in Nat
      BY <1>1
    <3> QED
      BY <1>2, <2>1, <3>1, StallRegistered
  <2>3. wait' \in Nat /\ W!ReliefStallBackoff(relief'.stall_count) <= wait'
    <3>1. wait' = W!MaxOf(W!MinOf(failures + 1, 6) * 5, W!ReliefStallBackoff(relief'.stall_count))
      BY <1>5 DEF W!PassFails, W!PassErr, W!FailedPassBackoff
    <3>2. W!ReliefStallBackoff(relief'.stall_count) \in Nat
      BY <2>2, BackoffMonotone
    <3> QED
      BY <1>1, <3>1, <3>2 DEF W!MinOf, W!MaxOf
  <2> QED
    <3>1. cursor + 1 \in Nat /\ cursor + 1 = cursor' + 1 /\ cursor' \in Nat
      BY <1>1, <2>1
    <3>2. failures' \in Nat /\ stalls' \in Nat \ {0}
      BY <1>1, <2>1
    <3> QED
      BY <1>1, <2>1, <2>3, <3>1, <3>2, StallKeeps
<1>6. ASSUME NEW rpcTip \in (tip - EndpointLag)..tip, NEW n \in 1..FetchBatchSize,
             W!PassStalls(rpcTip, n)
      PROVE  StallInv'
  <2>1. /\ relief' = W!RegisterStall(relief, cursor + n + 1) /\ cursor' = cursor + n
        /\ failures' = 0 /\ stalls' = 1 /\ wait' = W!ReliefStallBackoff(relief'.stall_count)
    BY <1>6 DEF W!PassStalls, W!PassOk
  <2>2. cursor + n \in Nat /\ cursor + n + 1 \in Nat
    BY <1>1
  <2>3. relief'.stall_count \in Nat
    BY <1>2, <2>1, <2>2, StallRegistered
  <2>4. wait' \in Nat /\ W!ReliefStallBackoff(relief'.stall_count) <= wait'
    <3>1. relief'.stall_count <= relief'.stall_count
      BY <2>3
    <3> QED
      BY <2>1, <2>3, <3>1, BackoffMonotone
  <2>5. cursor' \in Nat /\ cursor + n + 1 = cursor' + 1
    BY <2>1, <2>2
  <2>6. failures' \in Nat /\ stalls' \in Nat \ {0} /\ stalls' = 1
    BY <2>1
  <2> QED
    BY <1>1, <2>1, <2>2, <2>4, <2>5, <2>6, StallKeeps
<1>7. ASSUME NEW rpcTip \in (tip - EndpointLag)..tip, NEW n \in 1..FetchBatchSize,
             W!PassPanics(rpcTip, n)
      PROVE  StallInv'
  <2>1. /\ relief' = W!RegisterStall(relief, cursor + 1) /\ cursor' = cursor + n
        /\ failures' = failures + 1 /\ stalls' = 0
    BY <1>7 DEF W!PassPanics, W!PassErr
  <2>2. relief' \in W!ReliefState /\ relief'.stall_count \in Nat
    <3>1. cursor + 1 \in Nat
      BY <1>1
    <3> QED
      BY <1>2, <2>1, <3>1, StallRegistered
  <2>3. wait' \in Nat
    <3>1. wait' = W!MaxOf(W!MinOf(failures + 1, 6) * 5, W!ReliefStallBackoff(relief'.stall_count))
      BY <1>7 DEF W!PassPanics, W!PassErr, W!FailedPassBackoff
    <3>2. W!ReliefStallBackoff(relief'.stall_count) \in Nat
      BY <2>2, BackoffMonotone
    <3> QED
      BY <1>1, <3>1, <3>2 DEF W!MinOf, W!MaxOf
  <2> QED
    BY <1>1, <2>1, <2>2, <2>3 DEF StallInv
<1>8. CASE W!ProbeFails
  <2>1. /\ UNCHANGED <<cursor, relief, stalls>> /\ failures' = failures + 1
    BY <1>8 DEF W!ProbeFails, W!PassErr
  <2>2. wait' \in Nat /\ W!ReliefStallBackoff(relief.stall_count) <= wait'
    <3>1. wait' = W!MaxOf(W!MinOf(failures + 1, 6) * 5, W!ReliefStallBackoff(relief.stall_count))
      BY <1>8 DEF W!ProbeFails, W!PassErr, W!FailedPassBackoff
    <3>2. W!ReliefStallBackoff(relief.stall_count) \in Nat
      BY <1>2, BackoffMonotone
    <3> QED
      BY <1>1, <3>1, <3>2 DEF W!MinOf, W!MaxOf
  <2>3. stalls > 0 => W!ReliefStallBackoff(stalls) <= wait'
    BY <1>1, <1>2, <2>2, BackoffMonotone DEF StallInv
  <2> QED
    BY <1>1, <2>1, <2>2, <2>3 DEF StallInv
<1>9. ASSUME NEW n \in 0..FetchBatchSize, W!DatabaseFails(n) PROVE StallInv'
  <2>1. /\ relief' = relief /\ cursor' = cursor + n /\ failures' = failures + 1 /\ stalls' = 0
    BY <1>9 DEF W!DatabaseFails, W!PassErr
  <2>2. wait' \in Nat
    <3>1. wait' = W!MinOf(failures + 1, 6) * 5
      BY <1>9 DEF W!DatabaseFails, W!PassErr, W!FailedPassBackoff
    <3> QED
      BY <1>1, <3>1 DEF W!MinOf
  <2> QED
    BY <1>1, <1>2, <2>1, <2>2 DEF StallInv
<1> QED
  BY <1>3, <1>4, <1>5, <1>6, <1>7, <1>8, <1>9 DEF W!SyncPass

LEMMA StallInvInit == W!Init => StallInv
BY DEF W!Init, StallInv, W!ReliefDefault, W!ReliefState

LEMMA StallInvStep == WorkerConstants /\ StallInv /\ [W!Next]_(W!vars) => StallInv'
<1> SUFFICES ASSUME WorkerConstants, StallInv, [W!Next]_(W!vars) PROVE StallInv'
  OBVIOUS
<1>1. CASE W!SyncPass
  BY <1>1, PassKeeps
<1>2. ASSUME UNCHANGED <<cursor, relief, failures, wait, stalls>>, tip' \in Nat
      PROVE  StallInv'
  BY <1>2 DEF StallInv
<1>3. CASE W!PollTick \/ W!WaitEnds \/ W!PublishLag \/ W!LoopStops \/ W!Joined \/ W!Signal
  BY <1>2, <1>3 DEF W!PollTick, W!WaitEnds, W!PublishLag, W!LoopStops, W!Joined, W!Signal, W!loop, StallInv
<1>4. CASE W!ChainGrows
  BY <1>2, <1>4 DEF W!ChainGrows, StallInv
<1>5. CASE W!Maintenance
  BY <1>2, <1>5 DEF W!Maintenance, W!RunBalanceMaintenance, W!RunStakeProjectionMaintenance,
     W!RunTokenSupplyMaintenance, W!RunTokenMetadataMaintenance, W!RunTokenPriceMaintenance,
     W!RunTtrsMaintenance, W!RunContractMetadataMaintenance, W!RunNftMetadataMaintenance,
     W!RunSeriesMetadataMaintenance, W!RunFailedTxMaintenance, W!KickBalance, W!Ticks, W!GateRelief,
     W!PassEnds, W!FamilyStops, W!loop, StallInv
<1>6. CASE UNCHANGED W!vars
  BY <1>2, <1>6 DEF W!vars, StallInv
<1> QED
  BY <1>1, <1>3, <1>4, <1>5, <1>6 DEF W!Next

\* A height that failed k times in a row on the node's side is asked for again only
\* after the wait k stalls earn (failed_pass_backoff, relief_stall_backoff), whichever
\* mix of errors, stalled passes and failed probes lies in between.
THEOREM BackoffIsEarned == WorkerConstants => (W!Spec => W!BackoffEarned)
<1> SUFFICES ASSUME WorkerConstants PROVE W!Spec => W!BackoffEarned
  OBVIOUS
<1>0. StallInv /\ [W!Next]_(W!vars) => StallInv'
  BY StallInvStep
<1>1. StallInv /\ [W!Next]_(W!vars) =>
        [pc = "tick" /\ pc' = "sync" => wait >= W!ReliefStallBackoff(stalls) \/ stalls = 0]_(W!vars)
  <2> SUFFICES ASSUME StallInv, stalls # 0 PROVE wait >= W!ReliefStallBackoff(stalls)
    OBVIOUS
  <2>1. stalls \in Nat /\ wait \in Nat /\ W!ReliefStallBackoff(stalls) \in Nat
    BY BackoffMonotone DEF StallInv
  <2> QED
    BY <2>1 DEF StallInv
<1> QED
  BY StallInvInit, <1>0, <1>1, PTL DEF W!Spec, W!BackoffEarned

==============================================================================
