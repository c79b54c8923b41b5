----------------------------- MODULE RpcFailover -----------------------------
(***************************************************************************)
(* The RPC client's failover (PhantasmaSdkClient): concurrent calls share  *)
(* the round-robin counter; a call makes rounds over every endpoint, with  *)
(* a doubling timeout when it fetches a block, and ends with the first     *)
(* answer or with the verdict of its last round.                           *)
(***************************************************************************)
EXTENDS Integers, FiniteSets

CONSTANTS
  N,             \* number of endpoints
  Calls,         \* concurrent calls
  BlockFetches,  \* the calls made through block_fetch_failover
  Needs,         \* seconds a healthy endpoint may need to answer a call
  BaseTimeout,   \* the configured per-request timeout, in seconds
  Rounds,        \* MAX_RPC_ATTEMPTS
  BlockRounds,   \* BLOCK_FETCH_MAX_ATTEMPTS
  UsizeRange,    \* 2^64, where the shared counter wraps
  MaxFaults      \* bound: answers lost to a fault

BLOCK_FETCH_MAX_TIMEOUT == 600

ASSUME FailoverAssumption ==
  /\ N \in Nat \ {0}
  /\ BlockFetches \subseteq Calls
  /\ Needs \subseteq Nat
  /\ BaseTimeout \in Nat
  /\ Rounds \in Nat \ {0}
  /\ BlockRounds \in Nat \ {0}
  /\ UsizeRange \in Nat \ {0}
  /\ MaxFaults \in Nat

VARIABLES
  next_endpoint,  \* the shared AtomicUsize
  pc,             \* "start", "try", "backoff", "ok", "failed" of each call
  need,           \* seconds this call's answer takes
  attempt,        \* the round
  start, offset,  \* where the round started, endpoints tried in it
  last,           \* last_error of the round
  tried,          \* history: endpoints tried in the round
  faults          \* bound: faults so far

vars == <<next_endpoint, pc, need, attempt, start, offset, last, tried, faults>>

Endpoints == 0..(N - 1)
MinOf(a, b) == IF a <= b THEN a ELSE b

Init ==
  /\ next_endpoint = 0
  /\ pc = [c \in Calls |-> "start"]
  /\ need \in [Calls -> Needs]
  /\ attempt = [c \in Calls |-> 0]
  /\ start = [c \in Calls |-> 0]
  /\ offset = [c \in Calls |-> 0]
  /\ last = [c \in Calls |-> "none"]
  /\ tried = [c \in Calls |-> {}]
  /\ faults = 0

Attempts(c) == IF c \in BlockFetches THEN BlockRounds ELSE Rounds

\* Mutant: every round keeps the configured timeout.
MutFixedTimeout(c, round) == BaseTimeout

\* attempt_timeout, or the timeout the endpoint was built with.
AttemptTimeout(c, round) ==
  IF c \in BlockFetches
    THEN MinOf(BaseTimeout * 2 ^ MinOf(round, 16), BLOCK_FETCH_MAX_TIMEOUT)
    ELSE BaseTimeout

\* try_endpoints_once takes its slot of the shared counter.
BeginRound(c) ==
  /\ pc[c] = "start"
  /\ pc' = [pc EXCEPT ![c] = "try"]
  /\ next_endpoint' = (next_endpoint + 1) % UsizeRange
  /\ start' = [start EXCEPT ![c] = next_endpoint]
  /\ offset' = [offset EXCEPT ![c] = 0]
  /\ last' = [last EXCEPT ![c] = "none"]
  /\ tried' = [tried EXCEPT ![c] = {}]
  /\ UNCHANGED <<need, attempt, faults>>

\* Mutant: the counter is read again for every endpoint.
MutSharedSlot(c) == ((next_endpoint + offset[c]) % UsizeRange) % N

Slot(c) == ((start[c] + offset[c]) % UsizeRange) % N

\* What an endpoint may answer: a healthy one answers if the timeout lets it.
Outcome(c, result) ==
  IF AttemptTimeout(c, attempt[c]) < need[c]
    THEN result = "transient" /\ UNCHANGED faults
    ELSE \/ result = "ok" /\ UNCHANGED faults
         \/ result # "ok" /\ faults < MaxFaults /\ faults' = faults + 1

TryEndpoint(c, result) ==
  /\ pc[c] = "try"
  /\ offset[c] < N
  /\ Outcome(c, result)
  /\ offset' = [offset EXCEPT ![c] = @ + 1]
  /\ tried' = [tried EXCEPT ![c] = @ \cup {Slot(c)}]
  /\ IF result = "ok"
       THEN pc' = [pc EXCEPT ![c] = "ok"] /\ UNCHANGED last
       ELSE /\ last' = [last EXCEPT ![c] = result]
            /\ UNCHANGED pc
  /\ UNCHANGED <<next_endpoint, need, attempt, start>>

\* is_transient_rpc_error of the round's last error, and a round left.
RetriesAfter(c) == last[c] = "transient" /\ attempt[c] + 1 < Attempts(c)

EndRound(c) ==
  /\ pc[c] = "try"
  /\ offset[c] = N
  /\ pc' = [pc EXCEPT ![c] = IF RetriesAfter(c) THEN "backoff" ELSE "failed"]
  /\ UNCHANGED <<next_endpoint, need, attempt, start, offset, last, tried, faults>>

\* Mutant: a retry does not count as an attempt.
MutSameAttempt(c) ==
  /\ pc[c] = "backoff"
  /\ pc' = [pc EXCEPT ![c] = "start"]
  /\ UNCHANGED <<next_endpoint, need, attempt, start, offset, last, tried, faults>>

\* The capped doubling sleep between rounds.
Backoff(c) ==
  /\ pc[c] = "backoff"
  /\ pc' = [pc EXCEPT ![c] = "start"]
  /\ attempt' = [attempt EXCEPT ![c] = @ + 1]
  /\ UNCHANGED <<next_endpoint, need, start, offset, last, tried, faults>>

CallStep(c) ==
  \/ BeginRound(c)
  \/ \E result \in {"ok", "transient", "permanent"} : TryEndpoint(c, result)
  \/ EndRound(c)
  \/ Backoff(c)

Next == \E c \in Calls : CallStep(c)

Spec == Init /\ [][Next]_vars

\* Every request ends, at the latest by its timeout, and every sleep does.
FairSpec == Spec /\ \A c \in Calls : WF_vars(CallStep(c))
------------------------------------------------------------------------------
(* Properties. *)

\* A round gives up only after it asked every endpoint, however the other calls
\* moved the shared counter meanwhile (try_endpoints_once: "one dead endpoint does
\* not break the call while healthy ones remain").
EveryEndpointAsked ==
  \A c \in Calls : pc[c] \in {"backoff", "failed"} => tried[c] = Endpoints

\* The longest a block may take: the base timeout doubled before every round but
\* the first, up to the ceiling.
LongestBlock == MinOf(BaseTimeout * 2 ^ (BlockRounds - 1), BLOCK_FETCH_MAX_TIMEOUT)

\* A block slower than the base timeout is still fetched: with fewer faults than
\* endpoints, a block fetch fails only on an RPC-level verdict or on a block slower
\* than every round (attempt_timeout: "lets a later round absorb it").
DenseBlockServed ==
  \A c \in BlockFetches :
    pc[c] = "failed" /\ MaxFaults < N => last[c] = "permanent" \/ need[c] > LongestBlock

\* Every call ends, with an answer or with an error.
CallsEnd == \A c \in Calls : <>(pc[c] \in {"ok", "failed"})
==============================================================================
