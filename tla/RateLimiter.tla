----------------------------- MODULE RateLimiter -----------------------------
(***************************************************************************)
(* The inbound rate limiter of the HTTP API: concurrent requests read the  *)
(* current segment, take the window lock, are admitted or refused by their *)
(* partition's sliding window, and then claim an in-flight slot with a     *)
(* compare-and-swap loop.                                                  *)
(*                                                                         *)
(* A partition is an API key or a client address; a request without one    *)
(* and a key without a limit skip the window.  OPTIONS and exempt paths    *)
(* pass by the limiter altogether and are not requests of this module.     *)
(***************************************************************************)
EXTENDS Integers, FiniteSets, Functions

CONSTANTS
  SEGMENTS,     \* segments of the sliding window
  Requests,
  KeyPartitions, IpPartitions,
  PerMinute,    \* per_minute of a key's tier (i64; <= 0 is unlimited)
  PerIpPerMinute,
  U32,          \* 2^32, the range of the limit's type
  Capacity,     \* in-flight slots
  SweepEveryOps,
  MaxSegment    \* bound: the clock does not pass it

Partitions == KeyPartitions \cup IpPartitions
Slots == 0..(SEGMENTS - 1)
Segments == 0..MaxSegment
NoPartition == "none"

ASSUME RateLimiterAssumption ==
  /\ SEGMENTS \in Nat \ {0}
  /\ IsFiniteSet(Requests)
  /\ PerMinute \in [KeyPartitions -> Int]
  /\ PerIpPerMinute \in Nat
  /\ U32 \in Nat \ {0}
  /\ Capacity \in Nat \ {0}
  /\ SweepEveryOps \in Nat
  /\ MaxSegment \in Nat

VARIABLES
  now,        \* current_segment
  windows,    \* the partitions that have a window, with its buckets
  ops,        \* ops_since_sweep
  in_flight,  \* the atomic counter
  pc,         \* where each request is
  keysOnly,   \* require_api_key
  part,       \* the request's partition
  stamp,      \* now_segment as it read it
  current,    \* in_flight as it last loaded it
  admitted    \* history: admissions per partition and segment

vars == <<now, windows, ops, in_flight, pc, keysOnly, part, stamp, current, admitted>>

Empty == [s \in Slots |-> [segment |-> 0, count |-> 0]]

Init ==
  /\ now = 0
  /\ windows = [p \in {} |-> Empty]
  /\ ops = 0
  /\ in_flight = 0
  /\ pc = [r \in Requests |-> "new"]
  /\ keysOnly \in BOOLEAN
  /\ part \in [Requests -> Partitions \cup {NoPartition}]
  /\ stamp = [r \in Requests |-> 0]
  /\ current = [r \in Requests |-> 0]
  /\ admitted = [p \in Partitions |-> [s \in Segments |-> 0]]

------------------------------------------------------------------------------
(* The sliding window. *)

MaxOf(a, b) == IF a >= b THEN a ELSE b
WindowStart(segment) == MaxOf(segment - (SEGMENTS - 1), 0)

\* Buckets that rolled out of the window ending at segment are reset.
Rolled(w, segment) ==
  [s \in Slots |-> IF w[s].segment < WindowStart(segment)
                     THEN [segment |-> 0, count |-> 0] ELSE w[s]]

Total(w) == SumFunction([s \in Slots |-> w[s].count])

Record(w, segment) ==
  LET s == segment % SEGMENTS IN
  [w EXCEPT ![s] = [segment |-> segment,
                    count |-> IF @.segment = segment THEN @.count + 1 ELSE 1]]

\* Mutant: the sweep keeps only windows with a bucket of the current segment.
MutSweepRecent(ws, segment) ==
  Restrict(ws, {p \in DOMAIN ws : \E s \in Slots : ws[p][s].segment >= segment})

\* sweep_dead_windows
Sweep(ws, segment) ==
  Restrict(ws, {p \in DOMAIN ws : \E s \in Slots : ws[p][s].segment >= WindowStart(segment)})

\* The limit of a partition, in the width it is compared in.
Limit(p) == IF p \in KeyPartitions THEN PerMinute[p] % U32 ELSE PerIpPerMinute

Unlimited(p) == p = NoPartition \/ (p \in KeyPartitions /\ PerMinute[p] <= 0)

------------------------------------------------------------------------------
(* One request. *)

\* Keys-only mode turns an unknown or absent key away with 401.
Unauthorized(r) ==
  /\ pc[r] = "new"
  /\ keysOnly /\ part[r] \notin KeyPartitions
  /\ pc' = [pc EXCEPT ![r] = "refused"]
  /\ UNCHANGED <<now, windows, ops, in_flight, stamp, current, admitted>>

\* admit reads the clock before admit_partition takes the lock.
ReadClock(r) ==
  /\ pc[r] = "new"
  /\ keysOnly => part[r] \in KeyPartitions
  /\ stamp' = IF Unlimited(part[r]) THEN stamp ELSE [stamp EXCEPT ![r] = now]
  /\ pc' = [pc EXCEPT ![r] = IF Unlimited(part[r]) THEN "enter" ELSE "window"]
  /\ UNCHANGED <<now, windows, ops, in_flight, current, admitted>>

NextOps == IF ops >= SweepEveryOps THEN 0 ELSE ops + 1

\* admit_partition, under the lock.
AdmitPartition(r) ==
  LET p == part[r]
      swept == IF ops >= SweepEveryOps THEN Sweep(windows, stamp[r]) ELSE windows
      w == Rolled(IF p \in DOMAIN swept THEN swept[p] ELSE Empty, stamp[r])
      admits == Total(w) < Limit(p)
  IN
  /\ pc[r] = "window"
  /\ ops' = NextOps
  /\ windows' = [q \in DOMAIN swept \cup {p} |->
                   IF q # p THEN swept[q] ELSE IF admits THEN Record(w, stamp[r]) ELSE w]
  /\ admitted' = IF admits THEN [admitted EXCEPT ![p][stamp[r]] = @ + 1] ELSE admitted
  /\ pc' = [pc EXCEPT ![r] = IF admits THEN "enter" ELSE "limited"]
  /\ stamp' = [stamp EXCEPT ![r] = 0]
  /\ UNCHANGED <<now, in_flight, current>>

\* A value of the counter is tested against the capacity.
Observe(r) ==
  IF in_flight >= Capacity
    THEN current' = [current EXCEPT ![r] = 0] /\ pc' = [pc EXCEPT ![r] = "shed"]
    ELSE current' = [current EXCEPT ![r] = in_flight] /\ pc' = [pc EXCEPT ![r] = "swap"]

\* try_enter's load.
LoadInFlight(r) ==
  /\ pc[r] = "enter"
  /\ Observe(r)
  /\ UNCHANGED <<now, windows, ops, in_flight, stamp, admitted>>

\* Mutant: the slot is claimed without comparing.
MutBlindAdd(r) ==
  /\ pc[r] = "swap"
  /\ in_flight' = in_flight + 1
  /\ pc' = [pc EXCEPT ![r] = "serving"]
  /\ UNCHANGED <<now, windows, ops, stamp, current, admitted>>

\* compare_exchange_weak: it may fail on another request's step or spuriously, and
\* then tests the counter it observed.
SwapInFlight(r) ==
  /\ pc[r] = "swap"
  /\ \/ /\ in_flight = current[r]
        /\ in_flight' = current[r] + 1
        /\ current' = [current EXCEPT ![r] = 0]
        /\ pc' = [pc EXCEPT ![r] = "serving"]
     \/ /\ Observe(r)
        /\ UNCHANGED in_flight
  /\ UNCHANGED <<now, windows, ops, stamp, admitted>>

\* The request completes, fails or is dropped: InFlightGuard releases the slot.
Finish(r) ==
  /\ pc[r] = "serving"
  /\ in_flight' = in_flight - 1
  /\ pc' = [pc EXCEPT ![r] = "served"]
  /\ UNCHANGED <<now, windows, ops, stamp, current, admitted>>

\* The clock moves on.  Bound: no thread is held up between ReadClock and the lock
\* for a whole window (nothing in between waits but the lock).
Tick ==
  /\ now < MaxSegment
  /\ \A r \in Requests : pc[r] = "window" => now + 1 - stamp[r] < SEGMENTS
  /\ now' = now + 1
  /\ UNCHANGED <<windows, ops, in_flight, pc, stamp, current, admitted>>

Next ==
  /\ \/ \E r \in Requests :
          Unauthorized(r) \/ ReadClock(r) \/ AdmitPartition(r) \/ LoadInFlight(r)
            \/ SwapInFlight(r) \/ Finish(r)
     \/ Tick
  /\ UNCHANGED <<keysOnly, part>>

Spec == Init /\ [][Next]_vars
------------------------------------------------------------------------------
(* Properties. *)

\* Admissions of p in the window that ends now, by the segment they were counted in.
Recent(p) == SumFunctionOnSet(admitted[p], WindowStart(now)..now)

\* No partition gets more than its limit in any trailing window, although requests
\* bring a clock value read before the lock, slots are reused, buckets are reset
\* lazily and the map is swept meanwhile (try_admit, sweep_dead_windows).
WindowHonoured ==
  \A p \in Partitions : ~Unlimited(p) => Recent(p) <= Limit(p)

\* The counter is exactly the number of requests being served, and never passes
\* the capacity: no slot is leaked or claimed twice (try_enter, InFlightGuard).
InFlightExact ==
  /\ in_flight = Cardinality({r \in Requests : pc[r] = "serving"})
  /\ in_flight <= Capacity
==============================================================================
