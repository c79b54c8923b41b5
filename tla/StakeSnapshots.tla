--------------------------- MODULE StakeSnapshots ---------------------------
(***************************************************************************)
(* The Soul-Masters projector (crates/db/src/staking.rs).  A one-time      *)
(* capture walks the current stakes back over the stored stake events to   *)
(* the day of the boundary block and stores that seed; every worker tick   *)
(* then folds the events forward from the seed, or from a fold state saved *)
(* by the last build, into one point per day and one value per month.      *)
(* The chain keeps growing, the indexer keeps storing blocks and the       *)
(* balance pass keeps refreshing the accounts between the statements of    *)
(* both transactions.                                                      *)
(*                                                                         *)
(* One build runs at a time; a second one, started by the one-shot         *)
(* command beside the worker, is left out.  The first statements of a      *)
(* build (the seed's header and its balances, the cursor, the last built   *)
(* day, the saved state) are one step: a block stored between them could   *)
(* only move the cursor, but a capture that commits between the header and *)
(* the balances is left out as well.                                       *)
(***************************************************************************)
EXTENDS Loops

CONSTANTS
  Addr,              \* addresses that stake
  Operations,        \* Operations[i]: what the transaction of block i may do
  InitStakes,        \* the stakes when the boundary block is produced
  InitSupply,        \* the SOUL supply at that moment
  MasterThreshold,   \* STAKE_SNAPSHOT_MASTER_THRESHOLD_RAW
  SecondsPerDay,     \* STAKE_SNAPSHOT_SECONDS_PER_DAY
  DaysPerMonth,      \* the length of a month
  BoundaryTime,      \* timestamp of block MAIN_ZERO_STATE_BOUNDARY_HEIGHT
  Gaps,              \* seconds that may pass between two blocks
  MaxBlocks,         \* bound: blocks of the chain
  MaxCaptures        \* bound: runs of the capture

VARIABLES
  chain,      \* the blocks the node has produced: [ts, op], one transaction each
  node,       \* node[i]: stakes and supply the node reports after block i
  indexed,    \* blocks 1..indexed are stored
  accounts,   \* addresses.staked_amount_raw and tokens.current_supply_raw
  seed,       \* stake_boundary_state and stake_boundary_balances, <<>> or <<row>>
  daily,      \* staking_progress_dailies: day -> point
  monthly,    \* soul_masters_monthlies: month -> masters_count
  resume,     \* stake_snapshot_resume: <<>> or <<[day, state]>>
  capture,    \* the capture's transaction
  build,      \* the forward build's transaction
  captures,   \* how often the capture has run
  honest      \* every capture ran after the boundary day, on accounts that match the blocks it read

vars == <<chain, node, indexed, accounts, seed, daily, monthly, resume, capture, build, captures, honest>>
tables == <<seed, daily, monthly, resume>>

NoAddress == "none"

ASSUME StakeAssumption ==
  /\ IsFiniteSet(Addr) /\ NoAddress \notin Addr /\ MaxBlocks \in Nat
  /\ \A i \in 2 .. MaxBlocks : \A op \in Operations[i] : op.addr \in Addr /\ op.value \in Nat
  /\ MasterThreshold \in Nat \ {0}
  /\ SecondsPerDay \in Nat \ {0} /\ DaysPerMonth \in Nat \ {0}
  /\ InitStakes \in [Addr -> Nat] /\ InitSupply \in Nat
  /\ BoundaryTime \in Nat /\ Gaps \subseteq Nat

\* INSERT ... ON CONFLICT DO UPDATE
Upsert(rows, table) == [k \in DOMAIN rows \union DOMAIN table |-> IF k \in DOMAIN rows THEN rows[k] ELSE table[k]]

Soul == "SOUL"
Kcal == "KCAL"

stake_snapshot_day_start(ts) == ts - (ts % SecondsPerDay)
stake_snapshot_day_end(day) == day + SecondsPerDay - 1
MonthSeconds == SecondsPerDay * DaysPerMonth
MonthStart(ts) == ts - (ts % MonthSeconds)
stake_snapshot_next_month_start(ts) == MonthStart(ts) + MonthSeconds
BoundaryDay == stake_snapshot_day_start(BoundaryTime)

-----------------------------------------------------------------------------
(* The chain, as the projector sees it: the node's own stakes and supply,  *)
(* and the events and calls a transaction leaves behind.                   *)

Row(kind, token, addr, value, format) ==
  [kind |-> kind, token |-> token, addr |-> addr, value |-> value, format |-> format, quote |-> FALSE]

\* the event rows the indexer stores for an operation
RowsOf(op) ==
  CASE op.do = "stake"     -> << Row("TokenMint", Kcal, op.addr, 1, 2), Row("TokenStake", Soul, op.addr, op.value, 2) >>
    [] op.do = "unstake"   -> << Row("TokenClaim", Soul, op.addr, op.value, 2) >>
    [] op.do = "restake"   -> << Row("TokenClaim", Soul, op.addr, op.value, 2),
                                 Row("TokenStake", Soul, op.addr, 1, 2), Row("TokenStake", Soul, op.addr, 1, 2) >>
    [] op.do = "backfill"  -> << Row("TokenStake", Soul, op.addr, op.value, 1), Row("TokenStake", Soul, op.addr, op.value, 1) >>
    [] op.do = "reward"    -> << Row("TokenMint", Kcal, op.addr, 1, 2), Row("TokenClaim", Soul, op.addr, op.value, 2) >>
    [] op.do = "market"    -> << [Row("OrderFilled", "", op.addr, 0, 2) EXCEPT !.quote = TRUE],
                                 Row("TokenStake", Soul, op.addr, op.value, 2) >>
    [] op.do = "inflation" -> << Row("TokenMint", Soul, op.addr, 1, 2), Row("TokenMint", Soul, op.addr, 1, 2),
                                 Row("TokenStake", Soul, op.addr, 1, 2) >>
    [] op.do = "burn"      -> << Row("TokenBurn", Soul, op.addr, op.value, 2) >>
    [] OTHER               -> << >>

\* what the operation does to the node's stakes and supply
NodeStep(n, op) ==
  CASE op.do \in {"stake", "backfill"} -> [n EXCEPT !.stakes[op.addr] = @ + op.value]
    [] op.do = "unstake"               -> [n EXCEPT !.stakes[op.addr] = @ - op.value]
    [] op.do = "restake"               -> [n EXCEPT !.stakes[op.addr] = @ - op.value + 2]
    [] op.do = "inflation"             -> [n EXCEPT !.supply = @ + op.value]
    [] op.do = "burn"                  -> [n EXCEPT !.supply = @ - op.value]
    [] OTHER                           -> n

\* the node executes it
Executes(n, op) ==
  /\ op.do \in {"unstake", "restake"} => n.stakes[op.addr] >= op.value
  /\ op.do = "burn" => n.supply >= op.value

-----------------------------------------------------------------------------
(* The fold.                                                               *)

\* stakes recounted into a StakeSnapshotState
CountStakes(stakes, supply) ==
  [ stakes  |-> stakes,
    total   |-> SumFunctionOnSet(stakes, Addr),
    supply  |-> supply,
    stakers |-> Cardinality({a \in Addr : stakes[a] > 0}),
    masters |-> Cardinality({a \in Addr : stakes[a] >= MasterThreshold}) ]

Change(before, after) == (IF after THEN 1 ELSE 0) - (IF before THEN 1 ELSE 0)

\* a delta without an address is dropped; a stake never goes below zero
apply_stake_snapshot_stake_delta(s, addr, delta) ==
  IF addr = NoAddress THEN s
  ELSE LET old == s.stakes[addr]
           new == IF old + delta < 0 THEN 0 ELSE old + delta
           total == s.total + new - old
       IN [ stakes  |-> [s.stakes EXCEPT ![addr] = new],
            total   |-> IF total < 0 THEN 0 ELSE total,
            supply  |-> s.supply,
            stakers |-> s.stakers + Change(old > 0, new > 0),
            masters |-> s.masters + Change(old >= MasterThreshold, new >= MasterThreshold) ]

\* only a subtraction is clamped
apply_supply_delta(s, sign, value) ==
  [s EXCEPT !.supply = IF sign < 0 /\ @ - value < 0 THEN 0 ELSE @ + sign * value]

\* a row that mints SOUL, a call of the transaction's script, a SOUL market order
classify_stake_snapshot_transaction(tx) ==
  IF \E i \in DOMAIN tx.rows : tx.rows[i].kind = "TokenMint" /\ tx.rows[i].token = Soul THEN "SmReward"
  ELSE IF tx.claimCall /\ ~tx.stakeCall /\ ~tx.unstakeCall THEN "StakeReward"
  ELSE IF \E i \in DOMAIN tx.rows : tx.rows[i].quote THEN "MarketEvent"
  ELSE "Normal"

\* identical rows of the backfilled history count once; a live row always counts
MutCollapseAll(rows) ==
  ForEach(LAMBDA kept, row : IF \E i \in DOMAIN kept : kept[i] = row THEN kept ELSE Append(kept, row), << >>, rows)
deduplicate_stake_snapshot_tx_rows(rows) ==
  ForEach(LAMBDA kept, row : IF row.format = 1 /\ \E i \in DOMAIN kept : kept[i] = row
                             THEN kept ELSE Append(kept, row), << >>, rows)

\* sign of a row's delta in a forward or a reverse replay
Sign(kind, reverse) == IF (kind \in {"TokenStake", "TokenMint"}) = reverse THEN -1 ELSE 1

\* one row of a transaction; the result of an inflation replaces its mints, once
ApplyRow(acc, row, tx, tx_kind, reverse) ==
  LET sign == Sign(row.kind, reverse)
  IN IF row.token # Soul \/ row.value <= 0 THEN acc
     ELSE CASE row.kind \in {"TokenStake", "TokenClaim"} ->
                 IF tx_kind # "Normal" THEN acc
                 ELSE [acc EXCEPT !.state = apply_stake_snapshot_stake_delta(@, row.addr, sign * row.value)]
            [] row.kind \in {"TokenMint", "TokenBurn"} ->
                 IF tx.result = << >>
                 THEN [acc EXCEPT !.state = apply_supply_delta(@, sign, row.value)]
                 ELSE IF acc.inflated THEN acc
                      ELSE [state |-> apply_supply_delta(acc.state, sign, tx.result[1]), inflated |-> TRUE]
            [] OTHER -> acc

apply_stake_snapshot_transaction(s, tx, reverse) ==
  ForEach(LAMBDA acc, row : ApplyRow(acc, row, tx, classify_stake_snapshot_transaction(tx), reverse),
          [state |-> s, inflated |-> FALSE],
          deduplicate_stake_snapshot_tx_rows(tx.rows)).state

\* the rows of the two projected payload formats
Projected(rows) ==
  ForEach(LAMBDA kept, row : IF row.format \in {1, 2} THEN Append(kept, row) ELSE kept, << >>, rows)

\* the transaction of a stored block: its rows, the calls of its script, the result of an inflation
TxOf(b) == [ ts |-> b.ts,
             rows |-> Projected(RowsOf(b.op)),
             stakeCall |-> b.op.do \in {"stake", "restake", "backfill"},
             unstakeCall |-> b.op.do \in {"unstake", "restake"},
             claimCall |-> b.op.do = "reward",
             result |-> IF b.op.do = "inflation" THEN <<b.op.value>> ELSE << >> ]

\* the stored transactions of a time range, in chain order; every inflation has its result, so the code's
\* fallback for a result that is missing or does not decode is not taken
load_stake_snapshot_events(from_ts, to_ts) ==
  ForEach(LAMBDA txs, b : IF from_ts <= b.ts /\ b.ts <= to_ts THEN Append(txs, TxOf(b)) ELSE txs,
          << >>, SubSeq(chain, 1, indexed))

reverse_replay_stake_snapshot_events(s, txs) ==
  ForEach(LAMBDA acc, tx : apply_stake_snapshot_transaction(acc, tx, TRUE), s, Reversed(txs))

\* the state at the end of a day: every transaction up to its last second applied
MutDayEndExclusive(s, txs, day) ==
  ForEach(LAMBDA acc, tx : IF tx.ts < stake_snapshot_day_end(day)
                           THEN apply_stake_snapshot_transaction(acc, tx, FALSE) ELSE acc, s, txs)
StateAt(s, txs, day) ==
  ForEach(LAMBDA acc, tx : IF tx.ts <= stake_snapshot_day_end(day)
                           THEN apply_stake_snapshot_transaction(acc, tx, FALSE) ELSE acc, s, txs)

DaysBetween(from_day, to_exclusive_day) ==
  {d \in from_day .. (to_exclusive_day - 1) : d % SecondsPerDay = 0}

Point(s) == [staked |-> s.total, supply |-> s.supply, stakers |-> s.stakers, masters |-> s.masters,
             source |-> "projector"]

\* the points of a window, and the state at its last closed day
MutKeepOpenDay(s, txs, from_day, to_exclusive_day) ==
  [ points |-> [d \in DaysBetween(from_day, to_exclusive_day) |-> Point(StateAt(s, txs, d))],
    closed |-> IF from_day + SecondsPerDay >= to_exclusive_day THEN << >>
               ELSE << [day |-> to_exclusive_day - 2 * SecondsPerDay,
                        state |-> StateAt(s, txs, to_exclusive_day - SecondsPerDay)] >> ]
build_stake_snapshot_daily_points(s, txs, from_day, to_exclusive_day) ==
  [ points |-> [d \in DaysBetween(from_day, to_exclusive_day) |-> Point(StateAt(s, txs, d))],
    closed |-> LET day == to_exclusive_day - 2 * SecondsPerDay
               IN IF day < from_day THEN << >> ELSE << [day |-> day, state |-> StateAt(s, txs, day)] >> ]

-----------------------------------------------------------------------------
(* The chain, the indexer and the balance pass.                            *)

Idle == [at |-> "idle"]
Tip == chain[Len(chain)]

Init ==
  /\ chain = << [ts |-> BoundaryTime, op |-> [do |-> "none"]] >>
  /\ node = << [stakes |-> InitStakes, supply |-> InitSupply] >>
  /\ indexed = 0
  /\ accounts = node[1]
  /\ seed = << >> /\ resume = << >>
  /\ daily = [d \in {BoundaryDay} |-> [source |-> "legacy", masters |-> 0]]
  /\ monthly = [m \in {MonthStart(BoundaryDay)} |-> 0]
  /\ capture = Idle /\ build = Idle
  /\ captures = 0 /\ honest = TRUE

\* the node produces a block
ProduceBlock(op, gap) ==
  /\ Executes(node[Len(node)], op)
  /\ chain' = Append(chain, [ts |-> Tip.ts + gap, op |-> op])
  /\ node' = Append(node, NodeStep(node[Len(node)], op))
  /\ UNCHANGED <<indexed, accounts, tables, capture, build, captures, honest>>

\* block ingestion commits the next height
IndexBlock ==
  /\ indexed < Len(chain)
  /\ indexed' = indexed + 1
  /\ UNCHANGED <<chain, node, accounts, tables, capture, build, captures, honest>>

\* the balance and supply passes store what the node reports now
SyncAccounts ==
  /\ accounts # node[Len(node)]
  /\ accounts' = node[Len(node)]
  /\ UNCHANGED <<chain, node, indexed, tables, capture, build, captures, honest>>

\* timestamp of the highest stored block
load_stake_snapshot_cursor_timestamp == chain[indexed].ts

-----------------------------------------------------------------------------
(* capture_stake_boundary_slice: three reads, then the commit.             *)

\* without the boundary block, or without a cursor, the capture fails
BeginCapture ==
  /\ capture.at = "idle" /\ captures < MaxCaptures
  /\ indexed > 0
  /\ capture' = [at |-> "events", cursor |-> load_stake_snapshot_cursor_timestamp, seen |-> indexed]
  /\ captures' = captures + 1
  /\ UNCHANGED <<chain, node, indexed, accounts, tables, build, honest>>

CaptureEvents ==
  /\ capture.at = "events"
  /\ capture' = [at |-> "state", seen |-> capture.seen, start |-> indexed,
                 txs |-> load_stake_snapshot_events(BoundaryDay + SecondsPerDay, capture.cursor)]
  /\ UNCHANGED <<chain, node, indexed, accounts, tables, build, captures, honest>>

load_current_stake_snapshot_state == CountStakes(accounts.stakes, accounts.supply)

\* the stakes of the accounts, unwound, replace any earlier seed
CommitCapture ==
  /\ capture.at = "state"
  /\ LET unwound == reverse_replay_stake_snapshot_events(load_current_stake_snapshot_state, capture.txs)
     IN seed' = << [stakes |-> unwound.stakes, supply |-> unwound.supply] >>
  /\ honest' = /\ honest /\ capture.start = capture.seen /\ accounts = node[capture.seen]
               /\ stake_snapshot_day_start(chain[capture.seen].ts) > BoundaryDay
  /\ capture' = Idle
  /\ UNCHANGED <<chain, node, indexed, accounts, daily, monthly, resume, build, captures>>

-----------------------------------------------------------------------------
(* project_stake_snapshots_forward: the plan, then the fold and its commit. *)

\* the days the projector has written; their maximum is load_max_projected_daily_day
BuiltDays == {d \in DOMAIN daily : daily[d].source = "projector"}

\* nothing to build: no block yet, the boundary day is the tip, or the cursor day is built
NothingToBuild ==
  \/ indexed = 0
  \/ LET cursor_day == stake_snapshot_day_start(load_stake_snapshot_cursor_timestamp)
     IN \/ BoundaryDay >= cursor_day
        \/ BuiltDays # {} /\ Max(BuiltDays) >= cursor_day

\* the saved state may stand in for the seed: it is at the day before the last built one
MutResumeOffByOne == resume # << >> /\ BuiltDays # {} /\ resume[1].day = Max(BuiltDays)
MayResume ==
  /\ resume # << >> /\ BuiltDays # {}
  /\ resume[1].day + SecondsPerDay = Max(BuiltDays)
  /\ resume[1].day > BoundaryDay

load_stake_boundary_slice == CountStakes(seed[1].stakes, seed[1].supply)
load_stake_snapshot_resume == resume[1]

PlanBuild ==
  /\ build.at = "idle" /\ seed # << >> /\ ~NothingToBuild
  /\ build' = [ at |-> "fold",
                cursor |-> load_stake_snapshot_cursor_timestamp,
                from |-> IF MayResume THEN load_stake_snapshot_resume.day + SecondsPerDay ELSE BoundaryDay + SecondsPerDay,
                state |-> IF MayResume THEN load_stake_snapshot_resume.state ELSE load_stake_boundary_slice ]
  /\ UNCHANGED <<chain, node, indexed, accounts, tables, capture, captures, honest>>

upsert_stake_snapshot_daily_points(points) == Upsert(points, daily)

\* every month after the seed's, to the cursor's, takes the latest point not after its end
upsert_stake_snapshot_monthlies_from_daily(points, from_month, to_exclusive_day) ==
  LET months == {m \in from_month .. (to_exclusive_day - 1) : m % MonthSeconds = 0}
      Latest(m) == points[Max({d \in DOMAIN points : d < m + MonthSeconds})]
  IN Upsert([m \in months |-> Latest(m).masters], monthly)

\* a window without a closed day leaves the saved state alone
save_stake_snapshot_resume(closed) == IF closed = << >> THEN resume ELSE closed

\* the curve, the months and the closed day's state are written and committed together
CommitBuild ==
  /\ build.at = "fold"
  /\ LET to_exclusive_day == stake_snapshot_day_start(build.cursor) + SecondsPerDay
         built == build_stake_snapshot_daily_points(
                    build.state, load_stake_snapshot_events(build.from, build.cursor), build.from, to_exclusive_day)
     IN /\ daily' = upsert_stake_snapshot_daily_points(built.points)
        /\ monthly' = upsert_stake_snapshot_monthlies_from_daily(
                        daily', stake_snapshot_next_month_start(BoundaryDay), to_exclusive_day)
        /\ resume' = save_stake_snapshot_resume(built.closed)
  /\ build' = Idle
  /\ UNCHANGED <<chain, node, indexed, accounts, seed, capture, captures, honest>>

\* an error, a shutdown or a crash rolls the open transaction back
Abort ==
  /\ \/ capture.at # "idle" /\ capture' = Idle /\ build' = build
     \/ build.at # "idle" /\ build' = Idle /\ capture' = capture
  /\ UNCHANGED <<chain, node, indexed, accounts, tables, captures, honest>>

Next ==
  \/ Len(chain) < MaxBlocks /\ \E op \in Operations[Len(chain) + 1], gap \in Gaps : ProduceBlock(op, gap)
  \/ IndexBlock \/ SyncAccounts
  \/ BeginCapture \/ CaptureEvents \/ CommitCapture
  \/ PlanBuild \/ CommitBuild
  \/ Abort

Spec == Init /\ [][Next]_vars

-----------------------------------------------------------------------------
(* Properties.                                                             *)

\* the node's stakes and supply at the end of a day
NodeAt(day) == node[Max({i \in DOMAIN chain : chain[i].ts <= stake_snapshot_day_end(day)})]

\* A capture that read accounts matching the stored blocks stores exactly the stakes and the
\* supply of the boundary day: unwinding the events, whatever their transactions do, meets the
\* node's own history (capture_stake_boundary_slice).
SeedIsBoundaryState == honest /\ seed # << >> => seed[1] = NodeAt(BoundaryDay)

\* From such a seed every closed day of the curve is the node's own state at the end of that
\* day, however the builds were cut into resumed, skipped and aborted runs, and whatever was
\* indexed between their statements (project_stake_snapshots_forward).
CurveIsChain ==
  honest => \A d \in BuiltDays : d < Max(BuiltDays) =>
              daily[d] = Point(CountStakes(NodeAt(d).stakes, NodeAt(d).supply))

\* What is derived from the curve never disagrees with it, even from a wrong seed: the saved fold
\* state is the state of the day before the last built one, yields that day's point, and its
\* counters are what a recount of its stakes gives (save_stake_snapshot_resume); every month
\* after the seed's has the masters of its latest day, and the seed's own day and month keep the
\* rows they had before.
DerivedMatchesCurve ==
  /\ resume # << >> =>
       /\ resume[1].day + SecondsPerDay = Max(BuiltDays)
       /\ daily[resume[1].day] = Point(resume[1].state)
       /\ resume[1].state = CountStakes(resume[1].state.stakes, resume[1].state.supply)
  /\ BuiltDays # {} =>
       \A m \in {x \in 0 .. Max(BuiltDays) : x % MonthSeconds = 0 /\ x > BoundaryDay} :
         /\ m \in DOMAIN monthly
         /\ monthly[m] = daily[Max({d \in DOMAIN daily : d < m + MonthSeconds})].masters
  /\ daily[BoundaryDay].source = "legacy" /\ monthly[MonthStart(BoundaryDay)] = 0

\* A day that is closed in the published curve never changes again: a build rewrites at most
\* the open day, a new capture none (project_stake_snapshots_forward).
ClosedDaysFrozen ==
  [][\A d \in BuiltDays : d < Max(BuiltDays) => daily'[d] = daily[d]]_vars
=============================================================================
