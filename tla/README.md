# TLA+ models of the Phantasma explorer backend

The backend is a Rust workspace: `explorer-worker` copies the blocks of one
Phantasma chain from JSON-RPC nodes into Postgres and keeps balances, metadata,
prices and staking statistics up to date; `explorer-api` serves the result over
HTTP; `explorer-migrate` applies the schema. This directory holds TLA+ models of
the parts whose correctness depends on the order in which things happen, the TLC
instances that check them and TLAPS proofs of the properties that matter most.
Source paths below are relative to the repository root.

## Inventory

| Part | Source | What can go wrong | Module |
|---|---|---|---|
| Block synchronisation | `crates/ingestion/src/driver.rs` (`sync_once` and the two projection paths), `crates/ingestion/src/lib.rs` (`plan_fetch_window`) | fetches finish in any order, fail, panic or are cancelled while the writer commits; the process dies between any two steps | `BlockSync`, `Ledger` |
| RPC load shedding | `driver.rs` (`RpcReliefState`, the backoffs) | a stall charged to the wrong height, shedding left too early or never | `RpcRelief` |
| Dimension cache, row writes | `crates/db/src/lib.rs` | ids of a rolled-back transaction in a cache that outlives it; ids that change on a re-projection | `BlockProjection` |
| Event side effects | `crates/db/src/events.rs` | a block projected again, after later blocks, undoes or doubles an effect | `EventEffects`, `BlockProjection` |
| Worker loop, maintenance tasks | `driver.rs` (`run_until_shutdown`, the `run_*_maintenance` loops) | lost wakeups, gates that stay closed, a shutdown that waits for ever | `Worker` |
| Balance synchronisation | `driver.rs` (`sync_dirty_balances_once`), `crates/db/src/lib.rs` (`mark_*`, `reset_dirty_balance_flags`) | a mark cleared for a change that was not read; a pass lost between its two transactions; starvation | `BalanceSync` |
| Staking seed and curve | `crates/db/src/staking.rs` | a resumed fold that differs from a full one, days closed at the wrong second | `StakeSnapshots` |
| NFT, series, token, contract, TTRS, failed-transaction metadata; prices | `driver.rs`, `crates/db/src/rpc_metadata.rs`, `crates/db/src/lib.rs`, `crates/ingestion/src/prices.rs`, `ttrs.rs` | outages stored as answers, starved batches, answers overtaken by the node | `MetadataPasses` |
| Database reads, list handlers | `crates/db/src/reads`, `crates/http-api/src/handlers.rs`, `support.rs` | rows skipped or repeated between pages while the worker writes | `Paging`, `Sweep`, `ReadLists` |
| RPC failover | `crates/rpc/src/lib.rs` | rounds on a shared counter, timeouts too short for a large block | `RpcFailover` |
| API rate limiting | `crates/http-api/src/rate_limit.rs` | racing requests, the clock read before the lock, a leaked slot, narrowing | `RateLimiter` |
| The rest | see "Not modelled" | | |

How they interact: the worker loop (`Worker`) runs `sync_once` (`BlockSync`), whose
block writes are `BlockProjection` with the effects of `EventEffects`; they move the
cursor, mark addresses for `BalanceSync` and add the rows `MetadataPasses` and
`StakeSnapshots` work on. All node traffic goes through `RpcFailover`, and failures
on the node's side feed `RpcRelief`. The API reads the tables (`ReadLists`) behind
`RateLimiter`.

## Modules

### `Ledger`, `BlockSync`, `RpcRelief`

`Ledger` is what the worker promises its readers: the cursor
(`chains.current_height`) moves one height at a time, each move storing the block
it moves onto, and the restored zero-state base is never written.

`BlockSync` is the worker process. `pc` says where `sync_once` is; `tasks` is the
`JoinSet` of the pipelined path, `ready` the fetched blocks that wait for the
writer, `fetchError` the lowest failed height. `SpawnFetch`, `Harvest`,
`WriteBlock`, `AwaitFetch` and `FinishWindow` are the stages of
`project_window_pipelined`; `SequentialBlock` is a step of the other path. `mode`
is the configured sync mode: pipelined, sequential or permanently load-shed. Every
fetch ends at any time. A block write is one transaction, hence one step, which
can also fail after its commit. `Crash` and `Restart` lose everything but the
database; a restart may configure another network or mode. `ProjectRawBlock` is
the one-shot command of a second process. A block is reduced to the network it
came from. One process talks to endpoints of one network.

`RpcRelief` holds the operations of `RpcReliefState` and the two wait schedules;
`BlockSync` and `Worker` both use them.

### `EventEffects`, `BlockProjection`

What one block write does to the tables. `BlockProjection` holds the dimension
cache (`take_for_block`, `restore_after_commit`, `resolve`), the block,
transaction, signature, event and address-link rows with their ids, and the
transaction around them; `EventEffects` is `apply_block_event_side_effects`, one
operator per SQL statement group of `events.rs`, in the order the code runs them.
All tables are one record, every id comes from one serial counter, and a failed
write rolls everything back except that counter, as Postgres sequences do. The
worker writes at the cursor; `project_raw_block` is a second process that writes
any block of the node, before or after the worker reaches it, with a cache of its
own. A write is one step: that the statements of two writes interleave is not
modelled. The node produces every valid sequence of the instance's transactions. Of
the columns only those remain that an effect reads or that refer to another row.
Blocks are the only writers here. The series and NFT passes also write
`series.current_supply` and `nfts.series_id` (`rpc_metadata.rs`), so
`SupplyCoversAlive` speaks of what blocks write and not of a supply the node
reported.

### `Worker`

`run_until_shutdown` with the ten maintenance loops, the published lag, the
balance wakeup (a `Notify` with one permit) and the latched shutdown channel. A
`sync_once` is one step here, with the outcomes `BlockSync` gives it; that this
summary is a refinement is argued by reading and not checked.

### `BalanceSync`

Blocks mark addresses; a pass selects the oldest marks, reads overview and
balances of each address, stores them in one transaction and clears the marks in
a second. An account is reduced to the height its answer was read at; a walk over
several pages is one read at the height of its oldest answer. All endpoints are at
most `EndpointLag` behind the tip. One pass runs at a time: a `--balance-sync-once`
beside the worker is not modelled. `BacklogDrains` says that a batch with room beside
the refused addresses drains all others; refused addresses that fill a batch hold up
the rest for ever, in the model as in the code.

### `StakeSnapshots`

The projector of `staking.rs`. The node's own stakes and supply after every block
are part of the state and are what the tables are compared with. The capture is
three steps (cursor, events, current accounts) with blocks indexed and accounts
refreshed between them; the forward build is two (plan, fold and commit). The plan
reads seed, cursor, last built day and saved state in one step, so a capture that
commits between the seed's header and its balances is left out, and so is a second
build by `--stake-projection-once`. The event rows of a transaction and their classification (stake, claim, reward,
market, inflation, duplicates) follow the code; amounts are small integers. Every
inflation has its result: the fallback to the mint event's value (`staking.rs:900`)
is not modelled.
`honest` records whether every capture ran on accounts that match the blocks it
read, which the properties about the seed presuppose.

### `Loops`

How the code walks a vector, forwards or backwards, and a result set in the order of
its ids. `StakeSnapshots` and `MetadataPasses` are written with it.

### `MetadataPasses`

The maintenance passes that ask the node or a feed: candidate query, one request
per item (or one for the batch), store. Each request can get an answer, a permanent
error or a transport failure, and a permanent error also for an item the node has;
a contract can come back without methods. A pass can be aborted between any two
items. A behaviour follows one task (`focus`); the one-shot repairs run between the
passes of that task. The block writer and the node act at any time. Some columns
have several writers: the NFT and the series pass both write series rows, and so do
blocks. Those races between tasks are left out. All answers are those of the node of
that moment: endpoints that lag behind each other are left out too, and
`NewestMethodLinked` does not hold across them.

### `Paging`, `Sweep`, `ReadLists`

`Paging` is the arithmetic of `ORDER BY ... LIMIT ... OFFSET` and of the
one-row-more trick of the handlers. `ReadLists` has one action per list handler
over its query: `/transactions` and `/events` page by a seek cursor, eight lists by
an offset cursor, three by the client's own offset. Blocks of several chains insert
rows with ids drawn before their commit, commit or roll back; rows are hidden and
renamed. `transaction_by_hash` is three statements, the second with its `LIMIT`
(`MaxMatches`). `Sweep` is what a seek list
promises: every row of the start is handed out once.

### `RpcFailover`

Concurrent calls over `N` endpoints with the shared, wrapping round-robin counter,
the rounds, the error classes and the doubling timeout of block fetches.

### `RateLimiter`

Requests of known keys and client addresses through `admit`, the sliding window,
the sweep and the in-flight compare-and-swap loop, over a clock that moves between
any two steps. `OPTIONS` requests and exempt paths never enter it. `Tick` bounds a
request's delay between reading the clock and taking the lock to less than a
window.

## Runs

| Run | What it shows |
|---|---|
| `block_sync` | in every sync mode, changed at restarts: gap-free ledger, the right height blamed, complete windows, bounded read-ahead, one network, shedding left only when earned; implements `Ledger` |
| `sync_liveness` | every block is eventually indexed, also beside one-shot re-projections |
| `block_projection` | foreign keys name committed rows, ids are stable, and burn markers, owners, infusion totals and supplies survive projections ahead of the worker and again, in any order |
| `balance` | an unmarked address is fresh and its membership matches its stake; a refused address does not hold up others while a batch has room |
| `stake_curve` | the seed is the node's state of the boundary day, every closed day of the curve the node's state of that day; resume state and months agree with the curve; closed days never change |
| `metadata_passes` | only a refusal by the node is stored as an NFT's error, never an outage; the newest ABI is linked and every upgrade recorded; batches advance past items without an answer; token rows follow the node |
| `read_lists` | seek lists implement `Sweep`; offset lists lose nothing while rows are only added; a hash lookup is honest |
| `failover` | each call asks every endpoint before it gives up, ends, and serves slow blocks |
| `rate_window` | no window is exceeded, no slot leaks |
| `worker_stops` | the worker exits although no pass or timer ends by itself; the balance wakeup is not lost |
| `worker_resumes` | a failing height is retried only after the wait it earned; after failures stop, every task runs again |
| `price_backfill` | a violation: see the first disagreement below |

### Disagreements between the code and its own statements

`price_backfill` shows one of them as a counterexample: the comment at
`driver.rs:1751` says that after a rate limit "the rest resumes next tick", but the
closes of the day fetched so far are stored and the next run starts the day after
the newest stored one, so the remaining symbols of that day are never asked for.

The others are behaviours the models contain and no run reports:

| Statement | What the code does |
|---|---|
| `driver.rs:632` "the pass committed nothing" | a database failure or a panicked fetch takes the error path after commits; after a panic the backoff is keyed on `window.from_height`, which may be committed (`driver.rs:641`) |
| `README.md:218`, the node guard | `--project-block` does not run the guard (`driver.rs:323`) |
| `README.md:121`, maintenance pauses while shedding | the contract task's second pass is not gated again (`driver.rs:2968`) |
| `driver.rs:1529` "only the offending addresses stay dirty" | true while a batch has room beside them; refused addresses with the oldest marks can fill every batch (`crates/db/src/lib.rs:808`) |
| `crates/rpc/src/lib.rs:137`, what is retried | a permanent error followed by another endpoint's transient one is retried (line 263) |
| `rate_limit.rs:7`, tiers | a tier of 2^32 requests per minute is narrowed to a limit of zero (line 271) |

Three drifts are accepted by the code and by the models. A series' supply can stay
one too large when its burn marker is set before the lifecycle step sees the burn.
An RPC answer ahead of the cursor has burns that are indexed, and taken off, again.
A series whose request fails for any reason is stored as an error, unlike an NFT,
and not asked for again.

### Bounds

`MaxHeight`, `MaxBlocks`, `MaxFaults` and the other `Max...` constants end the state
spaces.

- `block_sync`: windows of four blocks, three fetches in flight and three faults are
  enough for a failure below and one above a committed prefix, an abort that races
  a completion, and a crash after either. Six heights above a boundary of one let
  load shedding be entered and left by its four blocks.
- `block_projection`: two blocks of up to two transactions after the genesis block,
  equal or later in time, and two incidents, each a one-shot projection, a failed
  write or a restart. A mint, a transfer, an
  infusion and a burn of one token fit into one block or two, an older block can be
  written again after a newer one, and a newer one before an older.
- `balance`: three addresses, one refused, up-to-date endpoints, two heights, one
  fault, batches of one and two: a re-mark between read and reset, a pass lost on
  either side, and a batch that the refused address shares with one of two others. The
  proof covers any number of addresses and any lag.
- `stake_curve`: three blocks after the boundary block, days of two seconds, months
  of two days, gaps that stay in a day or skip one; two captures.
- `metadata_passes`: three items per kind, batches of two, one item without an
  answer, two upgrades, two outages (failed, refused or empty answers and failed
  transactions). `PassAssumption` requires fewer items without
  an answer than a batch holds; otherwise they fill it for ever, also in the code.
- `read_lists`: two chains, six rows in blocks of two, ties in every sort column,
  pages of one and two, one hidden or renamed row.
- `rate_window`: three segments and three requests, so a slot of the ring is reused.
  `U32 = 16` stands for 2^32; the tiers checked fit in it.
- `failover`: `UsizeRange = 8` stands for the counter's range, with two endpoints.
  For a number of endpoints that does not divide 2^64, a round that meets the wrap
  could ask one endpoint twice, after 2^64 calls.
- The tasks of `Worker` meet only in the join at shutdown, so `Spawns` looks at one
  pair together and at the others one at a time; all ten appear in the two runs.

### Fairness

- `BlockSync!FairSpec`: the loop continues, each fetch ends (every attempt has a
  timeout) and a supervisor restarts a dead process.
- `BalanceSync!FairSpec`: the balance task ticks, reads end, blocks are written.
- `RpcFailover!FairSpec`: each attempt has a timeout.
- `Worker!StopSpec` has no fairness on passes or timers, only on reacting to the
  signal. It is strong because `select!` picks a ready arm at random.
- `KickNotLost` names its own fairness: the wakeup and the end of a balance pass.
  The fallback tick stays unfair, so only the wakeup counts.
- `Worker!LiveSpec`: timers fire, passes end.
- `MetadataPasses!Spec`: a pass runs to its end (weak), and the task's loop comes
  back to each of its passes (strong, since one-shot commands and the other pass of
  the task can be in the way). The NFT, series and failed-transaction loops skip
  their passes while the worker is far behind the tip, so this presupposes a worker
  that is not in catch-up for ever.

The liveness runs bound the number of faults: a node that fails for ever indexes
nothing, and nothing is claimed of it. Deadlock is not checked where the system may
stop: a worker exits after a signal, requests, calls and walks end, chains reach
their bound.

## Proofs

The proofs hold for all values of the constants under the named assumptions of the
modules (`BlockSyncAssumption`, `BalanceSyncAssumption`, `ReadListsAssumption`,
`RateLimiterAssumption`, `FailoverAssumption`,
`PassAssumption`, `StakeAssumption`), which give the constants their types, make the
set of rows, requests or addresses finite and require that a batch tier starts at zero and that
the contract which upgrades is among the contracts. `PassAssumption` also keeps the
items the node never answers below one batch; the liveness of the passes needs that,
the two theorems about them do not depend on it.

`BlockSyncProofs` proves `TypeCorrect`, `LedgerSafe`, `StallIsNextHeight`,
`PassIsComplete`, `Refinement`, `ReleaseEarned`, `OneNetwork` and
`ReadAheadIsBounded`. `GapFreePrefix` alone is not inductive: that the writer's next
height is the cursor's successor has to be known, and that every height between
writer and spawner is running, ready, or at or above the lowest failure.
`PipelineInv` says so. `StreakEarned` ties the recovery streak to committed blocks.
The refinement follows from `LedgerSteps`, which lists what a step may do to the
ledger. `OneNetwork` adds `ChainInv` (a guarded process stands on its own network's
block) and assumes that no one-shot command runs. `ReleaseEarned` accepts any release
on a caught-up report, also one from a lagging endpoint. `ReadAheadIsBounded` counts:
running and buffered heights lie between writer and spawner, and `ReadAheadInv`
bounds that distance.

`BalanceSyncProofs` proves `TypeCorrect`, `UnmarkedIsFresh` and
`UnmarkedMembership`. `CleanIsFresh` says nothing about marked addresses, so it is
not inductive. The invariant has `StoredInv` (each indexed block is reflected in
what is stored, or the mark is at or above it), `ReadInv` (an answer in hand
reaches the mark that was read, and whatever it misses has raised the mark since)
and `PhaseInv` (what each phase has behind it). The step that needs the comparison
in `reset_dirty_balance_flags` is the first case of `ResetKeeps`.

`ReadListsProofs` starts with lemmas on pages: in a strict total order of a finite
set the rows of `LIMIT n` are a prefix, a short page is everything, and first and
last rows exist. `CursorCuts` needs to know that the cursor names a row that was
served and is still there (`WalkInv`), and that rows of open transactions have ids no
committed row has (`TableInv`): then a commit changes neither side of the cut among
the rows of the start. `SeekWalkSweeps` is the refinement of `Sweep`: a page is
disjoint from what was served because it lies strictly after the cursor, and the last
page owes nothing because it is short. `LookupIsHonest` follows from occurrences only
ever being added and from a list below its limit being everything. `OffsetWalksComplete` rests on ranks: the page at an offset is the
rows whose rank lies in an interval (`CountByRank`), a rank only grows while rows are
only added, and so every row of the start whose rank is below the offset has been
served (`OffsetInv`).

`RateLimiterProofs` proves `InFlightIsExact` and `WindowIsHonoured`. The counter
equals the number of requests being served; that it stays within the capacity needs
the extra fact that a request about to swap has seen a free slot. `WInv` says that
the slot of a segment still in the window counts exactly what was admitted in it,
whatever was reset or swept: two segments of one window never share a slot, and a
request brings a clock value of the current window. The sums over segments are
reasoned about by induction on subsets (`SumRemove`, `SumInjection`).

`RpcFailoverProofs` proves `RoundsAskAll`, `EndpointsAsked` and `DenseBlocksServed`.
A round asks the endpoints at consecutive offsets from the counter value it drew, so
after `k` tries it has asked `k` different ones as long as the counter did not wrap
inside the round: that is `RoundsAskAll`, for any number of endpoints.
`EndpointsAsked`, the property as the run checks it, has the extra hypothesis that the
number of endpoints divides the counter's range, as two does in the run's instance;
with a 64-bit counter that covers powers of two. For other numbers a round in which
the counter wraps is covered by neither theorem. `DenseBlocksServed` counts faults: in
a round whose timeout suffices for the block, each endpoint that did not serve it cost
one fault (`CallInv`), so with fewer faults than endpoints some endpoint serves it.

`MetadataPassesProofs` proves `OutagesNotRemembered` and `NewestMethodsLinked`. An
error among the answers a pass holds, like one that is stored, is a refusal the node
gave for that token (`NftInv`). For the methods, `EventInv` keeps the upgrades in the
order of their timestamps, `HeldInv` says that an ABI in hand is at least as new as
every stored one, and `TodoInv` that what is still to be fetched has no method yet,
except for the timestamp that was stored last. That the selection of due upgrades
keeps their order is proved by induction over the fold (`CollectInOrder`).

`StakeReplayProofs` says what the folds of `StakeSnapshots` compute. Each loop is
unrolled once (`ResultUnrolls`: the value after `k` elements is the step applied to
the value after `k - 1`). Then a transaction is followed row by row: on a state whose
counters are a recount of its stakes it does, forward and backward, what the node did
(`StepForward`, `StepBackward`, one lemma for each kind of operation). Last, the rows
read for a time range are one stretch of the chain (`LoadSegment`), so the forward
fold of a stretch leads from the node's state before it to the one after it
(`ForwardFold`), and the reverse replay leads back (`ReverseFold`).

`StakeSnapshotsProofs` proves `SeedIsTheBoundary`, `CurveIsTheChain`,
`DerivedFollowsCurve` and `ClosedDaysAreFrozen`. None of the four is inductive.
`CurveInv` ties three things that are written or read at different times: the saved
state is at the day before the last built one, without a saved state at most the day
after the boundary is built, and a running build starts at the last built day or
right after the boundary accordingly. So a build rewrites the open day and nothing
before it. `MonthInv` covers the months. For the values, `HistoryInv` makes the
node's history a run of its own operations, and `CaptureInv`, `SeedInv`, `BuildInv`,
`ResumeInv` and `ClosedInv` say of what each transaction holds, and of each stored
row, which state of the node it is: all blocks up to the end of the day in question
and none after it, which later blocks cannot undo (`ClosesGrown`). The two theorems
about the node's state are for honest captures, the other two for any seed.
`StakeAssumption` makes the addresses finite, and the operations ones of those
addresses with amounts that are natural numbers. That the node executes no unstake
or burn beyond what is there (`Executes`) is what makes the unwinding exact.

`RpcFailoverProofs` also has the theorem about the waits of the worker loop, over an
instance of `Worker`: `BackoffIsEarned`, for a window of at least one block and any
endpoint lag (`WorkerConstants`, a part of `WorkerAssumption`). `StallInv` relates the length of the
failure streak of a height to the count the relief state keeps for it: the count is
never smaller, the schedule is monotone, and so the wait is long enough, whichever
kind of report the last pass gave.

Only model-checked: all liveness (fairness and `ENABLED` are outside the prover) and
the properties of `BlockProjection`, for which no proof has been written. Its tables
are functions from keys to rows, merged by nested folds over a block's events: every
fold would need its own unrolling by induction, as in `StakeReplayProofs`, and the
provers know nothing of sorted sequences and of the merge operator `@@`.

## Not modelled

- Payload, legacy event and raw script decoding, response formatting, parameter
  parsing, configuration, domain types, logging, the parity tool: sequential
  conversions or offline code without state.
- Block fetch and payload repair, the account page walk: sequential, bounded loops
  inside one task. `BlockSync` and `BalanceSync` take their outcomes.
- The overview cache (a time-to-live under two locks, no state shared with the
  writers) and the capture of rejected transactions (a candidate stored while the
  worker indexes the same hash is filtered by the next request's canonical check).
- Single-row detail queries, joins and text search of the read API: SQL evaluated
  by Postgres without order effects.
- Two processes at work on the same rows at the same moment, where READ COMMITTED
  lets their statements interleave: two block writes, two balance passes, two builds
  of the staking curve, two metadata tasks.
- Schema migrations and start-up code. The unique keys the schema declares are
  facts the models of the writers use.
