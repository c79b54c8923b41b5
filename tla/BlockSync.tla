------------------------------ MODULE BlockSync ------------------------------
(***************************************************************************)
(* One ingestion worker process: BlockIngestionDriver::sync_once with the  *)
(* pipelined and the sequential projection of a fetch window, the relief   *)
(* state it feeds, process crashes and restarts, and the one-shot          *)
(* --project-block command of a second process.                            *)
(*                                                                         *)
(* The worker loop is one process; every fetch task of the pipeline's      *)
(* JoinSet is a process of its own that finishes at any time.  A block     *)
(* write is one database transaction, so one step.  Losing the process at  *)
(* any point (kill, or sync_once dropped by a shutdown) is Crash.          *)
(***************************************************************************)
EXTENDS RpcRelief, FiniteSets

CONSTANTS
  Boundary,          \* MAIN_ZERO_STATE_BOUNDARY_HEIGHT
  MaxHeight,         \* bound: the chain does not grow past it
  Chains,            \* networks an RPC endpoint can serve
  NoBlock, Base,     \* blocks table: no row / restored zero-state row
  InitCursors,       \* cursor values the database may be handed over with
  OneShotChains,     \* networks an operator's --project-block may be pointed at
  SyncModes,         \* sync modes a process may be configured with
  FetchBatchSize, FetchConcurrency, QueueCapacity, HeightLimit,
  EndpointLag,       \* how far behind the tip an endpoint's answer may be
  MaxFaults          \* bound: failures and crashes in one behaviour

ASSUME BlockSyncAssumption ==
  /\ Boundary \in Nat
  /\ MaxHeight \in Nat
  /\ InitCursors \subseteq 0..MaxHeight
  /\ OneShotChains \subseteq Chains
  /\ NoBlock \notin Chains
  /\ NoBlock # Base
  /\ SyncModes \subseteq {"normal", "sequential", "relief"}
  /\ FetchBatchSize \in Nat \ {0}
  /\ FetchConcurrency \in Nat
  /\ QueueCapacity \in Nat
  /\ HeightLimit \in Nat
  /\ EndpointLag \in Nat
  /\ MaxFaults \in Nat

VARIABLES
  tip,         \* the chain's height at the node
  cursor,      \* chains.current_height
  blocks,      \* the blocks table
  nodeChain,   \* the network this process's RPC endpoints serve
  mode,        \* this process's settings.sync_mode
  guarded,     \* node_guard_checked
  relief,      \* RpcReliefState
  pc,          \* where sync_once is; "idle" between passes, "down" without a process
  window,      \* the FetchWindow of the current or last pass
  tasks,       \* JoinSet: the state of the fetch task of each height
  ready,       \* heights fetched and not yet written
  fetchError,  \* lowest failed height, 0 when none
  spawn,       \* next_to_spawn
  write,       \* next_to_write
  projected,   \* projected_blocks
  outcome,     \* how the last pass ended
  stallCursor, \* history: the cursor when a stall was last registered
  faults       \* bound: faults so far

vars == <<tip, cursor, blocks, nodeChain, mode, guarded, relief, pc, window, tasks, ready,
          fetchError, spawn, write, projected, outcome, stallCursor, faults>>

ledger == <<cursor, blocks>>
passVars == <<window, tasks, ready, fetchError, spawn, write, projected>>

L == INSTANCE Ledger

Heights == 1..MaxHeight
NoHeight == 0
TaskState == {"none", "running", "ok", "failed", "panicked", "cancelled"}
Stages == {"topup", "harvest", "write", "await", "seq"}
Outcomes == {"none", "caughtUp", "ok", "stalled", "nodeError", "dbError", "panic"}

NoTasks == [h \in Heights |-> "none"]

Init ==
  /\ L!Init
  /\ tip \in cursor..MaxHeight
  /\ nodeChain \in Chains
  /\ mode \in SyncModes
  /\ guarded = FALSE
  /\ relief = ReliefDefault
  /\ pc = "idle"
  /\ window = [from |-> 0, to |-> 0, concurrency |-> 0]
  /\ tasks = NoTasks
  /\ ready = {}
  /\ fetchError = NoHeight
  /\ spawn = 0
  /\ write = 0
  /\ projected = 0
  /\ outcome = "none"
  /\ stallCursor = cursor
  /\ faults = 0

Fault == faults < MaxFaults /\ faults' = faults + 1

------------------------------------------------------------------------------
(* Planning a pass. *)

EffectiveBatchSize == IF mode = "relief" THEN 1 ELSE FetchBatchSize
EffectiveConcurrency == IF mode = "relief" THEN 1 ELSE MaxOf(FetchConcurrency, 1)

\* plan_fetch_window's target_tip.
TargetTip(rpcTip) == MinOf(HeightLimit, rpcTip)

PlanFetchWindow(current, rpcTip, loadShed) ==
  LET next == current + 1
      batch == IF loadShed THEN 1 ELSE EffectiveBatchSize
      last == MinOf(next + batch - 1, TargetTip(rpcTip))
      requested == IF loadShed THEN 1 ELSE EffectiveConcurrency
  IN [from |-> next, to |-> last, concurrency |-> MinOf(requested, last - next + 1)]

\* Mutant: the zero-state scope is not checked.
MutAnyScope == TRUE

ScopeOK == cursor >= Boundary

\* guard_node_matches_db: skipped at the boundary and where no row is stored.
GuardApplies == cursor > Boundary /\ blocks[cursor] # NoBlock
\* Mutant: a restarted process trusts its RPC configuration.
MutNoGuard == TRUE
GuardOK == guarded \/ (GuardApplies => blocks[cursor] = nodeChain)

\* sync_once up to the window: an endpoint answers the tip, the zero-state scope
\* and the node guard hold, and there is a window to project.
StartPass ==
  /\ pc = "idle"
  /\ ScopeOK /\ GuardOK
  /\ guarded' = (guarded \/ GuardApplies)
  /\ \E rpcTip \in (tip - EndpointLag)..tip :
       /\ cursor + 1 <= TargetTip(rpcTip)
       /\ window' = PlanFetchWindow(cursor, rpcTip, relief.active)
  /\ spawn' = cursor + 1
  /\ write' = cursor + 1
  /\ projected' = 0
  /\ outcome' = "none"
  /\ pc' = IF mode = "normal" THEN "topup" ELSE "seq"
  /\ UNCHANGED <<tip, ledger, nodeChain, mode, relief, tasks, ready, fetchError, stallCursor,
                 faults>>

\* sync_once with nothing to fetch: it leaves load-shed mode.
CaughtUp ==
  /\ pc = "idle"
  /\ ScopeOK /\ GuardOK
  /\ guarded' = (guarded \/ GuardApplies)
  /\ \E rpcTip \in (tip - EndpointLag)..tip : cursor + 1 > TargetTip(rpcTip)
  /\ relief' = Clear(relief)
  /\ outcome' = "caughtUp"
  /\ UNCHANGED <<tip, ledger, nodeChain, mode, pc, passVars, stallCursor, faults>>

\* sync_once failing before it has a window: the tip probe or a query fails, the
\* scope or the guard refuses.  Neither relief nor the guard latch moves.
ProbeFails ==
  /\ pc = "idle"
  /\ \/ Fault
     \/ ~(ScopeOK /\ GuardOK) /\ UNCHANGED faults
  /\ outcome' = "none"
  /\ UNCHANGED <<tip, ledger, nodeChain, mode, guarded, relief, pc, passVars, stallCursor>>

------------------------------------------------------------------------------
(* Ending a pass.  Dropping the JoinSet drops every task and buffered block. *)

DropPipeline ==
  /\ tasks' = NoTasks
  /\ ready' = {}
  /\ fetchError' = NoHeight
  /\ pc' = "idle"

\* note_fetch_stall
NoteFetchStall(height) ==
  /\ relief' = RegisterStall(relief, height)
  /\ stallCursor' = cursor

\* note_fetch_progress
NoteFetchProgress(blocksDone) ==
  /\ relief' = RegisterProgress(relief, blocksDone)
  /\ UNCHANGED stallCursor

\* Err(error) of a projection path: only a database failure sheds no load.
FailPass(result) ==
  /\ DropPipeline
  /\ outcome' = result
  /\ IF result = "dbError" THEN UNCHANGED <<relief, stallCursor>>
                           ELSE NoteFetchStall(window.from)

\* Ok(WindowOutcome) with a stalled height.
StallPass(height) ==
  /\ DropPipeline
  /\ outcome' = "stalled"
  /\ NoteFetchStall(height)

\* A node-side failure at a height: keeps_committed_prefix decides.
FailNodeSide(height) ==
  IF projected > 0 THEN StallPass(height) ELSE FailPass("nodeError")

CompletePass(done) ==
  /\ DropPipeline
  /\ outcome' = "ok"
  /\ NoteFetchProgress(done)

\* Mutant: the cursor is moved for the whole window with its first block.
MutCommitWindow(h) ==
  /\ blocks' = [blocks EXCEPT ![h] = nodeChain]
  /\ cursor' = MaxOf(cursor, window.to)

\* The transaction of write_decoded_block and of project_raw_block_and_advance_cursor:
\* the block's rows and advance_cursor's greatest(), together or not at all.
CommitBlock(h) ==
  /\ blocks' = [blocks EXCEPT ![h] = nodeChain]
  /\ cursor' = MaxOf(cursor, h)

------------------------------------------------------------------------------
(* The pipelined projection. *)

JoinSet == {h \in Heights : tasks[h] # "none"}
MaxReadAhead == MaxOf(QueueCapacity, MaxOf(window.concurrency, 1))

\* Mutant: only the number of running fetches is bounded.
MutNoBackpressure ==
  /\ fetchError = NoHeight
  /\ spawn <= window.to
  /\ Cardinality(JoinSet) < MaxOf(window.concurrency, 1)

CanSpawn ==
  /\ fetchError = NoHeight
  /\ spawn <= window.to
  /\ Cardinality(JoinSet) < MaxOf(window.concurrency, 1)
  /\ spawn - write < MaxReadAhead

SpawnFetch ==
  /\ pc = "topup"
  /\ CanSpawn
  /\ tasks' = [tasks EXCEPT ![spawn] = "running"]
  /\ spawn' = spawn + 1
  /\ UNCHANGED <<tip, ledger, nodeChain, mode, guarded, relief, pc, window, ready, fetchError,
                 write, projected, outcome, stallCursor, faults>>

TopUpDone ==
  /\ pc = "topup"
  /\ ~CanSpawn
  /\ pc' = "harvest"
  /\ UNCHANGED <<tip, ledger, nodeChain, mode, guarded, relief, passVars, outcome, stallCursor,
                 faults>>

\* record_fetched aborts the look-ahead above a failed height; an aborted task
\* ends cancelled unless it finishes first.
Aborted(h) == fetchError # NoHeight /\ h > fetchError

FetchDone(h) ==
  /\ tasks[h] = "running"
  /\ \/ tasks' = [tasks EXCEPT ![h] = "ok"] /\ UNCHANGED faults
     \/ tasks' = [tasks EXCEPT ![h] = "failed"] /\ Fault
     \/ tasks' = [tasks EXCEPT ![h] = "panicked"] /\ Fault
     \/ tasks' = [tasks EXCEPT ![h] = "cancelled"] /\ Aborted(h) /\ UNCHANGED faults
  /\ UNCHANGED <<tip, ledger, nodeChain, mode, guarded, relief, pc, window, ready, fetchError,
                 spawn, write, projected, outcome, stallCursor>>

\* Mutant: the last failure is remembered, not the lowest.
MutLastFailure(h) ==
  /\ tasks[h] \in {"ok", "failed", "cancelled"}
  /\ tasks' = [tasks EXCEPT ![h] = "none"]
  /\ ready' = IF tasks[h] = "ok" THEN ready \cup {h} ELSE ready
  /\ fetchError' = IF tasks[h] = "failed" THEN h ELSE fetchError

\* record_fetched of a joined task that did not panic.
RecordFetched(h) ==
  /\ tasks[h] \in {"ok", "failed", "cancelled"}
  /\ tasks' = [tasks EXCEPT ![h] = "none"]
  /\ ready' = IF tasks[h] = "ok" THEN ready \cup {h} ELSE ready
  /\ fetchError' = IF tasks[h] = "failed" /\ (fetchError = NoHeight \/ h < fetchError)
                     THEN h ELSE fetchError

\* try_join_next, or join_next when the writer has nothing left to do.
Harvest(h) ==
  /\ pc \in {"harvest", "await"}
  /\ RecordFetched(h)
  /\ pc' = IF pc = "await" THEN "topup" ELSE "harvest"
  /\ UNCHANGED <<tip, ledger, nodeChain, mode, guarded, relief, window, spawn, write, projected,
                 outcome, stallCursor, faults>>

\* A joined task that panicked fails the pass on the spot.
HarvestPanic(h) ==
  /\ pc \in {"harvest", "await"}
  /\ tasks[h] = "panicked"
  /\ FailPass("panic")
  /\ UNCHANGED <<tip, ledger, nodeChain, mode, guarded, window, spawn, write, projected, faults>>

HarvestDone ==
  /\ pc = "harvest"
  /\ \A h \in Heights : tasks[h] \in {"none", "running"}
  /\ pc' = "write"
  /\ UNCHANGED <<tip, ledger, nodeChain, mode, guarded, relief, passVars, outcome, stallCursor,
                 faults>>

WriteBlock ==
  /\ pc = "write"
  /\ write \in ready
  /\ CommitBlock(write)
  /\ ready' = ready \ {write}
  /\ write' = write + 1
  /\ projected' = projected + 1
  /\ UNCHANGED <<tip, nodeChain, mode, guarded, relief, pc, window, tasks, fetchError, spawn,
                 outcome, stallCursor, faults>>

\* The write fails: on the database, before the commit or with the commit's
\* answer lost, or on the block's own content.
WriteFails ==
  /\ pc = "write"
  /\ write \in ready
  /\ Fault
  /\ \/ FailPass("dbError") /\ UNCHANGED ledger
     \/ FailPass("dbError") /\ CommitBlock(write)
     \/ FailNodeSide(write) /\ UNCHANGED ledger
  /\ UNCHANGED <<tip, nodeChain, mode, guarded, window, spawn, write, projected>>

\* Mutant: the pass ends when everything is spawned.
MutDoneWhenSpawned == fetchError # NoHeight \/ spawn > window.to

\* Nothing contiguous to write: finish the pass, or wait for a fetch.
WindowDone == JoinSet = {} /\ (fetchError # NoHeight \/ spawn > window.to)

FinishWindow ==
  /\ pc = "write"
  /\ write \notin ready
  /\ WindowDone
  /\ IF fetchError # NoHeight THEN FailNodeSide(fetchError) ELSE CompletePass(projected)
  /\ UNCHANGED <<tip, ledger, nodeChain, mode, guarded, window, spawn, write, projected, faults>>

\* Mutant: an empty JoinSet is polled again instead of being topped up.
MutAwaitForever ==
  /\ pc = "write"
  /\ write \notin ready
  /\ ~WindowDone
  /\ pc' = IF JoinSet = {} THEN "write" ELSE "await"
  /\ UNCHANGED <<tip, ledger, nodeChain, mode, guarded, relief, passVars, outcome, stallCursor,
                 faults>>

AwaitFetch ==
  /\ pc = "write"
  /\ write \notin ready
  /\ ~WindowDone
  /\ pc' = IF JoinSet = {} THEN "topup" ELSE "await"
  /\ UNCHANGED <<tip, ledger, nodeChain, mode, guarded, relief, passVars, outcome, stallCursor,
                 faults>>

------------------------------------------------------------------------------
(* The sequential projection: fetch and write one height after the other. *)

SequentialBlock ==
  /\ pc = "seq"
  /\ write > Boundary
  /\ CommitBlock(write)
  /\ write' = write + 1
  /\ projected' = projected + 1
  /\ IF write < window.to
       THEN UNCHANGED <<pc, tasks, ready, fetchError, relief, stallCursor, outcome>>
       ELSE CompletePass(projected + 1)
  /\ UNCHANGED <<tip, nodeChain, mode, guarded, window, spawn, faults>>

SequentialFails ==
  /\ pc = "seq"
  /\ Fault
  /\ \/ FailPass("dbError") /\ UNCHANGED ledger
     \/ FailPass("dbError") /\ CommitBlock(write)
     \/ FailNodeSide(write) /\ UNCHANGED ledger
  /\ UNCHANGED <<tip, nodeChain, mode, guarded, window, spawn, write, projected>>

------------------------------------------------------------------------------
(* The environment. *)

ChainGrows ==
  /\ tip < MaxHeight
  /\ tip' = tip + 1
  /\ UNCHANGED <<ledger, nodeChain, mode, guarded, relief, pc, passVars, outcome, stallCursor,
                 faults>>

\* The process dies; everything but the database is lost.
Crash ==
  /\ pc # "down"
  /\ Fault
  /\ tasks' = NoTasks
  /\ ready' = {}
  /\ fetchError' = NoHeight
  /\ pc' = "down"
  /\ guarded' = FALSE
  /\ relief' = ReliefDefault
  /\ outcome' = "none"
  /\ UNCHANGED <<tip, ledger, nodeChain, mode, window, spawn, write, projected, stallCursor>>

\* A new process, perhaps with another RPC configuration and another sync mode.
Restart ==
  /\ pc = "down"
  /\ pc' = "idle"
  /\ nodeChain' \in Chains
  /\ mode' \in SyncModes
  /\ UNCHANGED <<tip, ledger, guarded, relief, passVars, outcome, stallCursor, faults>>

\* project_raw_block of a one-shot process: one block, no cursor, no node guard.
ProjectRawBlock(h, c) ==
  /\ ScopeOK
  /\ h > Boundary
  /\ h <= tip
  /\ blocks' = [blocks EXCEPT ![h] = c]
  /\ UNCHANGED <<tip, cursor, nodeChain, mode, guarded, relief, pc, passVars, outcome,
                 stallCursor, faults>>

WorkerStep ==
  \/ StartPass \/ CaughtUp \/ SpawnFetch \/ TopUpDone \/ HarvestDone \/ WriteBlock
  \/ WriteFails \/ FinishWindow \/ AwaitFetch \/ SequentialBlock \/ SequentialFails
  \/ \E h \in Heights : Harvest(h) \/ HarvestPanic(h)

Next ==
  \/ WorkerStep
  \/ ProbeFails
  \/ \E h \in Heights : FetchDone(h)
  \/ ChainGrows
  \/ Crash
  \/ Restart
  \/ \E h \in Heights, c \in OneShotChains : ProjectRawBlock(h, c)

Spec == Init /\ [][Next]_vars

\* The loop polls, every fetch ends (each RPC attempt has a timeout), and the
\* supervisor restarts a dead process.
Fairness ==
  /\ WF_vars(WorkerStep)
  /\ \A h \in Heights : WF_vars(FetchDone(h))
  /\ WF_vars(Restart)

FairSpec == Spec /\ Fairness
------------------------------------------------------------------------------
(* Properties. *)

TypeOK ==
  /\ tip \in 0..MaxHeight
  /\ cursor \in 0..MaxHeight
  /\ blocks \in [Heights -> Chains \cup {NoBlock, Base}]
  /\ nodeChain \in Chains
  /\ mode \in SyncModes
  /\ guarded \in BOOLEAN
  /\ relief \in ReliefState
  /\ pc \in Stages \cup {"idle", "down"}
  /\ window \in [from : 0..MaxHeight, to : 0..MaxHeight, concurrency : Nat]
  /\ tasks \in [Heights -> TaskState]
  /\ ready \subseteq Heights
  /\ fetchError \in 0..MaxHeight
  /\ spawn \in 0..(MaxHeight + 1)
  /\ write \in 0..(MaxHeight + 1)
  /\ projected \in Nat
  /\ outcome \in Outcomes
  /\ stallCursor \in 0..MaxHeight
  /\ faults \in 0..MaxFaults

InPipeline == pc \in {"topup", "harvest", "write", "await"}

\* Heights whose fetch was started and whose block is not yet written.
Pending == write..(spawn - 1)

\* What ties the pipeline's bookkeeping together while project_window_pipelined
\* runs: the writer stands right above the cursor; every pending height is in
\* exactly one place, or lies at or above the lowest failed one; only fetches
\* above a failed height were cancelled.  Nothing of it outlives the pass.
PipelineInv ==
  /\ pc # "idle" => outcome = "none"
  /\ pc \in Stages =>
       /\ ScopeOK
       /\ write = cursor + 1
       /\ window.from + projected = write
  /\ pc = "seq" => write <= window.to
  /\ ~InPipeline => tasks = NoTasks /\ ready = {} /\ fetchError = NoHeight
  /\ InPipeline =>
       /\ write <= spawn
       /\ spawn <= window.to + 1
       /\ JoinSet \cup ready \subseteq Pending
       /\ JoinSet \cap ready = {}
       /\ fetchError # NoHeight => fetchError \in Pending \ (JoinSet \cup ready)
       /\ \A h \in Pending :
            h \in JoinSet \cup ready \/ (fetchError # NoHeight /\ fetchError <= h)
       /\ \A h \in Heights : tasks[h] = "cancelled" => Aborted(h)

\* The recovery streak never counts more blocks than were committed since the
\* last stall, also when a failing database cuts a pass short of counting its own.
StreakEarned ==
  /\ stallCursor <= cursor
  /\ relief.active =>
       relief.committed_streak + (IF pc \in Stages THEN projected ELSE 0)
         + stallCursor <= cursor

\* The worker implements the ledger: whatever the fetch order, the failures and
\* the crashes, the cursor moves one height at a time onto the block stored with
\* it (write_decoded_block), and only --project-block writes anything else.
ImplementsLedger == L!Spec

\* No reader that trusts the cursor meets a hole (project_window_pipelined: "a
\* crash or a mid-window fetch failure leaves a committed, gap-free prefix").
GapFreePrefix == L!GapFreePrefix

\* No path writes the protected base, although the pipelined path never checks a
\* height itself and relies on validate_zero_state_scope of the cursor.
ZeroStateIntact == L!ZeroStateIntact

\* When a pass ends on a node-side failure, the height the escalating backoff is
\* keyed on (register_stall) is exactly the first height not committed, and load
\* shedding is on: neither a later failed fetch nor a committed height is named.
StallNamesNextHeight ==
  outcome \in {"stalled", "nodeError"} =>
    relief.active /\ relief.stalled_height = cursor + 1 /\ relief.stall_count > 0

\* A pass that reports success committed its whole window: no fetched block is
\* forgotten in `ready` and no running fetch is left behind.
CompleteWindow ==
  outcome = "ok" => cursor = window.to

\* Backpressure: running fetches and buffered blocks together never exceed
\* max_read_ahead, however slow the writer is.
ReadAheadBounded ==
  Cardinality(JoinSet) + Cardinality(ready) <= MaxReadAhead

\* Load shedding ends only after RELIEF_RECOVERY_COMMIT_BLOCKS blocks committed
\* since the last stall, when there is nothing left to fetch, or with the process.
ReliefReleaseEarned ==
  [][relief.active /\ ~relief'.active =>
       \/ cursor' >= stallCursor + RELIEF_RECOVERY_COMMIT_BLOCKS
       \/ outcome' = "caughtUp"
       \/ pc' = "down"]_vars

\* The worker never continues one network's stored chain with another network's
\* blocks, whatever RPC a restart configures (guard_node_matches_db).
ChainContinuity ==
  [][cursor' # cursor /\ cursor > Boundary => blocks'[cursor'] = blocks[cursor]]_vars

\* Every block the chain produces is eventually indexed: no lost wakeup, no pass
\* that waits for a fetch nobody runs, no stall without a retry.
EveryBlockIndexed ==
  \A h \in Heights : (tip >= h /\ HeightLimit >= h /\ cursor >= Boundary) ~> (cursor >= h)

==============================================================================
