------------------------------- MODULE Worker -------------------------------
(***************************************************************************)
(* The long-running worker: run_until_shutdown's block loop with its       *)
(* backoffs, the maintenance tasks it spawns, what they share (the near-   *)
(* tip snapshot, the balance kick, the relief state) and the shutdown      *)
(* signal.  The inside of a sync_once pass is BlockSync's; here a pass is  *)
(* one step with the outcomes BlockSync gives it.                          *)
(***************************************************************************)
EXTENDS RpcRelief

CONSTANTS
  Spawns,        \* bound: the sets of maintenance tasks looked at together, of the ten
                 \* that are always spawned
  MaxHeight,     \* bound: the chain does not grow past it
  FetchBatchSize,
  LagThreshold,  \* BALANCE_SYNC_LAG_THRESHOLD
  EndpointLag,   \* how far behind the tip an endpoint's answer may be
  MaxFaults      \* bound: failed passes

RpcFamilies == {"balance", "tokenSupply", "tokenMetadata", "contractMetadata",
                "nftMetadata", "seriesMetadata", "failedTx"}
LocalFamilies == {"stakeProjection", "tokenPrice", "ttrs"}

Families == UNION Spawns

ASSUME WorkerAssumption ==
  /\ Families \subseteq RpcFamilies \cup LocalFamilies
  /\ MaxHeight \in Nat
  /\ FetchBatchSize \in Nat \ {0}
  /\ LagThreshold \in Nat
  /\ EndpointLag \in Nat
  /\ MaxFaults \in Nat

VARIABLES
  tip, cursor,  \* the node's height and chains.current_height
  relief,       \* RpcReliefState
  pc,           \* where the block loop is
  report,       \* what the last pass reported and the loop has not published yet
  failures,     \* consecutive_sync_failures
  wait,         \* the backoff being or last waited out, in seconds
  near,         \* lag <= LagThreshold, as last published
  permit,       \* the permit of balance_kick
  family,       \* where each maintenance task is
  shutdown,     \* the latched watch channel
  owed,         \* history: a near-tip batch was written and since then neither a balance
                \* pass began nor a gate closed
  stalls,       \* history: node-side failures on the next height without progress
  faults        \* bound: faults so far

vars == <<tip, cursor, relief, pc, report, failures, wait, near, permit, family,
          shutdown, owed, stalls, faults>>
loop == <<tip, cursor, relief, report, failures, wait, near, stalls, faults>>

Spawned == DOMAIN family

NoReport == [near |-> FALSE, wrote |-> FALSE]

Init ==
  /\ tip \in 0..MaxHeight
  /\ cursor = 0
  /\ relief = ReliefDefault
  /\ pc = "tick"
  /\ report = NoReport
  /\ failures = 0
  /\ wait = 0
  /\ near = FALSE
  /\ permit = FALSE
  /\ \E F \in Spawns : family = [f \in F |-> "waiting"]
  /\ shutdown = FALSE
  /\ owed = FALSE
  /\ stalls = 0
  /\ faults = 0

Fault == faults < MaxFaults /\ faults' = faults + 1

------------------------------------------------------------------------------
(* The block loop. *)

PollTick ==
  /\ pc = "tick"
  /\ pc' = "sync"
  /\ UNCHANGED <<loop, permit, family, shutdown, owed>>

\* The most blocks a pass can commit towards the answered tip.
Window(rpcTip) ==
  MinOf(IF relief.active THEN 1 ELSE FetchBatchSize, rpcTip - cursor)

Near(rpcTip, at) == rpcTip - at <= LagThreshold

\* Ok(report): the failure streak ends.
PassOk(rpcTip, committed) ==
  /\ cursor' = cursor + committed
  /\ failures' = 0
  /\ report' = [near |-> Near(rpcTip, cursor + committed), wrote |-> committed > 0]
  /\ owed' = (~relief'.active /\ (owed \/ (committed > 0 /\ Near(rpcTip, cursor + committed))))

\* Mutant: reaching the tip leaves load shedding as it is.
MutTipKeepsShedding(rpcTip) ==
  /\ rpcTip <= cursor
  /\ UNCHANGED relief
  /\ PassOk(rpcTip, 0)
  /\ stalls' = 0
  /\ pc' = "publish"
  /\ UNCHANGED <<wait, faults>>

\* Nothing to fetch: load shedding is left.
PassCaughtUp(rpcTip) ==
  /\ rpcTip <= cursor
  /\ relief' = Clear(relief)
  /\ PassOk(rpcTip, 0)
  /\ stalls' = 0
  /\ pc' = "publish"
  /\ UNCHANGED <<wait, faults>>

\* The whole window is committed.
PassCommits(rpcTip) ==
  /\ rpcTip > cursor
  /\ relief' = RegisterProgress(relief, Window(rpcTip))
  /\ PassOk(rpcTip, Window(rpcTip))
  /\ stalls' = 0
  /\ pc' = "publish"
  /\ UNCHANGED <<wait, faults>>

\* A prefix is committed and the next height stalls.
PassStalls(rpcTip, committed) ==
  /\ committed \in 1..(Window(rpcTip) - 1)
  /\ Fault
  /\ relief' = RegisterStall(relief, cursor + committed + 1)
  /\ PassOk(rpcTip, committed)
  /\ stalls' = 1
  /\ wait' = ReliefStallBackoff(relief'.stall_count)
  /\ pc' = "stallWait"

\* Err(error): the loop counts the failure and backs off.
PassErr(databaseFailure) ==
  /\ Fault
  /\ failures' = failures + 1
  /\ wait' = FailedPassBackoff(failures + 1, relief'.stall_count, databaseFailure)
  /\ pc' = "failWait"
  /\ owed' = (owed /\ ~relief'.active)
  /\ UNCHANGED report

\* The first height of the window fails on the node's side.
PassFails(rpcTip) ==
  /\ rpcTip > cursor
  /\ relief' = RegisterStall(relief, cursor + 1)
  /\ PassErr(FALSE)
  /\ stalls' = stalls + 1
  /\ UNCHANGED cursor

\* A fetch task panics, after any prefix: the stall is keyed on the window's start.
PassPanics(rpcTip, committed) ==
  /\ committed \in 1..(Window(rpcTip) - 1)
  /\ relief' = RegisterStall(relief, cursor + 1)
  /\ PassErr(FALSE)
  /\ cursor' = cursor + committed
  /\ stalls' = 0

\* The tip probe or the node guard fails.
ProbeFails ==
  /\ UNCHANGED <<cursor, relief, stalls>>
  /\ PassErr(FALSE)

\* The database fails, after any prefix: nothing is shed.
DatabaseFails(committed) ==
  /\ committed \in 0..MinOf(FetchBatchSize, tip - cursor)
  /\ relief.active => committed <= 1
  /\ UNCHANGED relief
  /\ PassErr(TRUE)
  /\ cursor' = cursor + committed
  /\ stalls' = 0

SyncPass ==
  /\ pc = "sync"
  /\ \/ \E rpcTip \in (tip - EndpointLag)..tip :
          \/ PassCaughtUp(rpcTip)
          \/ PassCommits(rpcTip)
          \/ PassFails(rpcTip)
          \/ \E n \in 1..FetchBatchSize : PassStalls(rpcTip, n) \/ PassPanics(rpcTip, n)
     \/ ProbeFails
     \/ \E n \in 0..FetchBatchSize : DatabaseFails(n)
  /\ UNCHANGED <<tip, near, permit, family, shutdown>>

\* wait_or_shutdown's sleep runs out.
WaitEnds ==
  /\ pc \in {"stallWait", "failWait"}
  /\ pc' = IF pc = "stallWait" THEN "publish" ELSE "tick"
  /\ UNCHANGED <<loop, permit, family, shutdown, owed>>

\* Mutant: the balance task is kicked before the lag is published.
MutKickFirst ==
  \/ /\ pc = "publish"
     /\ permit' = (permit \/ (report.near /\ report.wrote))
     /\ pc' = "kick"
     /\ UNCHANGED <<near, owed>>
  \/ /\ pc = "kick"
     /\ near' = report.near
     /\ owed' = (owed /\ report.near)
     /\ pc' = "tick"
     /\ UNCHANGED permit

\* lag.store, then notify_one after a near-tip batch that wrote blocks.
Publish ==
  \/ /\ pc = "publish"
     /\ near' = report.near
     /\ owed' = (owed /\ report.near)
     /\ pc' = IF report.near /\ report.wrote THEN "kick" ELSE "tick"
     /\ UNCHANGED permit
  \/ /\ pc = "kick"
     /\ permit' = TRUE
     /\ pc' = "tick"
     /\ UNCHANGED <<near, owed>>

PublishLag ==
  /\ Publish
  /\ UNCHANGED <<tip, cursor, relief, report, failures, wait, family, shutdown,
                 stalls, faults>>

\* Where the loop selects on the shutdown channel.
LoopSelects == {"tick", "sync", "stallWait", "failWait"}

LoopStops ==
  /\ shutdown
  /\ pc \in LoopSelects
  /\ pc' = "joining"
  /\ UNCHANGED <<loop, permit, family, shutdown, owed>>

\* maintenance.join_next until the JoinSet is empty.
Joined ==
  /\ pc = "joining"
  /\ \A f \in Spawned : family[f] = "done"
  /\ pc' = "exited"
  /\ UNCHANGED <<loop, permit, family, shutdown, owed>>

------------------------------------------------------------------------------
(* The maintenance tasks. *)

\* A task starts its pass; a balance pass reads every mark set so far.
Begins(f) ==
  /\ family' = [family EXCEPT ![f] = "pass"]
  /\ owed' = IF f = "balance" THEN FALSE ELSE owed

\* The first gate: the published lag.  A closed gate sends the task back to wait.
GateLag(f) ==
  IF near /\ f \in RpcFamilies
    THEN family' = [family EXCEPT ![f] = "gate"] /\ UNCHANGED owed
    ELSE IF near THEN Begins(f) ELSE UNCHANGED <<family, owed>>

\* A timer tick of a task.
Ticks(f) ==
  /\ f \in Spawned
  /\ family[f] = "waiting"
  /\ GateLag(f)
  /\ UNCHANGED <<loop, pc, permit, shutdown>>

\* The second gate: rpc_maintenance_paused.
GateRelief(f) ==
  /\ f \in Spawned
  /\ family[f] = "gate"
  /\ IF relief.active
       THEN family' = [family EXCEPT ![f] = "waiting"] /\ UNCHANGED owed
       ELSE Begins(f)
  /\ UNCHANGED <<loop, pc, permit, shutdown>>

\* kick.notified() takes the permit, whatever the gates then say.
KickBalance ==
  /\ "balance" \in Spawned
  /\ family["balance"] = "waiting"
  /\ permit
  /\ permit' = FALSE
  /\ GateLag("balance")
  /\ UNCHANGED <<loop, pc, shutdown>>

RunBalanceMaintenance == KickBalance \/ Ticks("balance")
RunStakeProjectionMaintenance == Ticks("stakeProjection")
RunTokenSupplyMaintenance == Ticks("tokenSupply")
RunTokenMetadataMaintenance == Ticks("tokenMetadata")
RunTokenPriceMaintenance == Ticks("tokenPrice")
RunTtrsMaintenance == Ticks("ttrs")
RunContractMetadataMaintenance == Ticks("contractMetadata")
RunNftMetadataMaintenance == Ticks("nftMetadata")
RunSeriesMetadataMaintenance == Ticks("seriesMetadata")
RunFailedTxMaintenance == Ticks("failedTx")

\* A pass ends by itself; the contract task runs a second one without looking at
\* its gates again.
PassEnds(f) ==
  /\ f \in Spawned
  /\ family[f] \in {"pass", "secondPass"}
  /\ family' = [family EXCEPT ![f] =
                  IF f = "contractMetadata" /\ family[f] = "pass" THEN "secondPass" ELSE "waiting"]
  /\ UNCHANGED <<loop, pc, permit, shutdown, owed>>

\* Mutant: a pass is not raced against the shutdown.
MutDeafPass == {"waiting"}

\* Where a task selects on the shutdown channel.
FamilySelects == {"waiting", "pass", "secondPass"}

FamilyStops(f) ==
  /\ f \in Spawned
  /\ shutdown
  /\ family[f] \in FamilySelects
  /\ family' = [family EXCEPT ![f] = "done"]
  /\ UNCHANGED <<loop, pc, permit, shutdown, owed>>

Maintenance ==
  \/ RunBalanceMaintenance \/ RunStakeProjectionMaintenance \/ RunTokenSupplyMaintenance
  \/ RunTokenMetadataMaintenance \/ RunTokenPriceMaintenance \/ RunTtrsMaintenance
  \/ RunContractMetadataMaintenance \/ RunNftMetadataMaintenance
  \/ RunSeriesMetadataMaintenance \/ RunFailedTxMaintenance
  \/ \E f \in Families : GateRelief(f) \/ PassEnds(f) \/ FamilyStops(f)

------------------------------------------------------------------------------
ChainGrows ==
  /\ tip < MaxHeight
  /\ tip' = tip + 1
  /\ UNCHANGED <<cursor, relief, pc, report, failures, wait, near, permit, family,
                 shutdown, owed, stalls, faults>>

\* SIGINT or SIGTERM.
Signal ==
  /\ ~shutdown
  /\ shutdown' = TRUE
  /\ UNCHANGED <<loop, pc, permit, family, owed>>

Next ==
  \/ PollTick \/ SyncPass \/ WaitEnds \/ PublishLag \/ LoopStops \/ Joined
  \/ Maintenance
  \/ ChainGrows
  \/ Signal

Spec == Init /\ [][Next]_vars

\* Only what reacts to a signal at once is fair: no pass, no sync and no timer
\* has to end by itself.  select! polls its arms in random order, so an arm that
\* is ready at select after select is taken in the end.
StopSpec ==
  /\ Spec
  /\ WF_vars(PublishLag) /\ SF_vars(LoopStops) /\ WF_vars(Joined)
  /\ \A f \in Families : WF_vars(GateRelief(f)) /\ SF_vars(FamilyStops(f))

\* Timers fire, and passes and syncs end (every RPC attempt and query does).
LiveSpec ==
  /\ Spec
  /\ WF_vars(PollTick) /\ WF_vars(SyncPass) /\ WF_vars(WaitEnds) /\ WF_vars(PublishLag)
  /\ \A f \in Families :
       WF_vars(Ticks(f)) /\ WF_vars(GateRelief(f)) /\ WF_vars(PassEnds(f))
------------------------------------------------------------------------------
(* Properties. *)

\* A height that failed k times in a row on the node's side is asked for again
\* only after the wait k stalls earn (30 s doubling to 5 min), whichever mix of
\* errors and stalled passes the failures were reported as.
BackoffEarned ==
  [][pc = "tick" /\ pc' = "sync" => wait >= ReliefStallBackoff(stalls) \/ stalls = 0]_vars

\* The worker exits once a signal arrived, even if no running sync, no pass and no
\* backoff ever ends by itself (wait_or_shutdown, pass_or_shutdown).
ShutdownCompletes == shutdown ~> (pc = "exited")

\* After a near-tip batch the kick alone starts a balance pass, unless a gate
\* closes first: no wakeup is lost to a pass in progress or to the order in which
\* the lag and the kick are published.  Only the wakeup and the end of a balance
\* pass are fair, not the task's fallback tick.
KickNotLost ==
  WF_vars(KickBalance) /\ WF_vars(PassEnds("balance")) =>
    ((owed /\ "balance" \in Spawned) ~> (~owed \/ shutdown))

\* Load shedding is never latched: once failures stop, every task runs again and
\* again (RpcReliefState::clear, "latched on indefinitely").
MaintenanceResumes ==
  \A f \in Families : []<>(f \in Spawned => family[f] = "pass" \/ shutdown)

==============================================================================
