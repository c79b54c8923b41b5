--------------------------- MODULE BlockSyncProofs ---------------------------
(***************************************************************************)
(* Proofs about BlockSync for every chain length, window, fan-out, queue   *)
(* capacity, endpoint lag and number of faults.                            *)
(***************************************************************************)
EXTENDS BlockSync, FiniteSetTheorems, TLAPS

\* The conjunction that is inductive.
IInv == TypeOK /\ PipelineInv /\ StreakEarned /\ GapFreePrefix /\ ZeroStateIntact
          /\ StallNamesNextHeight /\ CompleteWindow

USE BlockSyncAssumption

------------------------------------------------------------------------------
\* The relief operations of RpcRelief keep the state a ReliefState.
LEMMA ReliefTypes ==
  ASSUME NEW r \in ReliefState, NEW n \in Nat
  PROVE  /\ RegisterStall(r, n) \in ReliefState
         /\ RegisterProgress(r, n) \in ReliefState
         /\ Clear(r) \in ReliefState
<1>1. RegisterStall(r, n) \in ReliefState
  BY DEF ReliefState, RegisterStall
<1>2. Clear(r) \in ReliefState
  BY Zenon DEF ReliefState, Clear
<1>3. [r EXCEPT !.stall_count = 0] \in ReliefState
  BY DEF ReliefState
<1>4. ASSUME NEW m \in Nat
      PROVE  [r EXCEPT !.stall_count = 0, !.committed_streak = m] \in ReliefState
  BY Zenon DEF ReliefState
<1>n. r.committed_streak + n \in Nat
  BY DEF ReliefState
<1>5. RegisterProgress(r, n) \in ReliefState
  BY Zenon, <1>2, <1>3, <1>4, <1>n DEF RegisterProgress, Clear
<1> QED
  BY <1>1, <1>2, <1>5

\* A window planned below the target tip is not empty, starts above the cursor
\* and stays within the chain (plan_fetch_window's clamp).
LEMMA WindowTypes ==
  ASSUME NEW c \in 0..MaxHeight, NEW t \in Int, t <= MaxHeight, c + 1 <= TargetTip(t),
         NEW s \in BOOLEAN
  PROVE  LET w == PlanFetchWindow(c, t, s)
         IN  /\ w \in [from : 0..MaxHeight, to : 0..MaxHeight, concurrency : Nat]
             /\ w.from = c + 1
             /\ w.from <= w.to
  BY DEF PlanFetchWindow, TargetTip, MinOf, MaxOf, EffectiveBatchSize, EffectiveConcurrency

LEMMA IInvInit == Init => IInv
<1> SUFFICES ASSUME Init PROVE IInv
  OBVIOUS
<1>a. cursor \in 0..MaxHeight /\ blocks \in [Heights -> Chains \cup {NoBlock, Base}]
  BY DEF Init, L!Init, L!StoredPrefix, L!Heights, Heights
<1>b. relief \in ReliefState /\ tasks \in [Heights -> TaskState]
  BY DEF Init, ReliefDefault, ReliefState, NoTasks, TaskState
<1>c. window \in [from : 0..MaxHeight, to : 0..MaxHeight, concurrency : Nat]
  BY DEF Init
<1>d. guarded \in BOOLEAN
  BY Zenon DEF Init
<1>e. tip \in 0..MaxHeight /\ stallCursor \in 0..MaxHeight
  BY <1>a DEF Init
<1>1. TypeOK
  BY <1>a, <1>b, <1>c, <1>d, <1>e DEF Init, TypeOK, Stages, NoHeight, Outcomes
<1>2. PipelineInv
  BY DEF Init, PipelineInv, InPipeline, Stages
<1>3. StreakEarned
  BY <1>1 DEF Init, StreakEarned, ReliefDefault, TypeOK
<1>4. GapFreePrefix /\ ZeroStateIntact
  BY <1>1 DEF Init, GapFreePrefix, ZeroStateIntact, L!GapFreePrefix, L!ZeroStateIntact, L!Init,
              L!StoredPrefix, L!Heights
<1>5. StallNamesNextHeight /\ CompleteWindow
  BY DEF Init, StallNamesNextHeight, CompleteWindow
<1> QED
  BY <1>1, <1>2, <1>3, <1>4, <1>5 DEF IInv

------------------------------------------------------------------------------
(* What the pieces shared by several actions do to the invariant. *)

\* A step that leaves the ledger alone keeps the ledger's invariants.
LEMMA LedgerFrame ==
  ASSUME GapFreePrefix, ZeroStateIntact, UNCHANGED ledger
  PROVE  GapFreePrefix' /\ ZeroStateIntact'
  BY DEF ledger, GapFreePrefix, ZeroStateIntact, L!GapFreePrefix, L!ZeroStateIntact, L!Heights

\* Committing the height right above the cursor moves the cursor onto it, fills
\* no height of the base and leaves no hole.
LEMMA CommitNext ==
  ASSUME TypeOK, GapFreePrefix, ZeroStateIntact, ScopeOK, cursor + 1 <= MaxHeight,
         CommitBlock(cursor + 1)
  PROVE  /\ cursor' = cursor + 1
         /\ cursor' \in 0..MaxHeight
         /\ blocks' \in [Heights -> Chains \cup {NoBlock, Base}]
         /\ blocks' = [blocks EXCEPT ![cursor + 1] = nodeChain]
         /\ GapFreePrefix' /\ ZeroStateIntact'
<1>1. cursor' = cursor + 1 /\ cursor' \in 0..MaxHeight
  BY DEF TypeOK, CommitBlock, MaxOf
<1>2. blocks' = [blocks EXCEPT ![cursor + 1] = nodeChain]
  BY DEF CommitBlock
<1>3. blocks' \in [Heights -> Chains \cup {NoBlock, Base}]
  BY Zenon, <1>2 DEF TypeOK
<1>4. GapFreePrefix'
  <2> SUFFICES ASSUME NEW h \in Heights, Boundary < h, h <= cursor'
               PROVE  blocks'[h] # NoBlock
    BY DEF GapFreePrefix, L!GapFreePrefix, L!Heights, Heights
  <2>1. CASE h = cursor + 1
    BY <1>2, <2>1 DEF TypeOK
  <2>2. CASE h # cursor + 1
    BY <1>1, <1>2, <2>2 DEF TypeOK, GapFreePrefix, L!GapFreePrefix, L!Heights, Heights
  <2> QED
    BY <2>1, <2>2
<1>5. ZeroStateIntact'
  BY <1>2 DEF TypeOK, ScopeOK, ZeroStateIntact, L!ZeroStateIntact, L!Heights, Heights
<1> QED
  BY <1>1, <1>2, <1>3, <1>4, <1>5

\* Ending a pass drops its pipeline and keeps the types.
LEMMA PassDropped ==
  ASSUME DropPipeline
  PROVE  /\ pc' = "idle" /\ pc' \in Stages \cup {"idle", "down"}
         /\ tasks' = NoTasks /\ tasks' \in [Heights -> TaskState]
         /\ ready' = {} /\ fetchError' = NoHeight
  BY DEF DropPipeline, NoTasks, TaskState

\* A node-side failure on the height above the cursor sheds load on that height.
LEMMA NodeSideFailure ==
  ASSUME TypeOK, PipelineInv, pc \in Stages, FailNodeSide(cursor + 1)
  PROVE  /\ DropPipeline
         /\ outcome' \in {"stalled", "nodeError"}
         /\ relief' = RegisterStall(relief, cursor + 1)
         /\ relief' \in ReliefState
         /\ stallCursor' = cursor
<1>0. RegisterStall(relief, cursor + 1) \in ReliefState
  <2>1. relief \in ReliefState /\ cursor + 1 \in Nat
    BY DEF TypeOK
  <2> QED
    BY <2>1, ReliefTypes
<1>1. CASE projected > 0
  BY <1>0, <1>1 DEF FailNodeSide, StallPass, NoteFetchStall
<1>2. CASE ~(projected > 0)
  <2>1. window.from = cursor + 1
    BY <1>2 DEF TypeOK, PipelineInv
  <2> QED
    BY <1>0, <1>2, <2>1 DEF FailNodeSide, FailPass, NoteFetchStall
<1> QED
  BY <1>1, <1>2

\* After a node-side failure on the height above the cursor the invariant holds.
LEMMA NodeSideFailureKeeps ==
  ASSUME IInv, pc \in Stages, FailNodeSide(cursor + 1),
         UNCHANGED <<tip, ledger, nodeChain, mode, guarded, window, spawn, write, projected>>,
         faults' \in 0..MaxFaults
  PROVE  IInv'
<1>0. TypeOK /\ PipelineInv /\ GapFreePrefix /\ ZeroStateIntact
  BY DEF IInv
<1>1. /\ DropPipeline
      /\ outcome' \in {"stalled", "nodeError"}
      /\ relief' = RegisterStall(relief, cursor + 1)
      /\ relief' \in ReliefState
      /\ stallCursor' = cursor
  BY <1>0, NodeSideFailure
<1>2. /\ pc' = "idle" /\ pc' \in Stages \cup {"idle", "down"}
      /\ tasks' = NoTasks /\ tasks' \in [Heights -> TaskState]
      /\ ready' = {} /\ fetchError' = NoHeight
  BY <1>1, PassDropped
<1>3. TypeOK'
  BY <1>0, <1>1, <1>2 DEF TypeOK, ledger, Outcomes, NoHeight
<1>4. PipelineInv'
  BY <1>2 DEF PipelineInv, InPipeline, Stages
<1>5. StreakEarned'
  BY <1>0, <1>1, <1>2 DEF StreakEarned, TypeOK, ledger, RegisterStall, Stages
<1>6. GapFreePrefix' /\ ZeroStateIntact'
  BY <1>0, LedgerFrame
<1>7. StallNamesNextHeight' /\ CompleteWindow'
  <2>1. relief.stall_count \in Nat
    BY <1>0 DEF TypeOK, ReliefState
  <2> QED
    BY <1>0, <1>1, <2>1 DEF StallNamesNextHeight, CompleteWindow, RegisterStall, ledger, TypeOK
<1> QED
  BY <1>3, <1>4, <1>5, <1>6, <1>7 DEF IInv

\* A failed write or a panicked fetch that is not charged to the height above the
\* cursor: the pass is dropped, the streak restarts or is left alone.
LEMMA FailPassKeeps ==
  ASSUME IInv, pc \in Stages, NEW result \in {"dbError", "panic"}, FailPass(result),
         UNCHANGED <<tip, nodeChain, mode, guarded, window, spawn, write, projected>>,
         faults' \in 0..MaxFaults,
         \/ UNCHANGED ledger
         \/ result = "dbError" /\ write <= window.to /\ CommitBlock(write)
  PROVE  IInv'
<1>0. TypeOK /\ PipelineInv /\ GapFreePrefix /\ ZeroStateIntact /\ StreakEarned
  BY DEF IInv
<1>1. /\ pc' = "idle" /\ pc' \in Stages \cup {"idle", "down"}
      /\ tasks' = NoTasks /\ tasks' \in [Heights -> TaskState]
      /\ ready' = {} /\ fetchError' = NoHeight
      /\ outcome' = result
  BY PassDropped DEF FailPass
<1>2. /\ cursor' \in {cursor, cursor + 1} /\ cursor' \in 0..MaxHeight
      /\ blocks' \in [Heights -> Chains \cup {NoBlock, Base}]
      /\ GapFreePrefix' /\ ZeroStateIntact'
  <2>1. CASE UNCHANGED ledger
    <3>1. cursor' = cursor /\ blocks' = blocks
      BY <2>1 DEF ledger
    <3> QED
      BY <1>0, <2>1, <3>1, LedgerFrame DEF TypeOK
  <2>2. CASE write <= window.to /\ CommitBlock(write)
    <3>1. write = cursor + 1 /\ ScopeOK /\ cursor + 1 <= MaxHeight
      BY <1>0, <2>2 DEF PipelineInv, TypeOK
    <3> QED
      BY <1>0, <2>2, <3>1, CommitNext
  <2> QED
    BY <2>1, <2>2
<1>3. CASE result = "dbError"
  <2>1. relief' = relief /\ stallCursor' = stallCursor
    BY <1>3 DEF FailPass
  <2>2. TypeOK'
    BY <1>0, <1>1, <1>2, <1>3, <2>1 DEF TypeOK, Outcomes, NoHeight
  <2>3. StreakEarned'
    <3>1. relief.committed_streak \in Nat /\ projected \in Nat /\ cursor \in Nat /\ stallCursor \in Nat
      BY <1>0 DEF TypeOK, ReliefState
    <3> QED
      BY <1>0, <1>1, <1>2, <2>1, <3>1 DEF StreakEarned, Stages
  <2> QED
    BY <1>1, <1>2, <1>3, <2>2, <2>3
       DEF IInv, PipelineInv, InPipeline, Stages, StallNamesNextHeight, CompleteWindow
<1>4. CASE result = "panic"
  <2>1. relief' = RegisterStall(relief, window.from) /\ stallCursor' = cursor
    BY <1>4 DEF FailPass, NoteFetchStall
  <2>2. relief' \in ReliefState
    <3>1. relief \in ReliefState /\ window.from \in Nat
      BY <1>0 DEF TypeOK
    <3> QED
      BY <2>1, <3>1, ReliefTypes
  <2>3. TypeOK'
    BY <1>0, <1>1, <1>2, <1>4, <2>1, <2>2 DEF TypeOK, Outcomes, NoHeight
  <2>4. StreakEarned'
    <3>1. relief'.committed_streak = 0
      BY <2>1 DEF RegisterStall
    <3>2. stallCursor' = cursor /\ cursor' = cursor /\ cursor \in Nat
      BY <1>0, <1>4, <2>1 DEF TypeOK, ledger
    <3> QED
      BY SMTT(30), <1>1, <3>1, <3>2 DEF StreakEarned, Stages
  <2> QED
    BY <1>1, <1>2, <1>4, <2>3, <2>4
       DEF IInv, PipelineInv, InPipeline, Stages, StallNamesNextHeight, CompleteWindow
<1> QED
  BY <1>3, <1>4

------------------------------------------------------------------------------
(* One lemma per stage of a pass: its steps preserve the invariant. *)

\* Planning a pass: StartPass, CaughtUp, ProbeFails.
LEMMA PlanningKeeps ==
  ASSUME IInv, StartPass \/ CaughtUp \/ ProbeFails
  PROVE  IInv'
<1>0. TypeOK /\ PipelineInv /\ GapFreePrefix /\ ZeroStateIntact /\ StreakEarned
  BY DEF IInv
<1>t. /\ relief.committed_streak \in Nat /\ relief.active \in BOOLEAN
      /\ cursor \in 0..MaxHeight /\ stallCursor \in 0..MaxHeight
  BY <1>0 DEF TypeOK, ReliefState
<1>1. CASE StartPass
  <2>1. PICK rpcTip \in (tip - EndpointLag)..tip :
          /\ cursor + 1 <= TargetTip(rpcTip)
          /\ window' = PlanFetchWindow(cursor, rpcTip, relief.active)
    BY <1>1 DEF StartPass
  <2>2. /\ window' \in [from : 0..MaxHeight, to : 0..MaxHeight, concurrency : Nat]
        /\ window'.from = cursor + 1
        /\ window'.from <= window'.to
    <3>1. rpcTip \in Int /\ rpcTip <= MaxHeight
      BY <1>0 DEF TypeOK
    <3> QED
      BY <1>t, <2>1, <3>1, WindowTypes
  <2>3. /\ pc' \in {"topup", "seq"} /\ pc = "idle"
        /\ spawn' = cursor + 1 /\ write' = cursor + 1 /\ projected' = 0
        /\ outcome' = "none" /\ tasks' = tasks /\ ready' = ready /\ fetchError' = fetchError
        /\ cursor' = cursor /\ blocks' = blocks
        /\ relief' = relief /\ stallCursor' = stallCursor /\ ScopeOK
    BY <1>1 DEF StartPass, ledger
  <2>4. tasks = NoTasks /\ ready = {} /\ fetchError = NoHeight
    BY <1>0, <2>3 DEF PipelineInv, InPipeline
  <2>5. guarded' \in BOOLEAN
    BY <1>1 DEF StartPass
  <2>6. TypeOK'
    BY <1>0, <1>1, <2>2, <2>3, <2>5 DEF TypeOK, StartPass, Stages, Outcomes
  <2>7. PipelineInv'
    <3>1. write' = cursor' + 1 /\ window'.from + projected' = write' /\ ScopeOK'
      BY <1>t, <2>2, <2>3 DEF ScopeOK
    <3>2. write' <= spawn' /\ spawn' <= window'.to + 1 /\ write' <= window'.to
      BY <1>t, <2>2, <2>3
    <3>3. JoinSet' = {} /\ Pending' = {} /\ \A h \in Heights : tasks'[h] # "cancelled"
      BY <1>t, <2>3, <2>4 DEF JoinSet, NoTasks, Pending
    <3> QED
      BY <2>3, <2>4, <3>1, <3>2, <3>3 DEF PipelineInv, InPipeline, NoHeight, Stages
  <2>8. StreakEarned'
    BY <1>0, <1>t, <2>3 DEF StreakEarned, Stages
  <2>9. GapFreePrefix' /\ ZeroStateIntact'
    BY <1>0, <2>3, LedgerFrame DEF ledger
  <2> QED
    BY <2>3, <2>6, <2>7, <2>8, <2>9 DEF IInv, StallNamesNextHeight, CompleteWindow
<1>2. CASE CaughtUp
  <2>1. Clear(relief) \in ReliefState /\ ~Clear(relief).active
    BY Zenon, <1>0, ReliefTypes DEF TypeOK, Clear, ReliefState
  <2>2. guarded' \in BOOLEAN
    BY <1>2 DEF CaughtUp
  <2>3. TypeOK'
    BY <1>0, <1>2, <2>1, <2>2 DEF TypeOK, CaughtUp, ledger, passVars, Outcomes
  <2>4. PipelineInv'
    BY <1>0, <1>2 DEF PipelineInv, CaughtUp, ledger, passVars, InPipeline, Stages
  <2>5. StreakEarned'
    BY <1>0, <1>2, <2>1 DEF StreakEarned, CaughtUp, ledger
  <2>6. GapFreePrefix' /\ ZeroStateIntact'
    BY <1>0, <1>2, LedgerFrame DEF CaughtUp
  <2> QED
    BY SMTT(30), <1>2, <2>3, <2>4, <2>5, <2>6 DEF IInv, StallNamesNextHeight, CompleteWindow, CaughtUp
<1>3. CASE ProbeFails
  <2>1. faults' \in 0..MaxFaults
    BY <1>0, <1>3 DEF ProbeFails, Fault, TypeOK
  <2>2. TypeOK'
    BY <1>0, <1>3, <2>1 DEF TypeOK, ProbeFails, ledger, passVars, Outcomes
  <2>3. PipelineInv'
    BY <1>0, <1>3 DEF PipelineInv, ProbeFails, ledger, passVars, InPipeline, Stages
  <2>4. StreakEarned'
    BY <1>0, <1>3 DEF StreakEarned, ProbeFails, ledger, Stages
  <2>5. GapFreePrefix' /\ ZeroStateIntact'
    BY <1>0, <1>3, LedgerFrame DEF ProbeFails
  <2> QED
    BY <1>3, <2>2, <2>3, <2>4, <2>5 DEF IInv, StallNamesNextHeight, CompleteWindow, ProbeFails
<1> QED
  BY <1>1, <1>2, <1>3

\* The part of the invariant that a step of the pipeline keeps when it leaves the
\* ledger, the relief state and the window's progress alone.
LEMMA PipelineFrame ==
  ASSUME IInv, TypeOK', PipelineInv', pc \in Stages, pc' \in Stages,
         UNCHANGED <<ledger, relief, stallCursor, projected, outcome>>
  PROVE  IInv'
<1>1. StreakEarned'
  BY DEF IInv, StreakEarned, ledger
<1>2. GapFreePrefix' /\ ZeroStateIntact'
  BY LedgerFrame DEF IInv
<1>3. outcome' = "none"
  <2>1. pc # "idle"
    BY DEF Stages
  <2> QED
    BY <2>1 DEF IInv, PipelineInv
<1> QED
  BY <1>1, <1>2, <1>3 DEF IInv, StallNamesNextHeight, CompleteWindow

\* SpawnFetch, TopUpDone, HarvestDone, AwaitFetch.
LEMMA FetchControlKeeps ==
  ASSUME IInv, SpawnFetch \/ TopUpDone \/ HarvestDone \/ AwaitFetch
  PROVE  IInv'
<1>0. TypeOK /\ PipelineInv
  BY DEF IInv
<1>1. CASE SpawnFetch
  <2>1. /\ pc = "topup" /\ pc' = "topup" /\ spawn <= window.to /\ fetchError = NoHeight
        /\ tasks' = [tasks EXCEPT ![spawn] = "running"] /\ spawn' = spawn + 1
        /\ ready' = ready /\ fetchError' = fetchError /\ write' = write /\ window' = window
        /\ cursor' = cursor /\ projected' = projected /\ outcome' = outcome
    BY <1>1 DEF SpawnFetch, CanSpawn, ledger
  <2>2. /\ cursor \in 0..MaxHeight /\ write \in 0..(MaxHeight + 1) /\ spawn \in Heights
        /\ write = cursor + 1 /\ write <= spawn /\ window.to \in 0..MaxHeight
        /\ JoinSet \cup ready \subseteq Pending /\ JoinSet \cap ready = {}
        /\ \A h \in Pending : h \in JoinSet \cup ready
    BY <1>0, <2>1 DEF TypeOK, PipelineInv, InPipeline, Heights, Stages
  <2>3. JoinSet' = JoinSet \cup {spawn} /\ Pending' = Pending \cup {spawn} /\ spawn \notin Pending
    <3>1. JoinSet' = JoinSet \cup {spawn}
      BY <1>0, <2>1, <2>2 DEF JoinSet, TypeOK, TaskState
    <3>2. Pending' = Pending \cup {spawn} /\ spawn \notin Pending
      BY <2>1, <2>2 DEF Pending, Heights
    <3> QED
      BY <3>1, <3>2
  <2>4. TypeOK'
    <3>1. tasks' \in [Heights -> TaskState]
      BY <1>0, <2>1, <2>2 DEF TypeOK, TaskState
    <3>2. spawn' \in 0..(MaxHeight + 1)
      BY <2>1, <2>2 DEF Heights
    <3> QED
      BY <1>0, <1>1, <2>1, <3>1, <3>2 DEF TypeOK, SpawnFetch, ledger
  <2>5. \A h \in Heights : tasks'[h] # "cancelled"
    BY <1>0, <2>1, <2>2 DEF TypeOK, PipelineInv, InPipeline, Aborted
  <2>6. PipelineInv'
    <3>1. write' <= spawn' /\ spawn' <= window'.to + 1
      BY <2>1, <2>2 DEF Heights
    <3>2. /\ JoinSet' \cup ready' \subseteq Pending' /\ JoinSet' \cap ready' = {}
          /\ \A h \in Pending' : h \in JoinSet' \cup ready'
      BY <2>1, <2>2, <2>3
    <3> QED
      BY <1>0, <2>1, <2>5, <3>1, <3>2 DEF PipelineInv, InPipeline, Stages, ScopeOK
  <2> QED
    BY <1>1, <2>1, <2>4, <2>6, PipelineFrame DEF SpawnFetch, Stages
<1>2. CASE TopUpDone \/ HarvestDone \/ AwaitFetch
  <2>1. /\ pc \in {"topup", "harvest", "write"} /\ pc' \in {"topup", "harvest", "write", "await"}
        /\ UNCHANGED <<tip, ledger, nodeChain, mode, guarded, relief, passVars, outcome,
                       stallCursor, faults>>
    BY <1>2 DEF TopUpDone, HarvestDone, AwaitFetch
  <2>2. TypeOK'
    BY <1>0, <2>1 DEF TypeOK, ledger, passVars, Stages
  <2>3. PipelineInv'
    <3>1. JoinSet' = JoinSet /\ Pending' = Pending
      BY <2>1 DEF JoinSet, Pending, passVars
    <3>2. \A h \in Heights : Aborted(h)' <=> Aborted(h)
      BY <2>1 DEF Aborted, passVars
    <3> QED
      BY <1>0, <2>1, <3>1, <3>2 DEF PipelineInv, InPipeline, Stages, ScopeOK, ledger, passVars
  <2> QED
    BY <2>1, <2>2, <2>3, PipelineFrame DEF Stages, passVars
<1> QED
  BY <1>1, <1>2

\* FetchDone of any height: a task ends between passes' steps, never outside one.
LEMMA FetchDoneKeeps ==
  ASSUME IInv, NEW g \in Heights, FetchDone(g)
  PROVE  IInv'
<1>0. TypeOK /\ PipelineInv
  BY DEF IInv
<1>1. InPipeline
  <2>1. tasks # NoTasks
    BY DEF FetchDone, NoTasks
  <2> QED
    BY <1>0, <2>1 DEF PipelineInv
<1>2. PICK t \in {"ok", "failed", "panicked", "cancelled"} :
        tasks' = [tasks EXCEPT ![g] = t] /\ (t = "cancelled" => Aborted(g))
  BY DEF FetchDone
<1>3. faults' \in 0..MaxFaults
  BY <1>0 DEF FetchDone, Fault, TypeOK
<1>4. TypeOK'
  <2>1. tasks' \in [Heights -> TaskState]
    BY <1>0, <1>2 DEF TypeOK, TaskState
  <2> QED
    BY <1>0, <1>3, <2>1 DEF TypeOK, FetchDone, ledger
<1>5. PipelineInv'
  <2>1. JoinSet' = JoinSet
    BY <1>0, <1>2 DEF JoinSet, TypeOK, TaskState, FetchDone
  <2>2. Pending' = Pending
    BY DEF Pending, FetchDone
  <2>3. \A h \in Heights : tasks'[h] = "cancelled" => Aborted(h)'
    BY <1>0, <1>1, <1>2 DEF TypeOK, PipelineInv, Aborted, FetchDone
  <2> QED
    BY <1>0, <1>1, <2>1, <2>2, <2>3
       DEF PipelineInv, InPipeline, Stages, ScopeOK, FetchDone, ledger
<1> QED
  BY <1>1, <1>4, <1>5, PipelineFrame DEF FetchDone, InPipeline, Stages

\* Harvest: record_fetched keeps every pending height accounted for, and the
\* remembered failure is the lowest one.
LEMMA HarvestKeeps ==
  ASSUME IInv, NEW g \in Heights, Harvest(g)
  PROVE  IInv'
<1>0. TypeOK /\ PipelineInv
  BY DEF IInv
<1>1. /\ InPipeline /\ pc \in Stages /\ pc' \in {"harvest", "topup"}
      /\ tasks[g] \in {"ok", "failed", "cancelled"}
      /\ tasks' = [tasks EXCEPT ![g] = "none"]
      /\ ready' = IF tasks[g] = "ok" THEN ready \cup {g} ELSE ready
      /\ fetchError' = IF tasks[g] = "failed" /\ (fetchError = NoHeight \/ g < fetchError)
                         THEN g ELSE fetchError
      /\ UNCHANGED <<tip, ledger, nodeChain, mode, guarded, relief, window, spawn, write,
                     projected, outcome, stallCursor, faults>>
  BY DEF Harvest, RecordFetched, InPipeline, Stages
<1>2. /\ JoinSet \cup ready \subseteq Pending /\ JoinSet \cap ready = {}
      /\ fetchError # NoHeight => fetchError \in Pending \ (JoinSet \cup ready)
      /\ \A h \in Pending :
           h \in JoinSet \cup ready \/ (fetchError # NoHeight /\ fetchError <= h)
      /\ \A h \in Heights : tasks[h] = "cancelled" => Aborted(h)
  BY <1>0, <1>1 DEF PipelineInv
<1>3. JoinSet' = JoinSet \ {g} /\ g \in JoinSet /\ Pending' = Pending
  BY <1>0, <1>1 DEF TypeOK, JoinSet, Pending
<1>4. g \in Pending /\ g \notin ready /\ g # NoHeight /\ g \in Int /\ fetchError \in Int
  BY <1>0, <1>2, <1>3 DEF Heights, NoHeight, TypeOK
<1>5. \A h \in Pending : h \in Int
  BY <1>0 DEF TypeOK, Pending
<1>6. TypeOK'
  <2>1. tasks' \in [Heights -> TaskState] /\ ready' \subseteq Heights /\ fetchError' \in 0..MaxHeight
    BY SMTT(30), <1>0, <1>1 DEF TypeOK, TaskState, Heights
  <2> QED
    BY <1>0, <1>1, <2>1 DEF TypeOK, ledger, Stages
<1>7. PipelineInv'
  <2>1. JoinSet' \cup ready' \subseteq Pending' /\ JoinSet' \cap ready' = {}
    BY <1>1, <1>2, <1>3, <1>4
  <2>2. fetchError' # NoHeight => fetchError' \in Pending' \ (JoinSet' \cup ready')
    BY <1>1, <1>2, <1>3, <1>4
  <2>3. \A h \in Pending' :
          h \in JoinSet' \cup ready' \/ (fetchError' # NoHeight /\ fetchError' <= h)
    <3> SUFFICES ASSUME NEW h \in Pending
                 PROVE  h \in JoinSet' \cup ready' \/ (fetchError' # NoHeight /\ fetchError' <= h)
      BY <1>3
    <3>1. CASE h # g
      BY <1>1, <1>2, <1>3, <1>4, <1>5, <3>1
    <3>2. CASE h = g /\ tasks[g] = "ok"
      BY <1>1, <3>2
    <3>3. CASE h = g /\ tasks[g] = "failed"
      BY <1>1, <1>4, <3>3
    <3>4. CASE h = g /\ tasks[g] = "cancelled"
      BY <1>1, <1>2, <1>4, <3>4 DEF Aborted
    <3> QED
      BY <1>1, <3>1, <3>2, <3>3, <3>4
  <2>4. \A h \in Heights : tasks'[h] = "cancelled" => Aborted(h)'
    <3> SUFFICES ASSUME NEW h \in Heights, tasks'[h] = "cancelled" PROVE Aborted(h)'
      OBVIOUS
    <3>1. h # g /\ tasks[h] = "cancelled"
      BY <1>0, <1>1 DEF TypeOK
    <3>2. fetchError # NoHeight /\ h > fetchError /\ h \in Int
      BY <1>2, <3>1 DEF Aborted, Heights
    <3> QED
      BY <1>1, <1>4, <3>2 DEF Aborted
  <2> QED
    BY SMTT(30), <1>0, <1>1, <2>1, <2>2, <2>3, <2>4
       DEF PipelineInv, InPipeline, Stages, ScopeOK, ledger
<1> QED
  BY <1>1, <1>6, <1>7, PipelineFrame DEF Stages

\* WriteBlock: the writer and the cursor move together.
LEMMA WriteBlockKeeps ==
  ASSUME IInv, WriteBlock
  PROVE  IInv'
<1>0. TypeOK /\ PipelineInv /\ StreakEarned /\ GapFreePrefix /\ ZeroStateIntact
  BY DEF IInv
<1>1. /\ pc = "write" /\ pc' = "write" /\ write \in ready /\ CommitBlock(write)
      /\ ready' = ready \ {write} /\ write' = write + 1 /\ projected' = projected + 1
      /\ UNCHANGED <<tip, nodeChain, mode, guarded, relief, window, tasks, fetchError, spawn,
                     outcome, stallCursor, faults>>
  BY DEF WriteBlock
<1>2. /\ ScopeOK /\ write = cursor + 1 /\ window.from + projected = write
      /\ write <= spawn /\ spawn <= window.to + 1
      /\ JoinSet \cup ready \subseteq Pending /\ JoinSet \cap ready = {}
      /\ fetchError # NoHeight => fetchError \in Pending \ (JoinSet \cup ready)
      /\ \A h \in Pending :
           h \in JoinSet \cup ready \/ (fetchError # NoHeight /\ fetchError <= h)
      /\ \A h \in Heights : tasks[h] = "cancelled" => Aborted(h)
  BY <1>0, <1>1 DEF PipelineInv, InPipeline, Stages
<1>3. /\ write \in Pending /\ write \in Heights /\ spawn \in Int /\ projected \in Nat
      /\ window.from \in Int /\ window.to \in Int /\ cursor \in 0..MaxHeight
  BY <1>0, <1>1, <1>2 DEF TypeOK, Heights
<1>4. /\ cursor' = cursor + 1 /\ cursor' \in 0..MaxHeight
      /\ blocks' \in [Heights -> Chains \cup {NoBlock, Base}]
      /\ GapFreePrefix' /\ ZeroStateIntact'
  <2>1. cursor + 1 <= MaxHeight
    BY <1>2, <1>3 DEF Heights
  <2> QED
    BY <1>0, <1>1, <1>2, <2>1, CommitNext
<1>5. write' \in 0..(MaxHeight + 1) /\ projected' \in Nat
  BY <1>1, <1>3 DEF Heights
<1>6. TypeOK'
  BY <1>0, <1>1, <1>4, <1>5 DEF TypeOK
<1>7. JoinSet' = JoinSet /\ Pending' = Pending \ {write}
  BY <1>1, <1>3 DEF JoinSet, Pending, Heights
<1>8. PipelineInv'
  <2>1. /\ write' = cursor' + 1 /\ window'.from + projected' = write' /\ ScopeOK'
        /\ write' <= spawn' /\ spawn' <= window'.to + 1
    BY <1>1, <1>2, <1>3, <1>4 DEF ScopeOK, Pending, Heights
  <2>2. /\ JoinSet' \cup ready' \subseteq Pending' /\ JoinSet' \cap ready' = {}
        /\ fetchError' # NoHeight => fetchError' \in Pending' \ (JoinSet' \cup ready')
        /\ \A h \in Pending' :
             h \in JoinSet' \cup ready' \/ (fetchError' # NoHeight /\ fetchError' <= h)
    BY <1>1, <1>2, <1>7
  <2>3. \A h \in Heights : tasks'[h] = "cancelled" => Aborted(h)'
    BY <1>1, <1>2 DEF Aborted
  <2>4. outcome' = "none"
    BY <1>0, <1>1 DEF PipelineInv
  <2> QED
    BY <1>1, <2>1, <2>2, <2>3, <2>4 DEF PipelineInv, InPipeline, Stages
<1>9. StreakEarned'
  <2>1. relief.committed_streak \in Nat /\ stallCursor \in Nat
    BY <1>0 DEF TypeOK, ReliefState
  <2> QED
    BY <1>0, <1>1, <1>3, <1>4, <2>1 DEF StreakEarned, Stages
<1>10. StallNamesNextHeight' /\ CompleteWindow'
  BY <1>0, <1>1 DEF PipelineInv, StallNamesNextHeight, CompleteWindow
<1> QED
  BY <1>4, <1>6, <1>8, <1>9, <1>10 DEF IInv

LEMMA FaultCounted ==
  ASSUME TypeOK, Fault
  PROVE  faults' \in 0..MaxFaults
<1>1. faults \in 0..MaxFaults
  BY Zenon DEF TypeOK
<1> QED
  BY <1>1 DEF Fault

\* The ways a running pass fails: HarvestPanic, WriteFails, SequentialFails.
LEMMA FailuresKeep ==
  ASSUME IInv, (\E h \in Heights : HarvestPanic(h)) \/ WriteFails \/ SequentialFails
  PROVE  IInv'
<1>0. TypeOK /\ PipelineInv
  BY DEF IInv
<1>1. CASE \E h \in Heights : HarvestPanic(h)
  <2>1. faults' \in 0..MaxFaults
    BY <1>0, <1>1 DEF HarvestPanic, TypeOK
  <2> QED
    BY <1>1, <2>1, FailPassKeeps DEF HarvestPanic, Stages
<1>2. CASE WriteFails \/ SequentialFails
  <2>1. faults' \in 0..MaxFaults
    <3>1. Fault
      BY Zenon, <1>2 DEF WriteFails, SequentialFails
    <3> QED
      BY <1>0, <3>1, FaultCounted
  <2>2. /\ pc \in Stages
        /\ UNCHANGED <<tip, nodeChain, mode, guarded, window, spawn, write, projected>>
        /\ \/ FailPass("dbError") /\ UNCHANGED ledger
           \/ FailPass("dbError") /\ CommitBlock(write)
           \/ FailNodeSide(write) /\ UNCHANGED ledger
    BY <1>2 DEF WriteFails, SequentialFails, Stages
  <2>3. write = cursor + 1 /\ write <= window.to
    <3>1. CASE WriteFails
      BY <1>0, <3>1 DEF WriteFails, PipelineInv, InPipeline, Pending, Stages, TypeOK
    <3>2. CASE SequentialFails
      BY <1>0, <3>2 DEF SequentialFails, PipelineInv, Stages
    <3> QED
      BY SMTT(30), <1>2, <3>1, <3>2
  <2>4. CASE FailPass("dbError") /\ (UNCHANGED ledger \/ CommitBlock(write))
    BY <2>1, <2>2, <2>3, <2>4, FailPassKeeps
  <2>5. CASE FailNodeSide(write) /\ UNCHANGED ledger
    BY <2>1, <2>2, <2>3, <2>5, NodeSideFailureKeeps
  <2> QED
    BY SMTT(30), <2>2, <2>4, <2>5
<1> QED
  BY <1>1, <1>2

\* A pass that completes at the end of its window.
LEMMA CompletePassKeeps ==
  ASSUME IInv, pc \in Stages, NEW done \in Nat, CompletePass(done),
         cursor' \in 0..MaxHeight, cursor' = window.to,
         blocks' \in [Heights -> Chains \cup {NoBlock, Base}],
         \/ cursor' = cursor /\ done = projected
         \/ cursor' = cursor + 1 /\ done = projected + 1,
         GapFreePrefix' /\ ZeroStateIntact',
         write' \in 0..(MaxHeight + 1), projected' \in Nat,
         UNCHANGED <<tip, nodeChain, mode, guarded, window, spawn, faults>>
  PROVE  IInv'
<1>0. TypeOK /\ PipelineInv /\ StreakEarned
  BY DEF IInv
<1>1. /\ DropPipeline /\ outcome' = "ok"
      /\ relief' = RegisterProgress(relief, done) /\ stallCursor' = stallCursor
  BY DEF CompletePass, NoteFetchProgress
<1>2. /\ pc' = "idle" /\ pc' \in Stages \cup {"idle", "down"}
      /\ tasks' = NoTasks /\ tasks' \in [Heights -> TaskState]
      /\ ready' = {} /\ fetchError' = NoHeight
  BY <1>1, PassDropped
<1>3. relief' \in ReliefState
  BY SMTT(30), <1>0, <1>1, ReliefTypes DEF TypeOK
<1>4. TypeOK'
  BY <1>0, <1>1, <1>2, <1>3 DEF TypeOK, Outcomes, NoHeight
<1>5. PipelineInv'
  BY <1>2 DEF PipelineInv, InPipeline, Stages
<1>6. StreakEarned'
  <2>1. /\ relief.committed_streak \in Nat /\ stallCursor \in Nat /\ cursor \in Nat
        /\ projected \in Nat
    BY <1>0 DEF TypeOK, ReliefState
  <2>2. relief'.active => relief.active /\ relief'.committed_streak \in
                            {relief.committed_streak, relief.committed_streak + done}
    BY <1>0, <1>1 DEF RegisterProgress, TypeOK, ReliefState
  <2>3. relief.active => relief.committed_streak + projected + stallCursor <= cursor
    BY <1>0 DEF StreakEarned
  <2>4. stallCursor <= cursor
    BY <1>0 DEF StreakEarned
  <2>5. stallCursor' <= cursor'
    BY <1>1, <2>1, <2>4
  <2>6. relief'.active => relief'.committed_streak + 0 + stallCursor' <= cursor'
    <3>1. CASE relief'.committed_streak = relief.committed_streak
      BY <1>1, <2>1, <2>2, <2>3, <3>1
    <3>2. CASE relief'.committed_streak = relief.committed_streak + done
      BY <1>1, <2>1, <2>2, <2>3, <3>2
    <3> QED
      BY SMTT(30), <2>2, <3>1, <3>2
  <2> QED
    BY <1>2, <2>5, <2>6 DEF StreakEarned, Stages
<1>7. StallNamesNextHeight' /\ CompleteWindow'
  BY <1>0, <1>1 DEF StallNamesNextHeight, CompleteWindow
<1> QED
  BY <1>4, <1>5, <1>6, <1>7 DEF IInv

\* FinishWindow: with every fetch joined and nothing to write, either the whole
\* window is written or the lowest failed height is the one above the cursor.
LEMMA FinishWindowKeeps ==
  ASSUME IInv, FinishWindow
  PROVE  IInv'
<1>0. TypeOK /\ PipelineInv /\ GapFreePrefix /\ ZeroStateIntact
  BY DEF IInv
<1>1. /\ pc = "write" /\ InPipeline /\ pc \in Stages /\ write \notin ready /\ JoinSet = {}
      /\ UNCHANGED <<tip, ledger, nodeChain, mode, guarded, window, spawn, write, projected,
                     faults>>
      /\ fetchError # NoHeight \/ spawn > window.to
  BY SMTT(30) DEF FinishWindow, WindowDone, InPipeline, Stages
<1>2. /\ write = cursor + 1 /\ write <= spawn /\ spawn <= window.to + 1
      /\ write \in Int /\ spawn \in Int /\ cursor \in Int /\ window.to \in Int
      /\ fetchError \in Int
      /\ fetchError # NoHeight => fetchError \in Pending
      /\ \A h \in Pending :
           h \in JoinSet \cup ready \/ (fetchError # NoHeight /\ fetchError <= h)
  <2>1. /\ cursor \in 0..MaxHeight /\ fetchError \in 0..MaxHeight
        /\ spawn \in 0..(MaxHeight + 1) /\ write \in 0..(MaxHeight + 1)
        /\ window \in [from : 0..MaxHeight, to : 0..MaxHeight, concurrency : Nat]
    BY Zenon, <1>0 DEF TypeOK
  <2>2. write \in Int /\ spawn \in Int /\ cursor \in Int /\ window.to \in Int /\ fetchError \in Int
    BY <2>1
  <2>3. /\ write = cursor + 1 /\ write <= spawn /\ spawn <= window.to + 1
        /\ fetchError # NoHeight => fetchError \in Pending
        /\ \A h \in Pending :
             h \in JoinSet \cup ready \/ (fetchError # NoHeight /\ fetchError <= h)
    BY <1>0, <1>1 DEF PipelineInv
  <2> QED
    BY Zenon, <2>2, <2>3
<1>3. CASE fetchError # NoHeight
  <2>1. write \in Pending /\ write <= fetchError
    BY <1>2, <1>3 DEF Pending
  <2>2. fetchError <= write
    BY <1>1, <1>2, <2>1
  <2>3. fetchError = cursor + 1
    BY <1>2, <2>1, <2>2
  <2>4. faults' \in 0..MaxFaults
    BY <1>0, <1>1 DEF TypeOK
  <2> QED
    BY <1>1, <1>3, <2>3, <2>4, NodeSideFailureKeeps DEF FinishWindow
<1>4. CASE fetchError = NoHeight
  <2>1. write \notin Pending
    BY <1>1, <1>2, <1>4
  <2>2. cursor = window.to
    BY <1>1, <1>2, <1>4, <2>1 DEF Pending
  <2>3. CompletePass(projected)
    BY <1>4 DEF FinishWindow
  <2>4. /\ cursor' = cursor /\ cursor' \in 0..MaxHeight /\ cursor' = window.to
        /\ blocks' \in [Heights -> Chains \cup {NoBlock, Base}]
    BY <1>0, <1>1, <2>2 DEF ledger, TypeOK
  <2>5. GapFreePrefix' /\ ZeroStateIntact'
    BY <1>0, <1>1, LedgerFrame
  <2>6. write' \in 0..(MaxHeight + 1) /\ projected' \in Nat /\ projected \in Nat
    BY <1>0, <1>1 DEF TypeOK
  <2> QED
    BY <1>1, <2>3, <2>4, <2>5, <2>6, CompletePassKeeps
<1> QED
  BY <1>3, <1>4

\* SequentialBlock: one committed block, and at the window's end a complete pass.
LEMMA SequentialBlockKeeps ==
  ASSUME IInv, SequentialBlock
  PROVE  IInv'
<1>0. TypeOK /\ PipelineInv /\ StreakEarned /\ GapFreePrefix /\ ZeroStateIntact
  BY DEF IInv
<1>1. /\ pc = "seq" /\ pc \in Stages /\ CommitBlock(write)
      /\ write' = write + 1 /\ projected' = projected + 1
      /\ UNCHANGED <<tip, nodeChain, mode, guarded, window, spawn, faults>>
  BY DEF SequentialBlock, Stages
<1>2. /\ ScopeOK /\ write = cursor + 1 /\ window.from + projected = write /\ write <= window.to
      /\ window.to \in 0..MaxHeight /\ window.from \in Int /\ cursor \in 0..MaxHeight
      /\ projected \in Nat /\ outcome = "none"
  BY <1>0, <1>1 DEF PipelineInv, TypeOK
<1>3. /\ cursor' = cursor + 1 /\ cursor' \in 0..MaxHeight
      /\ blocks' \in [Heights -> Chains \cup {NoBlock, Base}]
      /\ GapFreePrefix' /\ ZeroStateIntact'
  <2>1. cursor + 1 <= MaxHeight
    BY <1>2
  <2> QED
    BY <1>0, <1>1, <1>2, <2>1, CommitNext
<1>4. write' \in 0..(MaxHeight + 1) /\ projected' \in Nat /\ projected + 1 \in Nat
  BY SMTT(30), <1>1, <1>2
<1>5. CASE write < window.to
  <2>1. UNCHANGED <<pc, tasks, ready, fetchError, relief, stallCursor, outcome>>
    BY <1>5 DEF SequentialBlock
  <2>2. TypeOK'
    BY Zenon, <1>0, <1>1, <1>3, <1>4, <2>1 DEF TypeOK
  <2>3. PipelineInv'
    <3>1. /\ write' = cursor' + 1 /\ window'.from + projected' = write' /\ ScopeOK'
          /\ write' <= window'.to
      BY <1>1, <1>2, <1>3, <1>5 DEF ScopeOK
    <3> QED
      BY <1>0, <1>1, <1>2, <2>1, <3>1 DEF PipelineInv, InPipeline, Stages
  <2>4. StreakEarned'
    <3>1. relief.committed_streak \in Nat /\ stallCursor \in Nat
      BY <1>0 DEF TypeOK, ReliefState
    <3> QED
      BY <1>0, <1>1, <1>2, <1>3, <2>1, <3>1 DEF StreakEarned, Stages
  <2> QED
    BY <1>2, <1>3, <2>1, <2>2, <2>3, <2>4 DEF IInv, StallNamesNextHeight, CompleteWindow
<1>6. CASE ~(write < window.to)
  <2>1. CompletePass(projected + 1)
    BY <1>6 DEF SequentialBlock
  <2>2. cursor' = window.to
    BY <1>2, <1>3, <1>6
  <2> QED
    BY <1>1, <1>3, <1>4, <2>1, <2>2, CompletePassKeeps
<1> QED
  BY <1>5, <1>6

\* The environment: ChainGrows, Crash, Restart and the one-shot ProjectRawBlock.
LEMMA EnvironmentKeeps ==
  ASSUME IInv, \/ ChainGrows \/ Crash \/ Restart
               \/ \E h \in Heights, c \in OneShotChains : ProjectRawBlock(h, c)
  PROVE  IInv'
<1>0. /\ TypeOK /\ PipelineInv /\ StreakEarned /\ GapFreePrefix /\ ZeroStateIntact
      /\ StallNamesNextHeight /\ CompleteWindow
  BY DEF IInv
<1>1. CASE ChainGrows
  <2>1. TypeOK'
    <3>1. tip \in 0..MaxHeight
      BY Zenon, <1>0 DEF TypeOK
    <3>2. tip' \in 0..MaxHeight
      BY <1>1, <3>1 DEF ChainGrows
    <3> QED
      BY Zenon, <1>0, <1>1, <3>2 DEF TypeOK, ChainGrows, ledger, passVars
  <2>2. PipelineInv'
    <3>1. JoinSet' = JoinSet /\ Pending' = Pending /\ \A h \in Heights : Aborted(h)' <=> Aborted(h)
      BY <1>1 DEF JoinSet, Pending, Aborted, ChainGrows, passVars
    <3> QED
      BY <1>0, <1>1, <3>1 DEF PipelineInv, InPipeline, ScopeOK, ChainGrows, ledger, passVars
  <2>3. StreakEarned' /\ StallNamesNextHeight' /\ CompleteWindow'
    BY <1>0, <1>1
       DEF StreakEarned, StallNamesNextHeight, CompleteWindow, ChainGrows, ledger, passVars
  <2>4. GapFreePrefix' /\ ZeroStateIntact'
    BY <1>0, <1>1, LedgerFrame DEF ChainGrows
  <2> QED
    BY SMTT(30), <2>1, <2>2, <2>3, <2>4 DEF IInv
<1>2. CASE Crash
  <2>1. ReliefDefault \in ReliefState /\ ~ReliefDefault.active /\ NoTasks \in [Heights -> TaskState]
    BY DEF ReliefDefault, ReliefState, NoTasks, TaskState
  <2>2. faults' \in 0..MaxFaults
    <3>1. Fault
      BY Zenon, <1>2 DEF Crash
    <3> QED
      BY <1>0, <3>1, FaultCounted
  <2>g. guarded' \in BOOLEAN /\ pc' = "down" /\ outcome' = "none"
    BY Zenon, <1>2 DEF Crash
  <2>3. TypeOK'
    <3>1. fetchError' \in 0..MaxHeight /\ "none" \in Outcomes
      BY <1>2 DEF Crash, NoHeight, Outcomes
    <3> QED
      BY Zenon, <1>0, <1>2, <2>1, <2>2, <2>g, <3>1 DEF TypeOK, Crash, ledger
  <2>4. PipelineInv'
    BY <1>2 DEF PipelineInv, Crash, InPipeline, Stages
  <2>5. StreakEarned'
    BY <1>0, <1>2, <2>1 DEF StreakEarned, Crash, ledger
  <2>6. GapFreePrefix' /\ ZeroStateIntact'
    BY SMTT(30), <1>0, <1>2, LedgerFrame DEF Crash
  <2> QED
    BY <1>2, <2>3, <2>4, <2>5, <2>6 DEF IInv, StallNamesNextHeight, CompleteWindow, Crash
<1>3. CASE Restart
  <2>1. TypeOK'
    BY Zenon, <1>0, <1>3 DEF TypeOK, Restart, ledger, passVars
  <2>2. PipelineInv'
    BY <1>0, <1>3 DEF PipelineInv, InPipeline, Restart, passVars, Stages
  <2>3. StreakEarned' /\ StallNamesNextHeight' /\ CompleteWindow'
    BY <1>0, <1>3
       DEF StreakEarned, StallNamesNextHeight, CompleteWindow, Restart, ledger, passVars, Stages
  <2>4. GapFreePrefix' /\ ZeroStateIntact'
    BY <1>0, <1>3, LedgerFrame DEF Restart
  <2> QED
    BY SMTT(30), <2>1, <2>2, <2>3, <2>4 DEF IInv
<1>4. ASSUME NEW g \in Heights, NEW c \in OneShotChains, ProjectRawBlock(g, c)
      PROVE  IInv'
  <2>1. /\ g > Boundary /\ c \in Chains /\ blocks' = [blocks EXCEPT ![g] = c]
        /\ UNCHANGED <<tip, cursor, nodeChain, mode, guarded, relief, pc, passVars, outcome,
                       stallCursor, faults>>
    BY SMTT(30), <1>4 DEF ProjectRawBlock
  <2>2. TypeOK'
    <3>1. blocks' \in [Heights -> Chains \cup {NoBlock, Base}]
      BY <1>0, <2>1 DEF TypeOK
    <3> QED
      BY Zenon, <1>0, <2>1, <3>1 DEF TypeOK, passVars
  <2>3. PipelineInv'
    <3>1. JoinSet' = JoinSet /\ Pending' = Pending /\ \A h \in Heights : Aborted(h)' <=> Aborted(h)
      BY <2>1 DEF JoinSet, Pending, Aborted, passVars
    <3> QED
      BY Zenon, <1>0, <2>1, <3>1 DEF PipelineInv, InPipeline, ScopeOK, passVars
  <2>4. StreakEarned' /\ StallNamesNextHeight' /\ CompleteWindow'
    BY <1>0, <2>1 DEF StreakEarned, StallNamesNextHeight, CompleteWindow, passVars
  <2>5. GapFreePrefix' /\ ZeroStateIntact'
    BY <1>0, <2>1 DEF TypeOK, GapFreePrefix, ZeroStateIntact, L!GapFreePrefix, L!ZeroStateIntact,
                      L!Heights, Heights
  <2> QED
    BY <2>2, <2>3, <2>4, <2>5 DEF IInv
<1> QED
  BY <1>1, <1>2, <1>3, <1>4

LEMMA IInvStep == IInv /\ [Next]_vars => IInv'
<1> SUFFICES ASSUME IInv, [Next]_vars PROVE IInv'
  OBVIOUS
<1>1. CASE StartPass \/ CaughtUp \/ ProbeFails
  BY <1>1, PlanningKeeps
<1>2. CASE SpawnFetch \/ TopUpDone \/ HarvestDone \/ AwaitFetch
  BY <1>2, FetchControlKeeps
<1>3. CASE \E h \in Heights : FetchDone(h)
  BY <1>3, FetchDoneKeeps
<1>4. CASE \E h \in Heights : Harvest(h)
  BY <1>4, HarvestKeeps
<1>5. CASE WriteBlock
  BY <1>5, WriteBlockKeeps
<1>6. CASE (\E h \in Heights : HarvestPanic(h)) \/ WriteFails \/ SequentialFails
  BY <1>6, FailuresKeep
<1>7. CASE FinishWindow
  BY <1>7, FinishWindowKeeps
<1>8. CASE SequentialBlock
  BY <1>8, SequentialBlockKeeps
<1>9. CASE \/ ChainGrows \/ Crash \/ Restart
           \/ \E h \in Heights, c \in OneShotChains : ProjectRawBlock(h, c)
  BY SMTT(30), <1>9, EnvironmentKeeps
<1>10. CASE UNCHANGED vars
  BY Zenon, <1>10 DEF vars, IInv, TypeOK, PipelineInv, StreakEarned, GapFreePrefix, ZeroStateIntact,
               StallNamesNextHeight, CompleteWindow, InPipeline, ScopeOK, JoinSet, Pending,
               Aborted, L!GapFreePrefix, L!ZeroStateIntact
<1> QED
  BY <1>1, <1>2, <1>3, <1>4, <1>5, <1>6, <1>7, <1>8, <1>9, <1>10 DEF Next, WorkerStep

------------------------------------------------------------------------------
(* The theorems. *)

\* The invariant holds of every behaviour of the worker.
THEOREM Invariance == Spec => []IInv
  BY IInvInit, IInvStep, PTL DEF Spec

\* sync_once never leaves its state's types, whatever the sizes configured.
THEOREM TypeCorrect == Spec => []TypeOK
<1>1. IInv => TypeOK
  BY DEF IInv
<1> QED
  BY <1>1, Invariance, PTL

\* chains.current_height never stands above a missing block, and no path writes
\* the zero-state base.
THEOREM LedgerSafe == Spec => [](GapFreePrefix /\ ZeroStateIntact)
<1>1. IInv => GapFreePrefix /\ ZeroStateIntact
  BY DEF IInv
<1> QED
  BY <1>1, Invariance, PTL

\* A node-side failure is charged to the first height that is not committed: the
\* lowest failed fetch is always the writer's next height when a pass ends.
THEOREM StallIsNextHeight == Spec => []StallNamesNextHeight
<1>1. IInv => StallNamesNextHeight
  BY DEF IInv
<1> QED
  BY <1>1, Invariance, PTL

\* A pass that reports no stall committed its whole window.
THEOREM PassIsComplete == Spec => []CompleteWindow
<1>1. IInv => CompleteWindow
  BY SMTT(30) DEF IInv
<1> QED
  BY <1>1, Invariance, PTL

------------------------------------------------------------------------------
\* What a step may do to the ledger: append the next block of the node's network
\* while a pass runs, re-project one block above the boundary, or nothing.
LEMMA LedgerSteps ==
  ASSUME IInv, [Next]_vars
  PROVE  \/ /\ pc \in Stages /\ ScopeOK /\ cursor + 1 \in Heights
            /\ cursor' = cursor + 1
            /\ blocks' = [blocks EXCEPT ![cursor + 1] = nodeChain]
         \/ /\ cursor' = cursor
            /\ \E h \in Heights, c \in OneShotChains :
                 h > Boundary /\ blocks' = [blocks EXCEPT ![h] = c]
         \/ UNCHANGED ledger
<1>0. TypeOK /\ PipelineInv /\ GapFreePrefix /\ ZeroStateIntact
  BY DEF IInv
<1>1. CASE CommitBlock(write) /\ (WriteBlock \/ WriteFails \/ SequentialBlock \/ SequentialFails)
  <2>1. pc \in Stages /\ write = cursor + 1 /\ ScopeOK /\ write <= window.to
    <3>1. CASE WriteBlock \/ WriteFails
      <4>1. pc = "write" /\ write \in ready
        BY <3>1 DEF WriteBlock, WriteFails
      <4>2. InPipeline /\ pc \in Stages
        BY <4>1 DEF InPipeline, Stages
      <4>3. /\ write = cursor + 1 /\ ScopeOK /\ spawn <= window.to + 1
            /\ JoinSet \cup ready \subseteq Pending
        BY <1>0, <4>2 DEF PipelineInv
      <4>4. write \in Int /\ spawn \in Int /\ window.to \in Int /\ write <= spawn - 1
        BY <1>0, <4>1, <4>3 DEF TypeOK, Pending
      <4> QED
        BY SMTT(30), <4>2, <4>3, <4>4
    <3>2. CASE SequentialBlock \/ SequentialFails
      BY <1>0, <3>2 DEF SequentialBlock, SequentialFails, PipelineInv, Stages
    <3> QED
      BY SMTT(30), <1>1, <3>1, <3>2
  <2>2. cursor + 1 <= MaxHeight /\ cursor + 1 \in Heights
    BY <1>0, <2>1 DEF TypeOK, Heights
  <2> QED
    BY <1>0, <1>1, <2>1, <2>2, CommitNext
<1>2. CASE \E h \in Heights, c \in OneShotChains : ProjectRawBlock(h, c)
  BY Zenon, <1>2 DEF ProjectRawBlock
<1>3. CASE UNCHANGED ledger
  BY <1>3
<1> QED
  <2>1. CASE WriteBlock \/ SequentialBlock
    <3>1. CommitBlock(write)
      BY Zenon, <2>1 DEF WriteBlock, SequentialBlock
    <3> QED
      BY Zenon, <1>1, <2>1, <3>1
  <2>2. CASE WriteFails \/ SequentialFails
    <3>1. CommitBlock(write) \/ UNCHANGED ledger
      <4>1. CASE WriteFails
        BY Zenon, <4>1 DEF WriteFails
      <4>2. CASE SequentialFails
        BY Zenon, <4>2 DEF SequentialFails
      <4> QED
        BY <2>2, <4>1, <4>2
    <3> QED
      BY Zenon, <1>1, <1>3, <2>2, <3>1
  <2>3. CASE \/ StartPass \/ CaughtUp \/ ProbeFails \/ SpawnFetch \/ TopUpDone \/ HarvestDone
             \/ AwaitFetch \/ FinishWindow \/ ChainGrows \/ Crash \/ Restart
             \/ \E h \in Heights : Harvest(h) \/ HarvestPanic(h) \/ FetchDone(h)
    BY Zenon, <1>3, <2>3
       DEF StartPass, CaughtUp, ProbeFails, SpawnFetch, TopUpDone, HarvestDone, AwaitFetch,
           FinishWindow, ChainGrows, Crash, Restart, Harvest, HarvestPanic, FetchDone
  <2>4. CASE UNCHANGED vars
    BY <1>3, <2>4 DEF vars, ledger
  <2> QED
    BY Zenon, <1>2, <2>1, <2>2, <2>3, <2>4 DEF Next, WorkerStep

\* The worker implements the ledger (BlockSync!ImplementsLedger).
THEOREM Refinement == Spec => ImplementsLedger
<1>1. Init => L!Init
  BY DEF Init
<1>2. IInv /\ [Next]_vars => [L!Next]_(L!ledgerVars)
  <2> SUFFICES ASSUME IInv, [Next]_vars PROVE [L!Next]_(L!ledgerVars)
    OBVIOUS
  <2>1. CASE /\ ScopeOK /\ cursor + 1 \in Heights /\ cursor' = cursor + 1
             /\ blocks' = [blocks EXCEPT ![cursor + 1] = nodeChain]
    <3>1. nodeChain \in Chains
      BY DEF IInv, TypeOK
    <3> QED
      BY Zenon, <2>1, <3>1 DEF L!Next, L!Append, L!Heights, Heights, ScopeOK
  <2>2. CASE /\ cursor' = cursor
             /\ \E h \in Heights, c \in OneShotChains :
                  h > Boundary /\ blocks' = [blocks EXCEPT ![h] = c]
    BY Zenon, <2>2 DEF L!Next, L!Reproject, L!Heights, Heights
  <2>3. CASE UNCHANGED ledger
    BY <2>3 DEF ledger, L!ledgerVars
  <2> QED
    BY <2>1, <2>2, <2>3, LedgerSteps
<1> QED
  BY <1>1, <1>2, Invariance, PTL DEF Spec, ImplementsLedger, L!Spec

\* Load shedding ends only when it was earned (register_progress, clear).
THEOREM ReleaseEarned == Spec => ReliefReleaseEarned
<1>1. IInv /\ [Next]_vars =>
        [relief.active /\ ~relief'.active =>
           \/ cursor' >= stallCursor + RELIEF_RECOVERY_COMMIT_BLOCKS
           \/ outcome' = "caughtUp"
           \/ pc' = "down"]_vars
  <2> SUFFICES ASSUME IInv, Next, relief.active, ~relief'.active, outcome' # "caughtUp",
                      pc' # "down"
               PROVE  cursor' >= stallCursor + RELIEF_RECOVERY_COMMIT_BLOCKS
    BY DEF vars
  <2>0. TypeOK /\ PipelineInv /\ StreakEarned
    BY DEF IInv
  <2>t. /\ relief.committed_streak \in Nat /\ cursor \in Nat /\ stallCursor \in Nat
        /\ projected \in Nat
    BY <2>0 DEF TypeOK, ReliefState
  <2>1. ASSUME NEW n \in Nat, relief' = RegisterProgress(relief, n)
        PROVE  relief.committed_streak + n >= RELIEF_RECOVERY_COMMIT_BLOCKS
    BY <2>0, <2>t, <2>1 DEF RegisterProgress, RELIEF_RECOVERY_COMMIT_BLOCKS, TypeOK, ReliefState
  <2>2. CASE FinishWindow
    <3>1. fetchError = NoHeight
      <4>1. ASSUME NEW h, NoteFetchStall(h) PROVE FALSE
        BY <4>1 DEF NoteFetchStall, RegisterStall
      <4>2. ASSUME fetchError # NoHeight PROVE NoteFetchStall(fetchError) \/ NoteFetchStall(window.from)
        BY Zenon, <2>2, <4>2 DEF FinishWindow, FailNodeSide, StallPass, FailPass
      <4> QED
        BY <4>1, <4>2
    <3>2. relief' = RegisterProgress(relief, projected) /\ cursor' = cursor /\ pc \in Stages
      BY <2>2, <3>1 DEF FinishWindow, CompletePass, NoteFetchProgress, ledger, Stages
    <3>3. relief.committed_streak + projected >= RELIEF_RECOVERY_COMMIT_BLOCKS
      BY <2>t, <2>1, <3>2
    <3>4. relief.committed_streak + projected + stallCursor <= cursor
      BY <2>0, <3>2 DEF StreakEarned
    <3> QED
      BY SMTT(30), <2>t, <3>2, <3>3, <3>4 DEF RELIEF_RECOVERY_COMMIT_BLOCKS
  <2>3. CASE SequentialBlock
    <3>1. write = cursor + 1 /\ pc \in Stages
      BY <2>0, <2>3 DEF SequentialBlock, PipelineInv, Stages
    <3>2. ~(write < window.to)
      BY SMTT(30), <2>3 DEF SequentialBlock
    <3>3. relief' = RegisterProgress(relief, projected + 1)
      BY Zenon, <2>3, <3>2 DEF SequentialBlock, CompletePass, NoteFetchProgress
    <3>4. cursor' = cursor + 1
      BY <2>3, <2>t, <3>1 DEF SequentialBlock, CommitBlock, MaxOf
    <3>5. relief.committed_streak + (projected + 1) >= RELIEF_RECOVERY_COMMIT_BLOCKS
      BY <2>t, <2>1, <3>3
    <3>6. relief.committed_streak + projected + stallCursor <= cursor
      BY SMTT(30), <2>0, <3>1 DEF StreakEarned
    <3> QED
      BY SMTT(30), <2>t, <3>4, <3>5, <3>6 DEF RELIEF_RECOVERY_COMMIT_BLOCKS
  <2>4. CASE WriteFails \/ SequentialFails \/ \E h \in Heights : HarvestPanic(h)
    <3>1. \/ UNCHANGED relief
          \/ \E n \in Nat : relief' = RegisterStall(relief, n)
      <4>1. window.from \in Nat /\ write \in Nat
        BY <2>0 DEF TypeOK
      <4> QED
        BY <2>4, <4>1 DEF WriteFails, SequentialFails, HarvestPanic, FailPass, FailNodeSide,
                          StallPass, NoteFetchStall
    <3>2. \A n \in Nat : RegisterStall(relief, n).active
      BY DEF RegisterStall
    <3> QED
      BY SMTT(30), <3>1, <3>2
  <2> QED
    BY Zenon, <2>2, <2>3, <2>4
       DEF Next, WorkerStep, StartPass, CaughtUp, ProbeFails, SpawnFetch, TopUpDone, HarvestDone,
           AwaitFetch, WriteBlock, ChainGrows, Crash, Restart, Harvest, FetchDone, ProjectRawBlock
<1> QED
  BY <1>1, Invariance, PTL DEF Spec, ReliefReleaseEarned

------------------------------------------------------------------------------
\* A process that runs a pass, or has latched the node guard, stands on a block of
\* its own network.
ChainInv ==
  /\ (pc \in Stages \/ guarded) /\ cursor > Boundary => blocks[cursor] = nodeChain
  /\ pc = "down" => ~guarded

LEMMA ChainInvStep ==
  ASSUME OneShotChains = {}, IInv, ChainInv, [Next]_vars
  PROVE  ChainInv'
<1>0. TypeOK /\ GapFreePrefix
  BY DEF IInv
<1>1. CASE /\ pc \in Stages /\ cursor + 1 \in Heights /\ cursor' = cursor + 1
           /\ blocks' = [blocks EXCEPT ![cursor + 1] = nodeChain]
  <2>1. nodeChain' = nodeChain
    <3>1. pc # "down"
      BY <1>1 DEF Stages
    <3> QED
      BY Zenon, <3>1 DEF Next, WorkerStep, StartPass, CaughtUp, ProbeFails, SpawnFetch, TopUpDone,
                  HarvestDone, AwaitFetch, WriteBlock, WriteFails, FinishWindow, SequentialBlock,
                  SequentialFails, ChainGrows, Crash, Restart, Harvest, HarvestPanic, FetchDone,
                  ProjectRawBlock, vars
  <2>2. blocks'[cursor'] = nodeChain
    BY SMTT(30), <1>0, <1>1 DEF TypeOK
  <2>3. pc' # "down"
    <3>1. UNCHANGED ledger \/ ~Crash
      BY DEF Crash
    <3>2. cursor' # cursor
      BY SMTT(30), <1>0, <1>1 DEF TypeOK
    <3> QED
      BY Zenon, <1>1, <3>1, <3>2
         DEF Next, WorkerStep, StartPass, CaughtUp, ProbeFails, SpawnFetch, TopUpDone,
             HarvestDone, AwaitFetch, WriteBlock, WriteFails, FinishWindow, SequentialBlock,
             SequentialFails, ChainGrows, Restart, Harvest, HarvestPanic, FetchDone,
             ProjectRawBlock, vars, ledger, Stages, FailPass, FailNodeSide, StallPass,
             CompletePass, DropPipeline
  <2> QED
    BY <2>1, <2>2, <2>3 DEF ChainInv
<1>2. CASE UNCHANGED ledger
  <2>u. cursor' = cursor /\ blocks' = blocks
    BY <1>2 DEF ledger
  <2>1. CASE StartPass \/ CaughtUp
    <3>1. cursor > Boundary => cursor \in Heights /\ blocks[cursor] # NoBlock
      BY <1>0 DEF TypeOK, GapFreePrefix, L!GapFreePrefix, L!Heights, Heights
    <3>2. GuardOK /\ nodeChain' = nodeChain
      BY <2>1 DEF StartPass, CaughtUp
    <3>3. cursor > Boundary => blocks[cursor] = nodeChain
      BY <3>1, <3>2 DEF GuardOK, GuardApplies, ChainInv
    <3>4. pc' # "down"
      BY <2>1 DEF StartPass, CaughtUp
    <3> QED
      BY SMTT(30), <2>u, <3>2, <3>3, <3>4 DEF ChainInv
  <2>2. CASE Restart
    <3>1. pc' = "idle" /\ guarded' = guarded
      BY <2>2 DEF Restart
    <3>2. ~guarded
      BY SMTT(30), <2>2 DEF Restart, ChainInv
    <3> QED
      BY <3>1, <3>2 DEF ChainInv, Stages
  <2>3. CASE Crash
    BY Zenon, <2>3 DEF Crash, ChainInv, Stages
  <2>4. CASE /\ nodeChain' = nodeChain /\ guarded' = guarded
             /\ pc' \in Stages => pc \in Stages
             /\ pc' = "down" => pc = "down"
    BY <2>u, <2>4 DEF ChainInv
  <2> QED
    BY Zenon, <2>1, <2>2, <2>3, <2>4
       DEF Next, WorkerStep, ProbeFails, SpawnFetch, TopUpDone, HarvestDone, AwaitFetch,
           WriteBlock, WriteFails, FinishWindow, SequentialBlock, SequentialFails, ChainGrows,
           Harvest, HarvestPanic, FetchDone, ProjectRawBlock, vars, Stages,
           FailPass, FailNodeSide, StallPass, CompletePass, DropPipeline
<1> QED
  BY <1>1, <1>2, LedgerSteps

\* Without one-shot commands pointed elsewhere, no sequence of restarts and RPC
\* configurations appends one network's block to another network's stored chain:
\* guard_node_matches_db once per process is enough, above the boundary.
THEOREM OneNetwork ==
  ASSUME OneShotChains = {}
  PROVE  Spec => ChainContinuity
<1>1. Init => ChainInv
  BY DEF Init, ChainInv, Stages
<1>2. IInv /\ ChainInv /\ [Next]_vars => ChainInv'
  BY ChainInvStep
<1>3. IInv /\ ChainInv /\ [Next]_vars =>
        [cursor' # cursor /\ cursor > Boundary => blocks'[cursor'] = blocks[cursor]]_vars
  <2> SUFFICES ASSUME IInv, ChainInv, [Next]_vars, cursor' # cursor, cursor > Boundary
               PROVE  blocks'[cursor'] = blocks[cursor]
    OBVIOUS
  <2>1. /\ pc \in Stages /\ cursor + 1 \in Heights /\ cursor' = cursor + 1
        /\ blocks' = [blocks EXCEPT ![cursor + 1] = nodeChain]
    BY LedgerSteps DEF ledger
  <2> QED
    BY <2>1 DEF ChainInv, IInv, TypeOK
<1> QED
  BY <1>1, <1>2, <1>3, Invariance, PTL DEF Spec, ChainContinuity
------------------------------------------------------------------------------
\* The writer lags the spawner by max_read_ahead at most; window, and with it the
\* bound, is fixed while a pass runs.
ReadAheadInv == InPipeline => spawn - write <= MaxReadAhead

LEMMA ReadAheadInvStep ==
  ASSUME IInv, ReadAheadInv, [Next]_vars
  PROVE  ReadAheadInv'
<1>0. TypeOK /\ PipelineInv
  BY DEF IInv
<1>t. /\ spawn \in Nat /\ write \in Nat /\ MaxReadAhead \in Nat /\ MaxReadAhead >= 1
  BY <1>0 DEF TypeOK, MaxReadAhead, MaxOf
<1>1. CASE StartPass
  <2>1. spawn' = cursor + 1 /\ write' = cursor + 1 /\ cursor \in Nat
    <3>1. spawn' = cursor + 1 /\ write' = cursor + 1
      BY Zenon, <1>1 DEF StartPass
    <3>2. cursor \in Nat
      BY <1>0 DEF TypeOK
    <3> QED
      BY <3>1, <3>2
  <2>2. window' \in [from : 0..MaxHeight, to : 0..MaxHeight, concurrency : Nat]
    <3>1. IInv'
      BY IInvStep
    <3> QED
      BY <3>1 DEF IInv, TypeOK
  <2>3. MaxReadAhead' >= 0 /\ MaxReadAhead' \in Nat
    BY <2>2 DEF MaxReadAhead, MaxOf
  <2> QED
    BY <2>1, <2>3 DEF ReadAheadInv
<1>2. CASE SpawnFetch
  <2>1. /\ spawn' = spawn + 1 /\ write' = write /\ window' = window
        /\ spawn - write < MaxReadAhead
    BY <1>2 DEF SpawnFetch, CanSpawn
  <2>2. MaxReadAhead' = MaxReadAhead
    BY <2>1 DEF MaxReadAhead
  <2> QED
    BY <1>t, <2>1, <2>2 DEF ReadAheadInv
<1>3. CASE WriteBlock
  <2>1. spawn' = spawn /\ write' = write + 1 /\ window' = window /\ InPipeline
    BY <1>3 DEF WriteBlock, InPipeline
  <2>2. MaxReadAhead' = MaxReadAhead
    BY <2>1 DEF MaxReadAhead
  <2> QED
    BY <1>t, <2>1, <2>2 DEF ReadAheadInv
<1>4. CASE InPipeline' => InPipeline /\ UNCHANGED <<spawn, write, window>>
  BY <1>4 DEF ReadAheadInv, MaxReadAhead
<1> QED
  BY Zenon, <1>1, <1>2, <1>3, <1>4
     DEF Next, WorkerStep, CaughtUp, ProbeFails, TopUpDone, HarvestDone, AwaitFetch, WriteFails,
         FinishWindow, SequentialBlock, SequentialFails, ChainGrows, Crash, Restart, Harvest,
         HarvestPanic, FetchDone, ProjectRawBlock, vars, passVars, InPipeline,
         FailPass, FailNodeSide, StallPass, CompletePass, DropPipeline

\* Running fetches and buffered blocks are distinct pending heights.
LEMMA ReadAheadCounted ==
  ASSUME IInv, ReadAheadInv
  PROVE  ReadAheadBounded
<1>0. TypeOK /\ PipelineInv
  BY DEF IInv
<1>t. /\ spawn \in Nat /\ write \in Nat /\ MaxReadAhead \in Nat
  BY <1>0 DEF TypeOK, MaxReadAhead, MaxOf
<1>1. CASE InPipeline
  <2>1. /\ write <= spawn /\ JoinSet \cup ready \subseteq write..(spawn - 1)
        /\ JoinSet \cap ready = {}
    BY <1>0, <1>1 DEF PipelineInv, Pending
  <2>2. /\ IsFiniteSet(write..(spawn - 1))
        /\ Cardinality(write..(spawn - 1)) = spawn - write
    <3> DEFINE last == spawn - 1
    <3>1. write \in Int /\ last \in Int
      BY <1>t
    <3> HIDE DEF last
    <3>2. /\ IsFiniteSet(write..last)
          /\ Cardinality(write..last) = IF write > last THEN 0 ELSE last - write + 1
      BY <3>1, FS_Interval
    <3> QED
      BY <1>t, <2>1, <3>2 DEF last
  <2>3. /\ IsFiniteSet(JoinSet) /\ IsFiniteSet(ready)
        /\ Cardinality(JoinSet \cup ready) <= spawn - write
    <3> DEFINE heights == write..(spawn - 1)
    <3>1. /\ JoinSet \in SUBSET heights /\ ready \in SUBSET heights
          /\ JoinSet \cup ready \in SUBSET heights
      BY <2>1
    <3>2. IsFiniteSet(heights) /\ Cardinality(heights) = spawn - write
      BY <2>2
    <3> HIDE DEF heights
    <3> QED
      BY <3>1, <3>2, FS_Subset
  <2>4. Cardinality(JoinSet \cup ready) = Cardinality(JoinSet) + Cardinality(ready)
    <3>1. /\ Cardinality(JoinSet \cup ready) =
                 Cardinality(JoinSet) + Cardinality(ready) - Cardinality(JoinSet \cap ready)
      BY <2>3, FS_Union
    <3>2. Cardinality(JoinSet \cap ready) = 0
      BY <2>1, FS_EmptySet
    <3>3. Cardinality(JoinSet) \in Nat /\ Cardinality(ready) \in Nat
      BY <2>3, FS_CardinalityType
    <3> QED
      BY <3>1, <3>2, <3>3
  <2>5. spawn - write <= MaxReadAhead
    BY <1>1 DEF ReadAheadInv
  <2>6. Cardinality(JoinSet) + Cardinality(ready) \in Nat
    BY <2>3, FS_CardinalityType
  <2> QED
    BY <1>t, <2>3, <2>4, <2>5, <2>6 DEF ReadAheadBounded
<1>2. CASE ~InPipeline
  <2>1. JoinSet = {} /\ ready = {}
    BY <1>0, <1>2 DEF PipelineInv, JoinSet, NoTasks
  <2>2. Cardinality(JoinSet) = 0 /\ Cardinality(ready) = 0
    BY <2>1, FS_EmptySet
  <2> QED
    BY <1>t, <2>2 DEF ReadAheadBounded
<1> QED
  BY <1>1, <1>2

\* Backpressure: however slow the writer is and however the fetches end, the running
\* fetches and the fetched blocks that wait for it never exceed max_read_ahead
\* (project_window_pipelined's spawn condition).
THEOREM ReadAheadIsBounded == Spec => []ReadAheadBounded
<1>1. Init => ReadAheadInv
  BY DEF Init, ReadAheadInv, InPipeline
<1>2. IInv /\ ReadAheadInv /\ [Next]_vars => ReadAheadInv'
  BY ReadAheadInvStep
<1>3. IInv /\ ReadAheadInv => ReadAheadBounded
  BY ReadAheadCounted
<1> QED
  BY <1>1, <1>2, <1>3, Invariance, PTL DEF Spec

==============================================================================
