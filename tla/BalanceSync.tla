----------------------------- MODULE BalanceSync -----------------------------
(***************************************************************************)
(* The dirty-balance sync: block writes mark the addresses they touch,     *)
(* sync_dirty_balances_once reads a batch of marked addresses, asks the    *)
(* node about each one, stores the answers in one transaction and clears   *)
(* the marks in a second one.  Blocks are written, the pass is cancelled   *)
(* and operators re-mark or re-project between any two of its steps.       *)
(*                                                                         *)
(* An account is abstracted to the chain height its answer was read at:    *)
(* an answer of height e reflects at least the blocks up to e.  A balance  *)
(* walk of several pages and lookups is one read at its first page, with   *)
(* the height of its oldest answer: a later page is no further behind the  *)
(* tip of that moment than EndpointLag either.                             *)
(*                                                                         *)
(* One pass runs at a time, as in one worker.  --balance-sync-once in a    *)
(* second process runs a pass beside it, and nothing in the code orders    *)
(* the two: an answer the one read early and stores late can overwrite a   *)
(* newer row whose mark the other has cleared.                             *)
(***************************************************************************)
EXTENDS Integers, FiniteSets

CONSTANTS
  MaxAddress,    \* address ids are 1..MaxAddress
  MaxHeight,     \* bound: the chain does not grow past it
  BatchTiers,    \* the steps of balance_dirty_batch_size: from that many marks, that size
  LagThreshold,  \* BALANCE_SYNC_LAG_THRESHOLD
  EndpointLag,   \* how far behind the tip an endpoint's answer may be
  Unfetchable,   \* addresses the node refuses to answer for
  MaxFaults      \* bound: failed fetches, transactions and cancelled passes

Addresses == 1..MaxAddress
Heights == 1..MaxHeight
NotRead == -1
NoRead == [a \in Addresses |-> NotRead]
NoBatch == [a \in Addresses |-> 0]

ASSUME BalanceSyncAssumption ==
  /\ MaxAddress \in Nat
  /\ MaxHeight \in Nat
  /\ BatchTiers \subseteq [from : Nat, size : Nat]
  /\ \E t \in BatchTiers : t.from = 0
  /\ LagThreshold \in Nat
  /\ EndpointLag \in Nat
  /\ Unfetchable \subseteq Addresses
  /\ MaxFaults \in Nat

VARIABLES
  tip,      \* the chain's height at the most advanced endpoint
  cursor,   \* chains.current_height
  touched,  \* for each address, the heights of the blocks that touch it
  dirty,    \* addresses.balance_dirty_block
  bal,      \* height the stored address_balances rows were read at
  stake,    \* height the stored staked_amount_raw was read at
  member,   \* height of the stake the organization membership was derived from
  pc,       \* where the pass is; "idle" between passes
  batch,    \* dirty_block of every selected address, 0 for the others
  gotInfo,  \* phase 1 answers
  gotBal,   \* phase 2 answers
  updated,  \* updated_dirty_addresses
  faults    \* bound: faults so far

chain == <<tip, cursor, touched>>
stored == <<bal, stake, member>>
pass == <<batch, gotInfo, gotBal, updated>>
vars == <<chain, dirty, stored, pc, pass, faults>>

MaxOf(a, b) == IF a >= b THEN a ELSE b

Init ==
  /\ tip = 0
  /\ cursor = 0
  /\ touched = [a \in Addresses |-> {}]
  /\ dirty = [a \in Addresses |-> 0]
  /\ bal = [a \in Addresses |-> 0]
  /\ stake = [a \in Addresses |-> 0]
  /\ member = [a \in Addresses |-> 0]
  /\ pc = "idle"
  /\ batch = NoBatch
  /\ gotInfo = NoRead
  /\ gotBal = NoRead
  /\ updated = {}
  /\ faults = 0

Fault == faults < MaxFaults /\ faults' = faults + 1

------------------------------------------------------------------------------
(* Marking. *)

\* mark_block_addresses_dirty and mark_all_chain_addresses_dirty: marks only rise.
MarkDirty(S, h) ==
  dirty' = [a \in Addresses |-> IF a \in S THEN MaxOf(dirty[a], h) ELSE dirty[a]]

\* The node's chain grows by a block that touches the addresses of S.
ChainGrows(S) ==
  /\ tip < MaxHeight
  /\ tip' = tip + 1
  /\ touched' = [a \in Addresses |->
                   IF a \in S THEN touched[a] \cup {tip + 1} ELSE touched[a]]
  /\ UNCHANGED <<cursor, dirty, stored, pc, pass, faults>>

\* The transaction that writes the next block marks its addresses.
WriteBlock ==
  /\ cursor < tip
  /\ cursor' = cursor + 1
  /\ MarkDirty({a \in Addresses : cursor + 1 \in touched[a]}, cursor + 1)
  /\ UNCHANGED <<tip, touched, stored, pc, pass, faults>>

\* --project-block marks the addresses of any one block, also above the cursor.
ReprojectBlock(h) ==
  /\ h <= tip
  /\ MarkDirty({a \in Addresses : h \in touched[a]}, h)
  /\ UNCHANGED <<chain, stored, pc, pass, faults>>

\* mark_all_balances_dirty_once of a one-shot process.  The cursor it marks with
\* was read before the update, so blocks may have been written since.
MarkAllBalancesDirty(seen) ==
  /\ seen <= cursor
  /\ MarkDirty(Addresses, seen)
  /\ UNCHANGED <<chain, stored, pc, pass, faults>>

------------------------------------------------------------------------------
(* One pass. *)

\* The heights an endpoint may answer at.
Answers == (tip - EndpointLag)..tip

\* A large backlog is drained in larger batches.
BalanceDirtyBatchSize(count) ==
  LET reached == {t \in BatchTiers : t.from <= count}
  IN  (CHOOSE t \in reached : \A u \in reached : u.from <= t.from).size

\* fetch_dirty_address_batch: the oldest marks first, ids break ties.
Marked == {a \in Addresses : dirty[a] > 0}
Before(b, a) == dirty[b] < dirty[a] \/ (dirty[b] = dirty[a] /\ b < a)
DirtyBatch ==
  {a \in Marked : Cardinality({b \in Marked : Before(b, a)})
                    < BalanceDirtyBatchSize(Cardinality(Marked))}

EndPass ==
  /\ pc' = "idle"
  /\ batch' = NoBatch
  /\ gotInfo' = NoRead
  /\ gotBal' = NoRead
  /\ updated' = {}

\* Up to the batch: the lag gate, and at least one marked address.
SelectBatch ==
  /\ pc = "idle"
  /\ \E rpcTip \in Answers : rpcTip - cursor <= LagThreshold
  /\ Marked # {}
  /\ pc' = "info"
  /\ batch' = [a \in Addresses |-> IF a \in DirtyBatch THEN dirty[a] ELSE 0]
  /\ UNCHANGED <<chain, dirty, stored, gotInfo, gotBal, updated, faults>>

\* Mutant: one address without an answer fails the whole pass.
MutOneFailsAll(a) ==
  /\ pc = "info"
  /\ batch[a] > 0 /\ gotInfo[a] = NotRead
  /\ \/ /\ a \notin Unfetchable
        /\ \E e \in Answers : e >= 0 /\ gotInfo' = [gotInfo EXCEPT ![a] = e]
        /\ UNCHANGED <<pc, batch, gotBal, updated>>
     \/ a \in Unfetchable /\ EndPass
  /\ UNCHANGED <<chain, dirty, stored, faults>>

\* Phase 1: the account overview, from a chunk's getAccountInfos or on its own.
\* An address that gets no answer is dropped from the pass and stays marked.
FetchAccountInfo(a) ==
  /\ pc = "info"
  /\ batch[a] > 0 /\ gotInfo[a] = NotRead
  /\ \/ /\ a \notin Unfetchable
        /\ \E e \in Answers : e >= 0 /\ gotInfo' = [gotInfo EXCEPT ![a] = e]
        /\ UNCHANGED <<batch, faults>>
     \/ /\ \/ a \in Unfetchable /\ UNCHANGED faults
           \/ Fault
        /\ batch' = [batch EXCEPT ![a] = 0]
        /\ UNCHANGED gotInfo
  /\ UNCHANGED <<chain, dirty, stored, pc, gotBal, updated>>

InfosDone ==
  /\ pc = "info"
  /\ \A a \in Addresses : batch[a] > 0 => gotInfo[a] # NotRead
  /\ pc' = "balances"
  /\ UNCHANGED <<chain, dirty, stored, pass, faults>>

\* Phase 2: the JoinSet of per-address balance walks, in any order.
FetchAddressBalances(a) ==
  /\ pc = "balances"
  /\ batch[a] > 0 /\ gotBal[a] = NotRead
  /\ \/ /\ \E e \in Answers : e >= 0 /\ gotBal' = [gotBal EXCEPT ![a] = e]
        /\ UNCHANGED <<batch, faults>>
     \/ /\ Fault
        /\ batch' = [batch EXCEPT ![a] = 0]
        /\ UNCHANGED gotBal
  /\ UNCHANGED <<chain, dirty, stored, pc, gotInfo, updated>>

Fetched == {a \in Addresses : batch[a] > 0 /\ gotBal[a] # NotRead}

\* The writes of upsert_address_account for every fetched account.
StoreAccounts ==
  /\ bal' = [a \in Addresses |-> IF a \in Fetched THEN gotBal[a] ELSE bal[a]]
  /\ stake' = [a \in Addresses |-> IF a \in Fetched THEN gotInfo[a] ELSE stake[a]]
  /\ UNCHANGED member

\* persist_balance_accounts: an account that names an unknown token is stored and
\* stays marked.
PersistBalanceAccounts ==
  /\ pc = "balances"
  /\ \A a \in Addresses : batch[a] > 0 => gotBal[a] # NotRead
  /\ StoreAccounts
  /\ \/ updated' = Fetched /\ UNCHANGED faults
     \/ Fault /\ \E unknown \in SUBSET Fetched : updated' = Fetched \ unknown
  /\ pc' = "reset"
  /\ UNCHANGED <<chain, dirty, batch, gotInfo, gotBal>>

\* The transaction fails, or commits and the answer is lost: either way the pass
\* ends in an error.
PersistFails ==
  /\ pc = "balances"
  /\ \A a \in Addresses : batch[a] > 0 => gotBal[a] # NotRead
  /\ Fault
  /\ StoreAccounts \/ UNCHANGED stored
  /\ EndPass
  /\ UNCHANGED <<chain, dirty>>

\* Mutant: the mark is cleared whatever it is by now.
MutResetUnconditionally ==
  dirty' = [a \in Addresses |-> IF a \in updated THEN 0 ELSE dirty[a]]

\* reset_dirty_balance_flags: only a mark that is still the one read is cleared.
ResetDirtyBalanceFlags ==
  dirty' = [a \in Addresses |-> IF a \in updated /\ dirty[a] = batch[a] THEN 0 ELSE dirty[a]]

\* Mutant: only addresses never seen as a staker before are reconciled.
MutReconcileNewOnly ==
  member' = [a \in Addresses |->
               IF a \in updated /\ member[a] = 0 THEN stake[a] ELSE member[a]]

\* reconcile_stake_memberships, from the stakes the first transaction stored.
ReconcileStakeMemberships ==
  member' = [a \in Addresses |-> IF a \in updated THEN stake[a] ELSE member[a]]

ResetMarks ==
  /\ pc = "reset"
  /\ ReconcileStakeMemberships
  /\ ResetDirtyBalanceFlags
  /\ EndPass
  /\ UNCHANGED <<chain, bal, stake, faults>>

\* The second transaction fails, its answer is lost, or the pass is cancelled by
\* pass_or_shutdown or dies with its process.
PassLost ==
  /\ pc # "idle"
  /\ Fault
  /\ EndPass
  /\ \/ UNCHANGED <<dirty, member>>
     \/ pc = "reset" /\ ReconcileStakeMemberships /\ ResetDirtyBalanceFlags
  /\ UNCHANGED <<chain, bal, stake>>

PassStep ==
  \/ SelectBatch
  \/ \E a \in Addresses : FetchAccountInfo(a) \/ FetchAddressBalances(a)
  \/ InfosDone
  \/ PersistBalanceAccounts
  \/ ResetMarks

\* Operators mark addresses outside the order of the blocks.
Remark == \E h \in Heights : ReprojectBlock(h) \/ MarkAllBalancesDirty(h)

Next ==
  \/ PassStep
  \/ PersistFails
  \/ PassLost
  \/ WriteBlock
  \/ \E S \in SUBSET Addresses : ChainGrows(S)
  \/ Remark

Spec == Init /\ [][Next]_vars

\* The pass runs on every poll tick, every fetch ends, and blocks keep being
\* written.
FairSpec == Spec /\ WF_vars(PassStep) /\ WF_vars(WriteBlock)
------------------------------------------------------------------------------
(* Properties. *)

TypeOK ==
  /\ tip \in 0..MaxHeight
  /\ cursor \in 0..tip
  /\ touched \in [Addresses -> SUBSET (1..tip)]
  /\ dirty \in [Addresses -> 0..tip]
  /\ bal \in [Addresses -> 0..tip]
  /\ stake \in [Addresses -> 0..tip]
  /\ member \in [Addresses -> 0..tip]
  /\ pc \in {"idle", "info", "balances", "reset"}
  /\ batch \in [Addresses -> 0..tip]
  /\ gotInfo \in [Addresses -> -1..tip]
  /\ gotBal \in [Addresses -> -1..tip]
  /\ updated \subseteq Addresses
  /\ faults \in 0..MaxFaults

\* Every block up to the cursor that touches a is reflected in an answer of
\* height e, up to the lag of the endpoint that gave it.
Reflects(e, a) == \A g \in touched[a] : g <= cursor => g <= e + EndpointLag

\* An unmarked address shows balances and a stake no older than the last indexed
\* block that touched it, up to the endpoints' lag: a block written between the
\* fetch and the reset is never forgotten (reset_dirty_balance_flags compares the
\* mark it read).
CleanIsFresh ==
  \A a \in Addresses : dirty[a] = 0 => Reflects(bal[a], a) /\ Reflects(stake[a], a)

\* An unmarked address's organization membership was derived from its stored
\* stake, although the two are written by different transactions and the pass may
\* be lost between them (reconcile_stake_memberships).
CleanMembership ==
  \A a \in Addresses : dirty[a] = 0 => member[a] = stake[a]

\* A batch always has room for more than the refused addresses.
RoomBeyondRefused ==
  \A count \in 1..MaxAddress :
    count > Cardinality(Unfetchable) => BalanceDirtyBatchSize(count) > Cardinality(Unfetchable)

\* Every address the node answers for loses its mark, although the backlog is larger
\* than a batch and refused addresses keep the oldest marks at its head
\* (fetch_dirty_address_batch, fetch_balance_accounts).  Two things are needed: fewer
\* refused addresses than a batch holds, as a batch full of them is selected for ever,
\* and operators who stop marking old heights, which go ahead of the waiting ones.
BacklogDrains ==
  RoomBeyondRefused /\ <>[][~Remark]_vars
    => \A a \in Addresses \ Unfetchable : []<>(dirty[a] = 0)
==============================================================================
