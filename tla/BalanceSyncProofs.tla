-------------------------- MODULE BalanceSyncProofs --------------------------
(***************************************************************************)
(* Proofs about BalanceSync for every number of addresses, chain length,   *)
(* batch size, endpoint lag, set of refused addresses and number of        *)
(* faults.                                                                 *)
(***************************************************************************)
EXTENDS BalanceSync, TLAPS

\* Every indexed block that touches a is within reach of an answer of height e, or
\* a is still marked with it or a later one, a mark above m.
Covered(e, a, m) ==
  \A g \in touched[a] : g <= cursor => g <= e + EndpointLag \/ (g <= dirty[a] /\ m < g)

\* What is stored is covered by the marks.
StoredInv ==
  \A a \in Addresses : Covered(bal[a], a, 0) /\ Covered(stake[a], a, 0)

\* An answer held by the pass: it reaches the mark that was read, and every block
\* it does not reach has raised the mark since.
Held(e, a) == batch[a] <= e + EndpointLag /\ Covered(e, a, batch[a])

ReadInv ==
  \A a \in Addresses : batch[a] > 0 =>
    /\ batch[a] <= dirty[a]
    /\ gotInfo[a] # NotRead => Held(gotInfo[a], a)
    /\ gotBal[a] # NotRead => Held(gotBal[a], a)

\* What each phase of the pass has behind it.
PhaseInv ==
  /\ pc = "idle" => gotInfo = NoRead /\ gotBal = NoRead
  /\ pc \in {"balances", "reset"} =>
       \A a \in Addresses : batch[a] > 0 => gotInfo[a] # NotRead
  /\ pc = "reset" =>
       \A a \in updated : /\ batch[a] > 0 /\ gotBal[a] # NotRead
                          /\ bal[a] = gotBal[a] /\ stake[a] = gotInfo[a]

\* The conjunction that is inductive.
IInv == TypeOK /\ StoredInv /\ ReadInv /\ PhaseInv /\ CleanMembership

USE BalanceSyncAssumption

------------------------------------------------------------------------------
LEMMA IInvInit == Init => IInv
<1> SUFFICES ASSUME Init PROVE IInv
  OBVIOUS
<1>1. TypeOK
  BY DEF Init, TypeOK, NoBatch, NoRead, NotRead
<1>2. StoredInv /\ ReadInv /\ PhaseInv /\ CleanMembership
  BY DEF Init, StoredInv, Covered, ReadInv, Held, PhaseInv, CleanMembership, NoBatch,
         NoRead, NotRead
<1> QED
  BY <1>1, <1>2 DEF IInv

\* A step that only lets the chain, the cursor and the marks grow, and that marks
\* every address of a block it puts under the cursor, keeps everything else.
LEMMA GrowthKeeps ==
  ASSUME IInv, NEW C \in Nat, NEW T, NEW D \in [Addresses -> Nat],
         cursor' = C, touched' = T, dirty' = D, TypeOK',
         UNCHANGED <<stored, pc, pass>>,
         \A a \in Addresses : T[a] \subseteq Nat /\ D[a] >= dirty[a],
         \A a \in Addresses : \A g \in T[a] :
           g <= C => (g \in touched[a] /\ g <= cursor) \/ (0 < g /\ g <= D[a])
  PROVE  IInv'
<1> USE DEF stored, pass
<1>t. TypeOK
  BY DEF IInv
<1>c. ASSUME NEW a \in Addresses, NEW e \in Int, NEW m \in Nat, Covered(e, a, m),
             m = 0 \/ m <= e + EndpointLag
      PROVE  \A g \in T[a] : g <= C => g <= e + EndpointLag \/ (g <= D[a] /\ m < g)
  <2> SUFFICES ASSUME NEW g \in T[a], g <= C
               PROVE  g <= e + EndpointLag \/ (g <= D[a] /\ m < g)
    OBVIOUS
  <2>1. g \in Nat /\ dirty[a] \in Nat /\ D[a] \in Nat /\ D[a] >= dirty[a]
    BY <1>t DEF TypeOK
  <2>2. CASE g \in touched[a] /\ g <= cursor
    BY <1>c, <2>1, <2>2 DEF Covered
  <2>3. CASE 0 < g /\ g <= D[a]
    BY <1>c, <2>1, <2>3
  <2> QED
    BY <2>2, <2>3
<1>1. StoredInv'
  <2> SUFFICES ASSUME NEW a \in Addresses
               PROVE  Covered(bal[a], a, 0)' /\ Covered(stake[a], a, 0)'
    BY DEF StoredInv
  <2>1. bal[a] \in Int /\ stake[a] \in Int
    BY <1>t DEF TypeOK
  <2>2. Covered(bal[a], a, 0) /\ Covered(stake[a], a, 0)
    BY DEF IInv, StoredInv
  <2> QED
    BY <1>c, <2>1, <2>2 DEF Covered
<1>2. ReadInv'
  <2> SUFFICES ASSUME NEW a \in Addresses, batch[a] > 0
               PROVE  /\ batch[a] <= D[a]
                      /\ gotInfo[a] # NotRead => Held(gotInfo[a], a)'
                      /\ gotBal[a] # NotRead => Held(gotBal[a], a)'
    BY DEF ReadInv
  <2>1. /\ batch[a] \in Nat /\ gotInfo[a] \in Int /\ gotBal[a] \in Int
        /\ dirty[a] \in Nat /\ D[a] >= dirty[a] /\ D[a] \in Nat
    BY <1>t DEF TypeOK
  <2>2. /\ batch[a] <= dirty[a]
        /\ gotInfo[a] # NotRead => Held(gotInfo[a], a)
        /\ gotBal[a] # NotRead => Held(gotBal[a], a)
    BY DEF IInv, ReadInv
  <2>3. gotInfo[a] # NotRead => Held(gotInfo[a], a)'
    BY <1>c, <2>1, <2>2 DEF Held, Covered
  <2>4. gotBal[a] # NotRead => Held(gotBal[a], a)'
    BY <1>c, <2>1, <2>2 DEF Held, Covered
  <2> QED
    BY <2>1, <2>2, <2>3, <2>4
<1>3. PhaseInv'
  BY Zenon DEF IInv, PhaseInv
<1>4. CleanMembership'
  BY <1>t DEF IInv, CleanMembership, TypeOK
<1> QED
  BY <1>1, <1>2, <1>3, <1>4 DEF IInv

\* Marks only rise, up to the height they are raised to (mark_block_addresses_dirty's
\* GREATEST).
LEMMA MarksRise ==
  ASSUME TypeOK, NEW S, NEW h \in 0..tip, MarkDirty(S, h)
  PROVE  /\ dirty' \in [Addresses -> 0..tip]
         /\ dirty' \in [Addresses -> Nat]
         /\ \A a \in Addresses : dirty'[a] >= dirty[a] /\ (a \in S => dirty'[a] >= h)
  BY DEF TypeOK, MarkDirty, MaxOf

LEMMA EnvironmentKeeps ==
  ASSUME IInv,
         \/ WriteBlock
         \/ \E S \in SUBSET Addresses : ChainGrows(S)
         \/ \E h \in Heights : ReprojectBlock(h) \/ MarkAllBalancesDirty(h)
  PROVE  IInv'
<1>t. TypeOK
  BY DEF IInv
<1>n. \A a \in Addresses : touched[a] \subseteq 1..tip /\ dirty[a] \in 0..tip
  BY <1>t DEF TypeOK
<1>p. tip \in Nat /\ cursor \in Nat /\ cursor <= tip
  BY <1>t DEF TypeOK
<1>1. CASE WriteBlock
  <2> DEFINE S == {a \in Addresses : cursor + 1 \in touched[a]}
  <2>1. /\ cursor' = cursor + 1 /\ cursor + 1 \in 0..tip /\ cursor + 1 \in Nat
        /\ MarkDirty(S, cursor + 1)
        /\ UNCHANGED <<tip, touched, stored, pc, pass, faults>>
    BY <1>1, <1>p DEF WriteBlock
  <2> HIDE DEF S
  <2>2. /\ dirty' \in [Addresses -> 0..tip] /\ dirty' \in [Addresses -> Nat]
        /\ \A a \in Addresses : dirty'[a] >= dirty[a] /\ (a \in S => dirty'[a] >= cursor + 1)
    BY <1>t, <2>1, MarksRise
  <2>3. TypeOK'
    BY <1>t, <2>1, <2>2 DEF TypeOK, stored, pass
  <2>4. ASSUME NEW a \in Addresses, NEW g \in touched[a], g <= cursor + 1
        PROVE  (g \in touched[a] /\ g <= cursor) \/ (0 < g /\ g <= dirty'[a])
    BY <1>n, <1>p, <2>2, <2>4 DEF S
  <2>5. \A a \in Addresses : touched[a] \subseteq Nat
    BY <1>n, <1>p
  <2> QED
    BY <2>1, <2>2, <2>3, <2>4, <2>5, GrowthKeeps
<1>2. ASSUME NEW S \in SUBSET Addresses, ChainGrows(S) PROVE IInv'
  <2> DEFINE T == [a \in Addresses |->
                     IF a \in S THEN touched[a] \cup {tip + 1} ELSE touched[a]]
  <2>1. /\ tip' = tip + 1 /\ tip < MaxHeight /\ touched' = T
        /\ UNCHANGED <<cursor, dirty, stored, pc, pass, faults>>
    BY <1>2 DEF ChainGrows
  <2>2. \A a \in Addresses : T[a] \subseteq 1..(tip + 1)
    BY <1>n, <1>p
  <2>3. T \in [Addresses -> SUBSET (1..(tip + 1))]
    BY <2>2
  <2>4. ASSUME NEW a \in Addresses, NEW g \in T[a], g <= cursor
        PROVE  g \in touched[a] /\ g <= cursor
    BY <1>n, <1>p, <2>4
  <2>5. dirty \in [Addresses -> Nat] /\ \A a \in Addresses : dirty[a] >= dirty[a]
    BY <1>t, <1>p DEF TypeOK
  <2>6. \A a \in Addresses : T[a] \subseteq Nat
    BY <2>2, <1>p
  <2> HIDE DEF T
  <2>7. TypeOK'
    BY <1>t, <1>p, <2>1, <2>3 DEF TypeOK, stored, pass
  <2> QED
    BY <1>p, <2>1, <2>4, <2>5, <2>6, <2>7, GrowthKeeps
<1>3. ASSUME NEW S, NEW h \in 0..tip, MarkDirty(S, h), UNCHANGED <<chain, stored, pc, pass, faults>>
      PROVE  IInv'
  <2>1. /\ dirty' \in [Addresses -> 0..tip] /\ dirty' \in [Addresses -> Nat]
        /\ \A a \in Addresses : dirty'[a] >= dirty[a]
    BY <1>t, <1>3, MarksRise
  <2>2. TypeOK'
    BY <1>t, <1>3, <2>1 DEF TypeOK, chain, stored, pass
  <2>3. \A a \in Addresses : touched[a] \subseteq Nat
    BY <1>n, <1>p
  <2> QED
    BY <1>p, <1>3, <2>1, <2>2, <2>3, GrowthKeeps DEF chain
<1>4. ASSUME NEW h \in Heights, ReprojectBlock(h) \/ MarkAllBalancesDirty(h) PROVE IInv'
  <2>1. h \in 0..tip
    BY <1>4, <1>p DEF ReprojectBlock, MarkAllBalancesDirty, Heights
  <2> QED
    BY <1>3, <1>4, <2>1 DEF ReprojectBlock, MarkAllBalancesDirty
<1> QED
  BY <1>1, <1>2, <1>4

------------------------------------------------------------------------------
\* An answer reaches every block under the cursor when it is given.
LEMMA AnswerHeld ==
  ASSUME TypeOK, NEW a \in Addresses, NEW e \in Answers
  PROVE  e \in Int /\ e <= tip /\ Held(e, a)
<1>1. /\ tip \in Nat /\ cursor \in Nat /\ cursor <= tip /\ touched[a] \subseteq 1..tip
      /\ batch[a] \in Nat /\ batch[a] <= tip
  BY DEF TypeOK
<1>2. e \in Int /\ e <= tip /\ tip <= e + EndpointLag
  BY <1>1 DEF Answers
<1>3. \A g \in touched[a] : g <= cursor => g <= e + EndpointLag
  BY <1>1, <1>2
<1> QED
  BY <1>1, <1>2, <1>3 DEF Held, Covered

\* Steps that read: the marks and what is stored stay as they are.
LEMMA ReadingKeeps ==
  ASSUME IInv,
         \/ SelectBatch
         \/ \E a \in Addresses : FetchAccountInfo(a) \/ FetchAddressBalances(a)
         \/ InfosDone
  PROVE  IInv'
<1>t. TypeOK
  BY DEF IInv
<1>f. UNCHANGED <<chain, dirty, stored>>
  BY DEF SelectBatch, FetchAccountInfo, FetchAddressBalances, InfosDone
<1>s. StoredInv' /\ CleanMembership'
  BY <1>f DEF IInv, StoredInv, Covered, CleanMembership, chain, stored
<1>1. CASE SelectBatch
  <2>1. /\ batch' = [a \in Addresses |-> IF a \in DirtyBatch THEN dirty[a] ELSE 0]
        /\ pc = "idle" /\ pc' = "info" /\ UNCHANGED <<gotInfo, gotBal, updated, faults>>
    BY <1>1 DEF SelectBatch
  <2>2. TypeOK'
    BY <1>t, <1>f, <2>1 DEF TypeOK, chain, stored
  <2>3. \A a \in Addresses : gotInfo[a] = NotRead /\ gotBal[a] = NotRead
    BY <2>1 DEF IInv, PhaseInv, NoRead
  <2>4. ReadInv' /\ PhaseInv'
    BY <1>t, <1>f, <2>1, <2>3 DEF ReadInv, PhaseInv, TypeOK
  <2> QED
    BY <1>s, <2>2, <2>4 DEF IInv
<1>2. ASSUME NEW a \in Addresses, FetchAccountInfo(a) PROVE IInv'
  <2>1. pc = "info" /\ UNCHANGED <<pc, gotBal, updated>>
    BY <1>2 DEF FetchAccountInfo
  <2>2. PhaseInv'
    BY <2>1 DEF PhaseInv
  <2>3. faults' \in 0..MaxFaults
    BY <1>2, <1>t DEF FetchAccountInfo, Fault, TypeOK
  <2>4. CASE \E e \in Answers : e >= 0 /\ gotInfo' = [gotInfo EXCEPT ![a] = e] /\ UNCHANGED batch
    <3>1. PICK e \in Answers : e >= 0 /\ gotInfo' = [gotInfo EXCEPT ![a] = e]
      BY <2>4
    <3>2. e \in 0..tip /\ Held(e, a)
      BY <1>t, <3>1, AnswerHeld DEF TypeOK
    <3>3. TypeOK'
      BY <1>t, <1>f, <2>1, <2>3, <2>4, <3>1, <3>2 DEF TypeOK, chain, stored
    <3>4. ReadInv'
      BY <1>t, <1>f, <2>1, <2>4, <3>1, <3>2
         DEF IInv, ReadInv, Held, Covered, TypeOK, chain
    <3> QED
      BY <1>s, <2>2, <3>3, <3>4 DEF IInv
  <2>5. CASE batch' = [batch EXCEPT ![a] = 0] /\ UNCHANGED gotInfo
    <3>1. TypeOK'
      BY <1>t, <1>f, <2>1, <2>3, <2>5 DEF TypeOK, chain, stored
    <3>2. ReadInv'
      BY <1>t, <1>f, <2>1, <2>5 DEF IInv, ReadInv, Held, Covered, TypeOK, chain
    <3> QED
      BY <1>s, <2>2, <3>1, <3>2 DEF IInv
  <2> QED
    BY <1>2, <2>4, <2>5 DEF FetchAccountInfo
<1>3. ASSUME NEW a \in Addresses, FetchAddressBalances(a) PROVE IInv'
  <2>1. pc = "balances" /\ UNCHANGED <<pc, gotInfo, updated>>
    BY <1>3 DEF FetchAddressBalances
  <2>3. faults' \in 0..MaxFaults
    BY <1>3, <1>t DEF FetchAddressBalances, Fault, TypeOK
  <2>4. CASE \E e \in Answers : e >= 0 /\ gotBal' = [gotBal EXCEPT ![a] = e] /\ UNCHANGED batch
    <3>1. PICK e \in Answers : e >= 0 /\ gotBal' = [gotBal EXCEPT ![a] = e]
      BY <2>4
    <3>2. e \in 0..tip /\ Held(e, a)
      BY <1>t, <3>1, AnswerHeld DEF TypeOK
    <3>3. TypeOK'
      BY <1>t, <1>f, <2>1, <2>3, <2>4, <3>1, <3>2 DEF TypeOK, chain, stored
    <3>4. ReadInv'
      BY <1>t, <1>f, <2>1, <2>4, <3>1, <3>2
         DEF IInv, ReadInv, Held, Covered, TypeOK, chain
    <3>5. PhaseInv'
      BY <2>1, <2>4 DEF IInv, PhaseInv
    <3> QED
      BY <1>s, <3>3, <3>4, <3>5 DEF IInv
  <2>5. CASE batch' = [batch EXCEPT ![a] = 0] /\ UNCHANGED gotBal
    <3>1. TypeOK'
      BY <1>t, <1>f, <2>1, <2>3, <2>5 DEF TypeOK, chain, stored
    <3>2. ReadInv'
      BY <1>t, <1>f, <2>1, <2>5 DEF IInv, ReadInv, Held, Covered, TypeOK, chain
    <3>3. PhaseInv'
      BY <1>t, <2>1, <2>5 DEF IInv, PhaseInv, TypeOK
    <3> QED
      BY <1>s, <3>1, <3>2, <3>3 DEF IInv
  <2> QED
    BY <1>3, <2>4, <2>5 DEF FetchAddressBalances
<1>4. CASE InfosDone
  <2>1. /\ pc' = "balances" /\ UNCHANGED <<pass, faults>>
        /\ \A a \in Addresses : batch[a] > 0 => gotInfo[a] # NotRead
    BY <1>4 DEF InfosDone
  <2>2. TypeOK'
    BY <1>t, <1>f, <2>1 DEF TypeOK, chain, stored, pass
  <2>3. ReadInv' /\ PhaseInv'
    BY <1>f, <2>1 DEF IInv, ReadInv, PhaseInv, Held, Covered, pass, chain
  <2> QED
    BY <1>s, <2>2, <2>3 DEF IInv
<1> QED
  BY <1>1, <1>2, <1>3, <1>4

------------------------------------------------------------------------------
\* A pass that ended holds nothing.
LEMMA EndPassKeeps ==
  ASSUME TypeOK, EndPass, tip' = tip
  PROVE  /\ ReadInv' /\ PhaseInv'
         /\ pc' \in {"idle", "info", "balances", "reset"}
         /\ batch' \in [Addresses -> 0..tip] /\ updated' \subseteq Addresses
         /\ gotInfo' \in [Addresses -> -1..tip] /\ gotBal' \in [Addresses -> -1..tip]
<1>1. /\ pc' = "idle" /\ batch' = NoBatch /\ gotInfo' = NoRead /\ gotBal' = NoRead
      /\ updated' = {}
  BY DEF EndPass
<1>2. ReadInv' /\ PhaseInv'
  BY <1>1 DEF ReadInv, PhaseInv, NoBatch
<1>3. tip \in Nat
  BY DEF TypeOK
<1>4. NoBatch \in [Addresses -> 0..tip] /\ NoRead \in [Addresses -> -1..tip]
  BY <1>3 DEF NoBatch, NoRead, NotRead
<1> QED
  BY <1>1, <1>2, <1>4

\* The first transaction stores answers of addresses that are all still marked.
LEMMA StoreKeeps ==
  ASSUME IInv, pc = "balances", StoreAccounts, UNCHANGED <<chain, dirty>>
  PROVE  /\ StoredInv' /\ CleanMembership'
         /\ bal' \in [Addresses -> 0..tip] /\ stake' \in [Addresses -> 0..tip]
<1>t. TypeOK
  BY DEF IInv
<1>1. ASSUME NEW a \in Fetched
      PROVE  /\ gotBal[a] \in 0..tip /\ gotInfo[a] \in 0..tip
             /\ Covered(gotBal[a], a, 0) /\ Covered(gotInfo[a], a, 0)
             /\ dirty[a] > 0
  <2>1. a \in Addresses /\ batch[a] > 0 /\ gotBal[a] # NotRead /\ gotInfo[a] # NotRead
    BY DEF Fetched, IInv, PhaseInv
  <2>2. /\ gotBal[a] \in -1..tip /\ gotInfo[a] \in -1..tip /\ batch[a] \in 0..tip
        /\ dirty[a] \in 0..tip /\ touched[a] \subseteq 1..tip /\ tip \in Nat
    BY <1>t, <2>1 DEF TypeOK
  <2>3. Held(gotBal[a], a) /\ Held(gotInfo[a], a) /\ batch[a] <= dirty[a]
    BY <2>1 DEF IInv, ReadInv
  <2>4. gotBal[a] \in 0..tip /\ gotInfo[a] \in 0..tip
    BY <2>1, <2>2 DEF NotRead
  <2>5. Covered(gotBal[a], a, 0) /\ Covered(gotInfo[a], a, 0)
    BY <2>2, <2>3 DEF Held, Covered
  <2> QED
    BY <2>1, <2>2, <2>3, <2>4, <2>5
<1>2. /\ bal' = [a \in Addresses |-> IF a \in Fetched THEN gotBal[a] ELSE bal[a]]
      /\ stake' = [a \in Addresses |-> IF a \in Fetched THEN gotInfo[a] ELSE stake[a]]
      /\ member' = member
  BY DEF StoreAccounts
<1>3. bal' \in [Addresses -> 0..tip] /\ stake' \in [Addresses -> 0..tip]
  BY <1>t, <1>1, <1>2 DEF TypeOK
<1>4. StoredInv'
  BY <1>1, <1>2 DEF IInv, StoredInv, Covered, chain
<1>5. CleanMembership'
  BY <1>t, <1>1, <1>2 DEF IInv, CleanMembership, TypeOK
<1> QED
  BY <1>3, <1>4, <1>5

\* The second transaction clears only marks that everything stored reaches.
LEMMA ResetKeeps ==
  ASSUME IInv, pc = "reset", ReconcileStakeMemberships, ResetDirtyBalanceFlags,
         UNCHANGED <<chain, bal, stake>>
  PROVE  /\ StoredInv' /\ CleanMembership'
         /\ dirty' \in [Addresses -> 0..tip] /\ member' \in [Addresses -> 0..tip]
<1>t. TypeOK
  BY DEF IInv
<1>1. /\ dirty' = [a \in Addresses |->
                    IF a \in updated /\ dirty[a] = batch[a] THEN 0 ELSE dirty[a]]
      /\ member' = [a \in Addresses |-> IF a \in updated THEN stake[a] ELSE member[a]]
  BY DEF ReconcileStakeMemberships, ResetDirtyBalanceFlags
<1>2. dirty' \in [Addresses -> 0..tip] /\ member' \in [Addresses -> 0..tip]
  BY <1>t, <1>1 DEF TypeOK
<1>3. ASSUME NEW a \in Addresses PROVE Covered(bal[a], a, 0)' /\ Covered(stake[a], a, 0)'
  <2>1. /\ touched[a] \subseteq 1..tip /\ dirty[a] \in Nat /\ batch[a] \in Nat /\ tip \in Nat
        /\ bal[a] \in Int /\ stake[a] \in Int
    BY <1>t DEF TypeOK
  <2>2. CASE a \in updated /\ dirty[a] = batch[a]
    <3>1. Held(bal[a], a) /\ Held(stake[a], a)
      BY <2>2 DEF IInv, PhaseInv, ReadInv
    <3>2. \A g \in touched[a] : g <= cursor =>
            g <= bal[a] + EndpointLag /\ g <= stake[a] + EndpointLag
      BY <2>1, <2>2, <3>1 DEF Held, Covered
    <3> QED
      BY <3>2 DEF Covered, chain
  <2>3. CASE ~(a \in updated /\ dirty[a] = batch[a])
    <3>1. dirty'[a] = dirty[a]
      BY <1>1, <2>3
    <3>2. Covered(bal[a], a, 0) /\ Covered(stake[a], a, 0)
      BY DEF IInv, StoredInv
    <3> QED
      BY <3>1, <3>2 DEF Covered, chain
  <2> QED
    BY <2>2, <2>3
<1>4. CleanMembership'
  BY <1>t, <1>1 DEF IInv, CleanMembership, TypeOK
<1> QED
  BY <1>2, <1>3, <1>4 DEF StoredInv

\* Steps that store, clear or end.
LEMMA WritingKeeps ==
  ASSUME IInv, PersistBalanceAccounts \/ PersistFails \/ ResetMarks \/ PassLost
  PROVE  IInv'
<1>t. TypeOK
  BY DEF IInv
<1>f. faults' \in 0..MaxFaults
  BY <1>t DEF PersistBalanceAccounts, PersistFails, ResetMarks, PassLost, Fault, TypeOK
<1>1. CASE PersistBalanceAccounts
  <2>1. /\ pc = "balances" /\ pc' = "reset" /\ StoreAccounts /\ updated' \subseteq Fetched
        /\ UNCHANGED <<chain, dirty, batch, gotInfo, gotBal>>
    BY <1>1 DEF PersistBalanceAccounts
  <2>2. /\ StoredInv' /\ CleanMembership'
        /\ bal' \in [Addresses -> 0..tip] /\ stake' \in [Addresses -> 0..tip]
    BY <2>1, StoreKeeps
  <2>3. TypeOK'
    BY <1>t, <1>f, <2>1, <2>2 DEF TypeOK, StoreAccounts, Fetched, chain
  <2>4. ReadInv'
    BY <2>1 DEF IInv, ReadInv, Held, Covered, chain
  <2>5. PhaseInv'
    BY <2>1 DEF IInv, PhaseInv, StoreAccounts, Fetched
  <2> QED
    BY <2>2, <2>3, <2>4, <2>5 DEF IInv
<1>2. CASE PersistFails
  <2>1. pc = "balances" /\ EndPass /\ UNCHANGED <<chain, dirty>>
    BY <1>2 DEF PersistFails
  <2>2. CASE StoreAccounts
    <3>1. /\ StoredInv' /\ CleanMembership'
          /\ bal' \in [Addresses -> 0..tip] /\ stake' \in [Addresses -> 0..tip]
      BY <2>1, <2>2, StoreKeeps
    <3> QED
      BY <1>t, <1>f, <2>1, <2>2, <3>1, EndPassKeeps DEF IInv, TypeOK, StoreAccounts, chain
  <2>3. CASE UNCHANGED stored
    <3>1. StoredInv' /\ CleanMembership'
      BY <2>1, <2>3 DEF IInv, StoredInv, Covered, CleanMembership, chain, stored
    <3> QED
      BY <1>t, <1>f, <2>1, <2>3, <3>1, EndPassKeeps DEF IInv, TypeOK, chain, stored
  <2> QED
    BY <1>2, <2>2, <2>3 DEF PersistFails
<1>3. ASSUME pc = "reset", ReconcileStakeMemberships, ResetDirtyBalanceFlags, EndPass,
             UNCHANGED <<chain, bal, stake>>
      PROVE  IInv'
  <2>1. /\ StoredInv' /\ CleanMembership'
        /\ dirty' \in [Addresses -> 0..tip] /\ member' \in [Addresses -> 0..tip]
    BY <1>3, ResetKeeps
  <2> QED
    BY <1>t, <1>f, <1>3, <2>1, EndPassKeeps DEF IInv, TypeOK, chain
<1>4. CASE EndPass /\ UNCHANGED <<dirty, member>> /\ UNCHANGED <<chain, bal, stake>>
  <2>1. StoredInv' /\ CleanMembership'
    BY <1>4 DEF IInv, StoredInv, Covered, CleanMembership, chain
  <2> QED
    BY <1>t, <1>f, <1>4, <2>1, EndPassKeeps DEF IInv, TypeOK, chain
<1> QED
  BY <1>1, <1>2, <1>3, <1>4 DEF ResetMarks, PassLost

LEMMA IInvStep == IInv /\ [Next]_vars => IInv'
<1> SUFFICES ASSUME IInv, [Next]_vars PROVE IInv'
  OBVIOUS
<1>1. CASE UNCHANGED vars
  BY <1>1 DEF vars, chain, stored, pass, IInv, TypeOK, StoredInv, Covered, ReadInv, Held,
              PhaseInv, CleanMembership
<1> QED
  BY <1>1, EnvironmentKeeps, ReadingKeeps, WritingKeeps DEF Next, Remark, PassStep

------------------------------------------------------------------------------
LEMMA Invariance == Spec => []IInv
  BY IInvInit, IInvStep, PTL DEF Spec

\* The sync's state keeps its types; no mark and no stored height runs ahead of the
\* chain (sync_dirty_balances_once and the marking statements).
THEOREM TypeCorrect == Spec => []TypeOK
<1>1. IInv => TypeOK
  BY DEF IInv
<1> QED
  BY <1>1, Invariance, PTL

\* An unmarked address is never older than its last indexed block, up to the
\* endpoints' lag: comparing the mark in reset_dirty_balance_flags is enough however
\* block writes, re-projections, re-marks, failures and cancellations interleave.
THEOREM UnmarkedIsFresh == Spec => []CleanIsFresh
<1>1. IInv => CleanIsFresh
  <2> SUFFICES ASSUME IInv, NEW a \in Addresses, dirty[a] = 0
               PROVE  Reflects(bal[a], a) /\ Reflects(stake[a], a)
    BY DEF CleanIsFresh
  <2>1. touched[a] \subseteq 1..tip /\ tip \in Nat
    BY DEF IInv, TypeOK
  <2> QED
    BY <2>1 DEF IInv, StoredInv, Covered, Reflects
<1> QED
  BY <1>1, Invariance, PTL

\* An unmarked address's organization membership is the one of its stored stake,
\* although a second transaction derives it (reconcile_stake_memberships).
THEOREM UnmarkedMembership == Spec => []CleanMembership
<1>1. IInv => CleanMembership
  BY DEF IInv
<1> QED
  BY <1>1, Invariance, PTL
==============================================================================
