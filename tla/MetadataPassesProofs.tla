------------------------ MODULE MetadataPassesProofs ------------------------
(***************************************************************************)
(* Proofs about MetadataPasses for every set of NFTs and contracts, every  *)
(* batch size and every number of upgrades and outages.                    *)
(***************************************************************************)
EXTENDS MetadataPasses, FiniteSetTheorems, WellFoundedInduction, TLAPS

Answers == {"null", "ok", "error"}

\* The shape of the records, whose fields the passes update one by one.
ShapeInv ==
  /\ node = [nft |-> node.nft, supply |-> node.supply, refused |-> node.refused, abi |-> node.abi, time |-> node.time,
             pending |-> node.pending, changes |-> node.changes, cutoff |-> node.cutoff,
             token |-> node.token]
  /\ pass = [kind |-> pass.kind, todo |-> pass.todo, got |-> pass.got]

\* An error among the answers of an NFT pass is one that an endpoint gave for that token.
NftInv ==
  /\ nfts \in [Nft -> [known : BOOLEAN, burned : BOOLEAN, response : Answers, dated : BOOLEAN]]
  /\ pass.kind = "nft" =>
       /\ \E S : pass.got \in Seq(S)
       /\ \A i \in DOMAIN pass.got :
            /\ pass.got[i].response \in {"ok", "error"} /\ pass.got[i].dated \in BOOLEAN
            /\ pass.got[i].response = "error" /\ pass.got[i].nft \in Nft =>
                 pass.got[i].nft \in node.refused
  /\ OutageNotRemembered

LEMMA NftInit == Init => ShapeInv /\ NftInv
<1> SUFFICES ASSUME Init PROVE ShapeInv /\ NftInv
  OBVIOUS
<1>1. /\ node = [nft |-> [n \in Nft |-> IF n \in Missing THEN "missing" ELSE "ok"], supply |-> Cardinality(Nft),
             refused |-> {}, abi |-> 1, time |-> 1, pending |-> << >>, changes |-> 0, cutoff |-> 0,
             token |-> [t \in Token |-> [keys |-> {}, supply |-> 1]]]
      /\ pass = Idle
  BY DEF Init
<1>2. ShapeInv /\ pass.kind # "nft"
  BY <1>1 DEF ShapeInv, Idle
<1>3. PICK undated \in {{}, Undated} :
        nfts = [n \in Nft |-> [known |-> n = Min(Nft) \/ n \in undated, burned |-> FALSE,
                               response |-> IF n \in undated THEN "ok" ELSE "null", dated |-> FALSE]]
  BY DEF Init
<1>4. nfts \in [Nft -> [known : BOOLEAN, burned : BOOLEAN, response : Answers, dated : BOOLEAN]]
  BY <1>3 DEF Answers
<1>5. OutageNotRemembered
  BY <1>3 DEF OutageNotRemembered
<1> QED
  BY <1>2, <1>4, <1>5 DEF NftInv

\* Every step but those of the NFT passes and of the NFTs themselves.
Elsewhere ==
  /\ nfts' = nfts /\ node'.refused = node.refused /\ ShapeInv'
  /\ pass' = pass \/ pass'.kind # "nft" \/ (pass'.kind = "nft" /\ pass'.got = << >>)

LEMMA ElsewhereKeeps == ShapeInv /\ NftInv /\ Elsewhere => NftInv'
<1> SUFFICES ASSUME NftInv, Elsewhere PROVE NftInv'
  OBVIOUS
<1>1. OutageNotRemembered'
  BY DEF NftInv, Elsewhere, OutageNotRemembered
<1>2. CASE pass' = pass \/ pass'.kind # "nft"
  BY <1>1, <1>2 DEF NftInv, Elsewhere
<1>3. CASE pass'.kind = "nft" /\ pass'.got = << >>
  <2>1. pass'.got \in Seq({}) /\ DOMAIN pass'.got = {}
    BY <1>3
  <2> QED
    BY <1>1, <1>3, <2>1 DEF NftInv, Elsewhere
<1> QED
  BY <1>2, <1>3 DEF Elsewhere

LEMMA EnvironmentElsewhere ==
  ASSUME ShapeInv, Upgrade \/ IndexUpgrade \/ Age \/ NodeChangesToken \/ WindowMoves \/ NextDay
  PROVE  Elsewhere
<1>1. CASE Upgrade
  <2>1. PICK gap \in {0, 1} :
          node' = [node EXCEPT !.abi = @ + 1, !.time = @ + gap,
                               !.pending = Append(@, [contract |-> 1, ts |-> node.time + gap])]
    BY <1>1 DEF Upgrade
  <2>2. UNCHANGED <<nfts, pass>>
    BY <1>1 DEF Upgrade
  <2> QED
    BY <2>1, <2>2 DEF ShapeInv, Elsewhere
<1>2. CASE IndexUpgrade
  BY <1>2 DEF IndexUpgrade, ShapeInv, Elsewhere
<1>3. CASE Age
  BY <1>3 DEF Age, ShapeInv, Elsewhere
<1>4. CASE NodeChangesToken
  <2>1. PICK t \in Listed, keys \in SUBSET Key, supply \in {1, 2} :
          node' = [node EXCEPT !.changes = @ + 1, !.token[t] = [keys |-> keys, supply |-> supply]]
    BY <1>4 DEF NodeChangesToken
  <2>2. UNCHANGED <<nfts, pass>>
    BY <1>4 DEF NodeChangesToken
  <2> QED
    BY <2>1, <2>2 DEF ShapeInv, Elsewhere
<1>5. CASE WindowMoves
  BY <1>5 DEF WindowMoves, ShapeInv, Elsewhere
<1>6. CASE NextDay
  BY <1>6 DEF NextDay, ShapeInv, Elsewhere
<1> QED
  BY <1>1, <1>2, <1>3, <1>4, <1>5, <1>6

LEMMA ScheduledElsewhere ==
  ASSUME ShapeInv, Scheduled \/ OneShot
  PROVE  Elsewhere
<1>1. ASSUME NEW task, NEW kind, NEW candidates, Begin(task, kind, candidates) PROVE Elsewhere
  <2>1. /\ pass' = [kind |-> kind, todo |-> candidates, got |-> << >>] /\ UNCHANGED <<nfts, node>>
    BY <1>1 DEF Begin
  <2> QED
    BY <2>1 DEF ShapeInv, Elsewhere
<1>2. ASSUME NEW task, NEW kind, NEW answer, kind # "nft", Ask(task, kind, answer) PROVE Elsewhere
  <2>1. /\ pass' = [kind |-> kind, todo |-> << >>, got |-> <<answer>>] /\ UNCHANGED <<nfts, node>>
    BY <1>2 DEF Ask
  <2> QED
    BY <1>2, <2>1 DEF ShapeInv, Elsewhere
<1>3. CASE sync_nft_rpc_metadata_once \/ repair_nft_rpc_metadata_once \/ sync_nft_rpc_metadata_for_mint_block
  BY <1>1, <1>3 DEF sync_nft_rpc_metadata_once, repair_nft_rpc_metadata_once, sync_nft_rpc_metadata_for_mint_block
<1>4. CASE \/ sync_series_rpc_metadata_once \/ repair_series_rpc_metadata_once
           \/ sync_contract_rpc_metadata_once \/ sync_contract_upgrade_methods_once
           \/ sync_failed_transaction_debug_comments_once \/ sync_ttrs_offchain_nfts_once
  BY <1>1, <1>4 DEF sync_series_rpc_metadata_once, repair_series_rpc_metadata_once,
     sync_contract_rpc_metadata_once, sync_contract_upgrade_methods_once,
     sync_failed_transaction_debug_comments_once, sync_ttrs_offchain_nfts_once
<1>5. CASE sync_token_metadata_once \/ sync_token_supplies_once \/ fetch_live_prices
  BY <1>2, <1>5 DEF sync_token_metadata_once, sync_token_supplies_once, fetch_live_prices
<1> QED
  BY <1>3, <1>4, <1>5 DEF Scheduled, OneShot

LEMMA PassElsewhere ==
  ASSUME ShapeInv,
         \/ fetch_series_rpc_metadata \/ FetchContract \/ update_failed_transaction_debug_comment
         \/ update_nft_offchain_metadata \/ sync_token_prices_once \/ backfill_day
         \/ ApplyTokens \/ ApplySeries \/ ApplyContract \/ EndPass \/ EndPrices \/ AbortPass
  PROVE  Elsewhere
<1>1. UNCHANGED <<node, nfts>>
  BY DEF fetch_series_rpc_metadata, FetchContract, update_failed_transaction_debug_comment,
     update_nft_offchain_metadata, sync_token_prices_once, backfill_day, ApplyTokens,
     ApplySeries, ApplyContract, EndPass, EndPrices, AbortPass
<1>2. ASSUME pass' = Idle PROVE Elsewhere
  BY <1>1, <1>2 DEF Idle, ShapeInv, Elsewhere
<1>3. ASSUME pass.kind # "nft", NEW todo, NEW got, pass' = [pass EXCEPT !.todo = todo, !.got = got]
      PROVE  Elsewhere
  BY <1>1, <1>3 DEF ShapeInv, Elsewhere
<1>4. ASSUME pass.kind # "nft", NEW todo, pass' = [pass EXCEPT !.todo = todo] PROVE Elsewhere
  BY <1>1, <1>4 DEF ShapeInv, Elsewhere
<1>5. ASSUME pass.kind # "nft", NEW got, pass' = [pass EXCEPT !.got = got] PROVE Elsewhere
  BY <1>1, <1>5 DEF ShapeInv, Elsewhere
<1>6. CASE \/ update_nft_offchain_metadata \/ ApplyTokens \/ ApplySeries \/ EndPass \/ EndPrices
           \/ AbortPass
  BY <1>2, <1>6 DEF update_nft_offchain_metadata, ApplyTokens, ApplySeries, EndPass, EndPrices,
     AbortPass
<1>7. CASE fetch_series_rpc_metadata
  <2>1. pass.kind # "nft" /\ \E answers : pass' = [pass EXCEPT !.todo = Tail(@), !.got = @ \o answers]
    BY <1>7 DEF fetch_series_rpc_metadata, Got
  <2> QED
    BY <1>3, <2>1
<1>8. CASE FetchContract
  <2>1. pass.kind # "nft"
    BY <1>8 DEF FetchContract
  <2>2. \/ \E got : pass' = [pass EXCEPT !.got = got]
        \/ pass' = [pass EXCEPT !.todo = Tail(@), !.got = @ \o << >>]
    BY <1>8 DEF FetchContract, Got
  <2> QED
    BY <1>3, <1>5, <2>1, <2>2
<1>9. CASE ApplyContract
  <2>1. pass.kind # "nft" /\ pass' = [pass EXCEPT !.todo = Tail(@), !.got = << >>]
    BY <1>9 DEF ApplyContract
  <2> QED
    BY <1>3, <2>1
<1>10. CASE update_failed_transaction_debug_comment
  <2>1. pass.kind # "nft" /\ pass' = [pass EXCEPT !.todo = Tail(@), !.got = @ \o << >>]
    BY <1>10 DEF update_failed_transaction_debug_comment, Got
  <2> QED
    BY <1>3, <2>1
<1>11. CASE sync_token_prices_once
  <2>1. pass' = Idle \/ pass' = [kind |-> "prices", todo |-> <<FirstDay, 0, tokens.today>>, got |-> << >>]
    BY <1>11 DEF sync_token_prices_once
  <2> QED
    BY <1>1, <1>2, <2>1 DEF ShapeInv, Elsewhere
<1>12. CASE backfill_day
  <2>1. pass.kind # "nft"
    BY <1>12 DEF backfill_day
  <2>2. \/ pass' = Idle
        \/ \E day : pass' = [pass EXCEPT !.todo = <<day + 1, @[2] + 1, @[3]>>]
    BY <1>12 DEF backfill_day
  <2> QED
    BY <1>2, <1>4, <2>1, <2>2
<1> QED
  BY <1>6, <1>7, <1>8, <1>9, <1>10, <1>11, <1>12

NftRow == [known : BOOLEAN, burned : BOOLEAN, response : Answers, dated : BOOLEAN]

\* One answer more.
LEMMA ConcatOne ==
  ASSUME NEW T, NEW s \in Seq(T), NEW u \in T
  PROVE  /\ DOMAIN (s \o <<u>>) = 1..(Len(s) + 1) /\ DOMAIN s = 1..Len(s)
         /\ \A i \in 1..(Len(s) + 1) : (s \o <<u>>)[i] = IF i <= Len(s) THEN s[i] ELSE u
<1>1. <<u>> \in Seq(T) /\ Len(<<u>>) = 1 /\ <<u>>[1] = u
  OBVIOUS
<1>2. Len(s) \in Nat /\ DOMAIN s = 1..Len(s)
  OBVIOUS
<1>3. s \o <<u>> \in Seq(T) /\ Len(s \o <<u>>) = Len(s) + 1
  BY <1>1
<1>4. ASSUME NEW i \in 1..(Len(s) + 1)
      PROVE  (s \o <<u>>)[i] = IF i <= Len(s) THEN s[i] ELSE u
  BY <1>1, <1>2
<1> QED
  BY <1>2, <1>3, <1>4

LEMMA NftStep ==
  ASSUME ShapeInv, NftInv, [Next]_vars
  PROVE  ShapeInv' /\ NftInv'
<1>0. nfts \in [Nft -> NftRow] /\ OutageNotRemembered
  BY DEF NftInv, NftRow
<1>1. ASSUME Elsewhere PROVE ShapeInv' /\ NftInv'
  BY <1>1, ElsewhereKeeps DEF Elsewhere
<1>2. CASE ListNft
  <2>1. PICK n \in Nft : nfts' = [nfts EXCEPT ![n].known = TRUE]
    BY <1>2 DEF ListNft
  <2>2. UNCHANGED <<node, pass>>
    BY <1>2 DEF ListNft
  <2>3. nfts' \in [Nft -> NftRow] /\ \A m \in Nft : nfts'[m].response = nfts[m].response
    BY <1>0, <2>1 DEF NftRow
  <2> QED
    BY <2>2, <2>3 DEF ShapeInv, NftInv, NftRow, OutageNotRemembered
<1>3. CASE NodeBurns
  <2>1. PICK n \in Nft : node' = [node EXCEPT !.nft[n] = "missing", !.supply = @ - 1]
    BY <1>3 DEF NodeBurns
  <2>2. UNCHANGED <<nfts, pass>>
    BY <1>3 DEF NodeBurns
  <2>3. ShapeInv' /\ node'.refused = node.refused
    BY <2>1, <2>2 DEF ShapeInv
  <2> QED
    BY <2>2, <2>3 DEF NftInv, OutageNotRemembered
<1>4. CASE IndexBurn
  <2>1. PICK n \in Nft : nfts' = [nfts EXCEPT ![n].burned = TRUE]
    BY <1>4 DEF IndexBurn
  <2>2. UNCHANGED <<node, pass>>
    BY <1>4 DEF IndexBurn
  <2>3. nfts' \in [Nft -> NftRow] /\ \A m \in Nft : nfts'[m].response = nfts[m].response
    BY <1>0, <2>1 DEF NftRow
  <2> QED
    BY <2>2, <2>3 DEF ShapeInv, NftInv, NftRow, OutageNotRemembered
<1>5. CASE fetch_nft_rpc_metadata
  <2>1. pass.kind = "nft" /\ nfts' = nfts
    BY <1>5 DEF fetch_nft_rpc_metadata
  <2>2. PICK answers, item :
          /\ pass' = [pass EXCEPT !.todo = Tail(@), !.got = @ \o answers]
          /\ \/ answers = << >>
             \/ answers = <<[nft |-> item, response |-> "ok", dated |-> TRUE]>>
             \/ /\ answers = <<[nft |-> item, response |-> "error", dated |-> FALSE]>>
                /\ node' = [node EXCEPT !.refused = @ \union {item}]
          /\ node' = node \/ node' = [node EXCEPT !.refused = @ \union {item}]
    BY <1>5 DEF fetch_nft_rpc_metadata, Got, record_nft_metadata_fetch_failure,
       nft_result_to_metadata_upsert, nft_error_to_metadata_upsert
  <2>3. /\ ShapeInv' /\ pass'.kind = pass.kind /\ pass'.got = pass.got \o answers
        /\ node'.refused \in {node.refused, node.refused \union {item}}
    BY <2>1, <2>2 DEF ShapeInv
  <2>4. CASE answers = << >>
    <3>1. pass'.got = pass.got
      BY <2>1, <2>3, <2>4 DEF NftInv
    <3> QED
      BY <2>1, <2>3, <3>1 DEF NftInv, OutageNotRemembered
  <2>5. ASSUME NEW u, answers = <<u>>, u.response \in {"ok", "error"}, u.dated \in BOOLEAN,
               u.response = "error" => u.nft \in node'.refused
        PROVE  NftInv'
    <3>1. PICK S : pass.got \in Seq(S)
      BY <2>1 DEF NftInv
    <3> DEFINE T == S \cup {u}
               got == pass.got
    <3>2. got \in Seq(T) /\ answers \in Seq(T) /\ Len(answers) = 1 /\ answers[1] = u
      BY <2>5, <3>1
    <3>3. got \o answers \in Seq(T)
      BY <3>2
    <3>a. got = pass.got
      OBVIOUS
    <3>b. u \in T
      OBVIOUS
    <3> HIDE DEF T, got
    <3>4. /\ DOMAIN (got \o answers) = 1..(Len(got) + 1) /\ DOMAIN got = 1..Len(got)
          /\ \A i \in 1..(Len(got) + 1) : (got \o answers)[i] = IF i <= Len(got) THEN got[i] ELSE u
      BY <2>5, <3>2, <3>b, ConcatOne
    <3>5. ASSUME NEW i \in DOMAIN pass'.got
          PROVE  /\ pass'.got[i].response \in {"ok", "error"} /\ pass'.got[i].dated \in BOOLEAN
                 /\ pass'.got[i].response = "error" /\ pass'.got[i].nft \in Nft =>
                      pass'.got[i].nft \in node'.refused
      <4>1. i \in 1..(Len(got) + 1) /\ pass'.got[i] = IF i <= Len(got) THEN got[i] ELSE u
        BY <2>3, <3>4, <3>a
      <4>2. i <= Len(got) => i \in DOMAIN pass.got
        BY <3>2, <3>4, <3>a, <4>1
      <4> QED
        BY <2>1, <2>3, <2>5, <3>a, <4>1, <4>2 DEF NftInv
    <3> QED
      BY <1>0, <2>1, <2>3, <3>3, <3>a, <3>5 DEF NftInv, OutageNotRemembered, NftRow
  <2>6. CASE answers = <<[nft |-> item, response |-> "ok", dated |-> TRUE]>>
    BY <2>3, <2>5, <2>6
  <2>7. CASE /\ answers = <<[nft |-> item, response |-> "error", dated |-> FALSE]>>
             /\ node' = [node EXCEPT !.refused = @ \union {item}]
    <3>1. item \in node'.refused
      BY <2>7 DEF ShapeInv
    <3> QED
      BY <2>3, <2>5, <2>7, <3>1
  <2> QED
    BY <2>2, <2>3, <2>4, <2>6, <2>7
<1>6. CASE ApplyNfts
  <2>1. /\ pass.kind = "nft" /\ node' = node /\ pass' = Idle
        /\ nfts' = apply_nft_rpc_metadata(nfts, pass.got)
    BY <1>6 DEF ApplyNfts
  <2>2. ShapeInv' /\ pass'.kind # "nft"
    BY <2>1 DEF ShapeInv, Idle
  <2>3. ASSUME NEW n \in Nft
        PROVE  nfts'[n] \in NftRow /\ (nfts'[n].response = "error" => n \in node.refused)
    <3>1. CASE \E u \in Range(pass.got) : u.nft = n
      <4> DEFINE v == CHOOSE u \in Range(pass.got) : u.nft = n
      <4>1. v \in Range(pass.got) /\ v.nft = n
        BY <3>1
      <4>2. nfts'[n] = [nfts[n] EXCEPT !.response = v.response, !.dated = @ \/ v.dated]
        BY <2>1, <3>1 DEF apply_nft_rpc_metadata
      <4> HIDE DEF v
      <4>3. PICK i \in DOMAIN pass.got : pass.got[i] = v
        BY <4>1 DEF Range
      <4>4. /\ v.response \in {"ok", "error"} /\ v.dated \in BOOLEAN
            /\ v.response = "error" => n \in node.refused
        BY <2>1, <4>1, <4>3 DEF NftInv
      <4>5. (nfts[n].dated \/ v.dated) \in BOOLEAN
        OBVIOUS
      <4>6. nfts[n] \in NftRow
        BY <1>0
      <4>7. nfts'[n] \in NftRow /\ nfts'[n].response = v.response
        BY <4>2, <4>4, <4>5, <4>6 DEF NftRow, Answers
      <4> QED
        BY <4>4, <4>7
    <3>2. CASE ~\E u \in Range(pass.got) : u.nft = n
      <4>1. nfts'[n] = nfts[n]
        BY <2>1, <3>2 DEF apply_nft_rpc_metadata
      <4> QED
        BY <1>0, <4>1 DEF OutageNotRemembered
    <3> QED
      BY <3>1, <3>2
  <2>4. nfts' \in [Nft -> NftRow]
    <3>1. DOMAIN nfts' = Nft /\ nfts' = [n \in Nft |-> nfts'[n]]
      BY <2>1 DEF apply_nft_rpc_metadata
    <3> QED
      BY <2>3, <3>1
  <2> QED
    BY <1>0, <2>1, <2>2, <2>3, <2>4 DEF NftInv, NftRow, OutageNotRemembered
<1>7. CASE UNCHANGED vars
  BY <1>7 DEF vars, ShapeInv, NftInv, OutageNotRemembered
<1> QED
  BY <1>1, <1>2, <1>3, <1>4, <1>5, <1>6, <1>7, EnvironmentElsewhere, ScheduledElsewhere, PassElsewhere
     DEF Next, Environment, Fetch, Finish

\* An NFT is stored as unresolvable only when an endpoint answered for this token with an error
\* of its own (record_nft_metadata_fetch_failure, apply_nft_rpc_metadata): whatever burns, outages
\* and aborted passes fall between the request and the commit, and whatever tokens share the
\* batch, no transport failure is remembered as a permanent one.
THEOREM OutagesNotRemembered == Spec => []OutageNotRemembered
<1>1. ShapeInv /\ NftInv /\ [Next]_vars => (ShapeInv /\ NftInv)'
  BY NftStep
<1>2. NftInv => OutageNotRemembered
  BY DEF NftInv
<1> QED
  BY NftInit, <1>1, <1>2, PTL DEF Spec

------------------------------------------------------------------------------
(* Contract methods. *)

Method == [ts : Nat, abi : Nat]
UpgradeEvent == [contract : {1}, ts : Nat]
InOrder(s) == \A i, j \in DOMAIN s : i <= j => s[i].ts <= s[j].ts

\* The stored methods of a contract have the ABIs in the order they were stored, and the
\* contract is linked to the last one.
StoredInv ==
  /\ contracts = [order |-> contracts.order, stale |-> contracts.stale, methods |-> contracts.methods,
                  link |-> contracts.link, upgrades |-> contracts.upgrades]
  /\ contracts.methods \in [Contract -> Seq(Method)]
  /\ contracts.link = [c \in Contract |-> Len(contracts.methods[c])]
  /\ \A c \in Contract : \A i, j \in DOMAIN contracts.methods[c] :
       i <= j => contracts.methods[c][i].abi <= contracts.methods[c][j].abi

\* Upgrades are stored, and reach the table, in the order of their timestamps.
EventInv ==
  /\ node.time \in Nat /\ node.abi \in Nat
  /\ contracts.upgrades \in Seq(UpgradeEvent) /\ node.pending \in Seq(UpgradeEvent)
  /\ InOrder(contracts.upgrades) /\ InOrder(node.pending)
  /\ \A i \in DOMAIN contracts.upgrades :
       /\ contracts.upgrades[i].ts <= node.time
       /\ \A j \in DOMAIN node.pending : contracts.upgrades[i].ts <= node.pending[j].ts
  /\ \A j \in DOMAIN node.pending : node.pending[j].ts <= node.time

\* An ABI held by the running pass is no older than any stored one.
HeldInv ==
  /\ \A c \in Contract : \A i \in DOMAIN contracts.methods[c] : contracts.methods[c][i].abi <= node.abi
  /\ pass.kind \in {"contract", "upgrade"} /\ pass.got # << >> =>
       /\ pass.got[1].abi \in Nat /\ pass.got[1].abi <= node.abi
       /\ pass.kind = "upgrade" => pass.todo # << >>
       /\ \A c \in Contract : \A i \in DOMAIN contracts.methods[c] :
            contracts.methods[c][i].abi <= pass.got[1].abi

\* What an upgrade pass still has to fetch has no method yet, unless it shares its timestamp with
\* the upgrade the pass has stored last; the method of that timestamp is then the last one.
Unmet(todo, methods) ==
  /\ todo \in Seq(UpgradeEvent) /\ InOrder(todo)
  /\ \A j \in DOMAIN todo : (\E i \in DOMAIN methods : methods[i].ts = todo[j].ts) =>
       todo[j].ts = todo[1].ts /\ methods[Len(methods)].ts = todo[j].ts
TodoInv == pass.kind = "upgrade" => Unmet(pass.todo, contracts.methods[1])

MethodInv == StoredInv /\ EventInv /\ HeldInv /\ TodoInv
------------------------------------------------------------------------------
(* The upgrades without a method, collected by a fold. *)

\* A set of natural numbers has a least element.
LEMMA LeastNatural ==
  ASSUME NEW T \in SUBSET Nat, T # {}
  PROVE  \E m \in T : \A k \in T : m <= k
<1>1. PICK m \in T : \A k \in T : ~ (<<k, m>> \in OpToRel(<, Nat))
  BY NatLessThanWellFounded, WFMin
<1>2. \A k \in T : ~ (k < m)
  BY <1>1 DEF OpToRel
<1> QED
  BY <1>2

LEMMA UpwardInduction ==
  ASSUME NEW Good, 0 \in Good, \A k \in Nat : k \in Good => k + 1 \in Good
  PROVE  \A k \in Nat : k \in Good
<1> DEFINE Bad == {k \in Nat : k \notin Good}
<1> SUFFICES ASSUME Bad # {} PROVE FALSE
  OBVIOUS
<1>1. PICK m \in Bad : \A k \in Bad : m <= k
  BY LeastNatural
<1>2. m \in Nat /\ m # 0 /\ m \notin Good
  OBVIOUS
<1>3. m - 1 \in Nat /\ m - 1 \notin Bad
  <2> HIDE DEF Bad
  <2> QED
    BY <1>1, <1>2
<1>4. m - 1 \in Good
  BY <1>3
<1> QED
  BY <1>2, <1>3, <1>4

LEMMA MaxIn ==
  ASSUME NEW n \in Nat, NEW t \in SUBSET (1..n), t # {}
  PROVE  Max(t) \in t /\ \A x \in t : x <= Max(t)
<1> DEFINE T == {n - x : x \in t}
<1>1. T \in SUBSET Nat /\ T # {}
  <2>1. \A x \in t : n - x \in Nat
    OBVIOUS
  <2> QED
    BY <2>1
<1>2. PICK m \in T : \A k \in T : m <= k
  BY <1>1, LeastNatural
<1>3. PICK y \in t : m = n - y
  BY <1>2
<1>4. \A x \in t : x <= y
  <2> TAKE x \in t
  <2>1. n - x \in T
    OBVIOUS
  <2>2. n - y <= n - x
    BY <1>2, <1>3, <2>1
  <2> QED
    BY <2>2
<1> QED
  BY <1>4 DEF Max

\* The fold that collects the upgrades without a method, over any set of their positions.
Collect(F, s, t) ==
  IF t = {} THEN << >>
  ELSE IF Recorded(s[Max(t)]) THEN F[t \ {Max(t)}] ELSE Append(F[t \ {Max(t)}], s[Max(t)])
Collects(F, s) == F = [t \in SUBSET DOMAIN s |-> Collect(F, s, t)]

LEMMA CollectDef ==
  ASSUME NEW s
  PROVE ForEach(LAMBDA due, u : IF Recorded(u) THEN due ELSE Append(due, u), << >>, s)
        = (CHOOSE F : Collects(F, s))[DOMAIN s]
  BY DEF ForEach, MapThenFoldSet, Collects, Collect

LEMMA CollectExists ==
  ASSUME NEW s, NEW n \in Nat, DOMAIN s = 1..n
  PROVE  \E F : Collects(F, s)
<1> DEFINE Solves(F, k) == F = [t \in SUBSET (1..k) |-> Collect(F, s, t)]
           Good == {k \in Nat : \E F : Solves(F, k)}
<1>1. 0 \in Good
  <2> DEFINE F == [t \in SUBSET (1..0) |-> << >>]
  <2>1. \A t \in SUBSET (1..0) : t = {}
    OBVIOUS
  <2>2. F = [t \in SUBSET (1..0) |-> Collect(F, s, t)]
    BY <2>1 DEF Collect
  <2> QED
    BY <2>2
<1>2. ASSUME NEW k \in Nat, k \in Good PROVE k + 1 \in Good
  <2>0. k + 1 \in Nat
    OBVIOUS
  <2>1. PICK F : Solves(F, k)
    BY <1>2
  <2> DEFINE G == [t \in SUBSET (1..(k + 1)) |-> Collect(F, s, t)]
  <2>2. ASSUME NEW t \in SUBSET (1..(k + 1)) PROVE Collect(F, s, t) = Collect(G, s, t)
    <3>1. CASE t = {}
      BY <3>1 DEF Collect
    <3>2. CASE t # {}
      <4> DEFINE r == t \ {Max(t)}
      <4>1. Max(t) \in t /\ \A x \in t : x <= Max(t)
        BY <2>0, <3>2, MaxIn
      <4>2. r \in SUBSET (1..k) /\ r \in SUBSET (1..(k + 1))
        <5>1. ASSUME NEW x \in t, x # Max(t) PROVE x \in 1..k
          <6>1. x \in 1..(k + 1) /\ Max(t) \in 1..(k + 1) /\ x <= Max(t)
            BY <4>1
          <6> QED
            BY <5>1, <6>1
        <5> QED
          BY <5>1
      <4>3. F[r] = Collect(F, s, r)
        BY <2>1, <4>2
      <4>4. G[r] = Collect(F, s, r)
        BY <4>2
      <4> QED
        BY <3>2, <4>3, <4>4 DEF Collect
    <3> QED
      BY <3>1, <3>2
  <2>3. Solves(G, k + 1)
    BY <2>2
  <2> QED
    BY <2>0, <2>3
<1> HIDE DEF Good
<1>3. n \in Good
  BY <1>1, <1>2, UpwardInduction
<1> QED
  BY <1>3 DEF Good, Collects

LEMMA CollectPrefix ==
  ASSUME NEW s, NEW n \in Nat, DOMAIN s = 1..n, NEW F, Collects(F, s)
  PROVE  /\ F[1..0] = << >>
         /\ \A k \in 1..n : F[1..k] = IF Recorded(s[k]) THEN F[1..(k - 1)] ELSE Append(F[1..(k - 1)], s[k])
<1>1. F[1..0] = Collect(F, s, 1..0) /\ 1..0 = {}
  BY DEF Collects
<1>2. ASSUME NEW k \in 1..n
      PROVE  F[1..k] = IF Recorded(s[k]) THEN F[1..(k - 1)] ELSE Append(F[1..(k - 1)], s[k])
  <2>0. \A x \in 1..k : x \in 1..n
    OBVIOUS
  <2>a. k \in 1..k
    OBVIOUS
  <2>1. 1..k \in SUBSET (1..n) /\ 1..k # {} /\ k \in 1..k
    BY <2>0, <2>a
  <2>2. Max(1..k) \in 1..k /\ \A x \in 1..k : x <= Max(1..k)
    BY <2>1, MaxIn
  <2>3. Max(1..k) = k
    BY <2>1, <2>2
  <2>4. (1..k) \ {k} = 1..(k - 1)
    OBVIOUS
  <2>5. F[1..k] = Collect(F, s, 1..k)
    BY <2>1 DEF Collects
  <2> QED
    BY <2>1, <2>3, <2>4, <2>5 DEF Collect
<1> QED
  BY <1>1, <1>2 DEF Collect

\* The upgrades without a method, in the order of the table.
LEMMA CollectInOrder ==
  ASSUME NEW s \in Seq(UpgradeEvent), InOrder(s), NEW F, Collects(F, s), NEW r, r = F[DOMAIN s]
  PROVE  r \in Seq(UpgradeEvent) /\ InOrder(r) /\ \A j \in DOMAIN r : ~Recorded(r[j])
<1> DEFINE n == Len(s)
           P(q, k) == /\ q \in Seq(UpgradeEvent) /\ InOrder(q) /\ \A j \in DOMAIN q : ~Recorded(q[j])
                      /\ \A j \in DOMAIN q : \A i \in (k + 1)..n : q[j].ts <= s[i].ts
<1>1. n \in Nat /\ DOMAIN s = 1..n
  OBVIOUS
<1>3. /\ F[1..0] = << >>
      /\ \A k \in 1..n : F[1..k] = IF Recorded(s[k]) THEN F[1..(k - 1)] ELSE Append(F[1..(k - 1)], s[k])
  BY <1>1, CollectPrefix
<1> HIDE DEF n
<1>4. P(<< >>, 0)
  BY DEF InOrder
<1>5. ASSUME NEW k \in 0..(n - 1), NEW q, P(q, k)
      PROVE  P(q, k + 1) /\ (~Recorded(s[k + 1]) => P(Append(q, s[k + 1]), k + 1))
  <2>0. k \in Nat /\ k + 1 \in 1..n /\ (\A i \in (k + 2)..n : i \in (k + 1)..n /\ i \in 1..n /\ k + 1 <= i)
        /\ k + 1 \in (k + 1)..n /\ k + 1 + 1 = k + 2
    BY <1>1
  <2>1. P(q, k + 1)
    BY <1>5, <2>0
  <2>2. ASSUME ~Recorded(s[k + 1]) PROVE P(Append(q, s[k + 1]), k + 1)
    <3> DEFINE u == s[k + 1]
    <3>1. u \in UpgradeEvent /\ ~Recorded(u) /\ \A i \in (k + 2)..n : u.ts <= s[i].ts
      BY <1>1, <2>0, <2>2 DEF InOrder
    <3>2. q \in Seq(UpgradeEvent) /\ \A j \in DOMAIN q : q[j].ts <= u.ts /\ ~Recorded(q[j])
      BY <1>5, <2>0
    <3>3. \A j \in DOMAIN q : \A i \in (k + 2)..n : q[j].ts <= s[i].ts
      BY <1>5, <2>0
    <3> HIDE DEF u
    <3>4. Append(q, u) \in Seq(UpgradeEvent) /\ DOMAIN Append(q, u) = 1..(Len(q) + 1) /\ Len(q) \in Nat
          /\ DOMAIN q = 1..Len(q)
      BY <3>1, <3>2
    <3>5. \A j \in 1..(Len(q) + 1) : Append(q, u)[j] = IF j <= Len(q) THEN q[j] ELSE u
      BY <3>1, <3>2
    <3>6. InOrder(Append(q, u))
      <4> SUFFICES ASSUME NEW i \in 1..(Len(q) + 1), NEW j \in 1..(Len(q) + 1), i <= j
                   PROVE  Append(q, u)[i].ts <= Append(q, u)[j].ts
        BY <3>4 DEF InOrder
      <4>1. CASE j <= Len(q)
        <5>1. i \in DOMAIN q /\ j \in DOMAIN q /\ Append(q, u)[i] = q[i] /\ Append(q, u)[j] = q[j]
          BY <3>4, <3>5, <4>1
        <5> QED
          BY <1>5, <5>1 DEF InOrder
      <4>2. CASE ~(j <= Len(q)) /\ i <= Len(q)
        <5>1. i \in DOMAIN q /\ Append(q, u)[i] = q[i] /\ Append(q, u)[j] = u
          BY <3>4, <3>5, <4>2
        <5> QED
          BY <3>2, <5>1
      <4>3. CASE ~(j <= Len(q)) /\ ~(i <= Len(q))
        <5>1. Append(q, u)[i] = u /\ Append(q, u)[j] = u /\ u.ts \in Nat
          BY <3>1, <3>5, <4>3 DEF UpgradeEvent
        <5> QED
          BY <5>1
      <4> QED
        BY <4>1, <4>2, <4>3
    <3>7. ASSUME NEW j \in DOMAIN Append(q, u)
          PROVE  ~Recorded(Append(q, u)[j]) /\ \A i \in (k + 2)..n : Append(q, u)[j].ts <= s[i].ts
      <4>1. j \in 1..(Len(q) + 1) /\ (j <= Len(q) => j \in DOMAIN q)
        BY <3>4
      <4>2. CASE j <= Len(q)
        <5>1. Append(q, u)[j] = q[j] /\ j \in DOMAIN q
          BY <3>5, <4>1, <4>2
        <5> QED
          BY <3>2, <3>3, <5>1
      <4>3. CASE ~(j <= Len(q))
        <5>1. Append(q, u)[j] = u
          BY <3>5, <4>1, <4>3
        <5> QED
          BY <3>1, <5>1
      <4> QED
        BY <4>2, <4>3
    <3>8. P(Append(q, u), k + 1)
      BY <2>0, <3>4, <3>6, <3>7
    <3> QED
      BY <3>8 DEF u
  <2> QED
    BY <2>1, <2>2
<1> DEFINE Good == {k \in Nat : k <= n => P(F[1..k], k)}
<1>6. 0 \in Good
  BY <1>3, <1>4
<1>7. ASSUME NEW k \in Nat, k \in Good PROVE k + 1 \in Good
  <2> SUFFICES ASSUME k + 1 <= n PROVE P(F[1..(k + 1)], k + 1)
    OBVIOUS
  <2>1. k \in 0..(n - 1) /\ k + 1 \in 1..n /\ k + 1 - 1 = k
    BY <1>1
  <2>a. k <= n
    BY <1>1, <2>1
  <2> HIDE DEF P
  <2>2. P(F[1..k], k)
    BY <1>7, <2>a
  <2>3. F[1..(k + 1)] = IF Recorded(s[k + 1]) THEN F[1..k] ELSE Append(F[1..k], s[k + 1])
    BY <1>3, <2>1
  <2> QED
    BY <1>5, <2>1, <2>2, <2>3
<1> HIDE DEF Good
<1>8. n \in Good
  BY <1>1, <1>6, <1>7, UpwardInduction
<1> QED
  BY <1>1, <1>8 DEF Good

LEMMA DueInOrder ==
  ASSUME NEW s \in Seq(UpgradeEvent), InOrder(s)
  PROVE  \E r : /\ r = ForEach(LAMBDA due, u : IF Recorded(u) THEN due ELSE Append(due, u), << >>, s)
                /\ r \in Seq(UpgradeEvent) /\ InOrder(r) /\ \A j \in DOMAIN r : ~Recorded(r[j])
<1> DEFINE G == CHOOSE F : Collects(F, s)
           r == G[DOMAIN s]
<1>1. Len(s) \in Nat /\ DOMAIN s = 1..Len(s)
  OBVIOUS
<1>2. Collects(G, s)
  BY <1>1, CollectExists
<1>3. r = ForEach(LAMBDA due, u : IF Recorded(u) THEN due ELSE Append(due, u), << >>, s)
  BY CollectDef, Zenon
<1> HIDE DEF G
<1>4. r \in Seq(UpgradeEvent) /\ InOrder(r) /\ \A j \in DOMAIN r : ~Recorded(r[j])
  BY <1>2, CollectInOrder
<1> HIDE DEF r
<1> QED
  BY <1>3, <1>4, Zenon

LEMMA TakeInOrder ==
  ASSUME NEW r \in Seq(UpgradeEvent), InOrder(r), \A j \in DOMAIN r : ~Recorded(r[j])
  PROVE  /\ Take(r, Batch) \in Seq(UpgradeEvent) /\ InOrder(Take(r, Batch))
         /\ \A j \in DOMAIN Take(r, Batch) : ~Recorded(Take(r, Batch)[j])
<1> DEFINE m == IF Len(r) < Batch THEN Len(r) ELSE Batch
<1>1. m \in Nat /\ m <= Len(r) /\ Take(r, Batch) = SubSeq(r, 1, m) /\ Len(r) \in Nat
  BY PassAssumption DEF Take
<1> HIDE DEF m
<1>2. Take(r, Batch) \in Seq(UpgradeEvent) /\ DOMAIN Take(r, Batch) = 1..m
  BY <1>1
<1>3. \A i \in 1..m : Take(r, Batch)[i] = r[i] /\ i \in DOMAIN r
  BY <1>1
<1> QED
  BY <1>2, <1>3 DEF InOrder

------------------------------------------------------------------------------
(* Steps. *)

LEMMA MethodInit == Init => MethodInv
<1> SUFFICES ASSUME Init PROVE MethodInv
  OBVIOUS
<1>1. /\ contracts = [order |-> Ascending(Contract), stale |-> Contract, methods |-> [c \in Contract |-> << >>],
                      link |-> [c \in Contract |-> 0], upgrades |-> << >>]
      /\ node.abi = 1 /\ node.time = 1 /\ node.pending = << >> /\ pass.kind = "idle"
  BY DEF Init, Idle
<1>2. \A c \in Contract : contracts.methods[c] = << >>
  BY <1>1
<1>3. StoredInv
  BY <1>1, <1>2 DEF StoredInv
<1>4. EventInv
  BY <1>1 DEF EventInv, InOrder
<1>5. HeldInv
  BY <1>1, <1>2 DEF HeldInv
<1> QED
  BY <1>1, <1>3, <1>4, <1>5 DEF MethodInv, TodoInv

\* Every step but those of the upgrades and of the two contract passes.
Aside ==
  /\ contracts' = [order |-> contracts'.order, stale |-> contracts'.stale, methods |-> contracts.methods,
                   link |-> contracts.link, upgrades |-> contracts.upgrades]
  /\ node'.abi = node.abi /\ node'.time = node.time /\ node'.pending = node.pending
  /\ pass' = pass \/ pass'.kind \notin {"contract", "upgrade"}

LEMMA AsideKeeps == MethodInv /\ Aside => MethodInv'
<1> SUFFICES ASSUME MethodInv, Aside PROVE MethodInv'
  OBVIOUS
<1>1. /\ contracts'.methods = contracts.methods /\ contracts'.link = contracts.link
      /\ contracts'.upgrades = contracts.upgrades
  BY DEF Aside
<1>2. StoredInv'
  BY <1>1 DEF MethodInv, StoredInv, Aside
<1>3. EventInv'
  BY <1>1 DEF MethodInv, EventInv, Aside, InOrder
<1>4. HeldInv'
  BY <1>1 DEF MethodInv, HeldInv, Aside
<1>5. TodoInv'
  BY <1>1 DEF MethodInv, TodoInv, Aside
<1> QED
  BY <1>2, <1>3, <1>4, <1>5 DEF MethodInv

LEMMA EnvironmentAside ==
  ASSUME ShapeInv, MethodInv,
         ListNft \/ NodeBurns \/ IndexBurn \/ Age \/ NodeChangesToken \/ WindowMoves \/ NextDay
  PROVE  Aside
<1>0. contracts = [order |-> contracts.order, stale |-> contracts.stale, methods |-> contracts.methods,
                   link |-> contracts.link, upgrades |-> contracts.upgrades]
  BY DEF MethodInv, StoredInv
<1>1. ASSUME UNCHANGED <<node, contracts, pass>> PROVE Aside
  BY <1>0, <1>1 DEF Aside
<1>2. CASE ListNft \/ IndexBurn \/ NextDay
  BY <1>1, <1>2 DEF ListNft, IndexBurn, NextDay
<1>3. CASE Age
  <2>1. PICK c : contracts' = [contracts EXCEPT !.stale = @ \union {c}]
    BY <1>3 DEF Age
  <2>2. UNCHANGED <<node, pass>>
    BY <1>3 DEF Age
  <2> QED
    BY <1>0, <2>1, <2>2 DEF Aside
<1>4. CASE NodeBurns
  <2>1. PICK n \in Nft : node' = [node EXCEPT !.nft[n] = "missing", !.supply = @ - 1]
    BY <1>4 DEF NodeBurns
  <2>2. UNCHANGED <<contracts, pass>>
    BY <1>4 DEF NodeBurns
  <2>3. node'.abi = node.abi /\ node'.time = node.time /\ node'.pending = node.pending
    BY <2>1 DEF ShapeInv
  <2> QED
    BY <1>0, <2>2, <2>3 DEF Aside
<1>5. CASE NodeChangesToken
  <2>1. PICK t \in Listed, keys \in SUBSET Key, supply \in {1, 2} :
          node' = [node EXCEPT !.changes = @ + 1, !.token[t] = [keys |-> keys, supply |-> supply]]
    BY <1>5 DEF NodeChangesToken
  <2>2. UNCHANGED <<contracts, pass>>
    BY <1>5 DEF NodeChangesToken
  <2>3. node'.abi = node.abi /\ node'.time = node.time /\ node'.pending = node.pending
    BY <2>1 DEF ShapeInv
  <2> QED
    BY <1>0, <2>2, <2>3 DEF Aside
<1>6. CASE WindowMoves
  <2>1. node' = [node EXCEPT !.cutoff = @ + 1] /\ UNCHANGED <<contracts, pass>>
    BY <1>6 DEF WindowMoves
  <2>3. node'.abi = node.abi /\ node'.time = node.time /\ node'.pending = node.pending
    BY <2>1 DEF ShapeInv
  <2> QED
    BY <1>0, <2>1, <2>3 DEF Aside
<1> QED
  BY <1>2, <1>3, <1>4, <1>5, <1>6

LEMMA PassAside ==
  ASSUME ShapeInv, MethodInv,
         \/ sync_nft_rpc_metadata_once \/ sync_series_rpc_metadata_once
         \/ sync_failed_transaction_debug_comments_once \/ sync_ttrs_offchain_nfts_once
         \/ sync_token_metadata_once \/ sync_token_supplies_once \/ fetch_live_prices \/ OneShot
         \/ fetch_nft_rpc_metadata \/ fetch_series_rpc_metadata \/ update_failed_transaction_debug_comment
         \/ update_nft_offchain_metadata \/ sync_token_prices_once \/ backfill_day
         \/ ApplyTokens \/ ApplyNfts \/ ApplySeries \/ EndPass \/ EndPrices \/ AbortPass
  PROVE  Aside
<1>0. contracts = [order |-> contracts.order, stale |-> contracts.stale, methods |-> contracts.methods,
                   link |-> contracts.link, upgrades |-> contracts.upgrades]
  BY DEF MethodInv, StoredInv
<1> DEFINE Contracts == {"contract", "upgrade"}
<1>1. ASSUME UNCHANGED <<node, contracts>>, pass'.kind \notin Contracts PROVE Aside
  BY <1>0, <1>1 DEF Aside
<1>2. ASSUME NEW task, NEW kind, NEW candidates, kind \notin Contracts, Begin(task, kind, candidates) PROVE Aside
  <2>1. pass' = [kind |-> kind, todo |-> candidates, got |-> << >>] /\ UNCHANGED <<contracts, node>>
    BY <1>2 DEF Begin
  <2> QED
    BY <1>1, <1>2, <2>1
<1>3. ASSUME NEW task, NEW kind, NEW answer, kind \notin Contracts, Ask(task, kind, answer) PROVE Aside
  <2>1. pass' = [kind |-> kind, todo |-> << >>, got |-> <<answer>>] /\ UNCHANGED <<contracts, node>>
    BY <1>3 DEF Ask
  <2> QED
    BY <1>1, <1>3, <2>1
<1>4. CASE \/ sync_nft_rpc_metadata_once \/ repair_nft_rpc_metadata_once \/ sync_nft_rpc_metadata_for_mint_block
           \/ sync_series_rpc_metadata_once \/ repair_series_rpc_metadata_once
           \/ sync_failed_transaction_debug_comments_once \/ sync_ttrs_offchain_nfts_once
  BY <1>2, <1>4 DEF sync_nft_rpc_metadata_once, repair_nft_rpc_metadata_once,
     sync_nft_rpc_metadata_for_mint_block, sync_series_rpc_metadata_once, repair_series_rpc_metadata_once,
     sync_failed_transaction_debug_comments_once, sync_ttrs_offchain_nfts_once
<1>5. CASE sync_token_metadata_once \/ sync_token_supplies_once \/ fetch_live_prices
  <2>1. \E kind \in {"metadata", "supplies", "live"} : \E task, answer : Ask(task, kind, answer)
    BY <1>5 DEF sync_token_metadata_once, sync_token_supplies_once, fetch_live_prices
  <2>2. \A kind \in {"metadata", "supplies", "live"} : kind \notin Contracts
    OBVIOUS
  <2> QED
    BY <1>3, <2>1, <2>2
<1>6. CASE \/ update_nft_offchain_metadata \/ ApplyTokens \/ ApplyNfts \/ ApplySeries \/ EndPass
           \/ EndPrices \/ AbortPass
  <2>1. pass' = Idle /\ UNCHANGED <<contracts, node>>
    BY <1>6 DEF update_nft_offchain_metadata, ApplyTokens, ApplyNfts, ApplySeries, EndPass, EndPrices,
       AbortPass
  <2> QED
    BY <1>1, <2>1 DEF Idle
<1>7. CASE fetch_nft_rpc_metadata \/ fetch_series_rpc_metadata \/ update_failed_transaction_debug_comment
  <2>1. /\ pass.kind \notin Contracts /\ contracts' = contracts
        /\ \E refused : node' = [node EXCEPT !.refused = refused] \/ node' = node
    BY <1>7 DEF fetch_nft_rpc_metadata, fetch_series_rpc_metadata, update_failed_transaction_debug_comment
  <2>2. \E answers : pass' = [pass EXCEPT !.todo = Tail(@), !.got = @ \o answers]
    BY <1>7 DEF fetch_nft_rpc_metadata, fetch_series_rpc_metadata, update_failed_transaction_debug_comment, Got
  <2>3. pass'.kind = pass.kind
    BY <2>2 DEF ShapeInv
  <2>4. node'.abi = node.abi /\ node'.time = node.time /\ node'.pending = node.pending
    BY <2>1 DEF ShapeInv
  <2> QED
    BY <1>0, <2>1, <2>3, <2>4 DEF Aside
<1>8. CASE sync_token_prices_once
  <2>1. /\ pass' = Idle \/ pass' = [kind |-> "prices", todo |-> <<FirstDay, 0, tokens.today>>, got |-> << >>]
        /\ UNCHANGED <<contracts, node>>
    BY <1>8 DEF sync_token_prices_once
  <2> QED
    BY <1>1, <2>1 DEF Idle
<1>9. CASE backfill_day
  <2>1. pass.kind \notin Contracts /\ UNCHANGED <<contracts, node>>
    BY <1>9 DEF backfill_day
  <2>2. \/ pass' = Idle
        \/ \E day : pass' = [pass EXCEPT !.todo = <<day + 1, @[2] + 1, @[3]>>]
    BY <1>9 DEF backfill_day
  <2>3. pass'.kind \notin Contracts
    BY <2>1, <2>2 DEF ShapeInv, Idle
  <2> QED
    BY <1>1, <2>1, <2>3
<1> QED
  BY <1>4, <1>5, <1>6, <1>7, <1>8, <1>9 DEF OneShot

LEMMA MethodTyped ==
  ASSUME StoredInv, NEW c \in Contract
  PROVE  /\ contracts.methods[c] \in Seq(Method) /\ contracts.link[c] = Len(contracts.methods[c])
         /\ \A i \in DOMAIN contracts.methods[c] : contracts.methods[c][i] \in Method
<1>1. contracts.methods[c] \in Seq(Method) /\ contracts.link[c] = Len(contracts.methods[c])
  BY DEF StoredInv
<1> QED
  BY <1>1

LEMMA UpgradeKeeps == ASSUME ShapeInv, MethodInv, Upgrade PROVE MethodInv'
<1>1. PICK gap \in {0, 1} :
        node' = [node EXCEPT !.abi = @ + 1, !.time = @ + gap,
                             !.pending = Append(@, [contract |-> 1, ts |-> node.time + gap])]
  BY DEF Upgrade
<1>2. UNCHANGED <<contracts, pass>>
  BY DEF Upgrade
<1> DEFINE t == node.time + gap
           e == [contract |-> 1, ts |-> t]
<1>3. node'.abi = node.abi + 1 /\ node'.time = t /\ node'.pending = Append(node.pending, e)
  BY <1>1 DEF ShapeInv
<1>4. /\ node.time \in Nat /\ node.abi \in Nat /\ t \in Nat /\ node.time <= t
      /\ node.pending \in Seq(UpgradeEvent) /\ e \in UpgradeEvent /\ e.ts = t
  <2>1. node.time \in Nat /\ node.abi \in Nat /\ node.pending \in Seq(UpgradeEvent)
    BY DEF MethodInv, EventInv
  <2>2. t \in Nat /\ node.time <= t
    BY <2>1
  <2> HIDE DEF t
  <2>3. e \in UpgradeEvent /\ e.ts = t
    BY <2>2 DEF UpgradeEvent
  <2> QED
    BY <2>1, <2>2, <2>3
<1> HIDE DEF e, t
<1>5. StoredInv' /\ TodoInv'
  BY <1>2 DEF MethodInv, StoredInv, TodoInv
<1>6. HeldInv'
  <2>1. \A c \in Contract : \A i \in DOMAIN contracts.methods[c] :
          contracts.methods[c][i].abi \in Nat /\ contracts.methods[c][i].abi <= node.abi
    BY MethodTyped DEF MethodInv, HeldInv, Method
  <2>2. \A x \in Nat : x <= node.abi => x <= node.abi + 1
    BY <1>4
  <2> QED
    BY <1>2, <1>3, <2>1, <2>2 DEF MethodInv, HeldInv
<1>7. EventInv'
  <2> DEFINE p == node.pending
  <2>1. /\ Append(p, e) \in Seq(UpgradeEvent) /\ DOMAIN Append(p, e) = 1..(Len(p) + 1)
        /\ Len(p) \in Nat /\ DOMAIN p = 1..Len(p)
        /\ \A j \in 1..(Len(p) + 1) : Append(p, e)[j] = IF j <= Len(p) THEN p[j] ELSE e
    BY <1>4
  <2>2. ASSUME NEW j \in DOMAIN p PROVE p[j].ts \in Nat /\ p[j].ts <= t
    <3>1. p[j] \in UpgradeEvent
      BY <1>4
    <3>2. p[j].ts <= node.time
      BY DEF MethodInv, EventInv
    <3> QED
      BY <1>4, <3>1, <3>2 DEF UpgradeEvent
  <2>3. ASSUME NEW i \in DOMAIN contracts.upgrades PROVE contracts.upgrades[i].ts <= t
    <3>1. contracts.upgrades[i] \in UpgradeEvent
      BY DEF MethodInv, EventInv
    <3>2. contracts.upgrades[i].ts <= node.time
      BY DEF MethodInv, EventInv
    <3> QED
      BY <1>4, <3>1, <3>2 DEF UpgradeEvent
  <2>4. \A i \in DOMAIN contracts.upgrades : \A j \in DOMAIN p : contracts.upgrades[i].ts <= p[j].ts
    BY DEF MethodInv, EventInv
  <2>5. InOrder(p)
    BY DEF MethodInv, EventInv
  <2> HIDE DEF p
  <2>6. ASSUME NEW j \in DOMAIN Append(p, e)
        PROVE  Append(p, e)[j] = e \/ (j \in DOMAIN p /\ Append(p, e)[j] = p[j])
    BY <2>1
  <2>7. InOrder(Append(p, e))
    <3> SUFFICES ASSUME NEW i \in DOMAIN Append(p, e), NEW j \in DOMAIN Append(p, e), i <= j
                 PROVE  Append(p, e)[i].ts <= Append(p, e)[j].ts
      BY DEF InOrder
    <3>1. i \in 1..(Len(p) + 1) /\ j \in 1..(Len(p) + 1)
      BY <2>1
    <3>2. CASE j <= Len(p)
      <4>1. i \in DOMAIN p /\ j \in DOMAIN p
        BY <2>1, <3>1, <3>2
      <4>2. Append(p, e)[i] = p[i] /\ Append(p, e)[j] = p[j]
        BY <2>1, <3>1, <3>2
      <4> QED
        BY <2>5, <4>1, <4>2 DEF InOrder
    <3>3. CASE ~(j <= Len(p))
      <4>1. Append(p, e)[j] = e
        BY <2>1, <3>1, <3>3
      <4> QED
        BY <1>4, <2>2, <2>6, <4>1
    <3> QED
      BY <3>2, <3>3
  <2>8. \A j \in DOMAIN Append(p, e) : Append(p, e)[j].ts <= t
    BY <1>4, <2>2, <2>6
  <2>9. \A i \in DOMAIN contracts.upgrades : \A j \in DOMAIN Append(p, e) :
          contracts.upgrades[i].ts <= Append(p, e)[j].ts
    BY <1>4, <2>3, <2>4, <2>6
  <2>10. node'.pending = Append(p, e) /\ contracts' = contracts /\ node'.abi \in Nat /\ node'.time = t
    BY <1>2, <1>3, <1>4 DEF p
  <2>11. contracts.upgrades \in Seq(UpgradeEvent) /\ InOrder(contracts.upgrades)
    BY DEF MethodInv, EventInv
  <2> QED
    BY <1>4, <2>1, <2>3, <2>7, <2>8, <2>9, <2>10, <2>11 DEF EventInv, InOrder
<1> QED
  BY <1>5, <1>6, <1>7 DEF MethodInv

LEMMA IndexUpgradeKeeps == ASSUME ShapeInv, MethodInv, IndexUpgrade PROVE MethodInv'
<1> DEFINE p == node.pending
           u == contracts.upgrades
<1>1. p # << >> /\ p \in Seq(UpgradeEvent) /\ u \in Seq(UpgradeEvent)
  BY DEF IndexUpgrade, MethodInv, EventInv
<1>2. /\ contracts' = [contracts EXCEPT !.upgrades = Append(@, Head(node.pending))]
      /\ node' = [node EXCEPT !.pending = Tail(@)] /\ pass' = pass
  BY DEF IndexUpgrade
<1>3. /\ contracts'.methods = contracts.methods /\ contracts'.link = contracts.link
      /\ contracts'.upgrades = Append(u, Head(p))
      /\ contracts' = [order |-> contracts'.order, stale |-> contracts'.stale, methods |-> contracts'.methods,
                       link |-> contracts'.link, upgrades |-> contracts'.upgrades]
  BY <1>2 DEF MethodInv, StoredInv
<1>4. node'.abi = node.abi /\ node'.time = node.time /\ node'.pending = Tail(p)
  BY <1>2 DEF ShapeInv
<1>5. StoredInv' /\ HeldInv' /\ TodoInv'
  BY <1>2, <1>3, <1>4 DEF MethodInv, StoredInv, HeldInv, TodoInv
<1>6. EventInv'
  <2>0. /\ InOrder(p) /\ InOrder(u) /\ node.time \in Nat /\ node.abi \in Nat
        /\ \A i \in DOMAIN u : u[i].ts <= node.time /\ \A j \in DOMAIN p : u[i].ts <= p[j].ts
        /\ \A j \in DOMAIN p : p[j].ts <= node.time
    BY DEF MethodInv, EventInv
  <2> HIDE DEF p, u
  <2>1. /\ Head(p) = p[1] /\ p[1] \in UpgradeEvent /\ 1 \in DOMAIN p /\ Tail(p) \in Seq(UpgradeEvent)
        /\ Len(p) \in Nat /\ DOMAIN p = 1..Len(p) /\ DOMAIN Tail(p) = 1..(Len(p) - 1)
        /\ \A j \in 1..(Len(p) - 1) : Tail(p)[j] = p[j + 1] /\ j + 1 \in DOMAIN p
    BY <1>1
  <2>2. /\ Append(u, p[1]) \in Seq(UpgradeEvent) /\ DOMAIN Append(u, p[1]) = 1..(Len(u) + 1)
        /\ Len(u) \in Nat /\ DOMAIN u = 1..Len(u)
        /\ \A j \in 1..(Len(u) + 1) : Append(u, p[1])[j] = IF j <= Len(u) THEN u[j] ELSE p[1]
    BY <1>1, <2>1
  <2>3. ASSUME NEW j \in DOMAIN Append(u, p[1])
        PROVE  Append(u, p[1])[j] = p[1] \/ (j \in DOMAIN u /\ Append(u, p[1])[j] = u[j])
    BY <2>2
  <2>4. InOrder(Append(u, p[1]))
    <3> SUFFICES ASSUME NEW i \in DOMAIN Append(u, p[1]), NEW j \in DOMAIN Append(u, p[1]), i <= j
                 PROVE  Append(u, p[1])[i].ts <= Append(u, p[1])[j].ts
      BY DEF InOrder
    <3>1. i \in 1..(Len(u) + 1) /\ j \in 1..(Len(u) + 1)
      BY <2>2
    <3>2. CASE j <= Len(u)
      <4>1. i \in DOMAIN u /\ j \in DOMAIN u
        BY <2>2, <3>1, <3>2
      <4>2. Append(u, p[1])[i] = u[i] /\ Append(u, p[1])[j] = u[j]
        BY <2>2, <3>1, <3>2
      <4> QED
        BY <2>0, <4>1, <4>2 DEF InOrder
    <3>3. CASE ~(j <= Len(u))
      <4>1. Append(u, p[1])[j] = p[1]
        BY <2>2, <3>1, <3>3
      <4>2. p[1].ts \in Nat
        BY <2>1 DEF UpgradeEvent
      <4> QED
        BY <2>0, <2>1, <2>3, <4>1, <4>2
    <3> QED
      BY <3>2, <3>3
  <2>5. InOrder(Tail(p))
    <3> SUFFICES ASSUME NEW i \in DOMAIN Tail(p), NEW j \in DOMAIN Tail(p), i <= j
                 PROVE  Tail(p)[i].ts <= Tail(p)[j].ts
      BY DEF InOrder
    <3>1. /\ i \in Nat /\ j \in Nat /\ i + 1 \in DOMAIN p /\ j + 1 \in DOMAIN p
          /\ Tail(p)[i] = p[i + 1] /\ Tail(p)[j] = p[j + 1]
      BY <2>1, SMTT(30)
    <3>2. i + 1 <= j + 1
      BY <3>1
    <3> QED
      BY <2>0, <3>1, <3>2 DEF InOrder
  <2>6. \A j \in DOMAIN Tail(p) : Tail(p)[j].ts <= node.time /\ p[1].ts <= Tail(p)[j].ts
    <3> TAKE j \in DOMAIN Tail(p)
    <3>1. j + 1 \in DOMAIN p /\ 1 <= j + 1 /\ Tail(p)[j] = p[j + 1]
      BY <2>1
    <3> QED
      BY <2>0, <2>1, <3>1 DEF InOrder
  <2>7. \A i \in DOMAIN u : \A j \in DOMAIN Tail(p) : u[i].ts <= Tail(p)[j].ts
    <3> TAKE i \in DOMAIN u
    <3> TAKE j \in DOMAIN Tail(p)
    <3>1. j + 1 \in DOMAIN p /\ Tail(p)[j] = p[j + 1]
      BY <2>1
    <3> QED
      BY <2>0, <3>1
  <2>8. \A i \in DOMAIN Append(u, p[1]) :
          /\ Append(u, p[1])[i].ts <= node.time
          /\ \A j \in DOMAIN Tail(p) : Append(u, p[1])[i].ts <= Tail(p)[j].ts
    BY <2>0, <2>1, <2>3, <2>6, <2>7
  <2>9. contracts'.upgrades = Append(u, p[1]) /\ node'.pending = Tail(p)
    BY <1>3, <1>4, <2>1
  <2> QED
    BY <1>4, <2>0, <2>1, <2>2, <2>4, <2>5, <2>6, <2>8, <2>9 DEF EventInv, InOrder
<1> QED
  BY <1>5, <1>6 DEF MethodInv

LEMMA BeginKeeps ==
  ASSUME ShapeInv, MethodInv, sync_contract_rpc_metadata_once \/ sync_contract_upgrade_methods_once
  PROVE  MethodInv'
<1>1. UNCHANGED <<contracts, node>>
  BY DEF sync_contract_rpc_metadata_once, sync_contract_upgrade_methods_once, Begin
<1>2. StoredInv' /\ EventInv'
  BY <1>1 DEF MethodInv, StoredInv, EventInv, InOrder
<1>3. ASSUME NEW kind, NEW todo, pass' = [kind |-> kind, todo |-> todo, got |-> << >>] PROVE HeldInv'
  <2>1. pass'.got = << >>
    BY <1>3
  <2> QED
    BY <1>1, <2>1 DEF MethodInv, HeldInv
<1>4. CASE sync_contract_rpc_metadata_once
  <2>1. pass' = [kind |-> "contract", todo |-> fetch_contract_rpc_metadata_candidates, got |-> << >>]
    BY <1>4 DEF sync_contract_rpc_metadata_once, Begin
  <2>2. pass'.kind = "contract"
    BY <2>1
  <2> QED
    BY <1>2, <1>3, <2>1, <2>2 DEF MethodInv, TodoInv
<1>5. CASE sync_contract_upgrade_methods_once
  <2> DEFINE todo == fetch_contract_upgrade_method_candidates
  <2>1. pass' = [kind |-> "upgrade", todo |-> todo, got |-> << >>]
    BY <1>5 DEF sync_contract_upgrade_methods_once, Begin
  <2>2. todo \in Seq(UpgradeEvent) /\ InOrder(todo) /\ \A j \in DOMAIN todo : ~Recorded(todo[j])
    <3> DEFINE s == contracts.upgrades
    <3>1. s \in Seq(UpgradeEvent) /\ InOrder(s)
      BY DEF MethodInv, EventInv
    <3>2. PICK r : /\ r = ForEach(LAMBDA due, u : IF Recorded(u) THEN due ELSE Append(due, u), << >>, s)
                   /\ r \in Seq(UpgradeEvent) /\ InOrder(r) /\ \A j \in DOMAIN r : ~Recorded(r[j])
      BY <3>1, DueInOrder, Zenon
    <3>3. todo = Take(r, Batch)
      BY <3>2, Zenon DEF fetch_contract_upgrade_method_candidates
    <3>4. r \in Seq(UpgradeEvent) /\ InOrder(r) /\ \A j \in DOMAIN r : ~Recorded(r[j])
      BY <3>2, Zenon
    <3> HIDE DEF todo
    <3> QED
      BY <3>3, <3>4, TakeInOrder
  <2> HIDE DEF todo
  <2>3. pass'.kind = "upgrade" /\ pass'.todo = todo
    BY <2>1
  <2>4. Unmet(todo, contracts.methods[1])
    <3>1. ASSUME NEW j \in DOMAIN todo
          PROVE  ~ \E i \in DOMAIN contracts.methods[1] : contracts.methods[1][i].ts = todo[j].ts
      <4>1. todo[j] \in UpgradeEvent /\ ~Recorded(todo[j])
        BY <2>2
      <4>2. todo[j].contract = 1
        BY <4>1 DEF UpgradeEvent
      <4> QED
        BY <4>1, <4>2 DEF Recorded
    <3> QED
      BY <2>2, <3>1 DEF Unmet
  <2>5. TodoInv'
    BY <1>1, <2>3, <2>4 DEF TodoInv
  <2> QED
    BY <1>2, <1>3, <2>1, <2>5 DEF MethodInv
<1> QED
  BY <1>4, <1>5

\* What is left of an upgrade pass once its first item is done with.
LEMMA TailKeeps ==
  ASSUME NEW s \in Seq(UpgradeEvent), InOrder(s), s # << >>
  PROVE  /\ Tail(s) \in Seq(UpgradeEvent) /\ InOrder(Tail(s))
         /\ \A j \in DOMAIN Tail(s) : /\ j + 1 \in DOMAIN s /\ Tail(s)[j] = s[j + 1]
                                       /\ 1 \in DOMAIN Tail(s) /\ s[1].ts <= Tail(s)[1].ts
                                       /\ Tail(s)[1].ts <= Tail(s)[j].ts
                                       /\ s[1].ts \in Nat /\ Tail(s)[1].ts \in Nat /\ Tail(s)[j].ts \in Nat
<1>1. /\ Tail(s) \in Seq(UpgradeEvent) /\ Len(s) \in Nat /\ DOMAIN s = 1..Len(s) /\ 1 \in DOMAIN s
      /\ DOMAIN Tail(s) = 1..(Len(s) - 1)
      /\ \A j \in 1..(Len(s) - 1) : Tail(s)[j] = s[j + 1] /\ j + 1 \in DOMAIN s
  OBVIOUS
<1>2. InOrder(Tail(s))
  <2> SUFFICES ASSUME NEW i \in DOMAIN Tail(s), NEW j \in DOMAIN Tail(s), i <= j
               PROVE  Tail(s)[i].ts <= Tail(s)[j].ts
    BY DEF InOrder
  <2>1. i + 1 \in DOMAIN s /\ j + 1 \in DOMAIN s /\ i + 1 <= j + 1 /\ Tail(s)[i] = s[i + 1] /\ Tail(s)[j] = s[j + 1]
    BY <1>1
  <2> QED
    BY <2>1 DEF InOrder
<1>3. ASSUME NEW j \in DOMAIN Tail(s)
      PROVE  /\ 1 \in DOMAIN Tail(s) /\ s[1].ts <= Tail(s)[1].ts /\ Tail(s)[1].ts <= Tail(s)[j].ts
             /\ s[1].ts \in Nat /\ Tail(s)[1].ts \in Nat /\ Tail(s)[j].ts \in Nat
  <2>1. 1 \in DOMAIN Tail(s) /\ 1 <= j /\ 2 \in DOMAIN s /\ Tail(s)[1] = s[2] /\ 1 <= 2
    BY <1>1
  <2>2. s[1].ts <= Tail(s)[1].ts /\ Tail(s)[1].ts <= Tail(s)[j].ts
    BY <1>1, <1>2, <2>1 DEF InOrder
  <2>3. s[1] \in UpgradeEvent /\ Tail(s)[1] \in UpgradeEvent /\ Tail(s)[j] \in UpgradeEvent
    BY <1>1, <2>1
  <2> QED
    BY <2>1, <2>2, <2>3 DEF UpgradeEvent
<1> QED
  BY <1>1, <1>2, <1>3

LEMMA UnmetTail ==
  ASSUME NEW s, s # << >>, NEW methods, Unmet(s, methods)
  PROVE  Unmet(Tail(s), methods)
<1>1. /\ s \in Seq(UpgradeEvent) /\ InOrder(s)
      /\ \A j \in DOMAIN s : (\E i \in DOMAIN methods : methods[i].ts = s[j].ts) =>
           s[j].ts = s[1].ts /\ methods[Len(methods)].ts = s[j].ts
  BY DEF Unmet
<1>2. ASSUME NEW j \in DOMAIN Tail(s), \E i \in DOMAIN methods : methods[i].ts = Tail(s)[j].ts
      PROVE  Tail(s)[j].ts = Tail(s)[1].ts /\ methods[Len(methods)].ts = Tail(s)[j].ts
  <2>1. /\ j + 1 \in DOMAIN s /\ Tail(s)[j] = s[j + 1] /\ s[1].ts <= Tail(s)[1].ts
        /\ Tail(s)[1].ts <= Tail(s)[j].ts
        /\ s[1].ts \in Nat /\ Tail(s)[1].ts \in Nat /\ Tail(s)[j].ts \in Nat
    BY <1>1, TailKeeps
  <2>2. Tail(s)[j].ts = s[1].ts /\ methods[Len(methods)].ts = Tail(s)[j].ts
    BY <1>1, <1>2, <2>1
  <2> QED
    BY <2>1, <2>2
<1>3. Tail(s) \in Seq(UpgradeEvent) /\ InOrder(Tail(s))
  BY <1>1, TailKeeps
<1> QED
  BY <1>2, <1>3 DEF Unmet

LEMMA FetchContractKeeps == ASSUME ShapeInv, MethodInv, FetchContract PROVE MethodInv'
<1>1. UNCHANGED <<contracts, node>> /\ pass.kind \in {"contract", "upgrade"} /\ pass.todo # << >> /\ pass.got = << >>
  BY DEF FetchContract
<1>2. StoredInv' /\ EventInv'
  BY <1>1 DEF MethodInv, StoredInv, EventInv, InOrder
<1>3. ASSUME NEW methods, pass' = [pass EXCEPT !.got = <<[abi |-> node.abi, methods |-> methods]>>]
      PROVE  MethodInv'
  <2>1. /\ pass'.kind = pass.kind /\ pass'.todo = pass.todo
        /\ pass'.got = <<[abi |-> node.abi, methods |-> methods]>>
    BY <1>3 DEF ShapeInv
  <2>a. EventInv /\ HeldInv
    BY DEF MethodInv
  <2>b. node.abi \in Nat
    BY <2>a DEF EventInv
  <2>2. pass'.got[1].abi = node.abi
    BY <2>1
  <2>3. HeldInv'
    <3>1. \A c \in Contract : \A i \in DOMAIN contracts.methods[c] : contracts.methods[c][i].abi <= node.abi
      BY <2>a DEF HeldInv
    <3>2. /\ contracts' = contracts /\ node' = node /\ (pass'.kind = "upgrade" => pass'.todo # << >>)
          /\ pass'.got[1].abi \in Nat /\ pass'.got[1].abi <= node.abi
      BY <1>1, <2>1, <2>2, <2>b
    <3> QED
      BY <2>2, <3>1, <3>2, Zenon DEF HeldInv
  <2>4. TodoInv'
    BY <1>1, <2>1 DEF MethodInv, TodoInv
  <2> QED
    BY <1>2, <2>3, <2>4 DEF MethodInv
<1>4. CASE pass' = [pass EXCEPT !.todo = Tail(@), !.got = @ \o << >>]
  <2>1. pass'.kind = pass.kind /\ pass'.todo = Tail(pass.todo) /\ pass'.got = << >> \o << >>
    BY <1>1, <1>4 DEF ShapeInv
  <2>2. pass'.got = << >>
    BY <2>1
  <2>3. HeldInv'
    BY <1>1, <2>1, <2>2 DEF MethodInv, HeldInv
  <2>4. ASSUME pass.kind = "upgrade" PROVE TodoInv'
    BY <1>1, <2>1, <2>4, UnmetTail DEF MethodInv, TodoInv
  <2> QED
    BY <1>2, <2>1, <2>3, <2>4 DEF MethodInv, TodoInv
<1> QED
  BY <1>3, <1>4 DEF FetchContract, Got

\* A method stored behind the others, with an ABI no older than theirs, becomes the linked one.
LEMMA StoreKeeps ==
  ASSUME StoredInv, NEW c, NEW m \in Method, NEW order, NEW stale,
         \A d \in Contract : \A i \in DOMAIN contracts.methods[d] : contracts.methods[d][i].abi <= m.abi,
         contracts' = [order |-> order, stale |-> stale,
                       methods |-> [contracts.methods EXCEPT ![c] = Append(@, m)],
                       link |-> [contracts.link EXCEPT ![c] = Len(contracts.methods[c]) + 1],
                       upgrades |-> contracts.upgrades]
  PROVE  /\ StoredInv'
         /\ \A d \in Contract : contracts'.methods[d] = IF d = c THEN Append(contracts.methods[d], m)
                                                         ELSE contracts.methods[d]
         /\ \A d \in Contract : \A i \in DOMAIN contracts'.methods[d] : contracts'.methods[d][i].abi <= m.abi
<1> DEFINE old == contracts.methods
           new == contracts'.methods
<1>0. old \in [Contract -> Seq(Method)] /\ contracts.link = [d \in Contract |-> Len(old[d])]
  BY DEF StoredInv
<1>1. /\ new = [old EXCEPT ![c] = Append(@, m)]
      /\ contracts'.link = [contracts.link EXCEPT ![c] = Len(old[c]) + 1]
  OBVIOUS
<1>2. \A d \in Contract : new[d] = IF d = c THEN Append(old[d], m) ELSE old[d]
  BY <1>0, <1>1
<1>a. new = [d \in Contract |-> new[d]] /\ contracts'.link = [d \in Contract |-> contracts'.link[d]]
  BY <1>0, <1>1
<1>3. ASSUME NEW d \in Contract
      PROVE  /\ new[d] \in Seq(Method) /\ contracts'.link[d] = Len(new[d])
             /\ \A i \in DOMAIN new[d] : new[d][i].abi <= m.abi
             /\ \A i, j \in DOMAIN new[d] : i <= j => new[d][i].abi <= new[d][j].abi
  <2> DEFINE s == old[d]
  <2>1. /\ s \in Seq(Method) /\ \A i \in DOMAIN s : s[i].abi <= m.abi
        /\ \A i, j \in DOMAIN s : i <= j => s[i].abi <= s[j].abi
        /\ contracts.link[d] = Len(s)
    BY <1>0 DEF StoredInv
  <2>2. CASE d # c
    <3>1. new[d] = s /\ contracts'.link[d] = Len(s)
      BY <1>0, <1>1, <1>2, <2>2
    <3> QED
      BY <2>1, <3>1
  <2>3. CASE d = c
    <3>1. new[d] = Append(s, m) /\ contracts'.link[d] = Len(s) + 1
      BY <1>0, <1>1, <1>2, <2>3
    <3> HIDE DEF s
    <3> DEFINE q == Append(s, m)
    <3>2. /\ q \in Seq(Method) /\ DOMAIN q = 1..(Len(s) + 1) /\ Len(s) \in Nat
          /\ DOMAIN s = 1..Len(s) /\ Len(q) = Len(s) + 1
          /\ \A j \in 1..Len(s) : q[j] = s[j]
          /\ q[Len(s) + 1] = m
      BY <2>1
    <3> HIDE DEF q
    <3>3. m.abi \in Nat
      BY DEF Method
    <3>a. \A k \in Nat : \A i \in 1..(k + 1) : i \in 1..k \/ i = k + 1
      OBVIOUS
    <3>4. ASSUME NEW i \in 1..(Len(s) + 1) PROVE q[i].abi <= m.abi
      <4>1. CASE i \in 1..Len(s)
        BY <2>1, <3>2, <4>1
      <4>2. CASE i = Len(s) + 1
        <5>1. q[i] = m
          BY <3>2, <4>2
        <5> QED
          BY <3>3, <5>1
      <4> QED
        BY <3>2, <3>a, <4>1, <4>2
    <3>5. ASSUME NEW i \in 1..(Len(s) + 1), NEW j \in 1..(Len(s) + 1), i <= j
          PROVE  q[i].abi <= q[j].abi
      <4>1. CASE j \in 1..Len(s)
        <5>0. \A k \in Nat : \A a \in 1..(k + 1), b \in 1..k : a <= b => a \in 1..k
          OBVIOUS
        <5>1. i \in 1..Len(s)
          BY <3>2, <3>5, <4>1, <5>0
        <5> QED
          BY <2>1, <3>2, <3>5, <4>1, <5>1
      <4>2. CASE j = Len(s) + 1
        <5>1. q[j] = m
          BY <3>2, <4>2
        <5> QED
          BY <3>4, <5>1
      <4> QED
        BY <3>2, <3>a, <4>1, <4>2
    <3>6. new[d] = q
      BY <3>1 DEF q
    <3> QED
      BY <3>1, <3>2, <3>4, <3>5, <3>6
  <2> QED
    BY <2>2, <2>3
<1>4. new \in [Contract -> Seq(Method)] /\ contracts'.link = [d \in Contract |-> Len(new[d])]
  BY <1>a, <1>3
<1>5. contracts' = [order |-> contracts'.order, stale |-> contracts'.stale, methods |-> contracts'.methods,
                    link |-> contracts'.link, upgrades |-> contracts'.upgrades]
  OBVIOUS
<1> HIDE DEF new
<1>6. StoredInv'
  BY <1>3, <1>4, <1>5 DEF StoredInv, new
<1> QED
  BY <1>2, <1>3, <1>6 DEF new

\* Storing the method of the first item leaves the others as they have to be.
LEMMA UnmetStored ==
  ASSUME NEW s, s # << >>, NEW methods \in Seq(Method), NEW m \in Method, m.ts = s[1].ts, Unmet(s, methods)
  PROVE  Unmet(Tail(s), Append(methods, m))
<1> DEFINE new == Append(methods, m)
<1>1. /\ s \in Seq(UpgradeEvent) /\ InOrder(s)
      /\ \A j \in DOMAIN s : (\E i \in DOMAIN methods : methods[i].ts = s[j].ts) => s[j].ts = s[1].ts
  BY DEF Unmet
<1>2. /\ Len(methods) \in Nat /\ Len(new) = Len(methods) + 1 /\ DOMAIN new = 1..(Len(methods) + 1)
      /\ DOMAIN methods = 1..Len(methods) /\ new[Len(new)] = m
      /\ \A i \in 1..Len(methods) : new[i] = methods[i]
  OBVIOUS
<1> HIDE DEF new
<1>3. ASSUME NEW j \in DOMAIN Tail(s), NEW i \in DOMAIN new, new[i].ts = Tail(s)[j].ts
      PROVE  Tail(s)[j].ts = Tail(s)[1].ts /\ new[Len(new)].ts = Tail(s)[j].ts
  <2> DEFINE t == Tail(s)
  <2>1. /\ j + 1 \in DOMAIN s /\ Tail(s)[j] = s[j + 1] /\ s[1].ts <= Tail(s)[1].ts
        /\ Tail(s)[1].ts <= Tail(s)[j].ts
        /\ s[1].ts \in Nat /\ Tail(s)[1].ts \in Nat /\ Tail(s)[j].ts \in Nat
    BY <1>1, TailKeeps
  <2>a. /\ t[j] = s[j + 1] /\ s[1].ts <= t[1].ts /\ t[1].ts <= t[j].ts
        /\ s[1].ts \in Nat /\ t[1].ts \in Nat /\ t[j].ts \in Nat /\ new[i].ts = t[j].ts
    BY <1>3, <2>1, Zenon
  <2> SUFFICES t[j].ts = s[1].ts
    <3> SUFFICES ASSUME t[j].ts = s[1].ts PROVE t[j].ts = t[1].ts /\ new[Len(new)].ts = t[j].ts
      BY Zenon
    <3> HIDE DEF t
    <3> QED
      BY <1>2, <2>a
  <2> HIDE DEF t
  <2>2. CASE i = Len(methods) + 1
    BY <1>2, <2>2, <2>a
  <2>3. CASE i # Len(methods) + 1
    <3>1. i \in 1..Len(methods)
      BY <1>2, <2>3
    <3>2. methods[i].ts = s[j + 1].ts /\ i \in DOMAIN methods
      BY <1>2, <2>a, <3>1
    <3>3. s[j + 1].ts = s[1].ts
      BY <1>1, <2>1, <3>2, Zenon
    <3> QED
      BY <2>a, <3>3
  <2> QED
    BY <2>2, <2>3
<1>4. Tail(s) \in Seq(UpgradeEvent) /\ InOrder(Tail(s))
  BY <1>1, TailKeeps
<1> QED
  BY <1>3, <1>4 DEF Unmet, new

LEMMA ApplyContractKeeps == ASSUME ShapeInv, MethodInv, ApplyContract PROVE MethodInv'
<1> DEFINE a == pass.got[1].abi
           c == Item.contract
<1>1. /\ pass.kind \in {"contract", "upgrade"} /\ pass.got # << >> /\ node' = node
      /\ pass' = [pass EXCEPT !.todo = Tail(@), !.got = << >>]
  BY DEF ApplyContract
<1>2. pass'.kind = pass.kind /\ pass'.todo = Tail(pass.todo) /\ pass'.got = << >>
  BY <1>1 DEF ShapeInv
<1>3. /\ a \in Nat /\ a <= node.abi /\ node.abi \in Nat /\ (pass.kind = "upgrade" => pass.todo # << >>)
      /\ \A d \in Contract : \A i \in DOMAIN contracts.methods[d] : contracts.methods[d][i].abi <= a
  BY <1>1 DEF MethodInv, HeldInv, EventInv
<1>4. /\ StoredInv
      /\ contracts = [order |-> contracts.order, stale |-> contracts.stale, methods |-> contracts.methods,
                      link |-> contracts.link, upgrades |-> contracts.upgrades]
  BY DEF MethodInv, StoredInv
<1>5. ASSUME contracts'.methods = contracts.methods PROVE HeldInv'
  BY <1>1, <1>2, <1>5 DEF MethodInv, HeldInv
<1>6. ASSUME contracts'.upgrades = contracts.upgrades PROVE EventInv'
  BY <1>1, <1>6 DEF MethodInv, EventInv
<1>7. ASSUME NEW m \in Method, m.abi = a, NEW order, NEW stale,
             contracts' = [order |-> order, stale |-> stale,
                           methods |-> [contracts.methods EXCEPT ![c] = Append(@, m)],
                           link |-> [contracts.link EXCEPT ![c] = Len(contracts.methods[c]) + 1],
                           upgrades |-> contracts.upgrades]
      PROVE  /\ StoredInv' /\ EventInv' /\ HeldInv'
             /\ \A d \in Contract : contracts'.methods[d] = IF d = c THEN Append(contracts.methods[d], m)
                                                             ELSE contracts.methods[d]
  <2>1. \A d \in Contract : \A i \in DOMAIN contracts.methods[d] : contracts.methods[d][i].abi <= m.abi
    BY <1>3, <1>7
  <2> HIDE DEF a, c
  <2>2. /\ StoredInv'
        /\ \A d \in Contract : contracts'.methods[d] = IF d = c THEN Append(contracts.methods[d], m)
                                                        ELSE contracts.methods[d]
        /\ \A d \in Contract : \A i \in DOMAIN contracts'.methods[d] : contracts'.methods[d][i].abi <= m.abi
    BY <1>4, <1>7, <2>1, StoreKeeps
  <2>3. contracts'.upgrades = contracts.upgrades
    BY <1>7
  <2>4. HeldInv'
    <3>1. ASSUME NEW d \in Contract, NEW i \in DOMAIN contracts'.methods[d]
          PROVE  contracts'.methods[d][i].abi <= node.abi
      <4>1. contracts'.methods[d] \in Seq(Method)
        BY <2>2 DEF StoredInv
      <4>2. contracts'.methods[d][i] \in Method
        BY <4>1
      <4>3. contracts'.methods[d][i].abi \in Nat /\ contracts'.methods[d][i].abi <= m.abi
        BY <2>2, <4>2 DEF Method
      <4>4. m.abi <= node.abi /\ m.abi \in Nat /\ node.abi \in Nat
        BY <1>3, <1>7
      <4> QED
        BY <4>3, <4>4
    <3> QED
      BY <1>1, <1>2, <3>1, Zenon DEF HeldInv
  <2> QED
    BY <1>6, <2>2, <2>3, <2>4
<1>8. CASE pass.kind = "contract"
  <2> DEFINE order == Append(SelectSeq(contracts.order, LAMBDA x : x # c), c)
             stale == contracts.stale \ {c}
  <2>1. pass'.kind # "upgrade"
    BY <1>2, <1>8
  <2>2. contracts' = apply_contract_rpc_metadata(contracts, [contract |-> Item.contract, insert |-> Item.insert /\ pass.got[1].methods,
                                                              abi |-> a])
    BY <1>8 DEF ApplyContract
  <2>3. \/ contracts' = [contracts EXCEPT !.stale = @ \ {c}, !.order = order]
        \/ contracts' = InsertMethod([contracts EXCEPT !.stale = @ \ {c}, !.order = order], c, 0, a)
    BY <2>2 DEF apply_contract_rpc_metadata
  <2> HIDE DEF order, c, a
  <2>4. CASE contracts' = [contracts EXCEPT !.stale = @ \ {c}, !.order = order]
    <3>1. /\ contracts' = [order |-> contracts'.order, stale |-> contracts'.stale, methods |-> contracts'.methods,
                           link |-> contracts'.link, upgrades |-> contracts'.upgrades]
          /\ contracts'.methods = contracts.methods /\ contracts'.link = contracts.link
          /\ contracts'.upgrades = contracts.upgrades
      BY <1>4, <2>4
    <3>2. StoredInv'
      BY <1>4, <3>1 DEF StoredInv
    <3> QED
      BY <1>5, <1>6, <2>1, <3>1, <3>2 DEF MethodInv, TodoInv
  <2>5. CASE contracts' = InsertMethod([contracts EXCEPT !.stale = @ \ {c}, !.order = order], c, 0, a)
    <3> DEFINE m == [ts |-> 0, abi |-> a]
    <3>1. m \in Method /\ m.abi = a
      BY <1>3 DEF Method, a
    <3>2. contracts' = [order |-> order, stale |-> stale,
                        methods |-> [contracts.methods EXCEPT ![c] = Append(@, m)],
                        link |-> [contracts.link EXCEPT ![c] = Len(contracts.methods[c]) + 1],
                        upgrades |-> contracts.upgrades]
      BY <1>4, <2>5 DEF InsertMethod
    <3> HIDE DEF m, stale
    <3>3. StoredInv' /\ EventInv' /\ HeldInv'
      BY <1>7, <3>1, <3>2
    <3> QED
      BY <2>1, <3>3 DEF MethodInv, TodoInv
  <2> QED
    BY <2>3, <2>4, <2>5
<1>9. CASE pass.kind = "upgrade"
  <2> DEFINE s == pass.todo
             u == [contract |-> Item.contract, ts |-> Item.ts, abi |-> a]
             there == {i \in DOMAIN contracts.methods[1] : contracts.methods[1][i].ts = s[1].ts}
  <2>1. Unmet(s, contracts.methods[1]) /\ s # << >>
    BY <1>3, <1>9 DEF MethodInv, TodoInv
  <2>2. s \in Seq(UpgradeEvent) /\ s[1] \in UpgradeEvent /\ Item = s[1] /\ 1 \in DOMAIN s
    <3>1. s \in Seq(UpgradeEvent) /\ s # << >>
      BY <2>1 DEF Unmet
    <3>2. Item = s[1]
      BY <3>1 DEF Item
    <3> HIDE DEF s
    <3> QED
      BY <3>1, <3>2
  <2>3. c = 1 /\ s[1].ts \in Nat /\ Item.ts = s[1].ts
    BY <2>2 DEF UpgradeEvent
  <2>4. contracts' = apply_contract_upgrade_method(contracts, u)
    BY <1>9 DEF ApplyContract
  <2>5. u.contract = 1 /\ u.ts = s[1].ts /\ u.abi = a
    BY <2>3
  <2>6. contracts' = IF there = {} THEN InsertMethod(contracts, 1, s[1].ts, a)
                     ELSE [contracts EXCEPT !.link[1] = Max(there)]
    BY <2>4, <2>5 DEF apply_contract_upgrade_method
  <2>7. contracts.methods[1] \in Seq(Method) /\ contracts.link[1] = Len(contracts.methods[1])
    BY <1>4, PassAssumption, MethodTyped
  <2> HIDE DEF u, s
  <2>8. CASE there = {}
    <3> DEFINE m == [ts |-> s[1].ts, abi |-> a]
    <3>1. m \in Method /\ m.abi = a /\ m.ts = s[1].ts
      BY <1>3, <2>3 DEF Method
    <3>2. contracts' = [order |-> contracts.order, stale |-> contracts.stale,
                        methods |-> [contracts.methods EXCEPT ![c] = Append(@, m)],
                        link |-> [contracts.link EXCEPT ![c] = Len(contracts.methods[c]) + 1],
                        upgrades |-> contracts.upgrades]
      BY <1>4, <2>3, <2>6, <2>8 DEF InsertMethod
    <3> HIDE DEF m, c, a, there
    <3>3. /\ StoredInv' /\ EventInv' /\ HeldInv'
          /\ \A d \in Contract : contracts'.methods[d] = IF d = c THEN Append(contracts.methods[d], m)
                                                          ELSE contracts.methods[d]
      BY <1>7, <3>1, <3>2
    <3>4. contracts'.methods[1] = Append(contracts.methods[1], m)
      BY <2>3, <3>3, PassAssumption
    <3>5. Unmet(Tail(s), contracts'.methods[1])
      BY <2>1, <2>7, <3>1, <3>4, UnmetStored
    <3>6. TodoInv'
      BY <1>2, <3>5 DEF TodoInv, s
    <3> QED
      BY <3>3, <3>6 DEF MethodInv
  <2>9. CASE there # {}
    <3> DEFINE n == Len(contracts.methods[1])
    <3>1. PICK i \in DOMAIN contracts.methods[1] : contracts.methods[1][i].ts = s[1].ts
      BY <2>9
    <3>2. contracts.methods[1][n].ts = s[1].ts
      BY <2>1, <2>2, <3>1 DEF Unmet
    <3>3. n \in Nat /\ DOMAIN contracts.methods[1] = 1..n /\ n \in DOMAIN contracts.methods[1]
      BY <2>7, <3>1
    <3>4. there \in SUBSET (1..n) /\ n \in there
      BY <3>2, <3>3
    <3>5. contracts' = [contracts EXCEPT !.link[1] = Max(there)]
      BY <2>6, <2>9
    <3> HIDE DEF there
    <3>6. Max(there) \in there /\ n <= Max(there)
      BY <3>3, <3>4, MaxIn
    <3>7. Max(there) = n
      BY <3>3, <3>4, <3>6
    <3>8. [contracts.link EXCEPT ![1] = n] = contracts.link
      BY <1>4, <2>7 DEF StoredInv
    <3>9. contracts' = contracts
      BY <1>4, <3>5, <3>7, <3>8
    <3>10. StoredInv'
      BY <1>4, <3>9 DEF StoredInv
    <3>11. Unmet(Tail(s), contracts.methods[1])
      BY <2>1, UnmetTail
    <3>12. TodoInv'
      BY <1>2, <3>9, <3>11 DEF TodoInv, s
    <3> QED
      BY <1>5, <1>6, <3>9, <3>10, <3>12 DEF MethodInv
  <2> QED
    BY <2>8, <2>9
<1> QED
  BY <1>1, <1>8, <1>9

LEMMA MethodStep ==
  ASSUME ShapeInv, MethodInv, [Next]_vars
  PROVE  MethodInv'
<1>1. CASE UNCHANGED vars
  <2>1. Aside
    BY <1>1 DEF vars, Aside, MethodInv, StoredInv
  <2> QED
    BY <2>1, AsideKeeps
<1>2. CASE Environment
  BY <1>2, EnvironmentAside, AsideKeeps, UpgradeKeeps, IndexUpgradeKeeps DEF Environment
<1>3. CASE Fetch \/ Finish
  BY <1>3, PassAside, AsideKeeps, FetchContractKeeps, ApplyContractKeeps DEF Fetch, Finish
<1>4. CASE Scheduled \/ OneShot \/ AbortPass
  BY <1>4, PassAside, AsideKeeps, BeginKeeps DEF Scheduled
<1> QED
  BY <1>1, <1>2, <1>3, <1>4 DEF Next

\* A contract is linked to the newest ABI stored for it (apply_contract_rpc_metadata,
\* apply_contract_upgrade_method): the passes ask for the upgrades in the order of their blocks and
\* never store one behind a later one, however the fetches fail and upgrades share a second.
THEOREM NewestMethodsLinked == Spec => []NewestMethodLinked
<1>1. ShapeInv /\ NftInv /\ MethodInv /\ [Next]_vars => (ShapeInv /\ NftInv /\ MethodInv)'
  BY NftStep, MethodStep
<1>2. MethodInv => NewestMethodLinked
  <2> SUFFICES ASSUME MethodInv, NEW c \in Contract, contracts.link[c] # 0,
                      NEW i \in DOMAIN contracts.methods[c]
               PROVE  contracts.methods[c][i].abi <= contracts.methods[c][contracts.link[c]].abi
    BY DEF NewestMethodLinked
  <2>1. contracts.methods[c] \in Seq(Method) /\ contracts.link[c] = Len(contracts.methods[c])
    BY MethodTyped DEF MethodInv
  <2>2. i <= contracts.link[c] /\ contracts.link[c] \in DOMAIN contracts.methods[c]
    BY <2>1
  <2> QED
    BY <2>2 DEF MethodInv, StoredInv
<1> QED
  BY NftInit, MethodInit, <1>1, <1>2, PTL DEF Spec
=============================================================================
