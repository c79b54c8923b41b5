---------------------------- MODULE EventEffects ----------------------------
(***************************************************************************)
(* The side effects of a transaction's stored events on the catalogue      *)
(* tables (crates/db/src/events.rs), as operators on the record `d` of all *)
(* tables.  d.events maps <<height, tx_index, event_index>> to a row, d.nfts *)
(* maps <<contract, token_id>> to an NFT; every row's own id comes from one *)
(* serial counter, d.serial.                                               *)
(***************************************************************************)
EXTENDS Integers, Sequences, FiniteSets, FiniteSetsExt, SequencesExt, TLC

CONSTANT NonFungible   \* token symbols whose tokens have fungible = FALSE

\* an event as the block carries it; `id` is the token id, "" for none
Event(kind, token, id, who) ==
  [kind |-> kind, token |-> token, id |-> id, who |-> who, series |-> "", infused |-> "", value |-> 0]

Nft(ev) == <<ev.token, ev.id>>
TxRows(d, h, t) == {k \in DOMAIN d.events : k[1] = h /\ k[2] = t}
Ev(d, k) == d.events[k].ev

\* the row keys of a transaction in event order
InOrder(keys) == SetToSortSeq(keys, LAMBDA k, l : k[3] < l[3])

ownership_kinds == {"TokenMint", "TokenClaim", "TokenBurn", "TokenSend", "TokenReceive", "TokenStake",
                    "CrownRewards", "Inflation", "OrderFilled"}
is_nft_side_effect_event_kind(kind) ==
  kind \in ownership_kinds \union {"Infusion", "OrderCancelled", "OrderClosed", "OrderCreated", "OrderBid"}

\* the row of a dimension table, a new one with the next serial
upsert_dimension(d, row) ==
  IF row \in DOMAIN d.dims THEN d ELSE [d EXCEPT !.dims = (row :> d.serial) @@ @, !.serial = @ + 1]

\* a row of the table for every name
AddRows(d, table, names) ==
  FoldLeft(LAMBDA acc, name : upsert_dimension(acc, <<table, name>>), d, SetToSeq(names))

-----------------------------------------------------------------------------
(* Tokens, contracts and series.                                           *)

\* the tokens a transaction creates, each with its event
token_create_values(d, h, t) ==
  LET keys == {k \in TxRows(d, h, t) : Ev(d, k).kind = "TokenCreate"}
  IN [sym \in {Ev(d, k).token : k \in keys} |-> Max({d.events[k].id : k \in {l \in keys : Ev(d, l).token = sym}})]

\* a created token has its contract row and links to the event, a stored one too
upsert_tokens_for_transaction(d, h, t) ==
  LET created == token_create_values(d, h, t)
  IN [AddRows(d, "contracts", DOMAIN created) EXCEPT !.tokens = created @@ @]

\* the latest deploy event of each contract among the given rows
DeployOf(d, keys) ==
  LET deploys == {k \in keys : Ev(d, k).kind = "ContractDeploy"}
  IN [c \in {Ev(d, k).token : k \in deploys} |-> Max({d.events[k].id : k \in {l \in deploys : Ev(d, l).token = c}})]

\* for one transaction, or for every stored event in the reconcile pass
apply_contract_string_event_side_effects(d, keys) ==
  LET named == {k \in keys : Ev(d, k).kind \in {"ContractDeploy", "ContractUpgrade"}}
  IN [AddRows(d, "contracts", {Ev(d, k).token : k \in named}) EXCEPT !.creates = DeployOf(d, keys) @@ @]

\* a series row, or an older creation time for the one there is
UpsertSeries(d, keys) ==
  LET names == {Ev(d, k).series : k \in keys}
      First(s) == Min({d.events[k].ts : k \in {l \in keys : Ev(d, l).series = s}})
      Row(s) == IF s \notin DOMAIN d.series THEN [supply |-> 0, created |-> First(s)]
                ELSE [d.series[s] EXCEPT !.created = IF First(s) < @ THEN First(s) ELSE @]
  IN [d EXCEPT !.series = [s \in names |-> Row(s)] @@ @]

\* a series event names the creator, whose address row it adds
upserted_creators(d, keys) == AddRows(d, "addresses", {Ev(d, k).value : k \in keys})
upsert_series_for_transaction(d, h, t) ==
  LET keys == {k \in TxRows(d, h, t) : Ev(d, k).kind = "TokenSeriesCreate"}
  IN UpsertSeries(upserted_creators(d, keys), keys)

-----------------------------------------------------------------------------
(* NFTs.                                                                   *)

\* rows about a token of a known non-fungible contract
nft_event_candidates(d, h, t) ==
  {k \in TxRows(d, h, t) :
     LET ev == Ev(d, k) IN ev.id # "" /\ ev.token \in DOMAIN d.tokens /\ ev.token \in NonFungible
                           /\ is_nft_side_effect_event_kind(ev.kind)}

\* insert the NFT, or refresh its mint date
InsertNfts(d, keys) ==
  LET Minted(n) == {d.events[k].ts : k \in {l \in keys : Nft(Ev(d, l)) = n /\ Ev(d, l).kind = "TokenMint"}}
      Row(n) == LET date == IF Minted(n) = {} THEN 0 ELSE Max(Minted(n))
                IN IF n \notin DOMAIN d.nfts
                   THEN [burned |-> "null", series |-> "", minted |-> date, into |-> << >>]
                   ELSE [d.nfts[n] EXCEPT !.minted = IF date > 0 THEN date ELSE @]
  IN [d EXCEPT !.nfts = [n \in {Nft(Ev(d, k)) : k \in keys} |-> Row(n)] @@ @]

LinkEvents(d, keys) ==
  [d EXCEPT !.events = [k \in keys |-> [d.events[k] EXCEPT !.linked = TRUE]] @@ @]

\* the owner is the address of the transaction's last ownership event, unless the stored change is newer
MutOwnerAnyTime(d, keys) ==
  LET owning == {k \in keys : Ev(d, k).kind \in ownership_kinds}
      LastKey(n) == CHOOSE k \in owning : Nft(Ev(d, k)) = n /\ \A l \in owning : Nft(Ev(d, l)) = n => l[3] <= k[3]
  IN [d EXCEPT !.owners = [n \in {Nft(Ev(d, k)) : k \in owning} |->
                             [who |-> Ev(d, LastKey(n)).who, ts |-> d.events[LastKey(n)].ts]] @@ @]
ApplyOwnership(d, keys) ==
  LET owning == {k \in keys : Ev(d, k).kind \in ownership_kinds}
      LastKey(n) == CHOOSE k \in owning : Nft(Ev(d, k)) = n /\ \A l \in owning : Nft(Ev(d, l)) = n => l[3] <= k[3]
      Desired(n) == [who |-> Ev(d, LastKey(n)).who, ts |-> d.events[LastKey(n)].ts]
      Newer(n) == n \notin DOMAIN d.owners \/ Desired(n).ts >= d.owners[n].ts
  IN [d EXCEPT !.owners = [n \in {m \in {Nft(Ev(d, k)) : k \in owning} : Newer(m)} |-> Desired(n)] @@ @]

apply_nft_side_effects_for_transaction(d, h, t) ==
  LET keys == nft_event_candidates(d, h, t)
  IN ApplyOwnership(LinkEvents(InsertNfts(d, keys), keys), keys)

\* a mint that names its series creates it and links the NFT to it
apply_token_mint_extended_side_effects_for_transaction(d, h, t) ==
  LET keys == {k \in TxRows(d, h, t) : Ev(d, k).kind = "TokenMint" /\ Ev(d, k).series # "" /\ d.events[k].linked}
      SeriesOf(n) == Ev(d, CHOOSE k \in keys : Nft(Ev(d, k)) = n).series
  IN [UpsertSeries(d, keys) EXCEPT
        !.nfts = [n \in {Nft(Ev(d, k)) : k \in keys} |-> [d.nfts[n] EXCEPT !.series = SeriesOf(n)]] @@ @]

\* a fungible total is summed again over every stored infusion of the NFT
InfusionRows(d, keys) ==
  {k \in keys : Ev(d, k).kind = "Infusion" /\ d.events[k].linked /\ Ev(d, k).infused \in DOMAIN d.tokens}
Holding(ev) == <<Nft(ev), ev.infused>>
MutAddInfusion(d, keys) ==
  LET fungible == {k \in keys : Ev(d, k).infused \notin NonFungible}
      Was(f) == IF f \in DOMAIN d.infusions THEN d.infusions[f] ELSE 0
      Added(f) == MapThenSumSet(LAMBDA k : Ev(d, k).value, {k \in fungible : Holding(Ev(d, k)) = f})
  IN [d EXCEPT !.infusions = [f \in {Holding(Ev(d, k)) : k \in fungible} |-> Was(f) + Added(f)] @@ @]
FungibleTotals(d, keys) ==
  LET fungible == {k \in keys : Ev(d, k).infused \notin NonFungible}
      Stored(f) == {k \in InfusionRows(d, DOMAIN d.events) : Holding(Ev(d, k)) = f}
  IN [d EXCEPT !.infusions = [f \in {Holding(Ev(d, k)) : k \in fungible} |->
                                MapThenSumSet(LAMBDA k : Ev(d, k).value, Stored(f))] @@ @]

\* an infused NFT is recorded once and points at its holder
NonFungibleInfusions(d, keys) ==
  LET Into(n) == {k \in keys : <<Ev(d, k).infused, Ev(d, k).value>> = n}
  IN [d EXCEPT
        !.infusions = [f \in {Append(Holding(Ev(d, k)), Ev(d, k).value) : k \in keys} |-> 1] @@ @,
        !.nfts = [n \in {m \in DOMAIN d.nfts : Into(m) # {}} |->
                    [d.nfts[n] EXCEPT !.into = Nft(Ev(d, CHOOSE k \in Into(n) : TRUE))]] @@ @]

apply_infusions_for_transaction(d, h, t) ==
  LET keys == InfusionRows(d, TxRows(d, h, t))
  IN NonFungibleInfusions(FungibleTotals(d, keys), {k \in keys : Ev(d, k).infused \in NonFungible})

-----------------------------------------------------------------------------
(* Burns and the supply of a series.                                       *)

\* one mint or burn of an NFT of a series; the supply moves only when the flag does
MutBurnAlways(d, k) ==
  LET ev == Ev(d, k)
      n == Nft(ev)
      s == d.nfts[n].series
  IN IF ev.kind = "TokenMint"
     THEN IF d.nfts[n].burned = "no" THEN d
          ELSE [d EXCEPT !.nfts[n].burned = "no", !.series[s].supply = @ + 1]
     ELSE [d EXCEPT !.nfts[n].burned = "yes", !.series[s].supply = IF @ > 0 THEN @ - 1 ELSE @]
LifecycleStep(d, k) ==
  LET ev == Ev(d, k)
      n == Nft(ev)
      s == d.nfts[n].series
  IN IF ev.kind = "TokenMint"
     THEN IF d.nfts[n].burned = "no" THEN d
          ELSE [d EXCEPT !.nfts[n].burned = "no", !.series[s].supply = @ + 1]
     ELSE IF d.nfts[n].burned = "yes" THEN d
          ELSE [d EXCEPT !.nfts[n].burned = "yes", !.series[s].supply = IF @ > 0 THEN @ - 1 ELSE @]

apply_series_lifecycle_for_transaction(d, h, t) ==
  FoldLeft(LifecycleStep, d,
           InOrder({k \in TxRows(d, h, t) : /\ Ev(d, k).kind \in {"TokenMint", "TokenBurn"} /\ d.events[k].linked
                                            /\ d.nfts[Nft(Ev(d, k))].series # ""}))

\* a token of this transaction that any stored event burns, here or elsewhere, KCAL excepted
MutMarkOwnBurns(d, h, t) ==
  {Nft(Ev(d, k)) : k \in {l \in TxRows(d, h, t) : /\ Ev(d, l).id # "" /\ Ev(d, l).token # "KCAL"
                                                  /\ Ev(d, l).kind = "TokenBurn"}}
burn_tokens(d, h, t) ==
  {n \in {Nft(Ev(d, k)) : k \in {l \in TxRows(d, h, t) : Ev(d, l).id # "" /\ Ev(d, l).token # "KCAL"}} :
     \E k \in DOMAIN d.events : Ev(d, k).kind = "TokenBurn" /\ Nft(Ev(d, k)) = n}

apply_burn_markers_for_transaction(d, h, t) ==
  LET burnt == burn_tokens(d, h, t)
  IN [d EXCEPT
        !.events = [k \in {l \in DOMAIN @ : Nft(Ev(d, l)) \in burnt} |-> [@[k] EXCEPT !.burned = TRUE]] @@ @,
        !.nfts = [n \in (DOMAIN @) \cap burnt |-> [@[n] EXCEPT !.burned = "yes"]] @@ @]

-----------------------------------------------------------------------------
\* the effects of one transaction, in this order
apply_block_event_side_effects(d, h, t) ==
  LET named  == apply_contract_string_event_side_effects(upsert_tokens_for_transaction(d, h, t), TxRows(d, h, t))
      nfts   == apply_nft_side_effects_for_transaction(upsert_series_for_transaction(named, h, t), h, t)
      minted == apply_token_mint_extended_side_effects_for_transaction(nfts, h, t)
      filled == apply_infusions_for_transaction(minted, h, t)
  IN apply_burn_markers_for_transaction(apply_series_lifecycle_for_transaction(filled, h, t), h, t)
=============================================================================
