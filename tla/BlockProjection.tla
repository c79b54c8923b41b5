-------------------------- MODULE BlockProjection --------------------------
(***************************************************************************)
(* Projection of decoded blocks into the relational tables: the dimension  *)
(* cache that outlives a block (ProjectionDimensionCache in                *)
(* crates/db/src/lib.rs), the block, transaction, event and address-link   *)
(* rows, and the event side effects of EventEffects.  A block is written   *)
(* at the cursor by the worker; any block the node has is written, before  *)
(* or after the worker reaches it, by the one-shot projection of a second  *)
(* process with a cache of its own.  A write may fail before its commit,   *)
(* and the worker may restart.  The node's chain is part of the state.  Of *)
(* a transaction's three addresses (sender, gas payer, gas target) only    *)
(* the sender is kept.                                                     *)
(*                                                                         *)
(* A write is one step.  The statements of the two processes'              *)
(* transactions, which run at READ COMMITTED and may interleave, do not;   *)
(* neither do the metadata passes, which also write series.current_supply  *)
(* and nfts.series_id.                                                     *)
(***************************************************************************)
EXTENDS EventEffects

CONSTANTS
  Genesis,        \* the block that creates tokens, series and contracts
  Transactions,   \* the transactions a block may hold
  Nfts,           \* the NFTs they are about
  Gaps,           \* seconds between two blocks
  MaxBlocks,      \* bound: blocks of the chain
  MaxTxs,         \* bound: transactions of a block
  MaxIncidents    \* bound: one-shot projections, failed writes and restarts

VARIABLES
  chain,    \* the node's blocks
  world,    \* the owner of each NFT on the node, "none" or "burned"
  cursor,   \* height of the last block written by the worker
  db,       \* the committed tables
  cache,    \* the worker's dimension cache: its long-lived families
  incidents

vars == <<chain, world, cursor, db, cache, incidents>>

Empty == << >>
EmptyTables ==
  [dims |-> Empty, serial |-> 1, blocks |-> Empty, txs |-> Empty, signatures |-> Empty, events |-> Empty, links |-> {},
   firstTx |-> Empty, tokens |-> Empty, creates |-> Empty, series |-> Empty, nfts |-> Empty,
   owners |-> Empty, infusions |-> Empty]

-----------------------------------------------------------------------------
(* The node: a block holds transactions that are valid one after another.  *)

NodeValid(w, ev) ==
  CASE ev.id = "" -> TRUE
    [] ev.kind = "TokenMint" -> w[Nft(ev)] = "none"
    [] ev.kind = "TokenReceive" -> w[Nft(ev)] = "moving"
    [] OTHER -> w[Nft(ev)] = ev.who
NodeApply(w, ev) ==
  IF ev.id = "" THEN w
  ELSE [w EXCEPT ![Nft(ev)] = CASE ev.kind = "TokenSend" -> "moving" [] ev.kind = "TokenBurn" -> "burned"
                                [] OTHER -> ev.who]
NodeRun(w, events) ==
  FoldLeft(LAMBDA acc, ev : IF acc = << >> \/ ~NodeValid(acc[1], ev) THEN << >> ELSE <<NodeApply(acc[1], ev)>>,
           <<w>>, events)

Produce ==
  /\ Len(chain) < MaxBlocks
  /\ \E n \in 1..MaxTxs : \E txs \in [1..n -> Transactions], gap \in Gaps :
       LET after == NodeRun(world, FlattenSeq([i \in 1..n |-> txs[i].events]))
       IN /\ after # << >>
          /\ world' = after[1]
          /\ chain' = Append(chain, [ts |-> chain[Len(chain)].ts + gap, txs |-> txs])
  /\ UNCHANGED <<cursor, db, cache, incidents>>

-----------------------------------------------------------------------------
(* The dimension cache.  `w` is a write in progress: tables and cache.     *)

LongLived == {"header_addresses", "event_kinds", "contracts"}
TableOf(family) == IF family = "header_addresses" THEN "addresses" ELSE family

upsert_address_id(d, address) == upsert_dimension(d, <<"addresses", address>>)
upsert_contract_id(d, contract) == upsert_dimension(d, <<"contracts", contract>>)
upsert_event_kind_id(d, name) == upsert_dimension(d, <<"event_kinds", name>>)
upsert_transaction_state_id(d, name) == upsert_dimension(d, <<"transaction_states", name>>)
upsert_signature_kind_id(d, name) == upsert_dimension(d, <<"signature_kinds", name>>)

resolve(w, family, name) ==
  LET d == CASE family \in {"addresses", "header_addresses"} -> upsert_address_id(w.d, name)
             [] family = "contracts" -> upsert_contract_id(w.d, name)
             [] family = "event_kinds" -> upsert_event_kind_id(w.d, name)
             [] family = "transaction_states" -> upsert_transaction_state_id(w.d, name)
  IN IF <<family, name>> \in DOMAIN w.cache THEN w
     ELSE [d |-> d, cache |-> (<<family, name>> :> d.dims[<<TableOf(family), name>>]) @@ w.cache]

\* the long-lived families move into the write; the per-block ones start empty
take_for_block(d, held) == [d |-> d, cache |-> held]
restore_after_commit(w) ==
  [key \in {k \in DOMAIN w.cache : k[1] \in LongLived} |-> w.cache[key]]

\* the block's transaction addresses in one batch; event addresses resolve as they are met
prefetch_addresses(w, block) ==
  FoldLeft(LAMBDA acc, a : resolve(acc, "addresses", a), w, SetToSeq({block.txs[t].sender : t \in DOMAIN block.txs}))

-----------------------------------------------------------------------------
(* Rows.  A key that is stored keeps its row id.                           *)

MutNewId(table, d, key) == d.serial
RowId(table, d, key) == IF key \in DOMAIN table THEN table[key].id ELSE d.serial
Minted(table, d, key) == IF RowId(table, d, key) = d.serial THEN 1 ELSE 0

upsert_block(w, h) ==
  LET v == resolve(w, "header_addresses", "producer")
      id == RowId(v.d.blocks, v.d, h)
  IN [v EXCEPT !.d.blocks = (h :> [id |-> id, ts |-> chain[h].ts,
                                   producer |-> v.cache[<<"header_addresses", "producer">>]]) @@ @,
               !.d.serial = @ + Minted(v.d.blocks, v.d, h)]

\* the signature rows are deleted and inserted anew; nothing refers to their ids, which are left out
replace_transaction_signatures(d, key, kinds) ==
  LET known == FoldLeft(upsert_signature_kind_id, d, kinds)
  IN [known EXCEPT !.signatures = (key :> [i \in DOMAIN kinds |-> known.dims[<<"signature_kinds", kinds[i]>>]]) @@ @]

upsert_transaction(w, h, t) ==
  LET tx == chain[h].txs[t]
      v == resolve(resolve(w, "transaction_states", tx.state), "addresses", tx.sender)
      row == [id |-> RowId(v.d.txs, v.d, <<h, t>>), sender |-> v.cache[<<"addresses", tx.sender>>],
              state |-> v.cache[<<"transaction_states", tx.state>>]]
      d == [v.d EXCEPT !.txs = (<<h, t>> :> row) @@ @, !.serial = @ + Minted(v.d.txs, v.d, <<h, t>>)]
  IN [v EXCEPT !.d = replace_transaction_signatures(d, <<h, t>>, tx.signatures)]

batch_upsert_transactions(w, h) ==
  FoldLeft(LAMBDA acc, t : upsert_transaction(acc, h, t), w, [t \in DOMAIN chain[h].txs |-> t])

\* an event row starts without its NFT link and without a burn marker, a stored one too
upsert_event_cached(w, k) ==
  LET ev == chain[k[1]].txs[k[2]].events[k[3]]
      v == resolve(resolve(resolve(w, "event_kinds", ev.kind), "addresses", ev.who), "contracts", ev.token)
      id == RowId(v.d.events, v.d, k)
  IN [v EXCEPT !.d.events =
                 (k :> [ev |-> ev, ts |-> chain[k[1]].ts, id |-> id, linked |-> FALSE, burned |-> FALSE,
                        kind |-> v.cache[<<"event_kinds", ev.kind>>], address |-> v.cache[<<"addresses", ev.who>>],
                        contract |-> v.cache[<<"contracts", ev.token>>]]) @@ @,
               !.d.serial = @ + Minted(v.d.events, v.d, k)]

EventKeys(h) ==
  FlattenSeq([t \in DOMAIN chain[h].txs |-> [i \in DOMAIN chain[h].txs[t].events |-> <<h, t, i>>]])
insert_block_events(w, h) ==
  LET desired == Range(EventKeys(h))
      kept == {k \in DOMAIN w.d.events : k[1] = h => k \in desired}
  IN FoldLeft(upsert_event_cached, [w EXCEPT !.d.events = [k \in kept |-> @[k]]], EventKeys(h))

project_block_events(w, h) ==
  LET v == insert_block_events(w, h)
  IN [v EXCEPT !.d = FoldLeft(LAMBDA d, t : apply_block_event_side_effects(d, h, t), @,
                              [t \in DOMAIN chain[h].txs |-> t])]

\* links of the block's addresses to its transactions, and each address's first transaction time
replace_address_transactions_for_block(w, h) ==
  LET links == {<<w.d.txs[k].sender, k>> : k \in {l \in DOMAIN w.d.txs : l[1] = h}}
                 \union {<<w.d.events[k].address, <<k[1], k[2]>> >> : k \in {l \in DOMAIN w.d.events : l[1] = h}}
      First(id) == IF id \in DOMAIN w.d.firstTx /\ w.d.firstTx[id] < chain[h].ts THEN w.d.firstTx[id] ELSE chain[h].ts
  IN [w EXCEPT !.d.links = {l \in @ : l[2][1] # h} \union links,
               !.d.firstTx = [id \in {l[1] : l \in links} |-> First(id)] @@ @]

project_decoded_block(h, held) ==
  LET txs == batch_upsert_transactions(prefetch_addresses(upsert_block(take_for_block(db, held), h), chain[h]), h)
  IN replace_address_transactions_for_block(project_block_events(txs, h), h)

-----------------------------------------------------------------------------
(* Actions.                                                                *)

Init ==
  /\ chain = <<Genesis>>
  /\ world = [n \in Nfts |-> "none"]
  /\ cursor = 0
  /\ db = EmptyTables
  /\ cache = Empty
  /\ incidents = 0

Commit(h) ==
  LET w == project_decoded_block(h, cache) IN db' = w.d /\ cache' = restore_after_commit(w)

write_decoded_block ==
  /\ cursor < Len(chain)
  /\ Commit(cursor + 1)
  /\ cursor' = cursor + 1
  /\ UNCHANGED <<chain, world, incidents>>

\* any block of the node, already indexed or not, projected by a process that exits after it
project_raw_block ==
  /\ incidents < MaxIncidents
  /\ \E h \in 1..Len(chain) : db' = project_decoded_block(h, Empty).d
  /\ incidents' = incidents + 1
  /\ UNCHANGED <<chain, world, cursor, cache>>

\* everything rolls back but the sequence; the cache was moved into the write and dies with it
MutKeepCache(h) ==
  LET w == project_decoded_block(h, cache)
  IN db' = [db EXCEPT !.serial = w.d.serial] /\ cache' = restore_after_commit(w)
Rollback(h) ==
  db' = [db EXCEPT !.serial = project_decoded_block(h, cache).d.serial] /\ cache' = Empty

WriteFails ==
  /\ incidents < MaxIncidents
  /\ cursor < Len(chain)
  /\ Rollback(cursor + 1)
  /\ incidents' = incidents + 1
  /\ UNCHANGED <<chain, world, cursor>>

Restart ==
  /\ incidents < MaxIncidents
  /\ cache' = Empty
  /\ incidents' = incidents + 1
  /\ UNCHANGED <<chain, world, cursor, db>>

\* the maintenance pass links every contract to its latest stored deploy
sync_contract_string_event_side_effects_once ==
  /\ db' = apply_contract_string_event_side_effects(db, DOMAIN db.events)
  /\ UNCHANGED <<chain, world, cursor, cache, incidents>>

Next ==
  \/ Produce
  \/ write_decoded_block
  \/ project_raw_block
  \/ WriteFails
  \/ Restart
  \/ sync_contract_string_event_side_effects_once

Spec == Init /\ [][Next]_vars

-----------------------------------------------------------------------------
(* Properties.                                                             *)

\* Every foreign key of a stored row is the id of the committed row of that very name: an id minted in a
\* transaction that rolled back never reaches a later block through the long-lived cache.
RowsResolve ==
  LET IdOf(table, name) == IF <<table, name>> \in DOMAIN db.dims THEN db.dims[<<table, name>>] ELSE 0
  IN /\ \A h \in DOMAIN db.blocks : db.blocks[h].producer = IdOf("addresses", "producer")
     /\ \A k \in DOMAIN db.txs : /\ db.txs[k].sender = IdOf("addresses", chain[k[1]].txs[k[2]].sender)
                                 /\ db.txs[k].state = IdOf("transaction_states", chain[k[1]].txs[k[2]].state)
                                 /\ \A i \in DOMAIN db.signatures[k] :
                                      db.signatures[k][i] = IdOf("signature_kinds", chain[k[1]].txs[k[2]].signatures[i])
     /\ \A k \in DOMAIN db.events :
          LET row == db.events[k] IN /\ row.kind = IdOf("event_kinds", row.ev.kind)
                                     /\ row.address = IdOf("addresses", row.ev.who)
                                     /\ row.contract = IdOf("contracts", row.ev.token)

\* A block, transaction or event row keeps its id through every later write and re-projection, so cursors, links
\* and create_event_id references to it stay valid.
IdsStable ==
  [][/\ \A h \in DOMAIN db.blocks : h \in DOMAIN db'.blocks /\ db'.blocks[h].id = db.blocks[h].id
     /\ \A k \in DOMAIN db.txs : k \in DOMAIN db'.txs /\ db'.txs[k].id = db.txs[k].id
     /\ \A k \in DOMAIN db.events : k \in DOMAIN db'.events /\ db'.events[k].id = db.events[k].id]_vars

StoredRows(n, kinds) == {k \in DOMAIN db.events : Nft(Ev(db, k)) = n /\ Ev(db, k).kind \in kinds}

\* An NFT is marked burned exactly when a stored event burns it, and then so is every stored event about it, whatever
\* block was projected again after the burn.
BurnMarked ==
  \A n \in DOMAIN db.nfts :
    /\ db.nfts[n].burned = "yes" <=> StoredRows(n, {"TokenBurn"}) # {}
    /\ db.nfts[n].burned = "yes" => \A k \in DOMAIN db.events : Nft(Ev(db, k)) = n => db.events[k].burned

\* Once the worker has passed every stored move of an NFT, its recorded owner is the one after the newest of them; only
\* blocks of that same second can displace each other, and an older block projected again never does.  (A burn projected
\* ahead of the worker removes no owner row yet; the mint the worker reaches later adds one until it reaches the burn.)
OwnerFollowsChain ==
  \A n \in DOMAIN db.owners :
    LET moves == StoredRows(n, ownership_kinds)
        newest == Max({db.events[k].ts : k \in moves})
        LastOf(h) == CHOOSE k \in moves : k[1] = h /\ \A l \in moves : l[1] = h => l[2] < k[2] \/ (l[2] = k[2] /\ l[3] <= k[3])
    IN (\A k \in moves : k[1] <= cursor) =>
       /\ db.owners[n].ts = newest
       /\ \E h \in {k[1] : k \in moves} : chain[h].ts = newest /\ db.owners[n].who = Ev(db, LastOf(h)).who

\* What is recorded as infused into an NFT is the sum over its stored infusion events, however often their blocks are projected.
InfusionsExact ==
  \A k \in InfusionRows(db, DOMAIN db.events) :
    Ev(db, k).infused \notin NonFungible =>
      db.infusions[Holding(Ev(db, k))] =
        MapThenSumSet(LAMBDA l : Ev(db, l).value,
                      {l \in InfusionRows(db, DOMAIN db.events) : Holding(Ev(db, l)) = Holding(Ev(db, k))})

Alive(s) == {n \in DOMAIN db.nfts : db.nfts[n].series = s /\ db.nfts[n].burned # "yes"}

\* As far as blocks write it, the supply of a series counts no fewer tokens than are alive, in whatever order blocks are
\* projected: no re-projection of a burn takes a second one away.
SupplyCoversAlive ==
  \A s \in DOMAIN db.series : db.series[s].supply >= Cardinality(Alive(s))

=============================================================================
