--------------------------- MODULE MetadataPasses ---------------------------
(***************************************************************************)
(* The maintenance passes that fill in what events do not carry            *)
(* (crates/ingestion/src/driver.rs, crates/db/src/rpc_metadata.rs and the  *)
(* pass queries of crates/db/src/lib.rs): NFT and series metadata, contract *)
(* metadata and upgrade methods, comments of failed transactions, TTRS     *)
(* off-chain data, token rows and prices.  A pass selects a bounded batch, *)
(* asks the node or a feed item by item, and commits what it got, while    *)
(* blocks are indexed and the node moves on.                               *)
(*                                                                         *)
(* Each maintenance task of the worker is a loop that runs its passes one  *)
(* after the other, and a behaviour follows one task, chosen in `focus`:   *)
(* what the properties are about is written by one task and by blocks.     *)
(* Tasks do share columns that are left out here.  The NFT pass inserts    *)
(* missing series rows, links NFTs to them and fills blank series names,   *)
(* descriptions and images, which the series pass writes too; the NFT and  *)
(* the TTRS pass both write an NFT's name, description, image, mint number *)
(* and mint date, and the last writer wins.                                *)
(* The one-shot commands run while the worker's own task is between        *)
(* passes.  With several endpoints a request is answered by one that may   *)
(* lag: for NFTs that is an error for a token that exists, contracts and   *)
(* tokens are modelled with endpoints that agree.                          *)
(***************************************************************************)
EXTENDS Loops

CONSTANTS
  Nft,            \* NFTs by row id, 1..n
  Missing,        \* NFTs the node no longer knows from the start
  Undated,        \* NFTs that may have been stored with their answer but without the mint date in it
  Contract,       \* contracts by row id, 1..n
  NoContract,     \* contracts the node has no answer for
  Tx,             \* failed transactions by time, 1..n
  Silent,         \* failed transactions, and TTRS ids, the service never explains
  Token,          \* token rows
  Listed,         \* tokens the node answers for
  Key,            \* metadata keys
  Symbol,         \* priced symbols in request order
  Batch,          \* the passes' batch size
  MaxDays,        \* TOKEN_PRICE_DAILY_BACKFILL_MAX_DAYS_PER_RUN
  MaxToday,       \* bound: days
  MaxChanges,     \* bound: changes of token metadata and supply on the node
  MaxUpgrades,    \* bound: contract upgrades
  MaxOutages      \* bound: failed requests and transactions

ASSUME PassAssumption ==
  /\ Batch \in Nat \ {0} /\ MaxDays \in Nat \ {0}
  /\ Cardinality(NoContract) < Batch /\ Cardinality(Silent) < Batch
  /\ 1 \in Contract

VARIABLES
  focus,      \* the maintenance task this behaviour follows
  node,       \* what the node knows: NFTs, the contract's ABI version, the supply of the series; and the NFTs it refused
  nfts,       \* nft rows
  series,     \* the series row
  contracts,  \* contract rows: order of last_updated, stale ones, methods, links, stored upgrade events
  txs,        \* failed transactions and TTRS ids with their text
  tokens,     \* token rows: metadata, supply, live and daily prices
  pass,       \* the running pass: its kind, the candidates left and the answers so far
  outages

vars == <<focus, node, nfts, series, contracts, txs, tokens, pass, outages>>

Idle == [kind |-> "idle", todo |-> << >>, got |-> << >>]
Take(s, n) == SubSeq(s, 1, IF Len(s) < n THEN Len(s) ELSE n)

-----------------------------------------------------------------------------
(* Candidates.                                                             *)

MutKeepAsking(n) == nfts[n].known /\ ~nfts[n].burned /\ nfts[n].response # "ok"
NftGate(n) == nfts[n].known /\ ~nfts[n].burned /\ nfts[n].response = "null"
fetch_nft_rpc_metadata_candidates == Take(Ascending({n \in Nft : NftGate(n)}), Batch)

\* the one-shot repair also takes rows whose mint date the stored response knows better
fetch_nft_rpc_metadata_repair_candidates ==
  Take(Ascending({n \in Nft : NftGate(n) \/ (nfts[n].known /\ ~nfts[n].burned /\ nfts[n].response = "ok" /\ ~nfts[n].dated)}), Batch)

fetch_nft_rpc_metadata_candidates_for_mint_block(minted) == Take(Ascending({n \in minted : NftGate(n)}), Batch)

fetch_series_rpc_metadata_candidates == IF series.response = "null" THEN <<1>> ELSE << >>
fetch_series_rpc_metadata_repair_candidates ==
  IF series.response = "ok" /\ series.supply # series.answered THEN <<1>> ELSE << >>

\* least recently updated first, with whether the current method may be stored
MutByRowId ==
  Take([i \in DOMAIN Ascending(contracts.stale) |-> [contract |-> Ascending(contracts.stale)[i], insert |-> TRUE]], Batch)
fetch_contract_rpc_metadata_candidates ==
  LET due == SelectSeq(contracts.order, LAMBDA c : c \in contracts.stale)
  IN Take([i \in DOMAIN due |-> [contract |-> due[i],
                                 insert |-> \A u \in Range(contracts.upgrades) : u.contract # due[i]]], Batch)

Recorded(u) == \E i \in DOMAIN contracts.methods[u.contract] : contracts.methods[u.contract][i].ts = u.ts
MutOnlyNewer ==
  Take(SelectSeq(contracts.upgrades,
                 LAMBDA u : \A i \in DOMAIN contracts.methods[u.contract] : contracts.methods[u.contract][i].ts < u.ts), Batch)
fetch_contract_upgrade_method_candidates ==
  Take(ForEach(LAMBDA due, u : IF Recorded(u) THEN due ELSE Append(due, u), << >>, contracts.upgrades), Batch)

\* newest first, within FAILED_TX_DEBUG_SEED_WINDOW_SECONDS
fetch_failed_transactions_missing_debug_comment ==
  Take(Reversed(Ascending({t \in Tx : txs[t] = "unexplained" /\ t > node.cutoff})), Batch)
list_contract_nfts_missing_offchain == Take(Ascending({t \in Tx : txs[t] = "unexplained"}), Batch)

-----------------------------------------------------------------------------
(* What the database does with an answer.                                  *)

\* a NULL field of the answer leaves the column; of the columns, the answer itself and the mint date
apply_nft_rpc_metadata(rows, upserts) ==
  [n \in Nft |-> IF \E u \in Range(upserts) : u.nft = n
                 THEN LET u == CHOOSE v \in Range(upserts) : v.nft = n
                      IN [rows[n] EXCEPT !.response = u.response, !.dated = @ \/ u.dated]
                 ELSE rows[n]]

apply_series_rpc_metadata(row, u) ==
  IF u.response = "error" THEN [row EXCEPT !.response = "error"]
  ELSE [response |-> "ok", supply |-> u.supply, answered |-> u.supply]

InsertMethod(cs, c, ts, abi) ==
  [cs EXCEPT !.methods[c] = Append(@, [ts |-> ts, abi |-> abi]), !.link[c] = Len(cs.methods[c]) + 1]

\* the first method of a contract that was never upgraded, if the answer has any; the row goes to the end of the order
apply_contract_rpc_metadata(cs, u) ==
  LET c == u.contract
      moved == [cs EXCEPT !.stale = @ \ {c}, !.order = Append(SelectSeq(@, LAMBDA x : x # c), c)]
  IN IF u.insert /\ cs.link[c] = 0 THEN InsertMethod(moved, c, 0, u.abi) ELSE moved

\* one method per contract and timestamp; the contract is linked to it either way
MutKeepLink(cs, u) ==
  LET stored == InsertMethod(cs, u.contract, u.ts, u.abi)
  IN IF cs.link[u.contract] = 0 THEN stored ELSE [stored EXCEPT !.link = cs.link]
apply_contract_upgrade_method(cs, u) ==
  LET there == {i \in DOMAIN cs.methods[u.contract] : cs.methods[u.contract][i].ts = u.ts}
  IN IF there = {} THEN InsertMethod(cs, u.contract, u.ts, u.abi) ELSE [cs EXCEPT !.link[u.contract] = Max(there)]

\* tokens the node does not answer for keep their row; metadata is replaced, not merged
MutMerge(rows, answer) == [t \in Token |-> IF t \in Listed THEN rows[t] \union answer[t].keys ELSE rows[t]]
update_token_metadata(rows, answer) == [t \in Token |-> IF t \in Listed THEN answer[t].keys ELSE rows[t]]
update_token_supplies(rows, answer) == [t \in Token |-> IF t \in Listed THEN answer[t].supply ELSE rows[t]]

\* a pairing the feed lacks keeps the price there is
update_token_prices(rows, quoted) == [t \in Token |-> IF t \in quoted THEN "quoted" ELSE rows[t]]

-----------------------------------------------------------------------------
(* The node, the feeds and the block writer.                               *)

ListNft ==
  /\ focus \in {"nfts", "series"}
  /\ \E n \in Nft : ~nfts[n].known /\ nfts' = [nfts EXCEPT ![n].known = TRUE]
  /\ UNCHANGED <<focus, node, series, contracts, txs, tokens, pass, outages>>

\* a burn reaches the node first, the tables later; the events move the supply of the series
NodeBurns ==
  /\ focus \in {"nfts", "series"}
  /\ \E n \in Nft : /\ nfts[n].known /\ node.nft[n] = "ok"
                    /\ node' = [node EXCEPT !.nft[n] = "missing", !.supply = @ - 1]
  /\ UNCHANGED <<focus, nfts, series, contracts, txs, tokens, pass, outages>>
IndexBurn ==
  /\ focus \in {"nfts", "series"}
  /\ \E n \in Nft : /\ nfts[n].known /\ ~nfts[n].burned /\ node.nft[n] = "missing" /\ n \notin Missing
                    /\ nfts' = [nfts EXCEPT ![n].burned = TRUE]
  /\ series' = [series EXCEPT !.supply = IF @ > 0 THEN @ - 1 ELSE @]
  /\ UNCHANGED <<focus, node, contracts, txs, tokens, pass, outages>>

\* contract 1 is upgraded, in the second of the upgrade before or a later one, and indexed later
Upgrade ==
  /\ focus = "contracts"
  /\ node.abi < MaxUpgrades
  /\ \E gap \in {0, 1} :
       node' = [node EXCEPT !.abi = @ + 1, !.time = @ + gap, !.pending = Append(@, [contract |-> 1, ts |-> node.time + gap])]
  /\ UNCHANGED <<focus, nfts, series, contracts, txs, tokens, pass, outages>>
IndexUpgrade ==
  /\ node.pending # << >>
  /\ contracts' = [contracts EXCEPT !.upgrades = Append(@, Head(node.pending))]
  /\ node' = [node EXCEPT !.pending = Tail(@)]
  /\ UNCHANGED <<focus, nfts, series, txs, tokens, pass, outages>>

\* CONTRACT_RPC_METADATA_STALE_SECONDS have passed since the update of the contract updated longest ago
Age ==
  /\ focus = "contracts"
  /\ LET fresh == SelectSeq(contracts.order, LAMBDA c : c \notin contracts.stale)
     IN fresh # << >> /\ contracts' = [contracts EXCEPT !.stale = @ \union {Head(fresh)}]
  /\ UNCHANGED <<focus, node, nfts, series, txs, tokens, pass, outages>>

\* governance rewrites a token's metadata, or its supply moves
NodeChangesToken ==
  /\ focus \in {"metadata", "supplies"}
  /\ node.changes < MaxChanges
  /\ \E t \in Listed, keys \in SUBSET Key, supply \in {1, 2} :
       node' = [node EXCEPT !.changes = @ + 1, !.token[t] = [keys |-> keys, supply |-> supply]]
  /\ UNCHANGED <<focus, nfts, series, contracts, txs, tokens, pass, outages>>

\* the oldest transaction leaves the seed window
WindowMoves ==
  /\ focus = "txs"
  /\ node.cutoff < Cardinality(Tx)
  /\ node' = [node EXCEPT !.cutoff = @ + 1]
  /\ UNCHANGED <<focus, nfts, series, contracts, txs, tokens, pass, outages>>

NextDay ==
  /\ focus = "prices"
  /\ tokens.today < MaxToday
  /\ tokens' = [tokens EXCEPT !.today = @ + 1]
  /\ UNCHANGED <<focus, node, nfts, series, contracts, txs, pass, outages>>

-----------------------------------------------------------------------------
(* Passes.                                                                 *)

Begin(task, kind, candidates) ==
  /\ focus = task
  /\ pass = Idle
  /\ candidates # << >>
  /\ pass' = [kind |-> kind, todo |-> candidates, got |-> << >>]
  /\ UNCHANGED <<focus, node, nfts, series, contracts, txs, tokens, outages>>

sync_nft_rpc_metadata_once == Begin("nfts", "nft", fetch_nft_rpc_metadata_candidates)
repair_nft_rpc_metadata_once == Begin("nfts", "nft", fetch_nft_rpc_metadata_repair_candidates)
sync_nft_rpc_metadata_for_mint_block ==
  \E minted \in SUBSET Nft : Begin("nfts", "nft", fetch_nft_rpc_metadata_candidates_for_mint_block(minted))
sync_series_rpc_metadata_once == Begin("series", "series", fetch_series_rpc_metadata_candidates)
repair_series_rpc_metadata_once == Begin("series", "series", fetch_series_rpc_metadata_repair_candidates)
sync_contract_rpc_metadata_once == Begin("contracts", "contract", fetch_contract_rpc_metadata_candidates)
sync_contract_upgrade_methods_once == Begin("contracts", "upgrade", fetch_contract_upgrade_method_candidates)
sync_failed_transaction_debug_comments_once == Begin("txs", "tx", fetch_failed_transactions_missing_debug_comment)
sync_ttrs_offchain_nfts_once == Begin("ttrs", "ttrs", list_contract_nfts_missing_offchain)

Item == Head(pass.todo)
Got(answers) == pass' = [pass EXCEPT !.todo = Tail(@), !.got = @ \o answers]

\* a permanent error is remembered as the NFT's response; a transient one leaves it for the next pass
nft_result_to_metadata_upsert(n) == [nft |-> n, response |-> "ok", dated |-> TRUE]
nft_error_to_metadata_upsert(n) == [nft |-> n, response |-> "error", dated |-> FALSE]
MutRememberOutage(n, transient) == <<nft_error_to_metadata_upsert(n)>>
record_nft_metadata_fetch_failure(n, transient) == IF transient THEN << >> ELSE <<nft_error_to_metadata_upsert(n)>>

\* An NFT the batch answer lacks is asked for alone, so each has an answer or an error of its own.  Whatever is no
\* transport failure is permanent (is_transient_rpc_error): the node's "not found" for a missing token, but also an
\* endpoint that lags, an RPC-level error or an answer that does not decode for a token that exists.
fetch_nft_rpc_metadata ==
  /\ pass.kind = "nft" /\ pass.todo # << >>
  /\ \/ /\ node.nft[Item] = "ok"
        /\ Got(<<nft_result_to_metadata_upsert(Item)>>)
        /\ UNCHANGED <<node, outages>>
     \/ /\ node.nft[Item] = "missing" \/ outages < MaxOutages
        /\ outages' = IF node.nft[Item] = "missing" THEN outages ELSE outages + 1
        /\ node' = [node EXCEPT !.refused = @ \union {Item}]
        /\ Got(record_nft_metadata_fetch_failure(Item, FALSE))
     \/ /\ outages < MaxOutages /\ outages' = outages + 1
        /\ Got(record_nft_metadata_fetch_failure(Item, TRUE))
        /\ UNCHANGED node
  /\ UNCHANGED <<focus, nfts, series, contracts, txs, tokens>>

series_result_to_metadata_upsert(supply) == [response |-> "ok", supply |-> supply]
series_error_to_metadata_upsert == [response |-> "error"]

\* any failure of a series request is stored as its response
fetch_series_rpc_metadata ==
  /\ pass.kind = "series" /\ pass.todo # << >>
  /\ \/ Got(<<series_result_to_metadata_upsert(node.supply)>>) /\ UNCHANGED outages
     \/ outages < MaxOutages /\ outages' = outages + 1 /\ Got(<<series_error_to_metadata_upsert>>)
  /\ UNCHANGED <<focus, node, nfts, series, contracts, txs, tokens>>

\* the batch is committed in one transaction
ApplyNfts ==
  /\ pass.kind = "nft" /\ pass.todo = << >>
  /\ nfts' = apply_nft_rpc_metadata(nfts, pass.got)
  /\ pass' = Idle
  /\ UNCHANGED <<focus, node, series, contracts, txs, tokens, outages>>
ApplySeries ==
  /\ pass.kind = "series" /\ pass.todo = << >>
  /\ series' = apply_series_rpc_metadata(series, Head(pass.got))
  /\ pass' = Idle
  /\ UNCHANGED <<focus, node, nfts, contracts, txs, tokens, outages>>

\* Contracts and upgrades: the node's current ABI, each answer in a transaction of its own, failures skipped.  An answer
\* without methods is skipped like a failure by the upgrade pass, and refreshes the row without a method in the other.
FetchContract ==
  /\ pass.kind \in {"contract", "upgrade"} /\ pass.todo # << >> /\ pass.got = << >>
  /\ \/ /\ Item.contract \notin NoContract
        /\ \E methods \in BOOLEAN :
             /\ methods \/ (pass.kind = "contract" /\ outages < MaxOutages)
             /\ outages' = IF methods THEN outages ELSE outages + 1
             /\ pass' = [pass EXCEPT !.got = <<[abi |-> node.abi, methods |-> methods]>>]
     \/ /\ Item.contract \in NoContract \/ outages < MaxOutages
        /\ outages' = IF Item.contract \in NoContract THEN outages ELSE outages + 1
        /\ Got(<< >>)
  /\ UNCHANGED <<focus, node, nfts, series, contracts, txs, tokens>>
ApplyContract ==
  /\ pass.kind \in {"contract", "upgrade"} /\ pass.got # << >>
  /\ contracts' = IF pass.kind = "contract"
                  THEN apply_contract_rpc_metadata(contracts, [contract |-> Item.contract, insert |-> Item.insert /\ pass.got[1].methods,
                                                              abi |-> pass.got[1].abi])
                  ELSE apply_contract_upgrade_method(contracts, [contract |-> Item.contract, ts |-> Item.ts, abi |-> pass.got[1].abi])
  /\ pass' = [pass EXCEPT !.todo = Tail(@), !.got = << >>]
  /\ UNCHANGED <<focus, node, nfts, series, txs, tokens, outages>>

\* a transaction without a comment in the answer is skipped like a failed request
update_failed_transaction_debug_comment ==
  /\ pass.kind = "tx" /\ pass.todo # << >>
  /\ \/ Item \notin Silent /\ txs' = [txs EXCEPT ![Item] = "explained"] /\ UNCHANGED outages
     \/ Item \in Silent /\ UNCHANGED <<txs, outages>>
     \/ outages < MaxOutages /\ outages' = outages + 1 /\ UNCHANGED txs
  /\ Got(<< >>)
  /\ UNCHANGED <<focus, node, nfts, series, contracts, tokens>>

\* the store knows every id, but system objects are not written
fetch_offchain_batch(ids) == Range(ids) \ Silent

\* one request for the batch: all its records, or none
update_nft_offchain_metadata ==
  /\ pass.kind = "ttrs"
  /\ \/ txs' = [t \in Tx |-> IF t \in fetch_offchain_batch(pass.todo) THEN "explained" ELSE txs[t]] /\ UNCHANGED outages
     \/ outages < MaxOutages /\ outages' = outages + 1 /\ UNCHANGED txs
  /\ pass' = Idle
  /\ UNCHANGED <<focus, node, nfts, series, contracts, tokens>>

\* the end of an item-by-item pass, or a database error that ends any pass with its uncommitted answers
EndPass ==
  /\ pass.kind \in {"contract", "upgrade", "tx"} /\ pass.todo = << >>
  /\ pass' = Idle
  /\ UNCHANGED <<focus, node, nfts, series, contracts, txs, tokens, outages>>
AbortPass ==
  /\ pass # Idle
  /\ outages < MaxOutages
  /\ outages' = outages + 1
  /\ pass' = Idle
  /\ UNCHANGED <<focus, node, nfts, series, contracts, txs, tokens>>

-----------------------------------------------------------------------------
(* Token rows: one answer for all tokens, then one transaction.            *)

Ask(task, kind, answer) ==
  /\ focus = task
  /\ pass = Idle
  /\ pass' = [kind |-> kind, todo |-> << >>, got |-> <<answer>>]
  /\ UNCHANGED <<focus, node, nfts, series, contracts, txs, tokens, outages>>
sync_token_metadata_once == Ask("metadata", "metadata", node.token)
sync_token_supplies_once == Ask("supplies", "supplies", node.token)

ApplyTokens ==
  /\ pass.kind \in {"metadata", "supplies"}
  /\ tokens' = IF pass.kind = "metadata"
               THEN [tokens EXCEPT !.metadata = update_token_metadata(@, pass.got[1])]
               ELSE [tokens EXCEPT !.supply = update_token_supplies(@, pass.got[1])]
  /\ pass' = Idle
  /\ UNCHANGED <<focus, node, nfts, series, contracts, txs, outages>>

-----------------------------------------------------------------------------
(* Prices: the live ones, then the days after the latest stored one.       *)

\* the symbols the feed quotes, GOATI pegged to SOUL
fetch_live_prices ==
  \E listed \in SUBSET Range(Symbol) :
    Ask("prices", "live", listed \union (IF "SOUL" \in listed THEN {"GOATI"} ELSE {}))

latest_token_daily_price_date == Max({r[2] : r \in tokens.rows})

FirstDay == latest_token_daily_price_date + 1

\* the live prices are committed, and the day to resume from and today are fixed for the run; with no stored day
\* there is nothing to resume
sync_token_prices_once ==
  /\ pass.kind = "live"
  /\ tokens' = [tokens EXCEPT !.usd = update_token_prices(@, pass.got[1])]
  /\ pass' = IF tokens.rows = {} THEN Idle
             ELSE [kind |-> "prices", todo |-> <<FirstDay, 0, tokens.today>>, got |-> << >>]
  /\ UNCHANGED <<focus, node, nfts, series, contracts, txs, outages>>

\* at most one close per token and day
upsert_token_daily_prices(closes, day) == {<<s, day>> : s \in closes}

\* one day: the symbols in order until the feed limits the rate; the closes so far are stored, with the pegged
\* GOATI beside SOUL, and a limit ends the run
backfill_day ==
  /\ pass.kind = "prices"
  /\ pass.todo[1] <= pass.todo[3] /\ pass.todo[2] < MaxDays
  /\ \E asked \in 0..Len(Symbol) : \E listed \in SUBSET {Symbol[i] : i \in 1..asked} :
       LET day == pass.todo[1]
           closes == listed \union (IF "SOUL" \in listed THEN {"GOATI"} ELSE {})
       IN /\ asked < Len(Symbol) => outages < MaxOutages
          /\ tokens' = [tokens EXCEPT !.rows = @ \union upsert_token_daily_prices(closes, day),
                                      !.limited = (@ \ {<<s, day>> : s \in Range(Symbol)})
                                                    \union {<<Symbol[i], day>> : i \in (asked + 1)..Len(Symbol)}]
          /\ IF asked < Len(Symbol) THEN pass' = Idle /\ outages' = outages + 1
             ELSE pass' = [pass EXCEPT !.todo = <<day + 1, @[2] + 1, @[3]>>] /\ UNCHANGED outages
  /\ UNCHANGED <<focus, node, nfts, series, contracts, txs>>

EndPrices ==
  /\ pass.kind = "prices"
  /\ pass.todo[1] > pass.todo[3] \/ pass.todo[2] = MaxDays
  /\ pass' = Idle
  /\ UNCHANGED <<focus, node, nfts, series, contracts, txs, tokens, outages>>

-----------------------------------------------------------------------------
Init ==
  /\ focus \in {"nfts", "series", "contracts", "txs", "ttrs", "metadata", "supplies", "prices"}
  /\ node = [nft |-> [n \in Nft |-> IF n \in Missing THEN "missing" ELSE "ok"], supply |-> Cardinality(Nft),
             refused |-> {}, abi |-> 1, time |-> 1, pending |-> << >>, changes |-> 0, cutoff |-> 0,
             token |-> [t \in Token |-> [keys |-> {}, supply |-> 1]]]
  /\ \E undated \in {{}, Undated} :
       nfts = [n \in Nft |-> [known |-> n = Min(Nft) \/ n \in undated, burned |-> FALSE,
                              response |-> IF n \in undated THEN "ok" ELSE "null", dated |-> FALSE]]
  /\ focus # "nfts" => \A n \in Nft : nfts[n].response = "null"
  /\ series = [response |-> "null", supply |-> Cardinality(Nft), answered |-> 0]
  /\ contracts = [order |-> Ascending(Contract), stale |-> Contract, methods |-> [c \in Contract |-> << >>],
                  link |-> [c \in Contract |-> 0], upgrades |-> << >>]
  /\ txs = [t \in Tx |-> "unexplained"]
  /\ \E rows \in {{}, {<<"SOUL", 0>>}} :
       tokens = [rows |-> rows, today |-> 0, limited |-> {},
                 metadata |-> [t \in Token |-> {}], supply |-> [t \in Token |-> 0], usd |-> [t \in Token |-> "null"]]
  /\ focus # "prices" => tokens.rows = {}
  /\ pass = Idle
  /\ outages = 0

Environment == ListNft \/ NodeBurns \/ IndexBurn \/ Upgrade \/ IndexUpgrade \/ Age
                 \/ NodeChangesToken \/ WindowMoves \/ NextDay

Fetch == fetch_nft_rpc_metadata \/ fetch_series_rpc_metadata \/ FetchContract \/ update_failed_transaction_debug_comment
           \/ update_nft_offchain_metadata
           \/ sync_token_prices_once \/ backfill_day
Finish == ApplyTokens \/ ApplyNfts \/ ApplySeries \/ ApplyContract \/ EndPass \/ EndPrices
Scheduled ==
  \/ sync_nft_rpc_metadata_once \/ sync_series_rpc_metadata_once
  \/ sync_contract_rpc_metadata_once \/ sync_contract_upgrade_methods_once
  \/ sync_failed_transaction_debug_comments_once \/ sync_ttrs_offchain_nfts_once
  \/ sync_token_metadata_once \/ sync_token_supplies_once \/ fetch_live_prices
OneShot == sync_nft_rpc_metadata_for_mint_block \/ repair_nft_rpc_metadata_once \/ repair_series_rpc_metadata_once

Next == Environment \/ Fetch \/ Finish \/ Scheduled \/ OneShot \/ AbortPass

\* The maintenance loop comes back to every pass and a pass runs to its end.  A behaviour has one focus, so strong
\* fairness of a disjunction with one pass of each task is strong fairness of each.
Fairness ==
  /\ WF_vars(Fetch \/ Finish)
  /\ SF_vars(sync_nft_rpc_metadata_once \/ sync_contract_rpc_metadata_once \/ sync_token_metadata_once
               \/ sync_token_supplies_once \/ sync_failed_transaction_debug_comments_once \/ sync_ttrs_offchain_nfts_once)
  /\ SF_vars(sync_contract_upgrade_methods_once)

Spec == Init /\ [][Next]_vars /\ Fairness
-----------------------------------------------------------------------------
(* Properties.                                                             *)

\* An NFT is remembered as unresolvable, and never asked for again, only if an endpoint once answered the request for this
\* very token with an error of its own: however many transport failures and lost transactions it meets, an outage alone
\* never is.  (A wrong answer is remembered: is_transient_rpc_error does not tell it from a right one.)
OutageNotRemembered ==
  \A n \in Nft : nfts[n].response = "error" => n \in node.refused

\* The method a contract is linked to holds the newest ABI of all stored for it, in whatever order upgrades were fetched,
\* failed and were fetched again, as long as no later answer comes from an endpoint that lags behind an earlier one.
NewestMethodLinked ==
  \A c \in Contract : contracts.link[c] # 0 =>
    \A i \in DOMAIN contracts.methods[c] : contracts.methods[c][i].abi <= contracts.methods[c][contracts.link[c]].abi

\* Every indexed upgrade gets a method row of its timestamp, also when its first fetch fails and a later upgrade overtakes it.
UpgradesRecorded ==
  []<>(\A u \in Range(contracts.upgrades) : Recorded(u))

\* A stale contract the node knows is refreshed, although unknown contracts stay at the head of the order for ever.
ContractsRefreshed ==
  \A c \in Contract \ NoContract : (focus = "contracts" /\ c \in contracts.stale) ~> (c \notin contracts.stale)

\* No batch is filled for ever by items without an answer: every NFT row gets the node's answer, good or bad, or is burned;
\* a failed transaction the node can explain gets its comment unless it leaves the seed window first, and a TTRS NFT its
\* off-chain record.
BatchesAdvance ==
  /\ []<>(focus = "nfts" => \A n \in Nft : nfts[n].known => nfts[n].burned \/ nfts[n].response # "null")
  /\ <>(focus \in {"txs", "ttrs"} => \A t \in Tx \ Silent : txs[t] = "explained" \/ t <= node.cutoff)

\* The token rows come to equal the node's answer and stay so once the node stops changing: a key removed on chain is not
\* kept alive by the rows or by an answer that was overtaken.
TokensFollowNode ==
  <>[](node.changes = MaxChanges =>
         \A t \in Listed : /\ focus = "metadata" => tokens.metadata[t] = node.token[t].keys
                           /\ focus = "supplies" => tokens.supply[t] = node.token[t].supply)

\* A close that the feed's rate limit cut off is asked for again by the next run.
RestResumes ==
  \A r \in tokens.limited : r[2] >= FirstDay
=============================================================================
