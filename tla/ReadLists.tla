------------------------------ MODULE ReadLists ------------------------------
(***************************************************************************)
(* The read API's lists while the worker keeps writing.  A client walks a  *)
(* list page by page; between two pages blocks are committed or rolled     *)
(* back, rows are hidden, sort columns change.  Three styles of paging:    *)
(*   seek    /transactions and /events: the cursor is the last row's sort  *)
(*           value and id, the next page starts strictly after it;         *)
(*   offset  /blocks, /tokens, /nfts ...: the cursor is a row count;       *)
(*   total   /platforms, /historyPrices ...: the client counts by itself.  *)
(* The same client can instead look one transaction hash up, which the     *)
(* handler answers from several statements.                                *)
(*                                                                         *)
(* All tables are one: a row is its id (a serial value), the chain, height *)
(* and timestamp of its block, and a text column.  A list is the subset it *)
(* selects and the columns it can be ordered by.  The chain and the        *)
(* address stand for the filters on columns that never change.  Left out   *)
(* are the filters on columns that do: the free-text ones of /events also  *)
(* match names of addresses, contracts and NFTs, which later passes fill   *)
(* in, so a row can enter or leave such a selection during a walk.         *)
(***************************************************************************)
EXTENDS Paging, Sequences

CONSTANTS
  Chains,        \* the chains whose blocks the worker writes
  Times,         \* Times[c][h]: timestamp of the block of chain c at height h
  Ids,           \* bound: the serial values 1..n
  BlockSizes,    \* bound: how many rows a block adds
  InitText,      \* a row's text column (hash, symbol, name ...) when inserted
  AddressRows,   \* the rows that touch the address a client may ask for
  Hash,          \* the hash looked up is Hash[id] = "wanted"
  DefaultChain,  \* state.chain
  Limits,        \* page sizes a client may ask for
  MaxMatches,    \* the LIMIT of list_transaction_occurrences: 100
  MaxChanges     \* bound: hidings and renames

ASSUME ReadListsAssumption ==
  /\ IsFiniteSet(Ids) /\ Ids = 1..Cardinality(Ids)
  /\ Limits \subseteq Nat \ {0}
  /\ MaxMatches \in Nat
  /\ BlockSizes \subseteq Nat \ {0}
  /\ AddressRows \subseteq Ids
  /\ InitText \in [Ids -> Int]
  /\ \A c \in Chains : Times[c] \in Seq(Int)

VARIABLES
  table,      \* committed rows: id -> [chain, height, ts]
  text,       \* the text column of every row
  hidden,     \* rows whose nsfw / burned / blacklisted / hidden flag is set
  changes,    \* how many rows were hidden or renamed so far (bounded)
  nextId,     \* the sequence behind the serial ids: never rolled back
  open,       \* open[c]: ids inserted by the uncommitted block of chain c
  tip,        \* tip[c]: height of the last committed block of chain c
  req,        \* the list request the client repeats, page after page
  phase,      \* "idle", "walking", "done" or a step of the hash lookup
  cursor,     \* next_cursor of a seek list: <<>> or <<sort_value, id>>
  offset,     \* next_cursor of an offset list, or the client's own offset
  served,     \* rows handed out by this walk
  sent,       \* how many rows were handed out, repeats included
  start,      \* rows the list held when the walk began
  disturbed,  \* a row was hidden or renamed during the walk
  found       \* what the hash lookup has read so far

tableVars == <<table, text, hidden, changes, nextId, open, tip>>
walkVars == <<req, phase, cursor, offset, served, sent, start, disturbed>>
vars == <<table, text, hidden, changes, nextId, open, tip,
          req, phase, cursor, offset, served, sent, start, disturbed, found>>

Rows == DOMAIN table
AnyChain == "any"

OnChain(chain) == {r \in Rows : chain = AnyChain \/ table[r].chain = chain}

------------------------------------------------------------------------------
\* Sort columns, per order_by parameter (the from_api_param / column pairs).
TransactionOrderBy == [id |-> "ts", date |-> "ts", block_height |-> "height"]
EventOrderBy == [id |-> "id", date |-> "ts", block_height |-> "height"]
BlockOrderBy == [id |-> "id", height |-> "height", hash |-> "text", date |-> "ts"]
TokenOrderBy == [id |-> "id", symbol |-> "text"]
AddressOrderBy == [id |-> "id", address |-> "text", address_name |-> "text", balance |-> "text"]
ContractOrderBy == [id |-> "id", symbol |-> "text", name |-> "text"]
NftOrderBy == [id |-> "id", mint_date |-> "ts"]
SeriesOrderBy == [id |-> "id", created |-> "ts", series_id |-> "text", name |-> "text"]
OrganizationOrderBy == [id |-> "id", name |-> "text", organization_id |-> "text"]
EventKindOrderBy == [id |-> "id", name |-> "text"]
PlatformOrderBy == [id |-> "id", name |-> "text"]
MethodHistoryOrderBy == [id |-> "id", symbol |-> "text", name |-> "text", date |-> "ts"]
HistoryPriceOrderBy == [id |-> "id", symbol |-> "text", date |-> "ts"]

OrderBy(list) ==
  CASE list = "transactions" -> TransactionOrderBy
    [] list = "events" -> EventOrderBy
    [] list = "blocks" -> BlockOrderBy
    [] list = "tokens" -> TokenOrderBy
    [] list = "addresses" -> AddressOrderBy
    [] list = "contracts" -> ContractOrderBy
    [] list = "nfts" -> NftOrderBy
    [] list = "series" -> SeriesOrderBy
    [] list = "organizations" -> OrganizationOrderBy
    [] list = "event_kinds" -> EventKindOrderBy
    [] list = "platforms" -> PlatformOrderBy
    [] list = "contract_method_histories" -> MethodHistoryOrderBy
    [] list = "history_prices" -> HistoryPriceOrderBy

Column(r, column) ==
  CASE column = "id" -> r
    [] column = "ts" -> table[r].ts
    [] column = "height" -> table[r].height
    [] column = "text" -> text[r]

SortValue(q, r) == Column(r, OrderBy(q.list)[q.order_by])

\* SortDirection::cursor_operator: "<" when descending, ">" when ascending.
PrecedesIn(direction, a, b) == IF direction = "asc" THEN a < b ELSE b < a

\* The position <<value, id>> lies before <<value2, id2>>: the sort column first,
\* the id breaking ties, both in the requested direction.
Before(direction, value, id, value2, id2) ==
  \/ PrecedesIn(direction, value, value2)
  \/ value = value2 /\ PrecedesIn(direction, id, id2)

\* ORDER BY {column} {dir}, id {dir}
RowOrder(q) ==
  {p \in Rows \X Rows :
     Before(q.direction, SortValue(q, p[1]), p[1], SortValue(q, p[2]), p[2])}

------------------------------------------------------------------------------
\* The list queries: the rows they select, ordered, limited.

\* The comparison is not strict.
MutSeekInclusive(q, S, after) ==
  {r \in S : \/ after = <<>> \/ after[2] = r
             \/ Before(q.direction, after[1], after[2], SortValue(q, r), r)}

\* The seek predicate of a keyset query: everything after the cursor.
SeekFrom(q, S, after) ==
  {r \in S : after = <<>> \/ Before(q.direction, after[1], after[2], SortValue(q, r), r)}

\* row_cursor: the sort value and the id of the last row of the page.
row_cursor(q, last) == <<SortValue(q, last), last>>

list_transactions_global(q, after, n) ==
  Slice(RowOrder(q), SeekFrom(q, OnChain(q.chain), after), 0, n)

list_transactions_for_address_timeline(q, after, n) ==
  Slice(RowOrder(q), SeekFrom(q, Rows \cap AddressRows, after), 0, n)

list_transactions_for_filtered_address(q, after, n) ==
  Slice(RowOrder(q), SeekFrom(q, OnChain(q.chain) \cap AddressRows, after), 0, n)

list_events_global(q, after, n) ==
  Slice(RowOrder(q), SeekFrom(q, OnChain(q.chain), after), 0, n)

list_events_by_address(q, after, n) ==
  Slice(RowOrder(q), SeekFrom(q, OnChain(q.chain) \cap AddressRows, after), 0, n)

list_blocks(q, n, skip) == Slice(RowOrder(q), OnChain(q.chain), skip, n)

list_tokens(q, n, skip) == Slice(RowOrder(q), OnChain(q.chain), skip, n)

list_addresses(q, n, skip) == Slice(RowOrder(q), OnChain(q.chain), skip, n)

list_contracts(q, n, skip) == Slice(RowOrder(q), OnChain(q.chain), skip, n)

\* nsfw, burned and blacklisted NFTs are not listed.
list_nfts(q, n, skip) == Slice(RowOrder(q), OnChain(q.chain) \ hidden, skip, n)

\* Blacklisted series are not listed.
list_series(q, n, skip) == Slice(RowOrder(q), OnChain(q.chain) \ hidden, skip, n)

list_organizations(q, n, skip) == Slice(RowOrder(q), Rows, skip, n)

\* The kinds are one table for all chains.  Asked for a chain, the list holds the kinds
\* with an event on it: a row here is a kind, entered by the first chain that uses it.
list_event_kinds(q, n, skip) == Slice(RowOrder(q), OnChain(q.chain), skip, n)

list_platforms(q, n, skip) == Slice(RowOrder(q), Rows \ hidden, skip, n)

\* Joined through contracts.contract_method_id: a method row that an upgrade has
\* replaced is no longer listed.
list_contract_method_histories(q, n, skip) ==
  Slice(RowOrder(q), OnChain(q.chain) \ hidden, skip, n)

\* No limit: every point.
list_history_prices(q, limited, n, skip) ==
  IF limited THEN Slice(RowOrder(q), Rows, skip, n) ELSE Rows

SeekLists == {"transactions", "events"}
OffsetLists == {"blocks", "tokens", "addresses", "contracts", "nfts", "series",
                "organizations", "event_kinds"}
TotalLists == {"platforms", "contract_method_histories", "history_prices"}
HidingLists == {"nfts", "series", "platforms", "contract_method_histories"}
RenamedLists == {"addresses", "contracts", "series"}
ChainlessLists == {"organizations", "platforms", "history_prices"}
ListNames == SeekLists \cup OffsetLists \cup TotalLists

\* The rows a request is about (without cursor and limit).
Selected(q) ==
  {r \in OnChain(q.chain) : /\ q.address => r \in AddressRows
                            /\ q.list \in HidingLists => r \notin hidden}

------------------------------------------------------------------------------
\* The worker (one database transaction per block and per chain).

\* Rows are inserted, and take their ids, before the transaction commits.
InsertBlock(c) ==
  /\ open[c] = {}
  /\ tip[c] < Len(Times[c])
  /\ \E k \in BlockSizes :
       /\ nextId + k - 1 \in Ids
       /\ open' = [open EXCEPT ![c] = nextId..(nextId + k - 1)]
       /\ nextId' = nextId + k
  /\ UNCHANGED <<table, text, hidden, changes, tip, walkVars, found>>

CommitBlock(c) ==
  /\ open[c] # {}
  /\ LET height == tip[c] + 1
         row == [chain |-> c, height |-> height, ts |-> Times[c][height]]
     IN /\ table' = [r \in Rows \cup open[c] |-> IF r \in open[c] THEN row ELSE table[r]]
        /\ tip' = [tip EXCEPT ![c] = height]
  /\ open' = [open EXCEPT ![c] = {}]
  /\ UNCHANGED <<text, hidden, changes, nextId, walkVars, found>>

RollbackBlock(c) ==
  /\ open[c] # {}
  /\ open' = [open EXCEPT ![c] = {}]
  /\ UNCHANGED <<table, text, hidden, changes, nextId, tip, walkVars, found>>

\* An NFT is burned, a series blacklisted, a contract upgraded.
HideRow(r) ==
  /\ changes < MaxChanges
  /\ req.list \in HidingLists
  /\ hidden' = hidden \cup {r}
  /\ changes' = changes + 1
  /\ disturbed' = TRUE
  /\ UNCHANGED <<table, text, nextId, open, tip, req, phase, cursor, offset, served, sent, start, found>>

\* An account refresh or a metadata pass rewrites a name or a balance.
RenameRow(r) ==
  /\ changes < MaxChanges
  /\ req.list \in RenamedLists
  /\ \E value \in {InitText[s] : s \in Ids} : text' = [text EXCEPT ![r] = value]
  /\ changes' = changes + 1
  /\ disturbed' = TRUE
  /\ UNCHANGED <<table, hidden, nextId, open, tip, req, phase, cursor, offset, served, sent, start, found>>

------------------------------------------------------------------------------
\* The client and the list handlers.

ListRequests ==
  UNION { [list : {list}, order_by : DOMAIN OrderBy(list), direction : {"asc", "desc"},
           limit : Limits, limited : IF list = "history_prices" THEN BOOLEAN ELSE {TRUE},
           address : IF list \in SeekLists THEN BOOLEAN ELSE {FALSE},
           chain : CASE list \in SeekLists \cup {"event_kinds"} -> Chains \cup {AnyChain}
                     [] list \in ChainlessLists -> {AnyChain}
                     [] OTHER -> Chains] : list \in ListNames }

\* GET /transactions/{hash}
HashRequest == [list |-> "transaction_by_hash", order_by |-> "id", direction |-> "asc",
                limit |-> 1, limited |-> TRUE, address |-> FALSE, chain |-> DefaultChain]

Requests == ListRequests \cup {HashRequest}

Begin(q) ==
  /\ phase = "idle"
  /\ q.list \in ListNames
  /\ req' = q
  /\ phase' = "walking"
  /\ cursor' = <<>>
  /\ offset' = 0
  /\ served' = {}
  /\ sent' = 0
  /\ start' = Selected(q)
  /\ disturbed' = FALSE
  /\ UNCHANGED <<tableVars, found>>

\* rows.first() instead of rows.last().
MutTrimPage(fetched) ==
  LET order == RowOrder(req)
      kept == Truncate(order, fetched, req.limit)
      first == CHOOSE r \in kept : \A s \in kept : s = r \/ <<r, s>> \in order
  IN /\ served' = served \cup kept
     /\ sent' = sent + Cardinality(kept)
     /\ IF HasNextPage(fetched, req.limit)
        THEN cursor' = row_cursor(req, first) /\ phase' = phase
        ELSE cursor' = <<>> /\ phase' = "done"
     /\ UNCHANGED offset

\* trim_page_rows and row_cursor: keep limit rows; if there were more, the next
\* cursor is the last kept row's sort value and id.
trim_page_rows(fetched) ==
  LET order == RowOrder(req)
      kept == Truncate(order, fetched, req.limit)
      last == LastOf(order, kept)
  IN /\ served' = served \cup kept
     /\ sent' = sent + Cardinality(kept)
     /\ IF HasNextPage(fetched, req.limit)
        THEN cursor' = row_cursor(req, last) /\ phase' = phase
        ELSE cursor' = <<>> /\ phase' = "done"
     /\ UNCHANGED offset

\* The extra row is counted too.
MutTrimOffset(fetched) ==
  LET kept == Truncate(RowOrder(req), fetched, req.limit)
  IN /\ served' = served \cup kept
     /\ sent' = sent + Cardinality(kept)
     /\ offset' = offset + Cardinality(fetched)
     /\ phase' = IF HasNextPage(fetched, req.limit) THEN phase ELSE "done"
     /\ UNCHANGED cursor

\* trim_offset_rows: the next cursor is the offset plus the rows kept.
trim_offset_rows(fetched) ==
  LET kept == Truncate(RowOrder(req), fetched, req.limit)
  IN /\ served' = served \cup kept
     /\ sent' = sent + Cardinality(kept)
     /\ offset' = offset + Cardinality(kept)
     /\ phase' = IF HasNextPage(fetched, req.limit) THEN phase ELSE "done"
     /\ UNCHANGED cursor

\* Lists without a cursor: the client adds the rows it received to its offset and
\* stops at a short page.
client_offset(fetched) ==
  /\ served' = served \cup fetched
  /\ sent' = sent + Cardinality(fetched)
  /\ offset' = offset + Cardinality(fetched)
  /\ phase' = IF req.limited /\ Cardinality(fetched) >= req.limit THEN phase ELSE "done"
  /\ UNCHANGED cursor

Answers(list) ==
  /\ phase = "walking"
  /\ req.list = list
  /\ UNCHANGED <<tableVars, req, start, disturbed, found>>

\* load_transactions: the address timeline when the address is the only filter.
transactions ==
  /\ Answers("transactions")
  /\ trim_page_rows(
       IF ~req.address THEN list_transactions_global(req, cursor, req.limit + 1)
       ELSE IF req.chain = AnyChain
            THEN list_transactions_for_address_timeline(req, cursor, req.limit + 1)
            ELSE list_transactions_for_filtered_address(req, cursor, req.limit + 1))

\* load_events
events ==
  /\ Answers("events")
  /\ trim_page_rows(IF req.address THEN list_events_by_address(req, cursor, req.limit + 1)
                    ELSE list_events_global(req, cursor, req.limit + 1))

blocks ==
  Answers("blocks") /\ trim_offset_rows(list_blocks(req, req.limit + 1, offset))

tokens ==
  Answers("tokens") /\ trim_offset_rows(list_tokens(req, req.limit + 1, offset))

addresses ==
  Answers("addresses") /\ trim_offset_rows(list_addresses(req, req.limit + 1, offset))

contracts ==
  Answers("contracts") /\ trim_offset_rows(list_contracts(req, req.limit + 1, offset))

nfts ==
  Answers("nfts") /\ trim_offset_rows(list_nfts(req, req.limit + 1, offset))

series ==
  Answers("series") /\ trim_offset_rows(list_series(req, req.limit + 1, offset))

organizations ==
  Answers("organizations") /\ trim_offset_rows(list_organizations(req, req.limit + 1, offset))

event_kinds ==
  Answers("event_kinds") /\ trim_offset_rows(list_event_kinds(req, req.limit + 1, offset))

platforms ==
  Answers("platforms") /\ client_offset(list_platforms(req, req.limit, offset))

contract_method_histories ==
  /\ Answers("contract_method_histories")
  /\ client_offset(list_contract_method_histories(req, req.limit, offset))

history_prices ==
  /\ Answers("history_prices")
  /\ client_offset(list_history_prices(req, req.limited, req.limit, offset))

------------------------------------------------------------------------------
\* GET /transactions/{hash}: count the occurrences, list them, then load the one.

Occurrences == {r \in OnChain(DefaultChain) : Hash[r] = "wanted"}

BeginLookup ==
  /\ phase = "idle"
  /\ req = HashRequest
  /\ phase' = "count"
  /\ found' = [before |-> Occurrences, count |-> 0, matches |-> {}, answer |-> "none"]
  /\ UNCHANGED <<tableVars, req, cursor, offset, served, sent, start, disturbed>>

transaction_occurrence_count ==
  /\ phase = "count"
  /\ phase' = "matches"
  /\ found' = [found EXCEPT !.count = Cardinality(Occurrences)]
  /\ UNCHANGED <<tableVars, req, cursor, offset, served, sent, start, disturbed>>

\* ORDER BY height, tx_index: within a block the ids rise with tx_index.
OccurrenceOrder ==
  {p \in Rows \X Rows : Before("asc", table[p[1]].height, p[1], table[p[2]].height, p[2])}

list_transaction_occurrences ==
  /\ phase = "matches"
  /\ phase' = "answer"
  /\ found' = [found EXCEPT !.matches = Slice(OccurrenceOrder, Occurrences, 0, MaxMatches)]
  /\ UNCHANGED <<tableVars, req, cursor, offset, served, sent, start, disturbed>>

\* The occurrences are counted again for the answer.
MutByHash ==
  /\ phase = "answer"
  /\ phase' = "done"
  /\ found' = [found EXCEPT !.count = Cardinality(Occurrences),
                           !.answer = CASE Occurrences = {} -> "not_found"
                                        [] Cardinality(Occurrences) = 1 -> "detail"
                                        [] OTHER -> "ambiguous"]
  /\ UNCHANGED <<tableVars, req, cursor, offset, served, sent, start, disturbed>>

\* 404, 409 with the occurrences, or the single row, read again.
transaction_by_hash ==
  /\ phase = "answer"
  /\ phase' = "done"
  /\ found' = [found EXCEPT !.answer =
                 CASE found.count = 0 -> "not_found"
                   [] found.count = 1 -> IF Occurrences = {} THEN "not_found" ELSE "detail"
                   [] OTHER -> "ambiguous"]
  /\ UNCHANGED <<tableVars, req, cursor, offset, served, sent, start, disturbed>>

------------------------------------------------------------------------------
Init ==
  /\ table = <<>>
  /\ text = InitText
  /\ hidden = {}
  /\ changes = 0
  /\ nextId = 1
  /\ open = [c \in Chains |-> {}]
  /\ tip = [c \in Chains |-> 0]
  /\ req \in Requests
  /\ phase = "idle"
  /\ cursor = <<>>
  /\ offset = 0
  /\ served = {}
  /\ sent = 0
  /\ start = {}
  /\ disturbed = FALSE
  /\ found = [before |-> {}, count |-> 0, matches |-> {}, answer |-> "none"]

Worker ==
  \/ \E c \in Chains : InsertBlock(c) \/ CommitBlock(c) \/ RollbackBlock(c)
  \/ \E r \in Rows : HideRow(r) \/ RenameRow(r)

Api ==
  \/ transactions \/ events
  \/ blocks \/ tokens \/ addresses \/ contracts \/ nfts \/ series
  \/ organizations \/ event_kinds
  \/ platforms \/ contract_method_histories \/ history_prices
  \/ transaction_occurrence_count \/ list_transaction_occurrences \/ transaction_by_hash

Next ==
  \/ Worker
  \/ Begin(req) \/ BeginLookup
  \/ Api

Spec == Init /\ [][Next]_vars

------------------------------------------------------------------------------
Seeking == phase = "walking" /\ req.list \in SeekLists

\* A row lies at or before the cursor of the walk.
Passed(r) ==
  /\ cursor # <<>>
  /\ r = cursor[2] \/ Before(req.direction, SortValue(req, r), r, cursor[1], cursor[2])

\* The cursor of /transactions and /events (row_cursor, the seek predicate) cuts
\* the list in two: whatever was served lies at or before it, and no row the walk
\* began with lies before it unserved, whatever was committed in between.
CursorCutsTheList ==
  Seeking =>
    /\ \A r \in served : Passed(r)
    /\ \A r \in start : Passed(r) => r \in served

\* A walk of a seek list as a sweep.
D == INSTANCE Sweep WITH
       Row <- Ids,
       todo <- IF req.list \in SeekLists THEN start \ served ELSE {},
       got <- IF req.list \in SeekLists THEN served ELSE {},
       sent <- IF req.list \in SeekLists THEN sent ELSE 0,
       active <- Seeking

\* Following next_cursor through /transactions or /events delivers every row that
\* was there at the start exactly once, in every order and direction, while blocks
\* of several chains are committed and rolled back between the pages.
ImplementsSweep == D!Spec

\* Following next_cursor through an OFFSET list (trim_offset_rows) skips no row as
\* long as rows are only added: an insertion can repeat a row, never lose one.
\* (A row hidden or renamed on the way shifts the rest and can lose one.)
OffsetWalkComplete ==
  phase = "done" /\ req.list \notin SeekLists /\ ~disturbed => start \subseteq served

\* GET /transactions/{hash} answers from three statements, and a block may be
\* committed between any two.  Still: a hash that was stored when the request
\* arrived is never "not found", one that was ambiguous is reported ambiguous, and
\* a 409 that lists fewer occurrences than it may lists all that were stored when the
\* request arrived, and no fewer than it counts.
LookupHonest ==
  /\ found.answer = "not_found" => found.before = {}
  /\ Cardinality(found.before) > 1 /\ found.answer # "none" => found.answer = "ambiguous"
  /\ found.answer = "ambiguous" =>
       \/ Cardinality(found.matches) = MaxMatches
       \/ /\ found.before \subseteq found.matches
          /\ found.count <= Cardinality(found.matches)
==============================================================================
