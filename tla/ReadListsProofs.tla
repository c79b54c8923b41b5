--------------------------- MODULE ReadListsProofs ---------------------------
(***************************************************************************)
(* Proofs about ReadLists for every set of chains, every block timestamps, *)
(* every page size, order and direction, and any number of rows, hidings   *)
(* and renames.                                                            *)
(***************************************************************************)
EXTENDS ReadLists, FiniteSetTheorems, WellFoundedInduction, TLAPS

------------------------------------------------------------------------------
(* The page arithmetic, for every finite table and every strict total order *)
(* on it.                                                                   *)

\* The rows before r.
Below(order, S, r) == {s \in S : <<s, r>> \in order}

\* A set of natural numbers has a least element.
LEMMA LeastNatural ==
  ASSUME NEW T \in SUBSET Nat, T # {}
  PROVE  \E m \in T : \A k \in T : m <= k
<1>1. PICK m \in T : \A k \in T : ~ (<<k, m>> \in OpToRel(<, Nat))
  BY NatLessThanWellFounded, WFMin
<1>2. \A k \in T : ~ (k < m)
  BY <1>1 DEF OpToRel
<1> QED
  BY <1>2

\* A row's rank is a number, smaller than the number of rows.
LEMMA RankType ==
  ASSUME NEW order, NEW S, IsFiniteSet(S), TotalOrderOn(order, S), NEW r \in S
  PROVE  /\ Rank(order, S, r) \in Nat
         /\ Cardinality(S) \in Nat
         /\ Rank(order, S, r) < Cardinality(S)
<1>1. Below(order, S, r) \in SUBSET S /\ r \notin Below(order, S, r)
  BY DEF Below, TotalOrderOn
<1>2. /\ IsFiniteSet(Below(order, S, r))
      /\ Cardinality(Below(order, S, r)) <= Cardinality(S)
      /\ Cardinality(S) = Cardinality(Below(order, S, r)) => S = Below(order, S, r)
  BY <1>1, FS_Subset
<1>3. Cardinality(Below(order, S, r)) \in Nat /\ Cardinality(S) \in Nat
  BY <1>2, FS_CardinalityType
<1>4. Rank(order, S, r) = Cardinality(Below(order, S, r))
  BY DEF Rank, Below
<1> QED
  BY <1>1, <1>2, <1>3, <1>4

\* An earlier row has a smaller rank.
LEMMA RankMonotone ==
  ASSUME NEW order, NEW S, IsFiniteSet(S), TotalOrderOn(order, S),
         NEW r \in S, NEW s \in S, <<r, s>> \in order
  PROVE  Rank(order, S, r) < Rank(order, S, s)
<1>1. /\ Below(order, S, r) \in SUBSET Below(order, S, s)
      /\ r \in Below(order, S, s) /\ r \notin Below(order, S, r)
  BY DEF Below, TotalOrderOn
<1>2. IsFiniteSet(Below(order, S, s))
  <2>1. Below(order, S, s) \in SUBSET S
    BY DEF Below
  <2> QED
    BY <2>1, FS_Subset
<1>3. /\ Cardinality(Below(order, S, r)) <= Cardinality(Below(order, S, s))
      /\ Cardinality(Below(order, S, s)) = Cardinality(Below(order, S, r)) =>
           Below(order, S, s) = Below(order, S, r)
  BY <1>1, <1>2, FS_Subset
<1>4. /\ Rank(order, S, r) = Cardinality(Below(order, S, r))
      /\ Rank(order, S, s) = Cardinality(Below(order, S, s))
  BY DEF Rank, Below
<1>5. Rank(order, S, r) \in Nat /\ Rank(order, S, s) \in Nat
  BY RankType
<1> QED
  BY <1>1, <1>3, <1>4, <1>5

\* Of any rows, one comes first.
LEMMA FirstExists ==
  ASSUME NEW order, NEW S, IsFiniteSet(S), TotalOrderOn(order, S),
         NEW T \in SUBSET S, T # {}
  PROVE  \E r \in T : \A s \in T : s = r \/ <<r, s>> \in order
<1> DEFINE Ranks == {Rank(order, S, r) : r \in T}
<1>1. Ranks \in SUBSET Nat /\ Ranks # {}
  BY RankType
<1>2. PICK m \in Ranks : \A k \in Ranks : m <= k
  BY <1>1, LeastNatural
<1>3. PICK r \in T : m = Rank(order, S, r)
  OBVIOUS
<1>4. ASSUME NEW s \in T, s # r, <<r, s>> \notin order PROVE FALSE
  <2>1. <<s, r>> \in order
    BY <1>4 DEF TotalOrderOn
  <2>2. Rank(order, S, s) < Rank(order, S, r)
    BY <2>1, RankMonotone
  <2>3. m <= Rank(order, S, s)
    BY <1>2
  <2>4. Rank(order, S, s) \in Nat /\ Rank(order, S, r) \in Nat
    BY RankType
  <2> QED
    BY <1>3, <2>2, <2>3, <2>4
<1> QED
  BY <1>4

\* Of any rows, one comes last: LastOf names it.
LEMMA LastExists ==
  ASSUME NEW order, NEW S, IsFiniteSet(S), TotalOrderOn(order, S), S # {}
  PROVE  /\ LastOf(order, S) \in S
         /\ \A s \in S : s = LastOf(order, S) \/ <<s, LastOf(order, S)>> \in order
<1> DEFINE Left(r) == Cardinality(S) - Rank(order, S, r)
           Lefts == {Left(r) : r \in S}
<1>1. \A r \in S : Left(r) \in Nat
  BY RankType
<1>2. Lefts \in SUBSET Nat /\ Lefts # {}
  BY <1>1
<1> HIDE DEF Left
<1>3. PICK m \in Lefts : \A k \in Lefts : m <= k
  BY <1>2, LeastNatural
<1>4. PICK r \in S : m = Left(r)
  OBVIOUS
<1>5. ASSUME NEW s \in S, s # r, <<s, r>> \notin order PROVE FALSE
  <2>1. <<r, s>> \in order
    BY <1>5 DEF TotalOrderOn
  <2>2. Rank(order, S, r) < Rank(order, S, s)
    BY <2>1, RankMonotone
  <2>3. Left(r) <= Left(s)
    BY <1>3, <1>4
  <2>4. /\ Rank(order, S, s) \in Nat /\ Rank(order, S, r) \in Nat
        /\ Cardinality(S) \in Nat
    BY RankType
  <2> QED
    BY <2>2, <2>3, <2>4 DEF Left
<1>6. \E x \in S : \A s \in S : s = x \/ <<s, x>> \in order
  BY <1>5
<1> QED
  BY <1>6 DEF LastOf

\* A limited query returns the first rows of the list: with a row, every earlier one.
LEMMA SliceIsPrefix ==
  ASSUME NEW order, NEW S, IsFiniteSet(S), TotalOrderOn(order, S), NEW n \in Nat,
         NEW r \in Slice(order, S, 0, n), NEW s \in S, <<s, r>> \in order
  PROVE  s \in Slice(order, S, 0, n)
<1>1. r \in S /\ Rank(order, S, r) < 0 + n
  BY DEF Slice
<1>2. Rank(order, S, s) < Rank(order, S, r)
  BY <1>1, RankMonotone
<1>3. Rank(order, S, s) \in Nat /\ Rank(order, S, r) \in Nat
  BY <1>1, RankType
<1> QED
  BY <1>1, <1>2, <1>3 DEF Slice

\* A query that asked for n rows and got fewer returned all of them.
LEMMA ShortSliceIsAll ==
  ASSUME NEW order, NEW S, IsFiniteSet(S), TotalOrderOn(order, S), NEW n \in Nat,
         Cardinality(Slice(order, S, 0, n)) < n
  PROVE  Slice(order, S, 0, n) = S
<1> DEFINE P == Slice(order, S, 0, n)
<1>1. P \in SUBSET S
  BY DEF Slice
<1> SUFFICES ASSUME S \ P # {} PROVE FALSE
  BY <1>1
<1>2. PICK s \in S \ P : \A t \in S \ P : t = s \/ <<s, t>> \in order
  <2>1. S \ P \in SUBSET S
    OBVIOUS
  <2> HIDE DEF P
  <2> QED
    BY <2>1, FirstExists
<1>3. Below(order, S, s) \in SUBSET P
  BY <1>2 DEF Below, TotalOrderOn
<1>4. IsFiniteSet(P)
  BY <1>1, FS_Subset
<1>5. Cardinality(Below(order, S, s)) <= Cardinality(P)
  BY <1>3, <1>4, FS_Subset
<1>6. Rank(order, S, s) = Cardinality(Below(order, S, s))
  BY DEF Rank, Below
<1>7. Rank(order, S, s) \in Nat /\ Cardinality(P) \in Nat
  BY <1>4, RankType, FS_CardinalityType
<1>8. Rank(order, S, s) >= n
  BY <1>2, <1>7 DEF Slice
<1> QED
  BY <1>5, <1>6, <1>7, <1>8

\* A row's rank is its own: n consecutive ranks belong to at most n rows.
LEMMA CountByRank ==
  ASSUME NEW order, NEW S, IsFiniteSet(S), TotalOrderOn(order, S), NEW T \in SUBSET S,
         NEW a \in Nat, NEW n \in Nat,
         \A r \in T : a <= Rank(order, S, r) /\ Rank(order, S, r) < a + n
  PROVE  IsFiniteSet(T) /\ Cardinality(T) \in Nat /\ Cardinality(T) <= n
<1> DEFINE b == a + n - 1
           f == [r \in T |-> Rank(order, S, r)]
<1>1. a \in Int /\ b \in Int /\ (a > b => n = 0) /\ (~(a > b) => b - a + 1 = n)
  OBVIOUS
<1>2. \A r \in T : f[r] \in a..b
  BY RankType
<1>3. \A r, s \in T : f[r] = f[s] => r = s
  <2> TAKE r, s \in T
  <2>1. Rank(order, S, r) \in Nat /\ Rank(order, S, s) \in Nat
    BY RankType
  <2>2. <<r, s>> \in order => Rank(order, S, r) < Rank(order, S, s)
    BY RankMonotone
  <2>3. <<s, r>> \in order => Rank(order, S, s) < Rank(order, S, r)
    BY RankMonotone
  <2> QED
    BY <2>1, <2>2, <2>3 DEF TotalOrderOn
<1>4. f \in Injection(T, a..b)
  BY <1>2, <1>3 DEF Injection, IsInjective
<1> HIDE DEF b, f
<1>5. IsFiniteSet(a..b) /\ Cardinality(a..b) = IF a > b THEN 0 ELSE b - a + 1
  BY <1>1, FS_Interval
<1>6. Cardinality(T) <= Cardinality(a..b) /\ IsFiniteSet(T)
  BY <1>4, <1>5, FS_Injection
<1>7. Cardinality(T) \in Nat
  BY <1>6, FS_CardinalityType
<1> QED
  BY <1>1, <1>5, <1>6, <1>7

\* A page that came back short reaches the end of the list.
LEMMA ShortPage ==
  ASSUME NEW order, NEW S, IsFiniteSet(S), TotalOrderOn(order, S), NEW k \in Nat, NEW n \in Nat,
         Cardinality(Slice(order, S, k, n)) < n
  PROVE  \A r \in S : Rank(order, S, r) < k + n
<1> DEFINE P == Slice(order, S, k, n)
           Low == {r \in S : Rank(order, S, r) < k}
           Beyond == {r \in S : ~(Rank(order, S, r) < k + n)}
<1>0. \A r \in S : Rank(order, S, r) \in Nat
  BY RankType
<1>1. IsFiniteSet(Low) /\ Cardinality(Low) \in Nat /\ Cardinality(Low) <= k
  <2>1. Low \in SUBSET S /\ 0 \in Nat /\ \A r \in Low : 0 <= Rank(order, S, r) /\ Rank(order, S, r) < 0 + k
    BY <1>0
  <2> HIDE DEF Low
  <2> QED
    BY <2>1, CountByRank
<1>2. IsFiniteSet(P) /\ Cardinality(P) \in Nat
  <2>1. P \in SUBSET S
    BY DEF Slice
  <2> HIDE DEF P
  <2> QED
    BY <2>1, FS_Subset, FS_CardinalityType
<1>3. IsFiniteSet(Low \cup P) /\ Cardinality(Low \cup P) <= k + Cardinality(P)
  <2> HIDE DEF Low, P
  <2>1. IsFiniteSet(Low \cup P)
    BY <1>1, <1>2, FS_Union
  <2>2. Cardinality(Low \cup P) = Cardinality(Low) + Cardinality(P) - Cardinality(Low \cap P)
    BY <1>1, <1>2, FS_Union
  <2>3. IsFiniteSet(Low \cap P)
    BY <1>1, FS_Intersection
  <2>4. Cardinality(Low \cap P) \in Nat /\ Cardinality(Low \cup P) \in Nat
    BY <2>1, <2>3, FS_CardinalityType
  <2> QED
    BY <1>1, <1>2, <2>1, <2>2, <2>4
<1> SUFFICES ASSUME Beyond # {} PROVE FALSE
  OBVIOUS
<1>4. PICK s \in Beyond : \A t \in Beyond : t = s \/ <<s, t>> \in order
  <2>1. Beyond \in SUBSET S
    OBVIOUS
  <2> HIDE DEF Beyond
  <2> QED
    BY <2>1, FirstExists
<1>5. Below(order, S, s) \in SUBSET (Low \cup P)
  <2> SUFFICES ASSUME NEW t \in S, <<t, s>> \in order PROVE t \in Low \cup P
    BY DEF Below
  <2>1. t \notin Beyond
    BY <1>4 DEF TotalOrderOn
  <2> QED
    BY <1>0, <2>1 DEF Slice
<1>6. Cardinality(Below(order, S, s)) <= Cardinality(Low \cup P)
  <2> HIDE DEF Low, P
  <2> QED
    BY <1>3, <1>5, FS_Subset
<1>7. Rank(order, S, s) = Cardinality(Below(order, S, s))
  BY DEF Rank, Below
<1>8. Cardinality(Low \cup P) \in Nat
  BY <1>3, FS_CardinalityType
<1>9. Rank(order, S, s) \in Nat /\ ~(Rank(order, S, s) < k + n) /\ Cardinality(P) < n
  BY <1>0, <1>4
<1> HIDE DEF P, Low, Beyond
<1> QED
  BY <1>2, <1>3, <1>6, <1>7, <1>8, <1>9

\* trim_offset_rows: of the rows from position k on, the page keeps as many of the first
\* as it counts, and all of them when there is no next page.
LEMMA TrimmedPage ==
  ASSUME NEW order, NEW S, IsFiniteSet(S), TotalOrderOn(order, S), NEW k \in Nat,
         NEW n \in Nat, NEW fetched, fetched = Slice(order, S, k, n + 1),
         NEW kept, kept = Truncate(order, fetched, n), NEW r \in S, k <= Rank(order, S, r),
         Rank(order, S, r) < k + Cardinality(kept) \/ ~HasNextPage(fetched, n)
  PROVE  r \in kept
<1>0. Rank(order, S, r) \in Nat
  BY RankType
<1>1. fetched \in SUBSET S /\ IsFiniteSet(fetched) /\ TotalOrderOn(order, fetched)
  <2>1. fetched \in SUBSET S
    BY DEF Slice
  <2> QED
    BY <2>1, FS_Subset DEF TotalOrderOn
<1>2. kept = Slice(order, fetched, 0, n) /\ kept \in SUBSET fetched
  BY DEF Truncate, Slice
<1>3. Cardinality(kept) \in Nat /\ Cardinality(kept) <= n
  <2>1. 0 \in Nat /\ \A s \in kept : 0 <= Rank(order, fetched, s) /\ Rank(order, fetched, s) < 0 + n
    BY <1>2 DEF Slice
  <2> QED
    BY <1>1, <1>2, <2>1, CountByRank
<1>4. ASSUME r \in fetched, Rank(order, fetched, r) < n PROVE r \in kept
  <2>1. Rank(order, fetched, r) \in Nat
    BY <1>1, <1>4, RankType
  <2> QED
    BY <1>2, <1>4, <2>1 DEF Slice
<1>5. CASE ~HasNextPage(fetched, n)
  <2>1. Cardinality(fetched) \in Nat /\ Cardinality(fetched) <= n
    BY <1>1, <1>5, FS_CardinalityType DEF HasNextPage
  <2>2. Rank(order, S, r) < k + (n + 1)
    <3>1. Cardinality(Slice(order, S, k, n + 1)) < n + 1 /\ n + 1 \in Nat
      BY <2>1
    <3> QED
      BY <3>1, ShortPage
  <2>3. r \in fetched
    BY <2>2 DEF Slice
  <2>4. Rank(order, fetched, r) < Cardinality(fetched) /\ Rank(order, fetched, r) \in Nat
    BY <1>1, <2>3, RankType
  <2>5. Rank(order, fetched, r) < n
    BY <2>1, <2>4
  <2> QED
    BY <1>4, <2>3, <2>5
<1>6. CASE Rank(order, S, r) < k + Cardinality(kept)
  <2>1. r \in fetched
    BY <1>0, <1>3, <1>6 DEF Slice
  <2> DEFINE B == Below(order, fetched, r)
             m == Rank(order, S, r) - k
  <2>2. m \in Nat /\ m < Cardinality(kept) /\ k + m = Rank(order, S, r)
    BY <1>0, <1>3, <1>6
  <2>3. B \in SUBSET S
    BY <1>1 DEF Below
  <2>4. ASSUME NEW s \in B PROVE k <= Rank(order, S, s) /\ Rank(order, S, s) < k + m
    <3>1. s \in fetched /\ s \in S /\ <<s, r>> \in order
      BY <1>1 DEF Below
    <3>2. Rank(order, S, s) < Rank(order, S, r)
      BY <3>1, RankMonotone
    <3> QED
      BY <2>2, <3>1, <3>2 DEF Slice
  <2> HIDE DEF B, m
  <2>5. Cardinality(B) <= m /\ Cardinality(B) \in Nat
    BY <2>2, <2>3, <2>4, CountByRank
  <2>6. Rank(order, fetched, r) = Cardinality(B)
    BY DEF Rank, Below, B
  <2>7. Rank(order, fetched, r) < n
    BY <1>3, <2>2, <2>5, <2>6
  <2> QED
    BY <1>4, <2>1, <2>7
<1> QED
  BY <1>5, <1>6

\* The same for a client that adds up the rows it received and stops at a short page.
LEMMA ClientPage ==
  ASSUME NEW order, NEW S, IsFiniteSet(S), TotalOrderOn(order, S), NEW k \in Nat,
         NEW n \in Nat, NEW fetched, fetched = Slice(order, S, k, n), NEW r \in S,
         k <= Rank(order, S, r),
         Rank(order, S, r) < k + Cardinality(fetched) \/ Cardinality(fetched) < n
  PROVE  r \in fetched
<1>0. Rank(order, S, r) \in Nat
  BY RankType
<1>1. Cardinality(fetched) \in Nat /\ Cardinality(fetched) <= n
  <2>1. fetched \in SUBSET S /\ \A s \in fetched : k <= Rank(order, S, s) /\ Rank(order, S, s) < k + n
    BY DEF Slice
  <2> QED
    BY <2>1, CountByRank
<1>2. Rank(order, S, r) < k + n
  BY <1>0, <1>1, ShortPage
<1> QED
  BY <1>2 DEF Slice

------------------------------------------------------------------------------
(* The inductive invariant. *)

USE ReadListsAssumption

SeekRequest == req.list \in SeekLists

\* What the tables are: committed rows carry the values of their block, the rows
\* of open transactions are others, and no id is given out twice.
TableInv ==
  /\ Rows \subseteq Ids
  /\ \A r \in Rows : table[r].height \in Int /\ table[r].ts \in Int
  /\ open \in [Chains -> SUBSET Ids]
  /\ tip \in [Chains -> Nat]
  /\ nextId \in Nat \ {0}
  /\ \A c \in Chains : open[c] # {} => tip[c] < Len(Times[c])
  /\ \A c \in Chains : \A r \in open[c] : r < nextId /\ r \notin Rows
  /\ \A r \in Rows : r < nextId
  /\ \A c, d \in Chains : c # d => open[c] \cap open[d] = {}

\* A walk of a seek list: its cursor is a row it has served, and cuts the list.
WalkInv ==
  SeekRequest =>
    /\ phase \in {"idle", "walking", "done"}
    /\ start \subseteq Selected(req)
    /\ served \subseteq Rows
    /\ phase = "idle" => start = {} /\ served = {} /\ sent = 0
    /\ phase = "done" => start \subseteq served
    /\ phase = "walking" => \/ cursor = <<>> /\ served = {}
                            \/ \E l \in served : cursor = row_cursor(req, l)
    /\ CursorCutsTheList

IInv == req \in Requests /\ TableInv /\ WalkInv

------------------------------------------------------------------------------
(* Orders. *)

\* The positions of a list are totally ordered, in either direction.
LEMMA BeforeTotal ==
  ASSUME NEW d, NEW a \in Int, NEW b \in Int, NEW r \in Int, NEW s \in Int
  PROVE  /\ ~Before(d, a, r, a, r)
         /\ Before(d, a, r, b, s) => ~Before(d, b, s, a, r)
         /\ \/ a = b /\ r = s
            \/ Before(d, a, r, b, s)
            \/ Before(d, b, s, a, r)
BY DEF Before, PrecedesIn

LEMMA BeforeTransitive ==
  ASSUME NEW d, NEW a \in Int, NEW b \in Int, NEW c \in Int,
         NEW r \in Int, NEW s \in Int, NEW t \in Int,
         Before(d, a, r, b, s), Before(d, b, s, c, t)
  PROVE  Before(d, a, r, c, t)
BY DEF Before, PrecedesIn

\* What a request for a seek list asks for.
LEMMA SeekRequestType ==
  ASSUME req \in Requests, SeekRequest
  PROVE  /\ OrderBy(req.list)[req.order_by] \in {"id", "ts", "height"}
         /\ req.limit \in Nat \ {0}
         /\ req.list \notin HidingLists
         /\ req.list \in ListNames
         /\ req.address \in BOOLEAN
<1>1. req \in ListRequests
  BY DEF Requests, HashRequest, SeekRequest, SeekLists
<1>2. PICK list \in ListNames :
        req \in [list : {list}, order_by : DOMAIN OrderBy(list), direction : {"asc", "desc"},
           limit : Limits, limited : IF list = "history_prices" THEN BOOLEAN ELSE {TRUE},
           address : IF list \in SeekLists THEN BOOLEAN ELSE {FALSE},
           chain : CASE list \in SeekLists \cup {"event_kinds"} -> Chains \cup {AnyChain}
                     [] list \in ChainlessLists -> {AnyChain}
                     [] OTHER -> Chains]
  BY <1>1 DEF ListRequests
<1>3. /\ req.list = list /\ req.order_by \in DOMAIN OrderBy(list) /\ req.limit \in Limits
      /\ req.address \in BOOLEAN
  BY <1>2
<1>4. CASE list = "transactions"
  <2>1. OrderBy(list) = TransactionOrderBy
    BY <1>4 DEF OrderBy
  <2>2. \A column \in DOMAIN TransactionOrderBy : TransactionOrderBy[column] \in {"id", "ts", "height"}
    BY DEF TransactionOrderBy
  <2>3. list \notin HidingLists
    BY <1>4 DEF HidingLists
  <2> QED
    BY <1>3, <2>1, <2>2, <2>3
<1>5. CASE list = "events"
  <2>1. OrderBy(list) = EventOrderBy
    BY <1>5 DEF OrderBy
  <2>2. \A column \in DOMAIN EventOrderBy : EventOrderBy[column] \in {"id", "ts", "height"}
    BY DEF EventOrderBy
  <2>3. list \notin HidingLists
    BY <1>5 DEF HidingLists
  <2> QED
    BY <1>3, <2>1, <2>2, <2>3
<1> QED
  BY <1>3, <1>4, <1>5 DEF SeekRequest, SeekLists

\* A committed row has a sort value, and keeps it.
LEMMA SortValueType ==
  ASSUME IInv, SeekRequest, NEW r \in Rows
  PROVE  /\ SortValue(req, r) \in Int /\ r \in Int
         /\ req' = req /\ table'[r] = table[r] => SortValue(req, r)' = SortValue(req, r)
<1>1. OrderBy(req.list)[req.order_by] \in {"id", "ts", "height"}
  BY SeekRequestType DEF IInv
<1>2. r \in Int
  BY FS_CardinalityType DEF IInv, TableInv
<1> QED
  BY <1>1, <1>2 DEF SortValue, Column, IInv, TableInv

\* Any selection of rows is totally ordered.
LEMMA RowOrderTotal ==
  ASSUME IInv, SeekRequest, NEW S \in SUBSET Rows
  PROVE  IsFiniteSet(S) /\ TotalOrderOn(RowOrder(req), S)
<1>1. IsFiniteSet(S)
  <2>1. S \in SUBSET Ids
    BY DEF IInv, TableInv
  <2> QED
    BY <2>1, FS_Subset
<1>2. \A r, s \in S : <<r, s>> \in RowOrder(req) <=>
                      Before(req.direction, SortValue(req, r), r, SortValue(req, s), s)
  BY DEF RowOrder
<1>3. \A r \in S : SortValue(req, r) \in Int /\ r \in Int
  BY SortValueType
<1>4. \A r, s, t \in S : <<r, s>> \in RowOrder(req) /\ <<s, t>> \in RowOrder(req) =>
                         <<r, t>> \in RowOrder(req)
  BY <1>2, <1>3, BeforeTransitive
<1>5. \A r, s \in S : r = s \/ <<r, s>> \in RowOrder(req) \/ <<s, r>> \in RowOrder(req)
  BY <1>2, <1>3, BeforeTotal
<1>6. \A r \in S : <<r, r>> \notin RowOrder(req)
  BY <1>2, <1>3, BeforeTotal
<1> QED
  BY <1>1, <1>4, <1>5, <1>6 DEF TotalOrderOn

------------------------------------------------------------------------------
(* A page. *)

\* The rows after the cursor, the page fetched from them and the rows kept of it.
Rest == SeekFrom(req, Selected(req), cursor)
Fetched == Slice(RowOrder(req), Rest, 0, req.limit + 1)
Kept == Truncate(RowOrder(req), Fetched, req.limit)

LEMMA PageTypes ==
  ASSUME IInv, SeekRequest
  PROVE  /\ Rest \subseteq Rows /\ IsFiniteSet(Rest) /\ TotalOrderOn(RowOrder(req), Rest)
         /\ Fetched \subseteq Rest /\ IsFiniteSet(Fetched)
         /\ TotalOrderOn(RowOrder(req), Fetched)
         /\ Kept \subseteq Fetched /\ IsFiniteSet(Kept) /\ TotalOrderOn(RowOrder(req), Kept)
         /\ req.limit \in Nat \ {0}
<1>1. Rest \in SUBSET Rows
  BY DEF Rest, SeekFrom, Selected, OnChain
<1>2. Fetched \in SUBSET Rest
  BY DEF Fetched, Slice
<1>3. Kept \in SUBSET Fetched
  BY DEF Kept, Truncate, Slice
<1>4. Fetched \in SUBSET Rows /\ Kept \in SUBSET Rows
  BY <1>1, <1>2, <1>3
<1> QED
  BY <1>1, <1>2, <1>3, <1>4, RowOrderTotal, SeekRequestType DEF IInv

\* With a row, the page holds every row between the cursor and it.
LEMMA KeptIsPrefix ==
  ASSUME IInv, SeekRequest, NEW k \in Kept, NEW r \in Rest, <<r, k>> \in RowOrder(req)
  PROVE  r \in Kept
<1>1. k \in Fetched /\ req.limit + 1 \in Nat /\ req.limit \in Nat
  BY PageTypes
<1>2. r \in Fetched
  BY <1>1, PageTypes, SliceIsPrefix DEF Fetched
<1>3. Kept = Slice(RowOrder(req), Fetched, 0, req.limit)
  BY DEF Kept, Truncate
<1> HIDE DEF Fetched, Kept
<1> QED
  BY <1>1, <1>2, <1>3, PageTypes, SliceIsPrefix

\* If another page follows, this one is not empty.
LEMMA KeptNotEmpty ==
  ASSUME IInv, SeekRequest, HasNextPage(Fetched, req.limit)
  PROVE  Kept # {}
<1>1. Fetched # {}
  BY PageTypes, FS_EmptySet DEF HasNextPage
<1>2. PICK r \in Fetched : \A s \in Fetched : s = r \/ <<r, s>> \in RowOrder(req)
  BY <1>1, PageTypes, FirstExists
<1>3. Below(RowOrder(req), Fetched, r) = {}
  BY <1>2, PageTypes DEF Below, TotalOrderOn
<1>4. Rank(RowOrder(req), Fetched, r) = 0
  BY <1>3, FS_EmptySet DEF Rank, Below
<1>5. r \in Slice(RowOrder(req), Fetched, 0, req.limit)
  BY <1>4, PageTypes DEF Slice
<1> QED
  BY <1>5 DEF Kept, Truncate

\* If no other page follows, this one holds everything that was left.
LEMMA LastPageIsAll ==
  ASSUME IInv, SeekRequest, ~HasNextPage(Fetched, req.limit)
  PROVE  Kept = Rest
<1>1. Cardinality(Fetched) \in Nat /\ Cardinality(Fetched) <= req.limit
  BY PageTypes, FS_CardinalityType DEF HasNextPage
<1>2. Fetched = Rest
  <2>1. Cardinality(Fetched) < req.limit + 1 /\ req.limit + 1 \in Nat
    BY <1>1, PageTypes
  <2> QED
    BY <2>1, PageTypes, ShortSliceIsAll DEF Fetched
<1>3. \A r \in Fetched : /\ Rank(RowOrder(req), Fetched, r) \in Nat
                         /\ Rank(RowOrder(req), Fetched, r) < Cardinality(Fetched)
  BY PageTypes, RankType
<1>4. Fetched \subseteq Kept
  BY <1>1, <1>3, PageTypes DEF Kept, Truncate, Slice
<1> QED
  BY <1>2, <1>4, PageTypes

\* The page starts where the walk stands: its rows come after everything served,
\* and what lies before them of the rows the walk began with has been served.
LEMMA PageFollowsServed ==
  ASSUME IInv, SeekRequest, phase = "walking"
  PROVE  /\ \A r \in served, k \in Kept :
              Before(req.direction, SortValue(req, r), r, SortValue(req, k), k)
         /\ Kept \cap served = {}
         /\ \A r \in start : r \notin Rest => r \in served
<1> DEFINE V(r) == SortValue(req, r)
           B(r, s) == Before(req.direction, V(r), r, V(s), s)
<1>1. /\ served \subseteq Rows /\ start \subseteq Selected(req)
      /\ Kept \subseteq Rest /\ Rest \subseteq Rows /\ Selected(req) \subseteq Rows
  BY PageTypes DEF IInv, WalkInv, Selected, OnChain
<1>2. \A r \in Rows : V(r) \in Int /\ r \in Int
  BY SortValueType
<1>3. CASE cursor = <<>> /\ served = {}
  <2>1. Rest = Selected(req)
    BY <1>3 DEF Rest, SeekFrom
  <2> QED
    BY <1>1, <1>3, <2>1
<1>4. CASE \E l \in served : cursor = row_cursor(req, l)
  <2>1. PICK l \in served : cursor = <<V(l), l>>
    BY <1>4 DEF row_cursor
  <2>2. cursor # <<>> /\ cursor[1] = V(l) /\ cursor[2] = l
    BY <2>1
  <2>3. \A r \in Selected(req) : r \in Rest <=> B(l, r)
    BY <2>2 DEF Rest, SeekFrom
  <2>4. /\ \A r \in served : r = l \/ B(r, l)
        /\ \A r \in start : r = l \/ B(r, l) => r \in served
    BY <2>2 DEF IInv, WalkInv, SeekRequest, CursorCutsTheList, Seeking, Passed
  <2> HIDE DEF V
  <2>5. ASSUME NEW r \in served, NEW k \in Kept PROVE B(r, k)
    <3>1. B(l, k)
      BY <1>1, <2>3 DEF Rest, SeekFrom
    <3> QED
      BY <1>1, <1>2, <2>4, <3>1, BeforeTransitive
  <2>6. Kept \cap served = {}
    BY <1>1, <1>2, <2>5, BeforeTotal
  <2>7. ASSUME NEW r \in start, r \notin Rest PROVE r \in served
    <3>1. ~B(l, r)
      BY <1>1, <2>3, <2>7
    <3>2. r = l \/ B(r, l)
      BY <1>1, <1>2, <3>1, BeforeTotal
    <3> QED
      BY <2>4, <3>2
  <2> QED
    BY <2>5, <2>6, <2>7 DEF V
<1> QED
  BY <1>3, <1>4 DEF IInv, WalkInv

\* A page keeps the invariant, and is a delivery of the rows kept.
LEMMA PageStep ==
  ASSUME IInv, SeekRequest, phase = "walking", trim_page_rows(Fetched),
         UNCHANGED <<tableVars, req, start, disturbed, found>>
  PROVE  /\ WalkInv'
         /\ Kept \cap served = {}
         /\ served' = served \cup Kept
         /\ sent' = sent + Cardinality(Kept)
         /\ phase' \in {"walking", "done"}
<1> DEFINE V(r) == SortValue(req, r)
           B(r, s) == Before(req.direction, V(r), r, V(s), s)
<1>1. /\ served' = served \cup Kept
      /\ sent' = sent + Cardinality(Kept)
      /\ IF HasNextPage(Fetched, req.limit)
           THEN /\ cursor' = row_cursor(req, LastOf(RowOrder(req), Kept))
                /\ phase' = phase
           ELSE cursor' = <<>> /\ phase' = "done"
  BY DEF trim_page_rows, Kept
<1>2. /\ served \subseteq Rows /\ start \subseteq Selected(req)
      /\ Kept \subseteq Rest /\ Rest \subseteq Rows /\ Selected(req) \subseteq Rows
  BY PageTypes DEF IInv, WalkInv, Selected, OnChain
<1>3. /\ req' = req /\ start' = start /\ table' = table /\ SeekRequest'
      /\ Selected(req)' = Selected(req) /\ Rows' = Rows
  BY DEF tableVars, SeekRequest, Selected, OnChain, Rows
<1>4. \A r \in Rows : V(r) \in Int /\ r \in Int /\ V(r)' = V(r)
  BY <1>3, SortValueType
<1>5. /\ \A r \in served, k \in Kept : B(r, k)
      /\ Kept \cap served = {}
      /\ \A r \in start : r \notin Rest => r \in served
  BY PageFollowsServed
<1>6. phase' \in {"walking", "done"}
  BY <1>1
<1>7. CASE HasNextPage(Fetched, req.limit)
  <2>1. PICK l \in Kept : /\ l = LastOf(RowOrder(req), Kept)
                          /\ \A k \in Kept : k = l \/ <<k, l>> \in RowOrder(req)
    BY <1>7, PageTypes, KeptNotEmpty, LastExists
  <2>2. cursor' = <<V(l), l>> /\ phase' = "walking"
    BY <1>1, <1>7, <2>1 DEF row_cursor
  <2>3. \A r, s \in Rows : <<r, s>> \in RowOrder(req) <=> B(r, s)
    BY DEF RowOrder
  <2>4. l \in Rows /\ V(l)' = V(l)
    BY <1>2, <1>4, <2>1
  <2>5. \A r \in served' : r = l \/ B(r, l)
    BY <1>1, <1>2, <1>5, <2>1, <2>3
  <2>6. ASSUME NEW r \in start, r = l \/ B(r, l) PROVE r \in served'
    <3>1. CASE r \in Rest /\ r # l
      BY <1>1, <1>2, <2>1, <2>3, <2>6, <3>1, KeptIsPrefix
    <3> QED
      BY <1>1, <1>5, <2>1, <3>1
  <2>7. \A r \in Rows : Passed(r)' <=> r = l \/ B(r, l)
    <3>1. cursor' # <<>> /\ cursor'[1] = V(l) /\ cursor'[2] = l
      BY <2>2
    <3> HIDE DEF V
    <3> QED
      BY <1>3, <1>4, <3>1 DEF Passed, V
  <2>8. CursorCutsTheList'
    BY <1>1, <1>2, <1>3, <2>5, <2>6, <2>7 DEF CursorCutsTheList
  <2>9. \E x \in served' : cursor' = row_cursor(req, x)'
    <3>1. row_cursor(req, l)' = <<V(l)', l>>
      BY DEF row_cursor
    <3> QED
      BY <1>1, <2>2, <2>4, <3>1
  <2> QED
    BY <1>1, <1>2, <1>3, <1>5, <2>2, <2>8, <2>9 DEF WalkInv
<1>8. CASE ~HasNextPage(Fetched, req.limit)
  <2>1. Kept = Rest
    BY <1>8, LastPageIsAll
  <2>2. start \subseteq served' /\ phase' = "done"
    BY <1>1, <1>5, <1>8, <2>1
  <2> QED
    BY <1>1, <1>2, <1>3, <1>5, <2>2 DEF WalkInv, CursorCutsTheList, Seeking
<1> QED
  BY <1>1, <1>5, <1>6, <1>7, <1>8

------------------------------------------------------------------------------
(* Every step. *)

\* While rows are only added and keep their values, a walk stands where it stood.
LEMMA GrowthKeepsWalk ==
  ASSUME IInv, UNCHANGED <<req, phase, cursor, served, sent, start>>,
         Rows \subseteq Rows', \A r \in Rows : table'[r] = table[r]
  PROVE  WalkInv'
<1> SUFFICES ASSUME SeekRequest' PROVE WalkInv'
  BY DEF WalkInv
<1>1. SeekRequest
  BY DEF SeekRequest
<1>2. \A r \in Rows : SortValue(req, r)' = SortValue(req, r)
  BY <1>1, SortValueType
<1>3. Selected(req) \subseteq Selected(req)' /\ Selected(req) \subseteq Rows
  <2>1. req.list \notin HidingLists
    BY <1>1, SeekRequestType DEF IInv
  <2> QED
    BY <2>1 DEF Selected, OnChain
<1>4. \A r \in Rows : Passed(r)' <=> Passed(r)
  BY <1>2 DEF Passed
<1>5. \A l \in Rows : row_cursor(req, l)' = row_cursor(req, l)
  BY <1>2 DEF row_cursor
<1>6. CursorCutsTheList'
  BY <1>1, <1>3, <1>4 DEF IInv, WalkInv, CursorCutsTheList, Seeking
<1> QED
  BY <1>1, <1>3, <1>5, <1>6 DEF IInv, WalkInv

LEMMA IInvInit == Init => IInv
<1> SUFFICES ASSUME Init PROVE IInv
  OBVIOUS
<1>1. Rows = {}
  BY DEF Init, Rows
<1>2. TableInv
  BY <1>1 DEF Init, TableInv
<1>3. WalkInv
  BY DEF Init, WalkInv, CursorCutsTheList, Seeking
<1> QED
  BY <1>2, <1>3 DEF Init, IInv

\* The worker's steps leave the tables well formed and only add rows.
LEMMA WorkerStep ==
  ASSUME IInv, Worker
  PROVE  /\ TableInv'
         /\ UNCHANGED <<req, phase, cursor, served, sent, start, found>>
         /\ Rows \subseteq Rows' /\ \A r \in Rows : table'[r] = table[r]
<1>1. ASSUME NEW c \in Chains, InsertBlock(c)
      PROVE  TableInv' /\ UNCHANGED <<table, walkVars, found>>
  <2>1. PICK k \in BlockSizes :
          /\ nextId + k - 1 \in Ids
          /\ open' = [open EXCEPT ![c] = nextId..(nextId + k - 1)]
          /\ nextId' = nextId + k
    BY <1>1 DEF InsertBlock
  <2>2. k \in Nat \ {0} /\ nextId \in Nat \ {0} /\ Cardinality(Ids) \in Nat
    BY FS_CardinalityType DEF IInv, TableInv
  <2>3. nextId..(nextId + k - 1) \subseteq Ids
    BY <2>1, <2>2
  <2>4. UNCHANGED <<table, tip>> /\ Rows' = Rows /\ UNCHANGED <<walkVars, found>>
    BY <1>1 DEF InsertBlock, Rows
  <2>5. open' \in [Chains -> SUBSET Ids] /\ nextId' \in Nat \ {0}
    BY <2>1, <2>2, <2>3 DEF IInv, TableInv
  <2>6. \A d \in Chains : open'[d] = IF d = c THEN nextId..(nextId + k - 1) ELSE open[d]
    BY <2>1 DEF IInv, TableInv
  <2>7. \A d \in Chains : \A r \in open'[d] : r < nextId' /\ r \notin Rows
    BY <2>1, <2>2, <2>6 DEF IInv, TableInv
  <2>8. \A d, e \in Chains : d # e => open'[d] \cap open'[e] = {}
    BY <2>2, <2>6 DEF IInv, TableInv
  <2>9. \A d \in Chains : open'[d] # {} => tip[d] < Len(Times[d])
    BY <1>1, <2>6 DEF IInv, TableInv, InsertBlock
  <2>10. \A r \in Rows : r < nextId' /\ r \in Ids
    BY <2>1, <2>2 DEF IInv, TableInv
  <2> QED
    BY <2>4, <2>5, <2>7, <2>8, <2>9, <2>10 DEF IInv, TableInv
<1>2. ASSUME NEW c \in Chains, CommitBlock(c)
      PROVE  /\ TableInv' /\ UNCHANGED <<walkVars, found>>
             /\ Rows \subseteq Rows' /\ \A r \in Rows : table'[r] = table[r]
  <2> DEFINE row == [chain |-> c, height |-> tip[c] + 1, ts |-> Times[c][tip[c] + 1]]
  <2>1. /\ table' = [r \in Rows \cup open[c] |-> IF r \in open[c] THEN row ELSE table[r]]
        /\ tip' = [tip EXCEPT ![c] = tip[c] + 1]
        /\ open' = [open EXCEPT ![c] = {}]
        /\ UNCHANGED <<nextId, walkVars, found>>
    BY <1>2 DEF CommitBlock
  <2>2. tip[c] \in Nat /\ tip[c] < Len(Times[c]) /\ Times[c] \in Seq(Int)
    BY <1>2 DEF IInv, TableInv, CommitBlock
  <2>3. row.height \in Int /\ row.ts \in Int
    BY <2>2
  <2>4. Rows' = Rows \cup open[c]
    BY <2>1 DEF Rows
  <2>5. open[c] \in SUBSET Ids /\ open[c] \cap Rows = {}
    BY DEF IInv, TableInv
  <2> HIDE DEF row
  <2>6. /\ \A r \in Rows : table'[r] = table[r]
        /\ \A r \in open[c] : table'[r] = row
    BY <2>1, <2>5
  <2>7. \A r \in Rows' : table'[r].height \in Int /\ table'[r].ts \in Int
    BY <2>3, <2>4, <2>6 DEF IInv, TableInv
  <2>8. /\ open' \in [Chains -> SUBSET Ids] /\ tip' \in [Chains -> Nat]
        /\ \A d \in Chains : open'[d] = IF d = c THEN {} ELSE open[d]
        /\ \A d \in Chains : d # c => tip'[d] = tip[d]
    BY <2>1, <2>2 DEF IInv, TableInv
  <2>9. \A d \in Chains : \A r \in open'[d] : r < nextId /\ r \notin Rows'
    <3> TAKE d \in Chains
    <3> TAKE r \in open'[d]
    <3>1. d # c /\ r \in open[d]
      BY <2>8
    <3>2. r < nextId /\ r \notin Rows /\ r \notin open[c]
      BY <3>1 DEF IInv, TableInv
    <3> QED
      BY <2>4, <3>2
  <2>10. \A r \in Rows' : r < nextId /\ r \in Ids
    BY <2>4, <2>5 DEF IInv, TableInv
  <2>11. /\ \A d, e \in Chains : d # e => open'[d] \cap open'[e] = {}
         /\ \A d \in Chains : open'[d] # {} => tip'[d] < Len(Times[d])
    BY <2>8 DEF IInv, TableInv
  <2>12. nextId' = nextId /\ nextId \in Nat \ {0}
    BY <2>1 DEF IInv, TableInv
  <2>13. TableInv'
    BY <2>7, <2>8, <2>9, <2>10, <2>11, <2>12 DEF TableInv
  <2> QED
    BY <2>1, <2>4, <2>6, <2>13
<1>3. ASSUME NEW c \in Chains, RollbackBlock(c)
      PROVE  TableInv' /\ UNCHANGED <<table, walkVars, found>>
  <2>1. /\ open' = [open EXCEPT ![c] = {}] /\ Rows' = Rows
        /\ UNCHANGED <<table, nextId, tip, walkVars, found>>
    BY <1>3 DEF RollbackBlock, Rows
  <2>2. /\ open' \in [Chains -> SUBSET Ids]
        /\ \A d \in Chains : open'[d] = IF d = c THEN {} ELSE open[d]
    BY <2>1 DEF IInv, TableInv
  <2> QED
    BY <2>1, <2>2 DEF IInv, TableInv
<1>4. ASSUME NEW r \in Rows, HideRow(r) \/ RenameRow(r)
      PROVE  /\ TableInv'
             /\ UNCHANGED <<table, req, phase, cursor, served, sent, start, found>>
  <2>1. UNCHANGED <<table, nextId, open, tip, req, phase, cursor, served, sent, start, found>>
    BY <1>4 DEF HideRow, RenameRow
  <2> QED
    BY <2>1 DEF IInv, TableInv, Rows
<1> QED
  BY <1>1, <1>2, <1>3, <1>4 DEF Worker, Rows, walkVars

\* The handlers of the two seek lists fetch the rows after the cursor.
LEMMA SeekHandlers ==
  ASSUME IInv, transactions \/ events
  PROVE  /\ SeekRequest /\ phase = "walking"
         /\ UNCHANGED <<tableVars, req, start, disturbed, found>>
         /\ trim_page_rows(Fetched)
<1>1. /\ SeekRequest /\ phase = "walking"
      /\ UNCHANGED <<tableVars, req, start, disturbed, found>>
  BY DEF transactions, events, Answers, SeekRequest, SeekLists
<1>2. req.list \notin HidingLists /\ req.address \in BOOLEAN
  BY <1>1, SeekRequestType DEF IInv
<1>3. /\ ~req.address => Selected(req) = OnChain(req.chain)
      /\ req.address => Selected(req) = OnChain(req.chain) \cap AddressRows
      /\ req.chain = AnyChain => OnChain(req.chain) = Rows
  BY <1>2 DEF Selected, OnChain
<1>4. CASE transactions
  <2>1. CASE ~req.address
    <3>1. trim_page_rows(list_transactions_global(req, cursor, req.limit + 1))
      BY <1>4, <2>1 DEF transactions
    <3>2. list_transactions_global(req, cursor, req.limit + 1) = Fetched
      BY <1>3, <2>1 DEF list_transactions_global, Fetched, Rest
    <3> QED
      BY <1>1, <3>1, <3>2
  <2>2. CASE req.address /\ req.chain = AnyChain
    <3>1. trim_page_rows(list_transactions_for_address_timeline(req, cursor, req.limit + 1))
      BY <1>4, <2>2 DEF transactions
    <3>2. list_transactions_for_address_timeline(req, cursor, req.limit + 1) = Fetched
      BY <1>3, <2>2 DEF list_transactions_for_address_timeline, Fetched, Rest
    <3> QED
      BY <1>1, <3>1, <3>2
  <2>3. CASE req.address /\ req.chain # AnyChain
    <3>1. trim_page_rows(list_transactions_for_filtered_address(req, cursor, req.limit + 1))
      BY <1>4, <2>3 DEF transactions
    <3>2. list_transactions_for_filtered_address(req, cursor, req.limit + 1) = Fetched
      BY <1>3, <2>3 DEF list_transactions_for_filtered_address, Fetched, Rest
    <3> QED
      BY <1>1, <3>1, <3>2
  <2> QED
    BY <2>1, <2>2, <2>3
<1>5. CASE events
  <2>1. CASE ~req.address
    <3>1. trim_page_rows(list_events_global(req, cursor, req.limit + 1))
      BY <1>5, <2>1 DEF events
    <3>2. list_events_global(req, cursor, req.limit + 1) = Fetched
      BY <1>3, <2>1 DEF list_events_global, Fetched, Rest
    <3> QED
      BY <1>1, <3>1, <3>2
  <2>2. CASE req.address
    <3>1. trim_page_rows(list_events_by_address(req, cursor, req.limit + 1))
      BY <1>5, <2>2 DEF events
    <3>2. list_events_by_address(req, cursor, req.limit + 1) = Fetched
      BY <1>3, <2>2 DEF list_events_by_address, Fetched, Rest
    <3> QED
      BY <1>1, <3>1, <3>2
  <2> QED
    BY <2>1, <2>2
<1> QED
  BY <1>1, <1>4, <1>5

\* The other handlers answer other requests.
OtherLists ==
  \/ blocks \/ tokens \/ addresses \/ contracts \/ nfts \/ series
  \/ organizations \/ event_kinds
  \/ platforms \/ contract_method_histories \/ history_prices

Lookup ==
  \/ BeginLookup
  \/ transaction_occurrence_count \/ list_transaction_occurrences \/ transaction_by_hash

LEMMA OtherHandlers ==
  ASSUME IInv, OtherLists \/ Lookup
  PROVE  ~SeekRequest /\ UNCHANGED <<tableVars, req>>
<1>1. CASE OtherLists
  BY <1>1 DEF OtherLists, blocks, tokens, addresses, contracts, nfts, series,
     organizations, event_kinds, platforms, contract_method_histories, history_prices,
     Answers, SeekRequest, SeekLists
<1>2. CASE Lookup
  BY <1>2 DEF Lookup, BeginLookup, transaction_occurrence_count,
     list_transaction_occurrences, transaction_by_hash, IInv, WalkInv, SeekRequest,
     SeekLists, HashRequest
<1> QED
  BY <1>1, <1>2

\* The request never changes, and the tables change in the worker's steps only.
LEMMA TablesKept ==
  ASSUME IInv, UNCHANGED <<tableVars, req>>
  PROVE  req' \in Requests /\ TableInv' /\ UNCHANGED <<table, Rows>>
BY DEF IInv, TableInv, tableVars, Rows, Requests, ListRequests, HashRequest

LEMMA BeginStep ==
  ASSUME IInv, Begin(req)
  PROVE  /\ UNCHANGED <<tableVars, req>> /\ WalkInv'
         /\ phase = "idle" /\ phase' = "walking" /\ start' = Selected(req)
         /\ served' = {} /\ sent' = 0
<1>1. /\ UNCHANGED <<tableVars, req>> /\ phase = "idle" /\ phase' = "walking"
      /\ start' = Selected(req) /\ served' = {} /\ sent' = 0 /\ cursor' = <<>>
  BY DEF Begin
<1>2. Selected(req)' = Selected(req)
  BY <1>1 DEF Selected, OnChain, Rows, tableVars
<1> QED
  BY <1>1, <1>2 DEF WalkInv, CursorCutsTheList, Passed, SeekRequest

\* The cases of a step.
LEMMA Steps ==
  ASSUME [Next]_vars
  PROVE  \/ Worker \/ Begin(req) \/ transactions \/ events
         \/ OtherLists \/ Lookup \/ UNCHANGED vars
BY DEF Next, Api, OtherLists, Lookup

LEMMA IInvStep == IInv /\ [Next]_vars => IInv'
<1> SUFFICES ASSUME IInv, [Next]_vars PROVE IInv'
  OBVIOUS
<1>1. CASE Worker
  <2>1. WalkInv'
    BY <1>1, WorkerStep, GrowthKeepsWalk
  <2> QED
    BY <1>1, <2>1, WorkerStep DEF IInv, Requests, ListRequests, HashRequest
<1>2. CASE Begin(req)
  BY <1>2, BeginStep, TablesKept DEF IInv
<1>3. CASE transactions \/ events
  <2>1. WalkInv'
    BY <1>3, SeekHandlers, PageStep
  <2> QED
    BY <1>3, <2>1, SeekHandlers, TablesKept DEF IInv
<1>4. CASE OtherLists \/ Lookup
  BY <1>4, OtherHandlers, TablesKept DEF IInv, WalkInv, SeekRequest
<1>5. CASE UNCHANGED vars
  <2>1. UNCHANGED <<tableVars, req, phase, cursor, served, sent, start>>
    BY <1>5 DEF vars, tableVars
  <2> QED
    BY <2>1, TablesKept, GrowthKeepsWalk DEF IInv
<1> QED
  BY <1>1, <1>2, <1>3, <1>4, <1>5, Steps

\* The cursor of /transactions and /events (row_cursor, the seek predicate) cuts the
\* list: what was served lies at or before it, and of the rows the walk began with
\* none before it is missing, whatever the worker commits between the pages.
THEOREM CursorCuts == Spec => []CursorCutsTheList
<1>1. IInv => CursorCutsTheList
  BY DEF IInv, WalkInv, CursorCutsTheList, Seeking, SeekRequest
<1> QED
  BY IInvInit, IInvStep, <1>1, PTL DEF Spec

LEMMA SweepInit == Init => D!Init
BY DEF Init, D!Init, Seeking

LEMMA SweepStep == IInv /\ IInv' /\ [Next]_vars => [D!Next]_(D!sweepVars)
<1> SUFFICES ASSUME IInv, IInv', [Next]_vars PROVE [D!Next]_(D!sweepVars)
  OBVIOUS
<1>1. ASSUME ~SeekRequest, UNCHANGED req PROVE UNCHANGED D!sweepVars
  BY <1>1 DEF D!sweepVars, SeekRequest, Seeking
<1>2. ASSUME UNCHANGED <<req, phase, served, sent, start>> PROVE UNCHANGED D!sweepVars
  BY <1>2 DEF D!sweepVars, Seeking
<1>3. CASE Begin(req)
  <2>1. CASE SeekRequest
    <3>1. Selected(req) \in SUBSET Ids
      BY DEF IInv, TableInv, Selected, OnChain
    <3>2. D!Begin(Selected(req))
      BY <1>3, <2>1, BeginStep DEF D!Begin, Seeking, SeekRequest
    <3> QED
      BY <3>1, <3>2 DEF D!Next
  <2> QED
    BY <1>1, <1>3, <2>1, BeginStep
<1>4. CASE transactions \/ events
  <2>1. Kept \in SUBSET Ids
    BY <1>4, SeekHandlers, PageTypes DEF IInv, TableInv
  <2>2. /\ SeekRequest /\ UNCHANGED <<req, start>> /\ phase = "walking"
        /\ Kept \cap served = {} /\ served' = served \cup Kept
        /\ sent' = sent + Cardinality(Kept) /\ phase' \in {"walking", "done"}
    BY <1>4, SeekHandlers, PageStep
  <2>3. phase' = "done" => start' \ served' = {}
    BY <2>2 DEF IInv, WalkInv, SeekRequest
  <2>4. Seeking /\ Seeking' \in BOOLEAN /\ (~Seeking' => phase' = "done")
    BY <2>2 DEF Seeking, SeekRequest
  <2>5. (start \ served)' = (start \ served) \ Kept
    BY <2>2
  <2>6. D!Cardinality(Kept) = Cardinality(Kept)
    BY DEF D!Cardinality, Cardinality
  <2>7. D!Deliver(Kept)
    BY <2>2, <2>3, <2>4, <2>5, <2>6 DEF D!Deliver, SeekRequest
  <2> QED
    BY <2>1, <2>7 DEF D!Next
<1>5. CASE Worker
  BY <1>2, <1>5, WorkerStep
<1>6. CASE OtherLists \/ Lookup
  BY <1>1, <1>6, OtherHandlers
<1>7. CASE UNCHANGED vars
  BY <1>2, <1>7 DEF vars
<1> QED
  BY <1>3, <1>4, <1>5, <1>6, <1>7, Steps

\* A walk of /transactions or /events is a sweep: following next_cursor delivers
\* every row that was listed when it began exactly once before it ends, in every
\* order, direction and page size, whatever is committed or rolled back meanwhile.
THEOREM SeekWalkSweeps == Spec => ImplementsSweep
BY IInvInit, IInvStep, SweepInit, SweepStep, PTL DEF Spec, ImplementsSweep, D!Spec

------------------------------------------------------------------------------
(* The lookup of a hash. *)

\* Each statement sees at least the occurrences the statements before it saw.
LookupInv ==
  /\ found \in [before : SUBSET Ids, count : Nat, matches : SUBSET Ids,
               answer : {"none", "not_found", "detail", "ambiguous"}]
  /\ found.before \subseteq Occurrences
  /\ phase \in {"idle", "count", "matches", "answer"} => found.answer = "none"
  /\ phase \in {"matches", "answer"} =>
       /\ Cardinality(found.before) <= found.count
       /\ found.count <= Cardinality(Occurrences)
  /\ phase = "answer" =>
       \/ Cardinality(found.matches) = MaxMatches
       \/ /\ found.before \subseteq found.matches
          /\ found.count <= Cardinality(found.matches)
  /\ LookupHonest

LEMMA OccurrencesFinite ==
  ASSUME TableInv
  PROVE  /\ Occurrences \subseteq Ids /\ IsFiniteSet(Occurrences)
         /\ Cardinality(Occurrences) \in Nat
         /\ \A S \in SUBSET Occurrences :
              IsFiniteSet(S) /\ Cardinality(S) \in Nat /\ Cardinality(S) <= Cardinality(Occurrences)
<1>1. Occurrences \in SUBSET Ids
  BY DEF Occurrences, OnChain, TableInv
<1>2. IsFiniteSet(Occurrences)
  BY <1>1, FS_Subset
<1> QED
  BY <1>1, <1>2, FS_Subset, FS_CardinalityType

\* The listing is full or holds every occurrence.
LEMMA FullOrAll ==
  ASSUME IInv
  PROVE  /\ Slice(OccurrenceOrder, Occurrences, 0, MaxMatches) \subseteq Occurrences
         /\ \/ Cardinality(Slice(OccurrenceOrder, Occurrences, 0, MaxMatches)) = MaxMatches
            \/ Slice(OccurrenceOrder, Occurrences, 0, MaxMatches) = Occurrences
<1> DEFINE listed == Slice(OccurrenceOrder, Occurrences, 0, MaxMatches)
<1>1. MaxMatches \in Nat /\ IsFiniteSet(Occurrences)
  BY ReadListsAssumption, OccurrencesFinite DEF IInv
<1>2. \A r \in Occurrences : r \in Rows /\ r \in Int /\ table[r].height \in Int
  BY FS_CardinalityType, ReadListsAssumption DEF Occurrences, OnChain, IInv, TableInv
<1>3. \A r, s \in Occurrences : <<r, s>> \in OccurrenceOrder <=>
                                Before("asc", table[r].height, r, table[s].height, s)
  BY <1>2 DEF OccurrenceOrder
<1>4. TotalOrderOn(OccurrenceOrder, Occurrences)
  <2>1. \A r, s, t \in Occurrences : <<r, s>> \in OccurrenceOrder /\ <<s, t>> \in OccurrenceOrder =>
                                     <<r, t>> \in OccurrenceOrder
    BY <1>2, <1>3, BeforeTransitive
  <2>2. \A r, s \in Occurrences : r = s \/ <<r, s>> \in OccurrenceOrder \/ <<s, r>> \in OccurrenceOrder
    BY <1>2, <1>3, BeforeTotal
  <2>3. \A r \in Occurrences : <<r, r>> \notin OccurrenceOrder
    BY <1>2, <1>3, BeforeTotal
  <2> QED
    BY <2>1, <2>2, <2>3 DEF TotalOrderOn
<1>5. /\ listed \in SUBSET Occurrences
      /\ \A r \in listed : /\ 0 <= Rank(OccurrenceOrder, Occurrences, r)
                            /\ Rank(OccurrenceOrder, Occurrences, r) < 0 + MaxMatches
  BY DEF Slice
<1>6. Cardinality(listed) < MaxMatches => listed = Occurrences
  BY <1>1, <1>4, ShortSliceIsAll
<1> HIDE DEF listed
<1>7. Cardinality(listed) \in Nat /\ Cardinality(listed) <= MaxMatches
  <2>1. 0 \in Nat
    OBVIOUS
  <2> QED
    BY <1>1, <1>4, <1>5, <2>1, CountByRank
<1>8. listed \subseteq Occurrences /\ (Cardinality(listed) = MaxMatches \/ listed = Occurrences)
  BY <1>1, <1>5, <1>6, <1>7
<1> QED
  BY <1>8 DEF listed

\* Occurrences are only added.
LEMMA LookupGrowth ==
  ASSUME IInv, TableInv', LookupInv, UNCHANGED <<phase, found>>,
         Rows \subseteq Rows', \A r \in Rows : table'[r] = table[r]
  PROVE  LookupInv'
<1>1. Occurrences \subseteq Occurrences'
  BY DEF Occurrences, OnChain
<1>2. /\ Cardinality(Occurrences) <= Cardinality(Occurrences')
      /\ Cardinality(Occurrences') \in Nat
  <2>1. Occurrences' \in SUBSET Ids
    BY DEF Occurrences, OnChain, TableInv
  <2>2. IsFiniteSet(Occurrences') /\ Cardinality(Occurrences') \in Nat
    BY <2>1, FS_Subset, FS_CardinalityType
  <2> QED
    BY <1>1, <2>2, FS_Subset
<1>3. Cardinality(Occurrences) \in Nat
  BY OccurrencesFinite DEF IInv
<1>4. LookupHonest'
  BY DEF LookupInv, LookupHonest
<1> QED
  BY <1>1, <1>2, <1>3, <1>4 DEF LookupInv

LEMMA LookupStep == IInv /\ IInv' /\ LookupInv /\ [Next]_vars => LookupInv'
<1> SUFFICES ASSUME IInv, IInv', LookupInv, [Next]_vars PROVE LookupInv'
  OBVIOUS
<1>1. /\ Occurrences \subseteq Ids /\ IsFiniteSet(Occurrences)
      /\ Cardinality(Occurrences) \in Nat
      /\ \A S \in SUBSET Occurrences :
           IsFiniteSet(S) /\ Cardinality(S) \in Nat /\ Cardinality(S) <= Cardinality(Occurrences)
  BY OccurrencesFinite DEF IInv
<1>2. UNCHANGED tableVars => Occurrences' = Occurrences
  BY DEF tableVars, Occurrences, OnChain, Rows
<1>3. CASE Worker
  BY <1>3, WorkerStep, LookupGrowth DEF IInv
<1>4. CASE Begin(req) \/ transactions \/ events \/ OtherLists
  <2>1. UNCHANGED <<tableVars, found>> /\ phase' \in {"walking", "done"}
    BY <1>4 DEF Begin, OtherLists, transactions, events, blocks, tokens, addresses,
       contracts, nfts, series, organizations, event_kinds, platforms,
       contract_method_histories, history_prices, Answers, trim_page_rows,
       trim_offset_rows, client_offset
  <2> QED
    BY <1>2, <2>1 DEF LookupInv, LookupHonest
<1>5. CASE BeginLookup
  <2>1. /\ UNCHANGED tableVars /\ phase' = "count"
        /\ found' = [before |-> Occurrences, count |-> 0, matches |-> {}, answer |-> "none"]
    BY <1>5 DEF BeginLookup
  <2> QED
    BY <1>1, <1>2, <2>1 DEF LookupInv, LookupHonest
<1>6. CASE transaction_occurrence_count
  <2>1. /\ UNCHANGED tableVars /\ phase = "count" /\ phase' = "matches"
        /\ found' = [found EXCEPT !.count = Cardinality(Occurrences)]
    BY <1>6 DEF transaction_occurrence_count
  <2> QED
    BY <1>1, <1>2, <2>1 DEF LookupInv, LookupHonest
<1>7. CASE list_transaction_occurrences
  <2> DEFINE listed == Slice(OccurrenceOrder, Occurrences, 0, MaxMatches)
  <2>1. /\ UNCHANGED tableVars /\ phase = "matches" /\ phase' = "answer"
        /\ found' = [found EXCEPT !.matches = listed]
    BY <1>7 DEF list_transaction_occurrences
  <2>2. listed \subseteq Occurrences /\ (Cardinality(listed) = MaxMatches \/ listed = Occurrences)
    BY FullOrAll
  <2> HIDE DEF listed
  <2>3. LookupHonest'
    BY <2>1 DEF LookupInv, LookupHonest
  <2> QED
    BY <1>1, <1>2, <2>1, <2>2, <2>3 DEF LookupInv
<1>8. CASE transaction_by_hash
  <2> DEFINE verdict == CASE found.count = 0 -> "not_found"
                          [] found.count = 1 -> IF Occurrences = {} THEN "not_found" ELSE "detail"
                          [] OTHER -> "ambiguous"
  <2>1. /\ UNCHANGED tableVars /\ phase = "answer" /\ phase' = "done"
        /\ found' = [found EXCEPT !.answer = verdict]
    BY <1>8 DEF transaction_by_hash
  <2>2. /\ found.count = 0 => verdict = "not_found"
        /\ found.count = 1 => verdict = IF Occurrences = {} THEN "not_found" ELSE "detail"
        /\ found.count # 0 /\ found.count # 1 => verdict = "ambiguous"
    OBVIOUS
  <2> HIDE DEF verdict
  <2>3. Cardinality(found.before) \in Nat /\ (Cardinality(found.before) = 0 => found.before = {})
    BY <1>1, FS_EmptySet DEF LookupInv
  <2>4. LookupHonest'
    BY <2>1, <2>2, <2>3 DEF LookupInv, LookupHonest
  <2> QED
    BY <1>2, <2>1, <2>2, <2>4 DEF LookupInv
<1>9. CASE UNCHANGED vars
  BY <1>2, <1>9 DEF vars, tableVars, LookupInv, LookupHonest
<1> QED
  BY <1>3, <1>4, <1>5, <1>6, <1>7, <1>8, <1>9, Steps DEF Lookup

\* GET /transactions/{hash} (transaction_by_hash) never answers "not found" for a
\* hash that was stored when the request came, always reports one that occurred
\* several times as ambiguous, and lists at least the occurrences it counts unless its
\* listing is full, although blocks are committed between its three statements.
THEOREM LookupIsHonest == Spec => []LookupHonest
<1>1. Init => LookupInv
  <2> SUFFICES ASSUME Init PROVE LookupInv
    OBVIOUS
  <2>1. /\ found.before = {} /\ found.count = 0 /\ found.matches = {} /\ found.answer = "none"
        /\ phase = "idle" /\ Cardinality({}) = 0
        /\ found = [before |-> {}, count |-> 0, matches |-> {}, answer |-> "none"]
    BY FS_EmptySet DEF Init
  <2> QED
    BY <2>1 DEF LookupInv, LookupHonest
<1>2. LookupInv => LookupHonest
  BY DEF LookupInv
<1> QED
  BY IInvInit, IInvStep, LookupStep, <1>1, <1>2, PTL DEF Spec
------------------------------------------------------------------------------
(* Offset walks. *)

\* As long as rows are only added, a row's position only grows: every row the walk began
\* with whose position is before the offset has been served.
OffsetInv ==
  /\ text \in [Ids -> Int]
  /\ ~SeekRequest =>
       /\ offset \in Nat
       /\ phase \notin {"walking", "done"} \/ req.list \notin ListNames => start = {}
       /\ ~disturbed =>
            /\ start \subseteq Selected(req)
            /\ phase = "walking" =>
                 \A r \in start : Rank(RowOrder(req), Selected(req), r) < offset => r \in served
            /\ phase = "done" => start \subseteq served

OffsetRequest == req.list \in OffsetLists \cup TotalLists

Columns == {"id", "ts", "height", "text"}

LEMMA ListColumns ==
  \A list \in OffsetLists \cup TotalLists : \A c \in DOMAIN OrderBy(list) : OrderBy(list)[c] \in Columns
<1>1. /\ OrderBy("blocks") = BlockOrderBy
      /\ OrderBy("tokens") = TokenOrderBy
      /\ OrderBy("addresses") = AddressOrderBy
      /\ OrderBy("contracts") = ContractOrderBy
      /\ OrderBy("nfts") = NftOrderBy
      /\ OrderBy("series") = SeriesOrderBy
      /\ OrderBy("organizations") = OrganizationOrderBy
      /\ OrderBy("event_kinds") = EventKindOrderBy
      /\ OrderBy("platforms") = PlatformOrderBy
      /\ OrderBy("contract_method_histories") = MethodHistoryOrderBy
      /\ OrderBy("history_prices") = HistoryPriceOrderBy
  BY DEF OrderBy
<1>2. /\ \A c \in DOMAIN BlockOrderBy : BlockOrderBy[c] \in Columns
      /\ \A c \in DOMAIN TokenOrderBy : TokenOrderBy[c] \in Columns
      /\ \A c \in DOMAIN AddressOrderBy : AddressOrderBy[c] \in Columns
      /\ \A c \in DOMAIN ContractOrderBy : ContractOrderBy[c] \in Columns
      /\ \A c \in DOMAIN NftOrderBy : NftOrderBy[c] \in Columns
      /\ \A c \in DOMAIN SeriesOrderBy : SeriesOrderBy[c] \in Columns
      /\ \A c \in DOMAIN OrganizationOrderBy : OrganizationOrderBy[c] \in Columns
      /\ \A c \in DOMAIN EventKindOrderBy : EventKindOrderBy[c] \in Columns
      /\ \A c \in DOMAIN PlatformOrderBy : PlatformOrderBy[c] \in Columns
      /\ \A c \in DOMAIN MethodHistoryOrderBy : MethodHistoryOrderBy[c] \in Columns
      /\ \A c \in DOMAIN HistoryPriceOrderBy : HistoryPriceOrderBy[c] \in Columns
  <2>1. \A c \in DOMAIN BlockOrderBy : BlockOrderBy[c] \in Columns
    <3>1. DOMAIN BlockOrderBy = {"id", "height", "hash", "date"}
      BY DEF BlockOrderBy
    <3>2. /\ BlockOrderBy["id"] = "id" /\ BlockOrderBy["height"] = "height"
          /\ BlockOrderBy["hash"] = "text" /\ BlockOrderBy["date"] = "ts"
      BY DEF BlockOrderBy
    <3> QED
      BY <3>1, <3>2 DEF Columns
  <2>2. \A c \in DOMAIN TokenOrderBy : TokenOrderBy[c] \in Columns
    BY DEF Columns, TokenOrderBy
  <2>3. \A c \in DOMAIN AddressOrderBy : AddressOrderBy[c] \in Columns
    <3>1. DOMAIN AddressOrderBy = {"id", "address", "address_name", "balance"}
      BY DEF AddressOrderBy
    <3>2. /\ AddressOrderBy["id"] = "id" /\ AddressOrderBy["address"] = "text"
          /\ AddressOrderBy["address_name"] = "text" /\ AddressOrderBy["balance"] = "text"
      BY DEF AddressOrderBy
    <3> QED
      BY <3>1, <3>2 DEF Columns
  <2>4. \A c \in DOMAIN ContractOrderBy : ContractOrderBy[c] \in Columns
    BY DEF Columns, ContractOrderBy
  <2>5. \A c \in DOMAIN NftOrderBy : NftOrderBy[c] \in Columns
    BY DEF Columns, NftOrderBy
  <2>6. \A c \in DOMAIN SeriesOrderBy : SeriesOrderBy[c] \in Columns
    <3>1. DOMAIN SeriesOrderBy = {"id", "created", "series_id", "name"}
      BY DEF SeriesOrderBy
    <3>2. /\ SeriesOrderBy["id"] = "id" /\ SeriesOrderBy["created"] = "ts"
          /\ SeriesOrderBy["series_id"] = "text" /\ SeriesOrderBy["name"] = "text"
      BY DEF SeriesOrderBy
    <3> QED
      BY <3>1, <3>2 DEF Columns
  <2>7. /\ \A c \in DOMAIN OrganizationOrderBy : OrganizationOrderBy[c] \in Columns
        /\ \A c \in DOMAIN EventKindOrderBy : EventKindOrderBy[c] \in Columns
    BY DEF Columns, OrganizationOrderBy, EventKindOrderBy
  <2>8. \A c \in DOMAIN PlatformOrderBy : PlatformOrderBy[c] \in Columns
    BY DEF Columns, PlatformOrderBy
  <2>9. /\ \A c \in DOMAIN MethodHistoryOrderBy : MethodHistoryOrderBy[c] \in Columns
        /\ \A c \in DOMAIN HistoryPriceOrderBy : HistoryPriceOrderBy[c] \in Columns
    BY DEF Columns, MethodHistoryOrderBy, HistoryPriceOrderBy
  <2> QED
    BY <2>1, <2>2, <2>3, <2>4, <2>5, <2>6, <2>7, <2>8, <2>9, Zenon
<1> QED
  BY <1>1, <1>2 DEF OffsetLists, TotalLists

\* What a request for an offset list asks for.
LEMMA OffsetRequestType ==
  ASSUME req \in Requests, OffsetRequest
  PROVE  /\ OrderBy(req.list)[req.order_by] \in Columns
         /\ req.limit \in Nat \ {0}
         /\ ~req.address /\ req.limited \in BOOLEAN
         /\ req.list # "history_prices" => req.limited
         /\ req.list \in ChainlessLists => req.chain = AnyChain
         /\ ~SeekRequest
<1>1. req \in ListRequests /\ ~SeekRequest
  BY DEF Requests, HashRequest, OffsetRequest, OffsetLists, TotalLists, SeekRequest, SeekLists
<1>2. PICK list \in ListNames :
        req \in [list : {list}, order_by : DOMAIN OrderBy(list), direction : {"asc", "desc"},
           limit : Limits, limited : IF list = "history_prices" THEN BOOLEAN ELSE {TRUE},
           address : IF list \in SeekLists THEN BOOLEAN ELSE {FALSE},
           chain : CASE list \in SeekLists \cup {"event_kinds"} -> Chains \cup {AnyChain}
                     [] list \in ChainlessLists -> {AnyChain}
                     [] OTHER -> Chains]
  BY Zenon, <1>1 DEF ListRequests
<1> DEFINE chains == CASE list \in SeekLists \cup {"event_kinds"} -> Chains \cup {AnyChain}
                       [] list \in ChainlessLists -> {AnyChain}
                       [] OTHER -> Chains
<1>3. list \in OffsetLists \cup TotalLists => list \notin SeekLists
  BY DEF OffsetLists, TotalLists, SeekLists
<1>4. list \in ChainlessLists => chains = {AnyChain}
  <2>1. list \in ChainlessLists => list \notin SeekLists \cup {"event_kinds"}
    BY DEF ChainlessLists, SeekLists
  <2> QED
    BY <2>1, Zenon
<1> HIDE DEF chains
<1>5. /\ req.list = list /\ req.order_by \in DOMAIN OrderBy(list) /\ req.limit \in Limits
      /\ req.address \in (IF list \in SeekLists THEN BOOLEAN ELSE {FALSE})
      /\ req.limited \in (IF list = "history_prices" THEN BOOLEAN ELSE {TRUE})
      /\ req.chain \in chains
  BY <1>2 DEF chains
<1>6. OrderBy(list)[req.order_by] \in Columns /\ list \notin SeekLists
  BY <1>3, <1>5, ListColumns DEF OffsetRequest
<1>7. /\ ~req.address /\ req.limited \in BOOLEAN
      /\ req.list # "history_prices" => req.limited
  BY <1>5, <1>6
<1> QED
  BY <1>1, <1>4, <1>5, <1>6, <1>7

\* A row of an offset list has a sort value, and any selection of rows is totally ordered.
LEMMA OffsetOrder ==
  ASSUME IInv, OffsetInv, OffsetRequest
  PROVE  /\ \A r \in Rows : SortValue(req, r) \in Int /\ r \in Int
         /\ \A S \in SUBSET Rows : IsFiniteSet(S) /\ TotalOrderOn(RowOrder(req), S)
<1>1. \A r \in Rows : SortValue(req, r) \in Int /\ r \in Int
  <2> TAKE r \in Rows
  <2>1. OrderBy(req.list)[req.order_by] \in {"id", "ts", "height", "text"}
    BY OffsetRequestType DEF IInv, Columns
  <2>2. r \in Int /\ r \in Ids
    BY FS_CardinalityType DEF IInv, TableInv
  <2>3. table[r].height \in Int /\ table[r].ts \in Int /\ text[r] \in Int
    BY <2>2 DEF IInv, TableInv, OffsetInv
  <2>4. Column(r, "id") \in Int /\ Column(r, "ts") \in Int /\ Column(r, "height") \in Int
        /\ Column(r, "text") \in Int
    BY <2>2, <2>3 DEF Column
  <2> QED
    BY <2>1, <2>2, <2>4 DEF SortValue
<1>2. \A S \in SUBSET Rows : IsFiniteSet(S) /\ TotalOrderOn(RowOrder(req), S)
  <2> TAKE S \in SUBSET Rows
  <2>1. IsFiniteSet(S)
    <3>1. S \in SUBSET Ids
      BY DEF IInv, TableInv
    <3> QED
      BY <3>1, FS_Subset
  <2>2. \A r, s \in S : <<r, s>> \in RowOrder(req) <=>
                        Before(req.direction, SortValue(req, r), r, SortValue(req, s), s)
    BY DEF RowOrder
  <2>3. \A r \in S : SortValue(req, r) \in Int /\ r \in Int
    BY <1>1
  <2>4. \A r, s, t \in S : <<r, s>> \in RowOrder(req) /\ <<s, t>> \in RowOrder(req) =>
                           <<r, t>> \in RowOrder(req)
    BY <2>2, <2>3, BeforeTransitive
  <2>5. \A r, s \in S : r = s \/ <<r, s>> \in RowOrder(req) \/ <<s, r>> \in RowOrder(req)
    BY <2>2, <2>3, BeforeTotal
  <2>6. \A r \in S : <<r, r>> \notin RowOrder(req)
    BY <2>2, <2>3, BeforeTotal
  <2> QED
    BY <2>1, <2>4, <2>5, <2>6 DEF TotalOrderOn
<1> QED
  BY <1>1, <1>2

\* The rows the next page starts from, one page and one row more of them, and what the
\* handlers keep.
OffsetFetched(n) == Slice(RowOrder(req), Selected(req), offset, n)
OffsetKept == Truncate(RowOrder(req), OffsetFetched(req.limit + 1), req.limit)

\* Every handler of an offset list answers from the rows its request selects.
LEMMA OffsetHandlers ==
  ASSUME IInv, OtherLists
  PROVE  /\ OffsetRequest /\ phase = "walking"
         /\ UNCHANGED <<tableVars, req, start, disturbed, found>>
         /\ \/ trim_offset_rows(OffsetFetched(req.limit + 1))
            \/ client_offset(OffsetFetched(req.limit)) /\ req.limited
            \/ client_offset(Selected(req)) /\ ~req.limited
<1>1. /\ OffsetRequest /\ phase = "walking"
      /\ UNCHANGED <<tableVars, req, start, disturbed, found>>
  BY DEF OtherLists, blocks, tokens, addresses, contracts, nfts, series,
     organizations, event_kinds, platforms, contract_method_histories, history_prices,
     Answers, OffsetRequest, OffsetLists, TotalLists
<1>2. /\ ~req.address /\ req.limited \in BOOLEAN
      /\ req.list \in ChainlessLists => req.chain = AnyChain
  BY <1>1, OffsetRequestType DEF IInv
<1>3. /\ req.list \in HidingLists => Selected(req) = OnChain(req.chain) \ hidden
      /\ req.list \notin HidingLists => Selected(req) = OnChain(req.chain)
      /\ req.list \in ChainlessLists => OnChain(req.chain) = Rows
  BY <1>2 DEF Selected, OnChain
<1>4. ASSUME blocks PROVE trim_offset_rows(OffsetFetched(req.limit + 1))
  <2>1. req.list = "blocks" /\ trim_offset_rows(list_blocks(req, req.limit + 1, offset))
    BY <1>4 DEF blocks, Answers
  <2>2. list_blocks(req, req.limit + 1, offset) = OffsetFetched(req.limit + 1)
    BY <1>3, <2>1 DEF list_blocks, OffsetFetched, HidingLists, ChainlessLists
  <2> QED
    BY <2>1, <2>2
<1>5. ASSUME tokens PROVE trim_offset_rows(OffsetFetched(req.limit + 1))
  <2>1. req.list = "tokens" /\ trim_offset_rows(list_tokens(req, req.limit + 1, offset))
    BY <1>5 DEF tokens, Answers
  <2>2. list_tokens(req, req.limit + 1, offset) = OffsetFetched(req.limit + 1)
    BY <1>3, <2>1 DEF list_tokens, OffsetFetched, HidingLists, ChainlessLists
  <2> QED
    BY <2>1, <2>2
<1>6. ASSUME addresses PROVE trim_offset_rows(OffsetFetched(req.limit + 1))
  <2>1. req.list = "addresses" /\ trim_offset_rows(list_addresses(req, req.limit + 1, offset))
    BY <1>6 DEF addresses, Answers
  <2>2. list_addresses(req, req.limit + 1, offset) = OffsetFetched(req.limit + 1)
    BY <1>3, <2>1 DEF list_addresses, OffsetFetched, HidingLists, ChainlessLists
  <2> QED
    BY <2>1, <2>2
<1>7. ASSUME contracts PROVE trim_offset_rows(OffsetFetched(req.limit + 1))
  <2>1. req.list = "contracts" /\ trim_offset_rows(list_contracts(req, req.limit + 1, offset))
    BY <1>7 DEF contracts, Answers
  <2>2. list_contracts(req, req.limit + 1, offset) = OffsetFetched(req.limit + 1)
    BY <1>3, <2>1 DEF list_contracts, OffsetFetched, HidingLists, ChainlessLists
  <2> QED
    BY <2>1, <2>2
<1>8. ASSUME nfts PROVE trim_offset_rows(OffsetFetched(req.limit + 1))
  <2>1. req.list = "nfts" /\ trim_offset_rows(list_nfts(req, req.limit + 1, offset))
    BY <1>8 DEF nfts, Answers
  <2>2. list_nfts(req, req.limit + 1, offset) = OffsetFetched(req.limit + 1)
    BY <1>3, <2>1 DEF list_nfts, OffsetFetched, HidingLists, ChainlessLists
  <2> QED
    BY <2>1, <2>2
<1>9. ASSUME series PROVE trim_offset_rows(OffsetFetched(req.limit + 1))
  <2>1. req.list = "series" /\ trim_offset_rows(list_series(req, req.limit + 1, offset))
    BY <1>9 DEF series, Answers
  <2>2. list_series(req, req.limit + 1, offset) = OffsetFetched(req.limit + 1)
    BY <1>3, <2>1 DEF list_series, OffsetFetched, HidingLists, ChainlessLists
  <2> QED
    BY <2>1, <2>2
<1>10. ASSUME organizations PROVE trim_offset_rows(OffsetFetched(req.limit + 1))
  <2>1. req.list = "organizations" /\ trim_offset_rows(list_organizations(req, req.limit + 1, offset))
    BY <1>10 DEF organizations, Answers
  <2>2. list_organizations(req, req.limit + 1, offset) = OffsetFetched(req.limit + 1)
    BY <1>3, <2>1 DEF list_organizations, OffsetFetched, HidingLists, ChainlessLists
  <2> QED
    BY <2>1, <2>2
<1>11. ASSUME event_kinds PROVE trim_offset_rows(OffsetFetched(req.limit + 1))
  <2>1. req.list = "event_kinds" /\ trim_offset_rows(list_event_kinds(req, req.limit + 1, offset))
    BY <1>11 DEF event_kinds, Answers
  <2>2. list_event_kinds(req, req.limit + 1, offset) = OffsetFetched(req.limit + 1)
    BY <1>3, <2>1 DEF list_event_kinds, OffsetFetched, HidingLists, ChainlessLists
  <2> QED
    BY <2>1, <2>2
<1>12. ASSUME platforms PROVE client_offset(OffsetFetched(req.limit)) /\ req.limited
  <2>1. req.list = "platforms" /\ client_offset(list_platforms(req, req.limit, offset))
    BY <1>12 DEF platforms, Answers
  <2>2. list_platforms(req, req.limit, offset) = OffsetFetched(req.limit)
    BY <1>3, <2>1 DEF list_platforms, OffsetFetched, HidingLists, ChainlessLists
  <2>3. req.limited
    BY <1>1, <2>1, OffsetRequestType DEF IInv
  <2> QED
    BY <2>1, <2>2, <2>3
<1>13. ASSUME contract_method_histories PROVE client_offset(OffsetFetched(req.limit)) /\ req.limited
  <2>1. req.list = "contract_method_histories" /\ client_offset(list_contract_method_histories(req, req.limit, offset))
    BY <1>13 DEF contract_method_histories, Answers
  <2>2. list_contract_method_histories(req, req.limit, offset) = OffsetFetched(req.limit)
    BY <1>3, <2>1 DEF list_contract_method_histories, OffsetFetched, HidingLists, ChainlessLists
  <2>3. req.limited
    BY <1>1, <2>1, OffsetRequestType DEF IInv
  <2> QED
    BY <2>1, <2>2, <2>3
<1>14. ASSUME history_prices
      PROVE  \/ client_offset(OffsetFetched(req.limit)) /\ req.limited
             \/ client_offset(Selected(req)) /\ ~req.limited
  <2>1. /\ req.list = "history_prices"
        /\ client_offset(list_history_prices(req, req.limited, req.limit, offset))
    BY <1>14 DEF history_prices, Answers
  <2>2. Selected(req) = Rows
    BY <1>3, <2>1 DEF HidingLists, ChainlessLists
  <2>3. CASE req.limited
    <3>1. list_history_prices(req, req.limited, req.limit, offset) = OffsetFetched(req.limit)
      BY <2>2, <2>3 DEF list_history_prices, OffsetFetched
    <3> QED
      BY <2>1, <2>3, <3>1
  <2>4. CASE ~req.limited
    <3>1. list_history_prices(req, req.limited, req.limit, offset) = Selected(req)
      BY <2>2, <2>4 DEF list_history_prices
    <3> QED
      BY <2>1, <2>4, <3>1
  <2> QED
    BY <2>3, <2>4
<1> QED
  BY <1>1, <1>4, <1>5, <1>6, <1>7, <1>8, <1>9, <1>10, <1>11, <1>12, <1>13, <1>14 DEF OtherLists

\* A page whose rows are the first from the offset on moves the walk on.
LEMMA OffsetPageStep ==
  ASSUME IInv, OffsetInv, OffsetRequest, phase = "walking", NEW kept,
         UNCHANGED <<tableVars, req, start, disturbed>>,
         served' = served \cup kept, offset' = offset + Cardinality(kept),
         Cardinality(kept) \in Nat, phase' \in {"walking", "done"},
         \A r \in Selected(req) :
           /\ offset <= Rank(RowOrder(req), Selected(req), r)
           /\ \/ Rank(RowOrder(req), Selected(req), r) < offset + Cardinality(kept)
              \/ phase' = "done"
           => r \in kept
  PROVE  OffsetInv'
<1>1. ~SeekRequest /\ Selected(req) \in SUBSET Rows /\ req.list \in ListNames
  BY OffsetRequestType DEF IInv, Selected, OnChain, OffsetRequest, ListNames
<1>2. offset \in Nat /\ text \in [Ids -> Int]
  BY <1>1 DEF OffsetInv
<1>3. /\ Selected(req)' = Selected(req) /\ RowOrder(req)' = RowOrder(req)
      /\ text' = text /\ SeekRequest' = SeekRequest
  BY DEF tableVars, Selected, OnChain, Rows, RowOrder, SortValue, Column, SeekRequest
<1>4. \A r \in Selected(req) : Rank(RowOrder(req), Selected(req), r) \in Nat
  BY <1>1, OffsetOrder, RankType
<1>5. ASSUME ~disturbed
      PROVE  /\ start \subseteq Selected(req)
             /\ phase' = "walking" =>
                  \A r \in start : Rank(RowOrder(req), Selected(req), r) < offset' => r \in served'
             /\ phase' = "done" => start \subseteq served'
  <2>1. /\ start \subseteq Selected(req)
        /\ \A r \in start : Rank(RowOrder(req), Selected(req), r) < offset => r \in served
    BY <1>1, <1>5 DEF OffsetInv
  <2>2. ASSUME NEW r \in start,
               Rank(RowOrder(req), Selected(req), r) < offset + Cardinality(kept) \/ phase' = "done"
        PROVE  r \in served'
    <3> DEFINE rank == Rank(RowOrder(req), Selected(req), r)
    <3>1. r \in Selected(req) /\ rank \in Nat /\ (rank < offset => r \in served)
      BY <1>4, <2>1, Zenon
    <3>2. /\ offset <= rank /\ (rank < offset + Cardinality(kept) \/ phase' = "done") => r \in kept
          /\ rank < offset + Cardinality(kept) \/ phase' = "done"
      BY <2>2, <3>1, Zenon
    <3> HIDE DEF rank
    <3>3. rank < offset \/ offset <= rank
      BY <1>2, <3>1
    <3> QED
      BY <3>1, <3>2, <3>3
  <2> QED
    BY <2>1, <2>2
<1>6. offset' \in Nat
  BY <1>2
<1> QED
  BY <1>1, <1>2, <1>3, <1>5, <1>6 DEF OffsetInv, Rank

LEMMA OffsetListStep ==
  ASSUME IInv, OffsetInv, OtherLists
  PROVE  OffsetInv'
<1> DEFINE order == RowOrder(req)
           S == Selected(req)
           n == req.limit
<1>1. /\ OffsetRequest /\ phase = "walking"
      /\ UNCHANGED <<tableVars, req, start, disturbed, found>>
      /\ \/ trim_offset_rows(OffsetFetched(n + 1))
         \/ client_offset(OffsetFetched(n)) /\ req.limited
         \/ client_offset(S) /\ ~req.limited
  BY OffsetHandlers
<1>2. /\ n \in Nat /\ offset \in Nat
  BY <1>1, OffsetRequestType DEF IInv, OffsetInv
<1>3. S \in SUBSET Rows
  BY DEF Selected, OnChain
<1>4. IsFiniteSet(S) /\ TotalOrderOn(order, S)
  BY <1>1, <1>3, OffsetOrder
<1>5. \A k \in Nat : OffsetFetched(k) \in SUBSET S /\ IsFiniteSet(OffsetFetched(k))
  BY <1>4, FS_Subset DEF OffsetFetched, Slice
<1>6. CASE trim_offset_rows(OffsetFetched(n + 1))
  <2> DEFINE kept == OffsetKept
             fetched == OffsetFetched(n + 1)
  <2>1. /\ served' = served \cup kept /\ offset' = offset + Cardinality(kept)
        /\ phase' = IF HasNextPage(fetched, n) THEN phase ELSE "done"
    BY <1>6 DEF trim_offset_rows, OffsetKept
  <2>2. Cardinality(kept) \in Nat
    <3>1. kept \in SUBSET fetched /\ IsFiniteSet(fetched)
      BY <1>2, <1>5 DEF OffsetKept, Truncate, Slice
    <3> QED
      BY <3>1, FS_Subset, FS_CardinalityType
  <2>3. fetched = Slice(order, S, offset, n + 1) /\ kept = Truncate(order, fetched, n)
    BY DEF OffsetFetched, OffsetKept
  <2>4. phase' = "done" => ~HasNextPage(fetched, n)
    BY <1>1, <2>1
  <2> HIDE DEF kept, fetched, S, order, n
  <2>5. ASSUME NEW r \in S, offset <= Rank(order, S, r),
               Rank(order, S, r) < offset + Cardinality(kept) \/ phase' = "done"
        PROVE  r \in kept
    BY <1>2, <1>4, <2>3, <2>4, <2>5, TrimmedPage
  <2>6. phase' \in {"walking", "done"}
    BY <1>1, <2>1
  <2> QED
    BY <1>1, <2>1, <2>2, <2>5, <2>6, OffsetPageStep DEF S, order
<1>7. CASE client_offset(OffsetFetched(n)) /\ req.limited
  <2> DEFINE fetched == OffsetFetched(n)
  <2>1. /\ served' = served \cup fetched /\ offset' = offset + Cardinality(fetched)
        /\ phase' = IF Cardinality(fetched) >= n THEN phase ELSE "done"
    BY <1>7 DEF client_offset
  <2>2. Cardinality(fetched) \in Nat
    BY <1>2, <1>5, FS_CardinalityType
  <2>3. fetched = Slice(order, S, offset, n)
    BY DEF OffsetFetched
  <2>4. phase' = "done" => Cardinality(fetched) < n
    BY <1>1, <1>2, <2>1, <2>2
  <2> HIDE DEF fetched, S, order, n
  <2>5. ASSUME NEW r \in S, offset <= Rank(order, S, r),
               Rank(order, S, r) < offset + Cardinality(fetched) \/ phase' = "done"
        PROVE  r \in fetched
    BY <1>2, <1>4, <2>3, <2>4, <2>5, ClientPage
  <2>6. phase' \in {"walking", "done"}
    BY <1>1, <2>1
  <2> QED
    BY <1>1, <2>1, <2>2, <2>5, <2>6, OffsetPageStep DEF S, order
<1>8. CASE client_offset(S) /\ ~req.limited
  <2>1. served' = served \cup S /\ offset' = offset + Cardinality(S) /\ phase' = "done"
    BY <1>8 DEF client_offset
  <2>2. Cardinality(S) \in Nat
    BY <1>4, FS_CardinalityType
  <2> QED
    BY <1>1, <2>1, <2>2, OffsetPageStep
<1> QED
  BY <1>1, <1>6, <1>7, <1>8

\* While rows are only added and keep their values, no row moves forward.
LEMMA GrowthKeepsOffset ==
  ASSUME IInv, TableInv', OffsetInv, OffsetRequest,
         UNCHANGED <<req, phase, offset, served, start, disturbed, text, hidden>>,
         Rows \subseteq Rows', \A r \in Rows : table'[r] = table[r]
  PROVE  OffsetInv'
<1> DEFINE S == Selected(req)
           order == RowOrder(req)
<1>1. /\ ~SeekRequest /\ SeekRequest' = SeekRequest /\ S \in SUBSET Rows /\ S \subseteq S'
      /\ S' \in SUBSET Rows'
  BY OffsetRequestType DEF IInv, Selected, OnChain, SeekRequest
<1>2. \A r \in Rows : SortValue(req, r)' = SortValue(req, r)
  <2> TAKE r \in Rows
  <2>1. OrderBy(req.list)[req.order_by] \in {"id", "ts", "height", "text"}
    BY OffsetRequestType DEF IInv, Columns
  <2> QED
    BY <2>1 DEF SortValue, Column
<1>3. \A r, s \in Rows : <<r, s>> \in order => <<r, s>> \in order'
  BY <1>2 DEF RowOrder
<1>4. ASSUME NEW r \in S PROVE Rank(order, S, r) <= Rank(order, S, r)'
  <2>1. Below(order, S, r) \in SUBSET Below(order', S', r)
    BY <1>1, <1>3 DEF Below
  <2>2. IsFiniteSet(Below(order', S', r))
    <3>1. Below(order', S', r) \in SUBSET Ids
      BY <1>1 DEF Below, TableInv
    <3> QED
      BY <3>1, FS_Subset
  <2>3. Cardinality(Below(order, S, r)) <= Cardinality(Below(order', S', r))
    BY <2>1, <2>2, FS_Subset
  <2> QED
    BY <2>3 DEF Rank, Below
<1>5. \A r \in S : Rank(order, S, r) \in Nat
  BY <1>1, OffsetOrder, RankType
<1>6. \A r \in S : Rank(order, S, r)' \in Nat
  <2> TAKE r \in S
  <2>1. Below(order', S', r) \in SUBSET Ids
    BY <1>1 DEF Below, TableInv
  <2>2. Cardinality(Below(order', S', r)) \in Nat
    BY <2>1, FS_Subset, FS_CardinalityType
  <2> QED
    BY <2>2 DEF Rank, Below
<1>7. offset \in Nat
  BY <1>1 DEF OffsetInv
<1>8. ASSUME ~disturbed, phase = "walking", NEW r \in start, Rank(order, S, r)' < offset
      PROVE  r \in served
  <2>1. r \in S /\ (Rank(order, S, r) < offset => r \in served)
    BY <1>1, <1>8 DEF OffsetInv
  <2>2. Rank(order, S, r) < offset
    <3> DEFINE before == Rank(order, S, r)
               after == Rank(order, S, r)'
    <3>1. before \in Nat /\ after \in Nat /\ before <= after /\ after < offset
      BY <1>4, <1>5, <1>6, <1>8, <2>1, Zenon
    <3> HIDE DEF before, after
    <3>2. before < offset
      BY <1>7, <3>1
    <3> QED
      BY <3>2 DEF before
  <2> QED
    BY <2>1, <2>2
<1> HIDE DEF order
<1> QED
  BY <1>1, <1>8 DEF OffsetInv, order

LEMMA OffsetInvStep == IInv /\ IInv' /\ OffsetInv /\ [Next]_vars => OffsetInv'
<1> SUFFICES ASSUME IInv, IInv', OffsetInv, [Next]_vars PROVE OffsetInv'
  OBVIOUS
<1>1. CASE Worker
  <2>1. /\ UNCHANGED <<req, phase, served, start>> /\ TableInv'
        /\ Rows \subseteq Rows' /\ \A r \in Rows : table'[r] = table[r]
    BY <1>1, WorkerStep
  <2>2. ASSUME NEW r \in Rows, HideRow(r) \/ RenameRow(r) PROVE OffsetInv'
    <3>1. disturbed' /\ UNCHANGED offset
      BY <2>2 DEF HideRow, RenameRow
    <3>2. text' \in [Ids -> Int]
      <4>1. CASE HideRow(r)
        BY <4>1 DEF HideRow, OffsetInv
      <4>2. CASE RenameRow(r)
        <5>1. PICK s \in Ids : text' = [text EXCEPT ![r] = InitText[s]]
          BY <4>2 DEF RenameRow
        <5> QED
          BY <5>1 DEF OffsetInv
      <4> QED
        BY <2>2, <4>1, <4>2
    <3> QED
      BY <2>1, <3>1, <3>2 DEF OffsetInv, SeekRequest
  <2>3. ASSUME NEW c \in Chains, InsertBlock(c) \/ CommitBlock(c) \/ RollbackBlock(c)
        PROVE  OffsetInv'
    <3>1. UNCHANGED <<offset, disturbed, text, hidden>>
      BY <2>3 DEF InsertBlock, CommitBlock, RollbackBlock, walkVars
    <3>2. CASE OffsetRequest
      BY <2>1, <3>1, <3>2, GrowthKeepsOffset
    <3>3. CASE SeekRequest
      BY <2>1, <3>1, <3>3 DEF OffsetInv, SeekRequest
    <3>4. CASE ~OffsetRequest /\ ~SeekRequest
      <4>1. req.list \notin ListNames
        BY <3>4 DEF ListNames, OffsetRequest, SeekRequest
      <4>2. start = {}
        BY <3>4, <4>1 DEF OffsetInv
      <4> QED
        BY <2>1, <3>1, <4>2 DEF OffsetInv, SeekRequest
    <3> QED
      BY <3>2, <3>3, <3>4
  <2> QED
    BY <1>1, <2>2, <2>3 DEF Worker
<1>2. CASE Begin(req)
  <2>1. /\ UNCHANGED tableVars /\ req' = req /\ phase' = "walking" /\ offset' = 0
        /\ start' = Selected(req) /\ req.list \in ListNames
    BY <1>2 DEF Begin
  <2>2. Selected(req)' = Selected(req) /\ RowOrder(req)' = RowOrder(req) /\ text' = text
    BY <2>1 DEF tableVars, Selected, OnChain, Rows, RowOrder, SortValue, Column
  <2>3. CASE SeekRequest
    BY <2>1, <2>2, <2>3 DEF OffsetInv, SeekRequest
  <2>4. CASE ~SeekRequest
    <3>1. OffsetRequest /\ Selected(req) \in SUBSET Rows
      BY <1>2, <2>4 DEF Begin, ListNames, OffsetRequest, SeekRequest, Selected, OnChain
    <3>2. \A r \in Selected(req) : Rank(RowOrder(req), Selected(req), r) \in Nat
      BY <3>1, OffsetOrder, RankType
    <3>3. \A r \in start' : ~(Rank(RowOrder(req), Selected(req), r)' < 0)
      BY <2>1, <2>2, <3>2 DEF Rank
    <3> QED
      BY <2>1, <2>2, <3>3 DEF OffsetInv
  <2> QED
    BY <2>3, <2>4
<1>3. CASE transactions \/ events
  <2>1. SeekRequest /\ SeekRequest' /\ text' = text
    BY <1>3, SeekHandlers DEF SeekRequest, tableVars
  <2> QED
    BY <2>1 DEF OffsetInv
<1>4. CASE OtherLists
  BY <1>4, OffsetListStep
<1>5. CASE Lookup
  <2>1. /\ UNCHANGED <<tableVars, req, offset, start>> /\ ~SeekRequest
        /\ phase \in {"idle", "count", "matches", "answer"}
        /\ phase' \in {"count", "matches", "answer", "done"}
    BY <1>5, OtherHandlers DEF Lookup, BeginLookup, transaction_occurrence_count,
       list_transaction_occurrences, transaction_by_hash
  <2>2. start = {} /\ offset \in Nat /\ text' = text
    BY <2>1 DEF OffsetInv, tableVars
  <2> QED
    BY <2>1, <2>2 DEF OffsetInv
<1>6. CASE UNCHANGED vars
  <2>1. /\ Selected(req)' = Selected(req) /\ RowOrder(req)' = RowOrder(req)
        /\ UNCHANGED <<req, text, offset, phase, start, served, disturbed>>
        /\ SeekRequest' = SeekRequest
    BY <1>6 DEF vars, Selected, OnChain, Rows, RowOrder, SortValue, Column, SeekRequest
  <2> QED
    BY <2>1 DEF OffsetInv, Rank
<1> QED
  BY <1>1, <1>2, <1>3, <1>4, <1>5, <1>6, Steps

\* Following next_cursor through an OFFSET list (trim_offset_rows), or counting the rows
\* of a list without a cursor, loses no row the walk began with as long as rows are only
\* added between the pages, whatever the order, the direction and the page size.
THEOREM OffsetWalksComplete == Spec => []OffsetWalkComplete
<1>1. Init => OffsetInv
  <2> SUFFICES ASSUME Init PROVE OffsetInv
    OBVIOUS
  <2>1. text \in [Ids -> Int] /\ offset = 0 /\ start = {} /\ phase = "idle"
    BY ReadListsAssumption DEF Init
  <2> QED
    BY <2>1 DEF OffsetInv
<1>2. OffsetInv => OffsetWalkComplete
  BY DEF OffsetInv, OffsetWalkComplete, SeekRequest
<1> QED
  BY IInvInit, IInvStep, OffsetInvStep, <1>1, <1>2, PTL DEF Spec
==============================================================================
