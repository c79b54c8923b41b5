------------------------------- MODULE Paging --------------------------------
(***************************************************************************)
(* The arithmetic of a page: what ORDER BY ... LIMIT ... OFFSET selects,   *)
(* what the handlers keep of it, and which row the next cursor names.  An  *)
(* ordering is a set of pairs: <<r, s>> is in it when r comes before s.    *)
(***************************************************************************)
EXTENDS Integers, FiniteSets

\* The position of r in S, counted from zero.
Rank(order, S, r) == Cardinality({s \in S : <<s, r>> \in order})

\* ORDER BY order LIMIT n OFFSET offset.
Slice(order, S, offset, n) ==
  {r \in S : /\ offset <= Rank(order, S, r)
             /\ Rank(order, S, r) < offset + n}

\* The last row of a page: the one the next seek cursor is built from.
LastOf(order, S) == CHOOSE r \in S : \A s \in S : s = r \/ <<s, r>> \in order

\* Every list query asks for one row more than the page, so that the handler
\* can tell whether another page follows: rows.len() > limit, rows.truncate(limit).
HasNextPage(fetched, limit) == Cardinality(fetched) > limit

Truncate(order, fetched, limit) == Slice(order, fetched, 0, limit)

\* A strict total order on S, as every "ORDER BY column, id" is.
TotalOrderOn(order, S) ==
  /\ \A r, s, t \in S : <<r, s>> \in order /\ <<s, t>> \in order => <<r, t>> \in order
  /\ \A r, s \in S : r = s \/ <<r, s>> \in order \/ <<s, r>> \in order
  /\ \A r \in S : <<r, r>> \notin order
==============================================================================
