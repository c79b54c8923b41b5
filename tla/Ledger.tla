------------------------------- MODULE Ledger --------------------------------
(***************************************************************************)
(* What the ingestion worker promises its readers: a cursor that only      *)
(* moves forward one height at a time, each move storing exactly the block *)
(* it moves onto, and the protected zero-state base (heights up to the     *)
(* boundary) never written.  The one other write is an operator's          *)
(* --project-block, which rewrites one block above the boundary and leaves *)
(* the cursor alone.                                                       *)
(***************************************************************************)
EXTENDS Integers

CONSTANTS
  Boundary,     \* MAIN_ZERO_STATE_BOUNDARY_HEIGHT
  MaxHeight,    \* bound of the model: no chain grows past it
  Chains,       \* the networks a block can come from
  NoBlock,      \* no row stored at a height
  Base,         \* content of a restored zero-state block
  InitCursors   \* cursor values a database may be handed over with

VARIABLES
  cursor,       \* chains.current_height
  blocks        \* the blocks table: height -> where the stored block came from

ledgerVars == <<cursor, blocks>>

Heights == 1..MaxHeight

\* A restored database: the base, and above it the prefix up to the cursor.
StoredPrefix(c, height) ==
  [h \in Heights |-> IF h <= Boundary THEN Base
                     ELSE IF h <= height THEN c ELSE NoBlock]

Init ==
  /\ cursor \in InitCursors
  /\ \E c \in Chains : blocks = StoredPrefix(c, cursor)

Append(c) ==
  /\ cursor >= Boundary
  /\ cursor + 1 \in Heights
  /\ cursor' = cursor + 1
  /\ blocks' = [blocks EXCEPT ![cursor + 1] = c]

Reproject(h, c) ==
  /\ h > Boundary
  /\ blocks' = [blocks EXCEPT ![h] = c]
  /\ UNCHANGED cursor

Next ==
  \E c \in Chains : \/ Append(c)
                    \/ \E h \in Heights : Reproject(h, c)

Spec == Init /\ [][Next]_ledgerVars

------------------------------------------------------------------------------
\* Every height above the base and up to the cursor has its block: readers that
\* trust chains.current_height (get_cursor_height) never meet a hole.
GapFreePrefix ==
  \A h \in Heights : Boundary < h /\ h <= cursor => blocks[h] # NoBlock

\* The zero-state base is intact (validate_zero_state_scope,
\* validate_projected_height): no write ever lands at or below the boundary.
ZeroStateIntact ==
  \A h \in Heights : h <= Boundary => blocks[h] = Base
==============================================================================
