---------------------------- MODULE MCBalanceSync ----------------------------
(* The dirty-balance sync for TLC.  Address ids are ordered, so no symmetry. *)
EXTENDS BalanceSync

OneRefused == {1}

\* A backlog of two is drained at once; one of three, all the addresses, is cut off
\* after two, of which the refused address may be one.
SizedTiers == {[from |-> 0, size |-> 1], [from |-> 2, size |-> 2]}
==============================================================================
