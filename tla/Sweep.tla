-------------------------------- MODULE Sweep --------------------------------
(***************************************************************************)
(* What a paged list promises a client that follows its cursors: every row *)
(* that was there when the walk began is delivered before it ends, and no  *)
(* row is delivered twice.  Rows that appear on the way may be delivered   *)
(* as well.                                                                *)
(***************************************************************************)
EXTENDS Integers, FiniteSets

CONSTANT Row

VARIABLES
  todo,     \* rows still owed to the client
  got,      \* rows delivered
  sent,     \* how many rows were sent: a row sent twice counts twice
  active    \* a walk is under way

sweepVars == <<todo, got, sent, active>>

Init ==
  /\ todo = {}
  /\ got = {}
  /\ sent = 0
  /\ active = FALSE

Begin(S) ==
  /\ ~active
  /\ todo' = S
  /\ got' = {}
  /\ sent' = 0
  /\ active' = TRUE

Deliver(S) ==
  /\ active
  /\ S \cap got = {}
  /\ got' = got \cup S
  /\ sent' = sent + Cardinality(S)
  /\ todo' = todo \ S
  /\ active' \in BOOLEAN
  /\ ~active' => todo' = {}

Next == \E S \in SUBSET Row : Begin(S) \/ Deliver(S)

Spec == Init /\ [][Next]_sweepVars
==============================================================================
