------------------------------- MODULE Loops -------------------------------
(***************************************************************************)
(* How the code walks a vector or a result set.  The folds of SequencesExt *)
(* would serve; they are restated here on Folds because the prover carries *)
(* every definition of an extended module through every obligation.        *)
(***************************************************************************)
EXTENDS Integers, Sequences, FiniteSets, FiniteSetsExt

\* for x in s { done = op(done, x) }
ForEach(op(_, _), base, s) ==
  MapThenFoldSet(LAMBDA x, done : op(done, x), base, LAMBDA i : s[i], LAMBDA S : Max(S), DOMAIN s)

\* the elements a backwards loop meets
Reversed(s) == [i \in 1 .. Len(s) |-> s[(Len(s) - i) + 1]]

\* ORDER BY id
Ascending(ids) == [i \in 1 .. Cardinality(ids) |-> CHOOSE n \in ids : Cardinality({k \in ids : k < n}) = i - 1]
=============================================================================
