----------------------------- MODULE MCBlockSync -----------------------------
(* BlockSync on small instances; the bounds are in the .cfg files. *)
EXTENDS BlockSync, TLC

\* The two networks are interchangeable wherever no constant names one of them.
ChainSymmetry == Permutations(Chains)
==============================================================================
