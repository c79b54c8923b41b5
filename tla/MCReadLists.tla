----------------------------- MODULE MCReadLists -----------------------------
(* The read lists for TLC: two chains whose blocks interleave in time, ties in *)
(* every sort column, a hash that occurs up to three times on one chain.       *)
EXTENDS ReadLists, TLC

BlockTimes == ("main" :> <<5, 5, 6>>) @@ ("gen1" :> <<4>>)
Texts == [r \in Ids |-> <<2, 1, 2, 3, 1, 3>>[r]]
Hashes == [r \in Ids |-> IF r \in {1, 3, 5} THEN "wanted" ELSE "other"]
ChainNames == {"main", "gen1"}
==============================================================================
