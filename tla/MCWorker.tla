------------------------------- MODULE MCWorker -------------------------------
(* The worker loop and its maintenance tasks for TLC. *)
EXTENDS Worker

\* The tasks meet only in the join at shutdown: one pair stands for that, the
\* others are looked at one at a time.
Solo == {{"balance"}, {"seriesMetadata"}, {"failedTx"}, {"stakeProjection"},
         {"tokenMetadata"}, {"ttrs"}, {"contractMetadata", "tokenPrice"}}
Refreshers == {{"nftMetadata", "tokenSupply"}}
==============================================================================
