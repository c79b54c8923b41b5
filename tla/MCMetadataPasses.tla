-------------------------- MODULE MCMetadataPasses --------------------------
(***************************************************************************)
(* Small instance of MetadataPasses: batches of two, one item of each kind *)
(* that never gets an answer, two upgrades and two transient failures.     *)
(***************************************************************************)
EXTENDS MetadataPasses

Symbols == <<"SOUL", "NEO">>
=============================================================================
