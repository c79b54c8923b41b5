------------------------- MODULE MCBlockProjection -------------------------
(***************************************************************************)
(* Small instance of BlockProjection: one NFT contract G with a series s,  *)
(* a fungible token F, NFTs n and m minted into the series, moved between  *)
(* a and b, infused and burned, also several times in one block.           *)
(***************************************************************************)
EXTENDS BlockProjection

N == {"G"}
NftKeys == {<<"G", "n">>, <<"G", "m">>}

Tx(sender, events) == [sender |-> sender, state |-> "Halt", signatures |-> <<"Ed25519">>, events |-> events]

Create(token) == Event("TokenCreate", token, "", "a")
Series == [Event("TokenSeriesCreate", "G", "", "a") EXCEPT !.series = "s", !.value = "c"]
Deploy == Event("ContractDeploy", "C", "", "a")
Mint(id, who) == [Event("TokenMint", "G", id, who) EXCEPT !.series = "s"]
Infuse(id, who, token, value) == [Event("Infusion", "G", id, who) EXCEPT !.infused = token, !.value = value]

FirstBlock == [ts |-> 1, txs |-> <<Tx("a", <<Create("F"), Create("G"), Series>>)>>]

Txs ==
  {Tx("a", <<Mint("n", "a")>>), Tx("b", <<Mint("m", "b")>>),
   Tx("a", <<Event("TokenSend", "G", "n", "a"), Event("TokenReceive", "G", "n", "b")>>),
   Tx("b", <<Event("TokenSend", "G", "n", "b"), Event("TokenReceive", "G", "n", "a")>>),
   Tx("a", <<Event("TokenBurn", "G", "n", "a")>>),
   Tx("b", <<Event("TokenBurn", "G", "n", "b")>>),
   Tx("a", <<Infuse("n", "a", "F", 2)>>),
   Tx("b", <<Event("TokenSend", "G", "m", "b"), Event("TokenReceive", "G", "m", "G"), Infuse("n", "a", "G", "m")>>),
   Tx("b", <<Deploy>>)}
=============================================================================
