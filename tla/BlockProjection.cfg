SPECIFICATION Spec
CONSTANTS
  NonFungible <- N
  Genesis <- FirstBlock
  Transactions <- Txs
  Nfts <- NftKeys
  Gaps = {0, 1}
  MaxBlocks = 3
  MaxTxs = 2
  MaxIncidents = 2
INVARIANTS RowsResolve BurnMarked OwnerFollowsChain InfusionsExact SupplyCoversAlive
PROPERTY IdsStable
CHECK_DEADLOCK FALSE
