CONSTANTS
  Chains <- ChainNames
  Times <- BlockTimes
  Ids = {1, 2, 3, 4, 5, 6}
  BlockSizes = {2}
  InitText <- Texts
  AddressRows = {1, 3, 4, 6}
  Hash <- Hashes
  DefaultChain = "main"
  Limits = {1, 2}
  MaxMatches = 2
  MaxChanges = 1
SPECIFICATION Spec
INVARIANTS CursorCutsTheList OffsetWalkComplete LookupHonest
PROPERTIES ImplementsSweep
CHECK_DEADLOCK FALSE
