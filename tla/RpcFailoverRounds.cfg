CONSTANTS
  N = 2
  Calls = {fetch, cheap}
  BlockFetches = {fetch}
  Needs = {20, 400, 1000}
  BaseTimeout = 30
  Rounds = 4
  BlockRounds = 5
  MaxFaults = 1
  UsizeRange = 8
SPECIFICATION FairSpec
INVARIANTS EveryEndpointAsked DenseBlockServed
PROPERTY CallsEnd
CHECK_DEADLOCK FALSE
