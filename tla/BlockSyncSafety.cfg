\* Every sync mode, chosen again at each restart: windows of four blocks, three
\* fetches in flight, a read-ahead of three, a height limit below the tip, two
\* networks, a lagging endpoint, three faults.
SPECIFICATION Spec
CONSTANTS
  Boundary = 1
  MaxHeight = 7
  Chains = {main, dev}
  NoBlock = NoBlock
  Base = Base
  InitCursors = {0, 1, 2}
  OneShotChains = {}
  SyncModes = {"normal", "sequential", "relief"}
  FetchBatchSize = 4
  FetchConcurrency = 3
  QueueCapacity = 2
  HeightLimit = 6
  EndpointLag = 1
  MaxFaults = 3
SYMMETRY ChainSymmetry
INVARIANTS
  GapFreePrefix
  StallNamesNextHeight
  CompleteWindow
  ReadAheadBounded
PROPERTIES
  ImplementsLedger
  ChainContinuity
  ReliefReleaseEarned
