\* Liveness: every endpoint is at the tip, one network, at most two faults, and
\* one-shot re-projections beside the worker.
SPECIFICATION FairSpec
CONSTANTS
  Boundary = 1
  MaxHeight = 5
  Chains = {main}
  NoBlock = NoBlock
  Base = Base
  InitCursors = {1}
  OneShotChains = {main}
  SyncModes = {"normal", "sequential"}
  FetchBatchSize = 3
  FetchConcurrency = 2
  QueueCapacity = 1
  HeightLimit = 9
  EndpointLag = 0
  MaxFaults = 2
PROPERTIES
  EveryBlockIndexed
