CONSTANTS
  Spawns <- Solo
  MaxHeight = 2
  FetchBatchSize = 2
  LagThreshold = 1
  EndpointLag = 1
  MaxFaults = 1
SPECIFICATION StopSpec
PROPERTIES ShutdownCompletes KickNotLost
CHECK_DEADLOCK FALSE
