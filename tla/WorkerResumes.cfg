CONSTANTS
  Spawns <- Refreshers
  MaxHeight = 5
  FetchBatchSize = 2
  LagThreshold = 1
  EndpointLag = 1
  MaxFaults = 2
SPECIFICATION LiveSpec
PROPERTIES BackoffEarned MaintenanceResumes
CHECK_DEADLOCK FALSE
