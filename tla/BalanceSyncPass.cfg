CONSTANTS
  MaxAddress = 3
  MaxHeight = 2
  BatchTiers <- SizedTiers
  LagThreshold = 1
  EndpointLag = 0
  Unfetchable <- OneRefused
  MaxFaults = 1
SPECIFICATION FairSpec
INVARIANTS CleanIsFresh CleanMembership
PROPERTY BacklogDrains
