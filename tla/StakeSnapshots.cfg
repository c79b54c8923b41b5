CONSTANTS
  Addr = {"a", "b"}
  Operations <- Ops
  InitStakes <- Stakes
  InitSupply = 5
  MasterThreshold = 3
  SecondsPerDay = 2
  DaysPerMonth = 2
  BoundaryTime = 1
  Gaps = {0, 3}
  MaxBlocks = 4
  MaxCaptures = 2
SPECIFICATION Spec
INVARIANTS SeedIsBoundaryState CurveIsChain DerivedMatchesCurve
PROPERTY ClosedDaysFrozen
CHECK_DEADLOCK FALSE
