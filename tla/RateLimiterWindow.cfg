CONSTANTS
  k1 = k1
  k2 = k2
  ip1 = ip1
  SEGMENTS = 3
  Requests = {r1, r2, r3}
  KeyPartitions <- Keys
  IpPartitions <- Ips
  PerMinute <- Tiers
  PerIpPerMinute = 1
  U32 = 16
  Capacity = 2
  SweepEveryOps = 1
  MaxSegment = 4
SPECIFICATION Spec
SYMMETRY RequestSymmetry
INVARIANTS WindowHonoured InFlightExact
CHECK_DEADLOCK FALSE
