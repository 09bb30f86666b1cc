SPECIFICATION FairSpec
CONSTANTS
  v1 = v1
  v2 = v2
  NodesCount = 3
  kMaxPathLength = 3
  Value = {v1, v2}
  Clients <- Two
  MaxInFlight = 2
  MaxNodes = 25
INVARIANTS
  TypeOK
  OffsetsCountValues
  BatchesDisjoint
  RingReachesAll
PROPERTIES
  ImplementsGossip
  Converges
  ComesToRest
