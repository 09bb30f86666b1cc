SPECIFICATION FairSpec
CONSTANTS
  n1 = n1
  n2 = n2
  n3 = n3
  n4 = n4
  Node = {n1, n2, n3, n4}
  Origin = {n1}
  MaxEdges = 4
  MaxInFlight = 2
  Copies = 1
INVARIANTS TypeOK QuietMeansSpread
PROPERTY FloodEnds
