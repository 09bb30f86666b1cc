SPECIFICATION Spec
CONSTANTS
  n1 = n1
  n2 = n2
  a1 = a1
  a2 = a2
  a3 = a3
  a4 = a4
  r1 = r1
  r2 = r2
  Missing = Missing
  Node = {n1, n2}
  Add = {a1, a2}
  Read = {}
  At <- AtOf
  Delta <- DeltaOf
  MaxRequests = 4
INVARIANTS CountedOnce
