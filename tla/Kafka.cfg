SPECIFICATION FairSpec
CONSTANTS
  n1 = n1
  n2 = n2
  k1 = k1
  k2 = k2
  m1 = m1
  m2 = m2
  m3 = m3
  t1 = t1
  t2 = t2
  c1 = c1
  Node = {n1, n2}
  Key = {k1, k2}
  Send = {m1, m2, m3}
  Consumer = {c1}
  Commit = {t1, t2}
  At <- AtOf
  KeyOf <- KeyOfSend
  MaxPollSize = 1
  Part = {"one", "two"}
INVARIANTS TypeOK CommitsHold
PROPERTIES ImplementsLog SendsAnswered DeliveredByPartOne
