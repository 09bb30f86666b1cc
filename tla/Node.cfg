SPECIFICATION FairSpec
CONSTANTS
  i1 = i1
  i2 = i2
  r1 = r1
  f1 = f1
  s1 = s1
  InitMessage = InitMessage
  Blank = Blank
  Fragment = Fragment
  Malformed = Malformed
  Nothing = Nothing
  Inquiry = {i1, i2}
  Relay = {r1}
  Faulty = {f1}
  Stray = {s1}
  MaxOffered = 4
INVARIANTS
  TypeOK
  AnsweredInOrder
  AnsweredOnce
  StoppedMeansAnswered
  ReadsToTheEnd
PROPERTIES
  RunReturns
