SPECIFICATION FairSpec
CONSTANTS
  w1 = w1
  w2 = w2
  NoWorker = NoWorker
  Worker = {w1, w2}
  Suspends = {w1}
  Period = 1
  Poll = 1
  Slack = 1
  Horizon = 2
INVARIANTS
  TypeOK
  NoOverlap
  OneJobPerClaim
PROPERTIES
 RunsAgain
 StopJoins
