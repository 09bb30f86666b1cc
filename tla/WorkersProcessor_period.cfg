SPECIFICATION Spec
CONSTANTS
  w1 = w1
  w2 = w2
  NoWorker = NoWorker
  Worker = {w1}
  Suspends = {w1}
  Period = 2
  Poll = 1
  Slack = 1
  Horizon = 3
PROPERTIES PeriodRespected
