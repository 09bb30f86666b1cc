SPECIFICATION FairSpec
CONSTANTS
  c1 = c1
  c2 = c2
  NoCall = NoCall
  Call = {c1, c2}
  Reentrant = {c1}
  Timeout = 1
  Repeat = 1
  Slack = 0
  Lossy = TRUE
  Horizon = 3
INVARIANTS
  TypeOK
  WaitersBackFutures
  ResendLatency
  TimeoutLatency
PROPERTIES
  NeverEarly
  SilentOnceDone
  ImplementsRpc
  CallsResolve
  StopTerminates
