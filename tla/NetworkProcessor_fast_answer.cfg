SPECIFICATION Spec
CONSTANTS
  c1 = c1
  c2 = c2
  NoCall = NoCall
  Call = {c1, c2}
  Reentrant = {}
  Timeout = 1
  Repeat = 1
  Slack = 0
  Lossy = FALSE
  Horizon = 3
PROPERTIES ResponseResolvesFuture
