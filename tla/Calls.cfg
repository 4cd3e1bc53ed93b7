SPECIFICATION FairSpec
CONSTANTS
  w1 = w1
  p1 = p1
  NoIntegration = 0
  Integration = {1, 2}
  Worker = {w1}
  Poller = {p1}
  MaxUpsets = 2
CHECK_DEADLOCK FALSE
INVARIANTS
  NobodyIsCalledAnew
  NewsIsKept
PROPERTIES
  KnownCallSettles
  WaitEnds
