SPECIFICATION FairSpec
CONSTANTS
  TheCard = TheCard
  ThePage = ThePage
  TheThread = TheThread
  TheReply = TheReply
  w1 = w1
  w2 = w2
  NoParent = NoParent
  Commitment = {TheCard, ThePage}
  Worker = {w1, w2}
  Address = {1, 2}
  Plan <- LinkedPlan
  MaxRevision = 0
  MaxFaults = 1
  MaxDecisions = 0
  MaxRelinks = 1
CHECK_DEADLOCK FALSE
INVARIANTS
  OneAddressPerGeneration
PROPERTIES
  QueueDrains
  EveryAttemptEnds
  ResolvedComesToRest
