SPECIFICATION Spec
CONSTANTS
  TheCard = TheCard
  ThePage = ThePage
  TheThread = TheThread
  TheReply = TheReply
  w1 = w1
  w2 = w2
  NoParent = NoParent
  Commitment = {TheCard, TheReply}
  Worker = {w1}
  Address = {1}
  Plan <- ReplyPlan
  MaxRevision = 0
  MaxFaults = 1
  MaxDecisions = 0
  MaxRelinks = 0
CHECK_DEADLOCK FALSE
INVARIANT AnnouncedUnderItsCard
