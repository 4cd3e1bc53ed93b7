SPECIFICATION Spec
CONSTANTS
  TheCard = TheCard
  ThePage = ThePage
  TheThread = TheThread
  TheReply = TheReply
  w1 = w1
  w2 = w2
  NoParent = NoParent
  Commitment = {TheCard}
  Worker = {w1}
  Address = {1}
  Plan <- CardPlan
  MaxRevision = 1
  MaxFaults = 1
  MaxDecisions = 2
  MaxRelinks = 0
CHECK_DEADLOCK FALSE
INVARIANT ReplacedOnlyWhenGone
