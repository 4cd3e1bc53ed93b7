SPECIFICATION Spec
CONSTANTS
  TheCard = TheCard
  ThePage = ThePage
  TheThread = TheThread
  TheReply = TheReply
  w1 = w1
  w2 = w2
  NoParent = NoParent
  Commitment = {ThePage, TheCard, TheThread}
  Worker = {w1, w2}
  Address = {1}
  Plan <- StoppingPlan
  MaxRevision = 0
  MaxFaults = 1
  MaxDecisions = 1
  MaxRelinks = 0
CHECK_DEADLOCK FALSE
SYMMETRY Slots
INVARIANTS
  WithdrawalHolds
PROPERTIES
  StopHolds
  KeepsThePromise
