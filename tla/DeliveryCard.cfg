SPECIFICATION Spec
CONSTANTS
  TheCard = TheCard
  ThePage = ThePage
  TheThread = TheThread
  TheReply = TheReply
  w1 = w1
  w2 = w2
  NoParent = NoParent
  Commitment = {TheCard, TheReply}
  Worker = {w1, w2}
  Address = {1}
  Plan <- ReplyPlan
  MaxRevision = 1
  MaxFaults = 2
  MaxDecisions = 1
  MaxRelinks = 0
CHECK_DEADLOCK FALSE
SYMMETRY Slots
INVARIANTS
  AttemptFence
  DuplicatesAreExplained
  CaughtUp
  SatelliteUnderItsCard
PROPERTIES
  JournalIsHistory
