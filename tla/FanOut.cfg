SPECIFICATION FairSpec
CONSTANTS
  s1 = s1
  Subscriber = {s1}
  Event = {1, 2}
  Hears <- BothHeard
  Damaged = {1}
  RequestId = {k1}
  Instance = {i1, i2}
  Operator = {o1, o2}
  MaxUpsets = 2
  MaxCommands = 2
  MaxWindows = 1
  Ids <- AllIds
  RequestIds = {"a"}
  Zones = {"UTC"}
  Texts = {"text"}
  NULL = NULL
  Runes = {".", "a", "s", "y", "t", "e", "m"}
  ByteOrder <- IdOrder
CHECK_DEADLOCK FALSE
INVARIANTS
  NothingMadeForTheGone
  EventOutlivesItsCommitments
  RepeatMakesNothingNew
PROPERTIES
  PendingIsFannedOut
