SPECIFICATION Spec
CONSTANTS
  Person = {p1, p2}
  Number = {n1, n2}
  Sender = {s1, s2}
  Request = {r1, r2}
  None = None
  MaxConcurrent = 1
  Interval = 1
  Life = 1
  Hold = 3
  CodeTTL = 3
  VerifySpan = 3
  MaxVerify = 2
  DaySpan = 4
  MaxDay = 2
  CodeAttempts = 2
  MaxTime = 4
  MaxCalls = 3
  MaxEdits = 2
  MaxPins = 1
  MaxFaults = 1
CHECK_DEADLOCK FALSE
SYMMETRY Alike
INVARIANTS
  CodesAreAboutTheNumber
  LimitsHold
  ErasedIsForgotten
