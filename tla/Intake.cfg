SPECIFICATION FairSpec
CONSTANTS
  a = a
  b = b
  u1 = u1
  u2 = u2
  Alert = {a, b}
  Payload <- Payloads
  Request = {1, 2}
  Engine = {1, 2}
  Person = {u2}
  Leaver = {u1}
  Policy <- PassPolicies
  Duty <- PassDuty
  FirstDuty <- PassFirst
  Firehose = fire
  NoChannel = none
  CallExpiry = 10
  MaxPayloads = 3
  MaxUpsets = 1
CHECK_DEADLOCK FALSE
INVARIANTS
  HeldAsReported
  AdmittedIsCurrent
  EveryStepIsAnswered
PROPERTIES
  NewIsTaken
