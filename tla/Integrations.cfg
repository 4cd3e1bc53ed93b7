SPECIFICATION FairSpec
CONSTANTS
  t1 = t1
  t2 = t2
  i1 = i1
  i2 = i2
  a1 = a1
  a2 = a2
  g1 = g1
  None = None
  Id = {1, 2}
  Token = {t1, t2}
  Instance = {i1, i2}
  Request = {a1, a2}
  Payload = {1, 2}
  Incident = {g1}
  Deployment <- Deployments
CHECK_DEADLOCK FALSE
INVARIANTS
  GroupsFollowTheRow
  HooksFollowTheRow
PROPERTIES
  CacheCatchesUp
  UsergroupHoldsDuty
