\* One session, Telegram out of order for a moment.
SPECIFICATION Spec
CONSTANTS
  i1 = i1
  i2 = i2
  i3 = i3
  a1 = a1
  a2 = a2
  r1 = r1
  t1 = t1
  u1 = u1
  u2 = u2
  None = None
  Instances <- ThreeInstances
  Accounts <- TwoAccounts
  Repos <- OneRepo
  Topics <- OneTopic
  Users <- TwoUsers
  MaxSessions = 2
  CommandBatch = 2
  DeliveryBatch = 2
  Setups <- McFinals
INVARIANTS
  FinalShown
CHECK_DEADLOCK FALSE
