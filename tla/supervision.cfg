\* Six situations of tasks and plans; two attempts, two accounts, handoffs.
SPECIFICATION PartSpec
CONSTANTS
  t1 = t1
  t2 = t2
  t3 = t3
  t4 = t4
  t5 = t5
  t6 = t6
  t7 = t7
  t8 = t8
  t9 = t9
  r1 = r1
  r2 = r2
  shop = shop
  crash = crash
  timeout = timeout
  NoOne = NoOne
  NoNode = NoNode
  Task <- NineTasks
  Runner <- TwoRunners
  Order <- InOrder
  Resource <- Slots
  Demand <- OneBuilder
  Capacity <- Budget
  Workspace <- OneShop
  MayExclude <- SecondTask
  MaxParallel = 2
  MaxRetries = 0
  Watchdog = TRUE
  MaxLaunches = 9
  MaxTroubles = 1
  Signatures <- TwoFailures
  Setups <- Situations
  MaxRevisions = 2
  MaxDynamicNodes = 5
  MaxRepairDepth = 2
  MaxSameFailure = 1
  a1 = a1
  a2 = a2
  m1 = m1
  m2 = m2
  w1 = w1
  w2 = w2
  w3 = w3
  s1 = s1
  q1 = q1
  q2 = q2
  c1 = c1
  c2 = c2
  None = None
  Accounts <- TwoAccounts
  Models <- TwoModels
  Sessions <- OneSession
  Windows <- ThreeWindows
  AccountOf <- McAccountOf
  Kind <- McKind
  Rank <- McRank
  Caps <- McCaps
  ContextLimit <- McContext
  Enabled <- McEnabled
  SessionModel <- McSessionModel
  SessionLimit <- McSessionLimit
  SessionSpace <- McSessionSpace
  SessionRank <- McSessionRank
  WindowAccount <- McWindowAccount
  WindowModel <- McWindowModel
  WindowMetric <- McWindowMetric
  WindowLimit <- McWindowLimit
  WindowReset <- McWindowReset
  WindowRank <- McWindowRank
  Confidence <- McConfidence
  Attempts <- TwoAttempts
  Callers <- TwoCallers
  AttemptOf <- McAttemptOf
  Effectful <- McEffectful
  Repeaters <- McRepeaters
  Measured <- TwoAccounts
  Request <- McRequest
  Demands <- McDemands
  DemandMetric <- McDemandMetric
  Observations <- McObservations
  AccountStates <- McAccountStates
  SessionStates <- McSessionStates
  FaultSigns <- McFaults
  Unit = 1
  FreshFor = 0
  ExpireAfter = 2
  AcquireHeadroom = 0
  MaxTotal = 5
  MaxSame = 3
  Threshold = 2
  RouteAmount = 1
  ClaimTTL = 1
  MaxAssignments = 2
  MaxReports = 1
SYMMETRY RunnerSymmetry
INVARIANTS
  OneProcess
  OneProvider
PROPERTIES
  NothingLeftQueued
  DependentsWait
  CompletedIsSettled
  NoDoubtHandedOver
CHECK_DEADLOCK FALSE
