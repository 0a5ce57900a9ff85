SPECIFICATION Spec
CONSTANTS
  t1 = t1
  t2 = t2
  t3 = t3
  t4 = t4
  t5 = t5
  t6 = t6
  t7 = t7
  t8 = t8
  t9 = t9
  r1 = r1
  r2 = r2
  shop = shop
  crash = crash
  timeout = timeout
  NoOne = NoOne
  NoNode = NoNode
  Task <- NineTasks
  Runner <- TwoRunners
  Order <- InOrder
  Resource <- Slots
  Demand <- OneBuilder
  Capacity <- Budget
  Workspace <- OneShop
  MayExclude <- SecondTask
  MaxParallel = 2
  MaxRetries = 0
  Watchdog = TRUE
  MaxLaunches = 9
  MaxTroubles = 1
  Signatures <- TwoFailures
  Setups <- Twice
  MaxRevisions = 2
  MaxDynamicNodes = 5
  MaxRepairDepth = 2
  MaxSameFailure = 1
PROPERTIES
  NoDuplicateExecution
CHECK_DEADLOCK FALSE
