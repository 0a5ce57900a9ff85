SPECIFICATION RetryFairSpec
CONSTANTS
  n1 = n1
  n2 = n2
  w1 = w1
  r1 = r1
  r2 = r2
  NoWorker = NoWorker
  Node <- TwoNodes
  Worker <- OneWorker
  Definitions <- JustChain
  WorkerStates <- ActiveOnly
  MaxAttempts = 3
  MaxEpoch = 2
  MaxTTL = 1
  MaxLag = 0
  Policy <- MixedPolicy
  Releaser <- TwoReleasers
  Verdicts <- Permitted
  Window = 2
  MaxDelay = 1
  MaxAge = 1
INVARIANTS
  BudgetsHold
PROPERTIES
  NeverEarly
  PauseDrains
  RunAdvances
CHECK_DEADLOCK FALSE
