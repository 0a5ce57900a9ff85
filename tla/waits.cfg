\* Two nodes that wait for timers, signals and approvals; unleased attempts.
SPECIFICATION WaitFairSpec
CONSTANTS
  n1 = n1
  n2 = n2
  w1 = w1
  s1 = s1
  s2 = s2
  NoWorker = NoWorker
  Node <- TwoNodes
  Worker <- OneWorker
  Definitions <- Shapes
  WorkerStates <- NoState
  MaxAttempts = 1
  MaxEpoch = 1
  MaxTTL = 1
  MaxLag = 1
  WaitNodes <- TwoNodes
  Signal <- TwoSignals
  SignalName <- OneName
  MaxApprovals = 1
  MaxWait = 1
INVARIANTS
  WaitExplained
  SignalsMeet
PROPERTIES
  WaitsEnd
  ImplementsRun
CHECK_DEADLOCK FALSE
