SPECIFICATION EffectSpec
CONSTANTS
  n1 = n1
  n2 = n2
  w1 = w1
  w2 = w2
  r1 = r1
  x1 = x1
  x2 = x2
  NoWorker = NoWorker
  Node <- TwoNodes
  Worker <- OneWorker
  Definitions <- JustChain
  WorkerStates <- ActiveOnly
  MaxAttempts = 2
  MaxEpoch = 2
  MaxTTL = 1
  MaxLag = 0
  Policy <- TwicePolicy
  Releaser <- OneReleaser
  Verdicts <- Always
  Window = 1
  MaxDelay = 1
  MaxAge = 0
  Effect <- OneEffect
  Site <- AtFirstNode
  Class <- Charge
  ListLimit = 2
  Operation <- Writes
  Callers = {"filesystem", "git", "own"}
INVARIANTS
  SoleOwner
  NoBlindRetry
  DoubtExplained
PROPERTIES
  EvidenceStands
CHECK_DEADLOCK FALSE
