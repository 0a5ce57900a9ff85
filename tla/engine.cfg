\* Two shapes over three nodes, two smaller ones that grow; two workers, late
\* clocks, one lost lease per attempt.
SPECIFICATION MutationSpec
CONSTANTS
  n1 = n1
  n2 = n2
  n3 = n3
  w1 = w1
  w2 = w2
  NoWorker = NoWorker
  Node <- GrowingNodes
  Worker <- TwoWorkers
  Definitions <- Growing
  WorkerStates <- ActiveOnly
  MaxAttempts = 1
  MaxEpoch = 2
  MaxTTL = 1
  MaxLag = 1
  Proposals <- SomeProposals
  Repairs <- Bypass
  MaxNodes = 3
  MaxRevision = 3
  MaxOffers = 2
SYMMETRY WorkerSymmetry
INVARIANTS
  TypeOK
  LeaseOwnership
  FencedOutcome
  DependencyGate
  CompletionAccepted
  OnlyMissedStrand
PROPERTIES
  ImplementsFencing
  DecidedStaysDecided
  GateClosed
CHECK_DEADLOCK FALSE
