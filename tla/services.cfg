SPECIFICATION Spec
CONSTANTS
  Parts = {"breaker", "scheduler", "executor", "artifacts", "completion", "workspaces", "switch"}
  c1 = c1
  c2 = c2
  c3 = c3
  x1 = x1
  x2 = x2
  Execution <- TwoExecutions
  IdOf <- SameId
  Limits <- SomeLimits
  Queue = 1
  p1 = p1
  p2 = p2
  p3 = p3
  d1 = d1
  d2 = d2
  Put <- ThreePuts
  Digest = {d1, d2}
  DigestOf <- DigestsOf
  RunIn <- RunsIn
  Key = {"k"}
  RunLocal = {"k"}
  Call <- ThreeCalls
  Threshold <- Twos
  Cooldown = 1
  MaxTime = 3
  MaxRevision = 8
  Run = {1, 2}
  Node <- FourNodes
  RunOf <- RunsOf
  Parents <- ParentsOf
  Priority <- Priorities
  Needs <- SomeNeeds
  Capacities = {1, 2}
  Weights = {1, 2}
  LaneLimit = 2
  CandidateLimit = 1
  Batches = 2
  MaxEnqueues = 3
  MaxCommands = 2
  k1 = k1
  k2 = k2
  Command <- TwoCommands
  Commit <- ThreeCommits
  Ancestors <- History
  Tree = {"old", "new", "half", "bare"}
  TreeOf <- TreesOf
  PlanIn <- PlansIn
  Half = "half"
  Budgets <- SomeBudgets
  h1 = h1
  h2 = h2
  s1 = s1
  Holder <- TwoHolders
  Modes <- SomeModes
  Tries = 1
  TTL = 1
  GracePeriod = 1
  MaxHour = 3
  Session = {s1}
  Account = {"a", "b"}
  MaxStarts = 2
  MaxTalks = 1
  MaxEvents = 3
INVARIANT OneWriter CheckpointCarried ReportsWhatRuns ProbeCanSettle ContentKept CompletionEarned TurnEndsOnItsOwn
PROPERTY FairWaitEnds TimeLimitHolds
CHECK_DEADLOCK FALSE
