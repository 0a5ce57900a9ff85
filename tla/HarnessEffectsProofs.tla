------------------------ MODULE HarnessEffectsProofs ------------------------
(***************************************************************************)
(* Theorems about HarnessRetry and about HarnessEffects, which extends it: *)
(* what the durable retries promise of the specification RetrySpec, and    *)
(* what is promised of external effects, for every set of nodes, workers,  *)
(* releasers and effects, every class and operation, every policy and every*)
(* bound.                                                                  *)
(***************************************************************************)
EXTENDS HarnessEffects, HarnessEngineProofs

(***************************************************************************)
(* Retries.  The invariant: the retries' tables have their types, an       *)
(* attempt whose retry was ever scheduled has FAILED for good, no budget is *)
(* overdrawn, and a run that does not exist has no nodes.                   *)
(***************************************************************************)
BudgetRow == [limit : Nat, used : Nat, left : Int]

BudgetInv ==
  /\ budget \in [Scope -> BudgetRow]
  /\ BudgetsHold

ListsInv ==
  /\ schedule \in [Node -> [attempt : Nat, wait : Int]]
  /\ batch \in [Releaser -> [nodes : SUBSET Node, age : Nat]]
  /\ refused \subseteq Report

HistoryInv ==
  /\ history \subseteq Attempt
  /\ \A a \in history : attempt[a].state = "FAILED"

RetryInv == CoreOK /\ Unborn /\ BudgetInv /\ ListsInv /\ HistoryInv

\* What every step that does not pay for, schedule or release a retry does.
EngineStep == [Next]_vars /\ UNCHANGED <<budget, history>>

----------------------------------------------------------------------------
\* A tick of the clock moves a deadline by at most one and never past Int.
LEMMA FallsType == ASSUME NEW i \in Int PROVE Falls(i) \in Int
BY PolicyAssumption DEF Falls

\* The parts of the policy and of the inputs of a report.
LEMMA ReportTypes ==
  ASSUME NEW a \in Attempt, NEW late \in Late
  PROVE  /\ NodeOf(a) \in Node /\ a[2] \in Nat /\ late \in Nat
         /\ \A s \in Scope : Limit(NodeOf(a), s) \in Nat
<1>1. NodeOf(a) \in Node /\ a[2] \in 1..MaxAttempts
  BY DEF Attempt, NodeOf
<1>2. late \in Nat /\ \A k \in 1..MaxAttempts : k \in Nat
  BY BoundsAssumption DEF Late
<1>3. \A s \in Scope : Limit(NodeOf(a), s) \in Nat
  BY <1>1, PolicyAssumption DEF Limit
<1> QED
  BY <1>1, <1>2, <1>3

\* A granted reservation keeps the budget's type and its limit.
LEMMA GrantHolds ==
  ASSUME BudgetInv, NEW a \in Attempt, NEW late \in Late, BudgetGranted(NodeOf(a), late),
         NEW s \in Scope
  PROVE  /\ ReserveRetryBudget(NodeOf(a), s, late) \in BudgetRow
         /\ ReserveRetryBudget(NodeOf(a), s, late).used
              <= ReserveRetryBudget(NodeOf(a), s, late).limit
<1> DEFINE n == NodeOf(a)
           row == ReserveRetryBudget(n, s, late)
<1>1. Limit(n, s) \in Nat /\ late \in Nat /\ Window - late \in Int
  BY ReportTypes, PolicyAssumption
<1>2. budget[s] \in BudgetRow /\ budget[s].used <= budget[s].limit
  BY DEF BudgetInv, BudgetsHold
<1>3. CASE Limit(n, s) = 0
  BY <1>2, <1>3 DEF ReserveRetryBudget
<1>4. CASE Limit(n, s) # 0 /\ WindowOver(s, late)
  BY <1>1, <1>4 DEF ReserveRetryBudget, BudgetRow
<1>5. CASE Limit(n, s) # 0 /\ ~WindowOver(s, late)
  <2>1. budget[s].used < budget[s].limit
    BY <1>1, <1>2, <1>5 DEF BudgetGranted, Exhausted, BudgetRow
  <2>2. row = [budget[s] EXCEPT !.used = budget[s].used + 1]
    BY <1>5 DEF ReserveRetryBudget
  <2> QED
    BY <1>2, <2>1, <2>2 DEF BudgetRow
<1> QED
  BY <1>3, <1>4, <1>5

----------------------------------------------------------------------------
\* Each step of RetryNext is a step of the engine, or one of the three that the
\* retries add to it.
LEMMA RetryStepKinds ==
  ASSUME ListsInv, [RetryNext]_rvars
  PROVE  \/ EngineStep
         \/ \E a \in Attempt, fence \in Fence \cup {Unfenced}, permits \in Verdicts, late \in Late,
               delay \in ComputeDelay : TryScheduleRetry(a, fence, permits, delay, late)
         \/ \E r \in Releaser, n \in Node : ReleaseDueRetry(r, n)
         \/ RetryTick
<1> USE DEF EngineStep
<1>1. CASE Operations /\ UNCHANGED retryVars
  BY <1>1 DEF Next, retryVars
<1>2. CASE \E a \in Attempt, fence \in Fence \cup {Unfenced}, permits \in Verdicts, late \in Late :
              \/ RefuseRetry(a, fence, permits, late)
              \/ \E delay \in ComputeDelay : TryScheduleRetry(a, fence, permits, delay, late)
  BY <1>2 DEF RefuseRetry
<1>3. CASE \E report \in refused :
              DropRefused(report) \/ \E late \in Late : FailRefused(report, late)
  <2>1. PICK report \in refused :
              DropRefused(report) \/ \E late \in Late : FailRefused(report, late)
    BY <1>3
  <2>2. report[1] \in Attempt /\ report[2] \in Fence \cup {Unfenced}
    BY DEF ListsInv, Report
  <2>3. CASE DropRefused(report)
    BY <2>3 DEF DropRefused
  <2>4. ASSUME NEW late \in Late, FailRefused(report, late) PROVE EngineStep
    <3>1. budget' = budget /\ history' = history
      BY <2>4 DEF FailRefused
    <3>2. CompleteAttemptFailure(report[1], report[2], late) \/ UNCHANGED vars
      BY <2>4 DEF FailRefused
    <3> QED
      BY <2>2, <3>1, <3>2 DEF Next, Operations
  <2> QED
    BY <2>1, <2>3, <2>4
<1>4. CASE \E r \in Releaser :
              \/ \E late \in Late : ListDueRetries(r, late)
              \/ \E n \in Node : ReleaseDueRetry(r, n) \/ SkipListedRetry(r, n)
              \/ StopRelease(r)
  BY <1>4 DEF ListDueRetries, SkipListedRetry, StopRelease
<1>5. CASE CancelWithRetries
  BY <1>5 DEF CancelWithRetries, Next
<1>6. CASE Reclaim /\ UNCHANGED retryVars
  BY <1>6 DEF Next, retryVars
<1>7. CASE UNCHANGED rvars
  BY <1>7 DEF rvars, retryVars
<1> QED
  BY <1>1, <1>2, <1>3, <1>4, <1>5, <1>6, <1>7 DEF RetryNext, RetryOperations

----------------------------------------------------------------------------
\* The engine's tables keep their types, and an absent run has no nodes.
LEMMA RetryTypeStep ==
  ASSUME CoreOK, Unborn, ListsInv, [RetryNext]_rvars
  PROVE  CoreOK' /\ Unborn'
<1>1. CASE EngineStep
  BY <1>1, TypeStep, RowsStand DEF EngineStep
<1>2. ASSUME NEW a \in Attempt, NEW fence \in Fence \cup {Unfenced}, NEW permits \in Verdicts,
             NEW late \in Late, NEW delay \in ComputeDelay,
             TryScheduleRetry(a, fence, permits, delay, late)
      PROVE  CoreOK' /\ Unborn'
  <2> USE DEF CoreOK
  <2>1. /\ attempt' = [attempt EXCEPT ![a] = [attempt[a] EXCEPT !.state = "FAILED"]]
        /\ CompareAndSwapNodeRun(NodeOf(a), "RETRY_WAIT")
        /\ ReleaseLease(a, fence)
        /\ wf \in {"RUNNING", "PAUSING"}
        /\ wf' = FinalizePauseIfDrained(wf, attempt')
        /\ outcome' = [outcome EXCEPT ![a] = fence]
        /\ UNCHANGED <<deps, remaining, progress, worker>>
    BY <1>2 DEF TryScheduleRetry, WorkflowAllowsDrain
  <2>2. attempt' \in [Attempt -> AttemptRow]
    <3>1. "FAILED" \in AttemptState
      BY DEF AttemptState
    <3> QED
      BY <2>1, <3>1, AttemptRowTypes
  <2>3. lease' \in [Attempt -> [Epoch -> LeaseRow]]
    <3>1. CASE fence = Unfenced
      BY <2>1, <3>1 DEF ReleaseLease
    <3>2. CASE fence \in Fence
      <4>1. fence.epoch \in Epoch
        BY <3>2 DEF Fence
      <4> QED
        BY <2>1, <4>1, RowTypes DEF ReleaseLease
    <3> QED
      BY <3>1, <3>2
  <2>4. node' \in [Node -> NodeState \cup {"ABSENT"}] /\ ready' \in SUBSET Node
    BY <2>1, ReportTypes DEF CompareAndSwapNodeRun, NodeState
  <2>5. wf' \in {"RUNNING", "PAUSING", "PAUSED"}
    BY <2>1 DEF FinalizePauseIfDrained
  <2>6. outcome' \in [Attempt -> Fence \cup {NoOutcome, Unfenced}]
    BY <2>1
  <2> QED
    BY <2>1, <2>2, <2>3, <2>4, <2>5, <2>6 DEF WorkflowState, Unborn
<1>3. ASSUME NEW r \in Releaser, NEW n \in Node, ReleaseDueRetry(r, n)
      PROVE  CoreOK' /\ Unborn'
  BY <1>3 DEF ReleaseDueRetry, CompareAndSwapNodeRun, CoreOK, NodeState, Unborn
<1>4. CASE RetryTick
  <2> USE DEF CoreOK
  <2>1. TickLeases /\ UNCHANGED <<wf, node, deps, remaining, ready, progress, attempt, worker, outcome>>
    BY <1>4 DEF RetryTick
  <2>2. ASSUME NEW a \in Attempt, NEW e \in Epoch, Ticking(a, e)
        PROVE  [lease[a][e] EXCEPT !.left = @ - 1] \in LeaseRow
    <3>1. lease[a][e].left - 1 \in (-MaxLag)..MaxTTL
      BY <2>2, BoundsAssumption DEF Ticking, Floor, LeaseRow
    <3>2. lease[a][e] \in LeaseRow
      OBVIOUS
    <3> QED
      BY <3>1, <3>2 DEF LeaseRow
  <2>3. lease' \in [Attempt -> [Epoch -> LeaseRow]]
    BY <2>1, <2>2 DEF TickLeases
  <2> QED
    BY <2>1, <2>3 DEF Unborn
<1> QED
  BY <1>1, <1>2, <1>3, <1>4, RetryStepKinds

\* Budgets keep their types and are never overdrawn.
LEMMA BudgetStep ==
  ASSUME BudgetInv, ListsInv, [RetryNext]_rvars
  PROVE  BudgetInv'
<1> USE DEF BudgetInv, BudgetsHold
<1>1. CASE EngineStep
  BY <1>1 DEF EngineStep
<1>2. ASSUME NEW a \in Attempt, NEW fence \in Fence \cup {Unfenced}, NEW permits \in Verdicts,
             NEW late \in Late, NEW delay \in ComputeDelay,
             TryScheduleRetry(a, fence, permits, delay, late)
      PROVE  BudgetInv'
  <2>1. /\ BudgetGranted(NodeOf(a), late)
        /\ budget' = [s \in Scope |-> ReserveRetryBudget(NodeOf(a), s, late)]
    BY <1>2 DEF TryScheduleRetry
  <2>2. \A s \in Scope : /\ budget'[s] \in BudgetRow
                         /\ budget'[s].used <= budget'[s].limit
    BY <2>1, GrantHolds
  <2> QED
    BY <2>1, <2>2
<1>3. ASSUME NEW r \in Releaser, NEW n \in Node, ReleaseDueRetry(r, n) PROVE BudgetInv'
  BY <1>3 DEF ReleaseDueRetry
<1>4. CASE RetryTick
  <2>1. budget' = [s \in Scope |-> IF budget[s].used = 0 THEN NoBudget
                                   ELSE [budget[s] EXCEPT !.left = Falls(budget[s].left)]]
    BY <1>4 DEF RetryTick
  <2>2. ASSUME NEW s \in Scope
        PROVE  budget'[s] \in BudgetRow /\ budget'[s].used <= budget'[s].limit
    <3>1. budget[s] \in BudgetRow /\ Falls(budget[s].left) \in Int
      BY FallsType DEF BudgetRow
    <3>2. NoBudget \in BudgetRow /\ NoBudget.used <= NoBudget.limit
      BY DEF NoBudget, BudgetRow
    <3>3. CASE budget[s].used = 0
      BY <2>1, <3>2, <3>3
    <3>4. CASE budget[s].used # 0
      BY <2>1, <3>1, <3>4 DEF BudgetRow
    <3> QED
      BY <3>3, <3>4
  <2> QED
    BY <2>1, <2>2
<1> QED
  BY <1>1, <1>2, <1>3, <1>4, RetryStepKinds

\* The schedule, the release loops and the pending refusals keep their types.
LEMMA ListsStep ==
  ASSUME ListsInv, [RetryNext]_rvars
  PROVE  ListsInv'
<1> USE DEF ListsInv
<1>0. /\ NoSchedule \in [attempt : Nat, wait : Int]
      /\ Idle \in [nodes : SUBSET Node, age : Nat]
      /\ \A b \in [nodes : SUBSET Node, age : Nat], n \in Node :
           Without(b, n) \in [nodes : SUBSET Node, age : Nat]
  BY DEF NoSchedule, Idle, Without
<1>1. ASSUME UNCHANGED <<schedule, batch, refused>> PROVE ListsInv'
  BY <1>1
<1>2. ASSUME NEW a \in Attempt, NEW fence \in Fence \cup {Unfenced}, NEW permits \in Verdicts,
             NEW late \in Late, RefuseRetry(a, fence, permits, late)
      PROVE  ListsInv'
  BY <1>2 DEF RefuseRetry, Report
<1>3. ASSUME NEW a \in Attempt, NEW fence \in Fence \cup {Unfenced}, NEW permits \in Verdicts,
             NEW late \in Late, NEW delay \in ComputeDelay,
             TryScheduleRetry(a, fence, permits, delay, late)
      PROVE  ListsInv'
  <2>1. [attempt |-> a[2], wait |-> delay - late] \in [attempt : Nat, wait : Int]
    BY ReportTypes, PolicyAssumption DEF ComputeDelay
  <2> QED
    BY <1>3, <2>1 DEF TryScheduleRetry
<1>4. ASSUME NEW report \in refused, NEW late \in Late,
             DropRefused(report) \/ FailRefused(report, late)
      PROVE  ListsInv'
  BY <1>4 DEF DropRefused, FailRefused
<1>5. ASSUME NEW r \in Releaser, NEW late \in Late, ListDueRetries(r, late) PROVE ListsInv'
  <2>1. late \in Nat
    BY BoundsAssumption DEF Late
  <2> QED
    BY <1>5, <2>1 DEF ListDueRetries
<1>6. ASSUME NEW r \in Releaser, NEW n \in Node, ReleaseDueRetry(r, n) \/ SkipListedRetry(r, n)
      PROVE  ListsInv'
  <2>1. /\ schedule' = schedule \/ schedule' = [schedule EXCEPT ![n] = NoSchedule]
        /\ batch' = [batch EXCEPT ![r] = Without(batch[r], n)]
        /\ refused' = refused
    BY <1>6 DEF ReleaseDueRetry, SkipListedRetry
  <2>2. Without(batch[r], n) \in [nodes : SUBSET Node, age : Nat]
    BY <1>0
  <2>3. batch' \in [Releaser -> [nodes : SUBSET Node, age : Nat]]
    BY <2>1, <2>2
  <2>4. schedule' \in [Node -> [attempt : Nat, wait : Int]]
    BY <1>0, <2>1
  <2> QED
    BY <2>1, <2>3, <2>4
<1>7. ASSUME NEW r \in Releaser, StopRelease(r) PROVE ListsInv'
  BY <1>0, <1>7 DEF StopRelease
<1>8. CASE CancelWithRetries
  BY <1>0, <1>8 DEF CancelWithRetries
<1>9. CASE RetryTick
  <2>1. /\ schedule' = [n \in Node |-> IF schedule[n] = NoSchedule THEN NoSchedule
                                       ELSE [schedule[n] EXCEPT !.wait = Falls(schedule[n].wait)]]
        /\ batch' = [r \in Releaser |-> IF batch[r].nodes = {} THEN Idle
                                        ELSE [batch[r] EXCEPT !.age = batch[r].age + 1]]
        /\ refused' = refused
    BY <1>9 DEF RetryTick
  <2>2. \A n \in Node : [schedule[n] EXCEPT !.wait = Falls(schedule[n].wait)]
                          \in [attempt : Nat, wait : Int]
    BY FallsType
  <2>3. \A r \in Releaser : [batch[r] EXCEPT !.age = batch[r].age + 1]
                              \in [nodes : SUBSET Node, age : Nat]
    OBVIOUS
  <2>4. schedule' \in [Node -> [attempt : Nat, wait : Int]]
    BY <1>0, <2>1, <2>2
  <2>5. batch' \in [Releaser -> [nodes : SUBSET Node, age : Nat]]
    BY <1>0, <2>1, <2>3
  <2> QED
    BY <2>1, <2>4, <2>5
<1>10. CASE (Operations /\ UNCHANGED retryVars) \/ (Reclaim /\ UNCHANGED retryVars)
             \/ UNCHANGED rvars
  BY <1>1, <1>10 DEF retryVars, rvars
<1> QED
  BY <1>2, <1>3, <1>4, <1>5, <1>6, <1>7, <1>8, <1>9, <1>10
     DEF RetryNext, RetryOperations, DropRefused, FailRefused

\* No step of the engine touches a FAILED attempt.
LEMMA FailedStands ==
  ASSUME CoreOK, [Next]_vars, NEW b \in Attempt, attempt[b].state = "FAILED"
  PROVE  attempt'[b].state = "FAILED"
<1> USE DEF CoreOK
<1>0. ASSUME NEW n \in Node, NEW k \in 1..MaxAttempts, IsNextAttempt(n, k), NEW row,
             attempt' = [attempt EXCEPT ![<<n, k>>] = row]
      PROVE  attempt'[b].state = "FAILED"
  <2>1. attempt[<<n, k>>].state = "ABSENT"
    BY <1>0 DEF IsNextAttempt
  <2> QED
    BY <1>0, <2>1
<1>1. ASSUME NEW n \in Node, StartAttempt(n) PROVE attempt'[b].state = "FAILED"
  BY <1>0, <1>1 DEF StartAttempt
<1>5. ASSUME NEW n \in Node, NEW w \in Worker, NEW ttl \in 1..MaxTTL, NEW late \in Late,
             ClaimNode(n, w, ttl, late)
      PROVE  attempt'[b].state = "FAILED"
  <2>1. PICK k \in 1..MaxAttempts :
          /\ IsNextAttempt(n, k)
          /\ attempt' = [attempt EXCEPT ![<<n, k>>] =
                           [state |-> "CLAIMED", worker |-> w, epoch |-> 1]]
    BY <1>5 DEF ClaimNode
  <2> QED
    BY <2>1, <1>0
<1>2. ASSUME NEW a \in Attempt,
             \/ \E fence \in Fence, late \in Late : StartClaimedAttempt(a, fence, late)
             \/ \E fence \in Fence \cup {Unfenced}, late \in Late :
                  \/ CompleteAttemptSuccess(a, fence, late)
                  \/ CompleteAttemptFailure(a, fence, late)
             \/ \E w \in Worker, ttl \in 1..MaxTTL, late \in Late :
                  ReclaimExpiredAttempt(a, w, ttl, late)
      PROVE  attempt'[b].state = "FAILED"
  <2>1. attempt[a].state \in LiveAttempt /\ \E row : attempt' = [attempt EXCEPT ![a] = row]
    BY <1>2 DEF StartClaimedAttempt, CompleteAttemptSuccess, CompleteAttemptFailure,
                ReclaimExpiredAttempt, Live, LiveAttempt
  <2> QED
    BY <2>1 DEF LiveAttempt
<1>3. CASE CancelWorkflow
  BY <1>3 DEF CancelWorkflow, CancelWorkflowRuntime, Live, LiveAttempt
<1>4. ASSUME attempt' = attempt PROVE attempt'[b].state = "FAILED"
  BY <1>4
<1> QED
  BY <1>1, <1>2, <1>3, <1>4, <1>5
     DEF Next, Operations, Reclaim, StartWorkflow, RegisterWorker, HeartbeatLease, PauseWorkflow,
         ResumeWorkflow, Tick, vars

\* An attempt whose retry was scheduled has failed for good.
LEMMA HistoryStep ==
  ASSUME CoreOK, ListsInv, HistoryInv, [RetryNext]_rvars
  PROVE  HistoryInv'
<1> USE DEF HistoryInv
<1>1. CASE EngineStep
  BY <1>1, FailedStands DEF EngineStep
<1>2. ASSUME NEW a \in Attempt, NEW fence \in Fence \cup {Unfenced}, NEW permits \in Verdicts,
             NEW late \in Late, NEW delay \in ComputeDelay,
             TryScheduleRetry(a, fence, permits, delay, late)
      PROVE  HistoryInv'
  <2>1. /\ attempt' = [attempt EXCEPT ![a] = [attempt[a] EXCEPT !.state = "FAILED"]]
        /\ history' = history \cup {a}
    BY <1>2 DEF TryScheduleRetry
  <2>2. attempt'[a].state = "FAILED"
    BY <2>1 DEF CoreOK, AttemptRow
  <2> QED
    BY <2>1, <2>2 DEF CoreOK
<1>3. ASSUME NEW r \in Releaser, NEW n \in Node, ReleaseDueRetry(r, n) PROVE HistoryInv'
  BY <1>3 DEF ReleaseDueRetry
<1>4. CASE RetryTick
  BY <1>4 DEF RetryTick
<1> QED
  BY <1>1, <1>2, <1>3, <1>4, RetryStepKinds

----------------------------------------------------------------------------
\* The invariant holds when there is no run.
LEMMA RetryStart == RetryInit => RetryInv
<1> SUFFICES ASSUME RetryInit PROVE RetryInv
  OBVIOUS
<1>1. CoreOK /\ Unborn
  BY RowTypes DEF RetryInit, Init, CoreOK, Unborn
<1>2. BudgetInv
  BY DEF RetryInit, BudgetInv, BudgetsHold, BudgetRow, NoBudget
<1>3. ListsInv /\ HistoryInv
  BY DEF RetryInit, ListsInv, HistoryInv, NoSchedule, Idle
<1> QED
  BY <1>1, <1>2, <1>3 DEF RetryInv

\* Every step of the retries and of the engine below them keeps the invariant.
LEMMA RetryStep == RetryInv /\ [RetryNext]_rvars => RetryInv'
BY RetryTypeStep, BudgetStep, ListsStep, HistoryStep DEF RetryInv

\* No retry budget (ReserveRetryBudget) is ever overdrawn, whatever the order
\* of failures, clock readings and windows.
THEOREM BudgetsAreKept == RetrySpec => []BudgetsHold
<1>1. RetryInv => BudgetsHold
  BY DEF RetryInv, BudgetInv
<1> QED
  BY RetryStart, RetryStep, <1>1, PTL DEF RetrySpec

\* A token is consumed only by a retry scheduled in the same step: a report
\* whose retry is refused, or repeated, charges no budget (scheduleRetry).
THEOREM RetriesArePaid == RetrySpec => RetriesPaid
<1>1. RetryInv /\ [RetryNext]_rvars => [KeepsBudgets]_rvars
  <2> SUFFICES ASSUME RetryInv, [RetryNext]_rvars, history' = history, NEW s \in Scope
               PROVE  budget'[s].used = budget[s].used
    BY DEF KeepsBudgets
  <2>1. CASE EngineStep
    BY <2>1 DEF EngineStep
  <2>2. ASSUME NEW a \in Attempt, NEW fence \in Fence \cup {Unfenced}, NEW permits \in Verdicts,
               NEW late \in Late, NEW delay \in ComputeDelay,
               TryScheduleRetry(a, fence, permits, delay, late)
        PROVE  FALSE
    <3>1. attempt[a].state = "RUNNING" /\ a \in history'
      BY <2>2 DEF TryScheduleRetry, Reportable
    <3> QED
      BY <3>1 DEF RetryInv, HistoryInv
  <2>3. CASE \E r \in Releaser, n \in Node : ReleaseDueRetry(r, n)
    BY <2>3 DEF ReleaseDueRetry
  <2>4. CASE RetryTick
    <3>1. budget'[s] = IF budget[s].used = 0 THEN NoBudget
                       ELSE [budget[s] EXCEPT !.left = Falls(budget[s].left)]
      BY <2>4 DEF RetryTick
    <3>2. budget[s] \in BudgetRow
      BY DEF RetryInv, BudgetInv
    <3> QED
      BY <3>1, <3>2 DEF NoBudget, BudgetRow
  <2> QED
    BY <2>1, <2>2, <2>3, <2>4, RetryStepKinds DEF RetryInv
<1> QED
  BY RetryStart, RetryStep, <1>1, PTL DEF RetrySpec, RetriesPaid

\* No step of the engine itself takes a node out of RETRY_WAIT into READY.
LEMMA EngineReleasesNone ==
  ASSUME CoreOK, Unborn, [Next]_vars, NEW n \in Node, node[n] = "RETRY_WAIT"
  PROVE  node'[n] # "READY"
<1> USE DEF CoreOK
<1>0. wf # "ABSENT" /\ \A a \in Attempt : NodeOf(a) \in Node
  BY DEF Unborn, Attempt, NodeOf
<1>1. ASSUME NEW m \in Node, NEW to \in {"QUEUED", "RUNNING", "FAILED"},
             node' = [node EXCEPT ![m] = to]
      PROVE  node'[n] # "READY"
  BY <1>1
<1>2. ASSUME NEW m \in Node,
             StartAttempt(m) \/ \E w \in Worker, ttl \in 1..MaxTTL, late \in Late :
                                  ClaimNode(m, w, ttl, late)
      PROVE  node'[n] # "READY"
  BY <1>1, <1>2 DEF StartAttempt, ClaimNode, CompareAndSwapNodeRun
<1>3. ASSUME NEW a \in Attempt, NEW fence \in Fence \cup {Unfenced}, NEW late \in Late,
             \/ StartClaimedAttempt(a, fence, late)
             \/ CompleteAttemptFailure(a, fence, late)
      PROVE  node'[n] # "READY"
  BY <1>0, <1>1, <1>3 DEF StartClaimedAttempt, CompleteAttemptFailure, CompareAndSwapNodeRun
<1>4. ASSUME NEW a \in Attempt, NEW fence \in Fence \cup {Unfenced}, NEW late \in Late,
             CompleteAttemptSuccess(a, fence, late)
      PROVE  node'[n] # "READY"
  BY <1>4 DEF CompleteAttemptSuccess
<1>5. CASE CancelWorkflow
  BY <1>5 DEF CancelWorkflow, CancelWorkflowRuntime
<1>6. ASSUME node' = node PROVE node'[n] # "READY"
  BY <1>6
<1>7. ASSUME NEW d \in Definitions, StartWorkflow(d) PROVE FALSE
  BY <1>0, <1>7 DEF StartWorkflow
<1> QED
  BY <1>2, <1>3, <1>4, <1>5, <1>6, <1>7
     DEF Next, Operations, Reclaim, RegisterWorker, HeartbeatLease, PauseWorkflow,
         ResumeWorkflow, ReclaimExpiredAttempt, Tick, vars

\* A retry is released only at or after its deadline and only into a RUNNING
\* run, however long ago the release loop listed it (ReleaseDueRetries).
THEOREM NoEarlyRelease == RetrySpec => NeverEarly
<1>1. RetryInv /\ [RetryNext]_rvars => [KeepsDeadlines]_rvars
  <2> SUFFICES ASSUME RetryInv, [RetryNext]_rvars, NEW n \in Node,
                      node[n] = "RETRY_WAIT", node'[n] = "READY"
               PROVE  schedule[n].wait <= 0 /\ wf = "RUNNING"
    BY DEF KeepsDeadlines
  <2> USE DEF RetryInv
  <2>1. CASE EngineStep
    BY <2>1, EngineReleasesNone DEF EngineStep
  <2>2. ASSUME NEW a \in Attempt, NEW fence \in Fence \cup {Unfenced}, NEW permits \in Verdicts,
               NEW late \in Late, NEW delay \in ComputeDelay,
               TryScheduleRetry(a, fence, permits, delay, late)
        PROVE  FALSE
    BY <2>2, ReportTypes DEF TryScheduleRetry, CompareAndSwapNodeRun, CoreOK
  <2>3. ASSUME NEW r \in Releaser, NEW m \in Node, ReleaseDueRetry(r, m)
        PROVE  schedule[n].wait <= 0 /\ wf = "RUNNING"
    <3>1. m = n
      BY <2>3 DEF ReleaseDueRetry, CompareAndSwapNodeRun, CoreOK
    <3> QED
      BY <2>3, <3>1 DEF ReleaseDueRetry, ListsInv
  <2>4. CASE RetryTick
    BY <2>4 DEF RetryTick
  <2> QED
    BY <2>1, <2>2, <2>3, <2>4, RetryStepKinds
<1> QED
  BY RetryStart, RetryStep, <1>1, PTL DEF RetrySpec, NeverEarly

----------------------------------------------------------------------------

(***************************************************************************)
(* Effects.  The invariant: an effect that was made is bound to the        *)
(* attempts that prepared it, its last one among them and the newest of    *)
(* them; an effect that was sent was sent by one of them; whoever was told *)
(* to go ahead prepared it, and, when it must not be repeated, not after   *)
(* it was sent.                                                            *)
(***************************************************************************)
EffectRow == [state : EffectState \cup {"ABSENT"}, last : 0..MaxAttempts, absent : BOOLEAN]

Made(e) == effect[e].state # "ABSENT"
Sent(e) == effect[e].state \notin {"ABSENT", "PREPARED"}

RowsInv ==
  /\ effect \in [Effect -> EffectRow]
  /\ sender \in [Effect -> Caller \cup {Nobody}]
  /\ cleared \subseteq Effect \X Caller \X Stage
  /\ bound \subseteq Effect \X Attempt

BoundInv ==
  \A e \in Effect :
    /\ Made(e) => <<e, LastAttempt(e)>> \in bound
    /\ ~Made(e) => effect[e] = NoEffect
    /\ \A a \in Attempt : <<e, a>> \in bound =>
         /\ Made(e)
         /\ NodeOf(a) = Site[e]
         /\ attempt[a].state # "ABSENT"
         /\ a[2] <= effect[e].last

ListedInv ==
  /\ prepared \in Seq(Effect)
  /\ \A i, j \in DOMAIN prepared : prepared[i] = prepared[j] => i = j
  /\ \A e \in Effect : Made(e) <=> \E i \in DOMAIN prepared : prepared[i] = e

ClearedInv ==
  \A e \in Effect :
    /\ Sent(e) => sender[e] \in Caller /\ <<e, sender[e][1]>> \in bound
    /\ \A c \in Caller :
         /\ <<e, c, "PREPARED">> \in cleared =>
              /\ <<e, c[1]>> \in bound
              /\ Sent(e) /\ ~BlindRetrySafe(e) => c[1][2] <= sender[e][1][2]
         /\ <<e, c, "DISPATCHED">> \in cleared =>
              Sent(e) /\ (~BlindRetrySafe(e) => c[1] = sender[e][1])

EngineInv == CoreOK /\ Unborn /\ ListsInv /\ LiveFits /\ InTurn

EffectInv == EngineInv /\ RowsInv /\ BoundInv /\ ListedInv /\ ClearedInv

\* The code lists the effects of an attempt with a limit: where no node has more
\* effects than that, a reclaim sees all of them.
FewEffects ==
  \A n \in Node : /\ IsFiniteSet({e \in Effect : Site[e] = n})
                  /\ Cardinality({e \in Effect : Site[e] = n}) <= ListLimit

----------------------------------------------------------------------------
\* The parts of the inputs of an effect's operations.
LEMMA EffectTypes ==
  /\ \A e \in Effect : Site[e] \in Node
  /\ \A a \in Attempt : NodeOf(a) \in Node /\ a[2] \in 1..MaxAttempts /\ a = <<NodeOf(a), a[2]>>
  /\ \A n \in Node, k \in 1..MaxAttempts : <<n, k>> \in Attempt /\ NodeOf(<<n, k>>) = n
BY EffectAssumption DEF Attempt, NodeOf

\* An attempt and its node become IN_DOUBT, and no other row changes.
LEMMA DoubtTypes ==
  ASSUME CoreOK, Unborn, NEW a \in Attempt, EnterDoubt(a),
         lease' \in [Attempt -> [Epoch -> LeaseRow]]
  PROVE  CoreOK' /\ Unborn'
<1> USE DEF CoreOK
<1>1. /\ attempt' = [attempt EXCEPT ![a] = [attempt[a] EXCEPT !.state = "IN_DOUBT"]]
      /\ CompareAndSwapNodeRun(NodeOf(a), "IN_DOUBT")
      /\ wf' = FinalizePauseIfDrained(wf, attempt')
      /\ UNCHANGED <<deps, remaining, progress, worker, outcome>>
  BY DEF EnterDoubt
<1>2. attempt' \in [Attempt -> AttemptRow]
  <2>1. "IN_DOUBT" \in AttemptState
    BY DEF AttemptState
  <2> QED
    BY <1>1, <2>1, AttemptRowTypes
<1>3. node' \in [Node -> NodeState \cup {"ABSENT"}] /\ ready' \in SUBSET Node
  BY <1>1, EffectTypes DEF CompareAndSwapNodeRun, NodeState
<1>4. wf' \in WorkflowState \cup {"ABSENT"} /\ (wf' = "ABSENT" => wf = "ABSENT")
  BY <1>1 DEF FinalizePauseIfDrained, WorkflowState
<1>5. wf # "ABSENT"
  <2>1. node[NodeOf(a)] # "ABSENT"
    BY <1>1 DEF CompareAndSwapNodeRun, TransitionNode, NodeTransitions
  <2> QED
    BY <2>1, EffectTypes DEF Unborn
<1> QED
  BY <1>1, <1>2, <1>3, <1>4, <1>5 DEF Unborn

\* The engine's tables keep their types and an absent run has no nodes, under the
\* operations that effects add.
LEMMA EffectTypeStep ==
  ASSUME CoreOK, Unborn, ListsInv, RowsInv, [EffectNext]_evars
  PROVE  CoreOK' /\ Unborn' /\ ListsInv'
<1> DEFINE Goal == CoreOK' /\ Unborn' /\ ListsInv'
<1>0. ASSUME UNCHANGED rvars PROVE Goal
  BY <1>0 DEF rvars, vars, retryVars, CoreOK, Unborn, ListsInv
<1>1. ASSUME [RetryNext]_rvars PROVE Goal
  BY <1>1, RetryTypeStep, ListsStep
<1>2. ASSUME NEW a \in Attempt, NEW w \in Worker, NEW late \in Late, ReclaimInDoubt(a, w, late)
      PROVE  Goal
  <2>1. PICK i \in Epoch : lease' = [lease EXCEPT ![a][i] = CloseLease(lease[a][i], "EXPIRED")]
    BY <1>2 DEF ReclaimInDoubt
  <2>2. lease' \in [Attempt -> [Epoch -> LeaseRow]]
    BY <2>1, RowTypes DEF CoreOK
  <2>3. EnterDoubt(a) /\ UNCHANGED retryVars
    BY <1>2 DEF ReclaimInDoubt, EnterDoubt
  <2> QED
    BY <2>2, <2>3, DoubtTypes DEF ListsInv, retryVars
<1>3. ASSUME NEW e \in Effect, NEW a \in Attempt, NEW fence \in Fence \cup {Unfenced},
             NEW late \in Late, MarkEffectInDoubt(e, a, fence, late)
      PROVE  Goal
  <2>1. ReleaseLease(a, fence) /\ EnterDoubt(a) /\ UNCHANGED retryVars
    BY <1>3 DEF MarkEffectInDoubt, EnterDoubt
  <2>2. lease' \in [Attempt -> [Epoch -> LeaseRow]]
    <3>1. CASE fence = Unfenced
      BY <2>1, <3>1 DEF ReleaseLease, CoreOK
    <3>2. CASE fence \in Fence
      <4>1. fence.epoch \in Epoch
        BY <3>2 DEF Fence
      <4> QED
        BY <2>1, <4>1, RowTypes DEF ReleaseLease, CoreOK
    <3> QED
      BY <3>1, <3>2
  <2> QED
    BY <2>1, <2>2, DoubtTypes DEF ListsInv, retryVars
<1>4. ASSUME NEW e \in Effect, ReconcileEffect(e) PROVE Goal
  <2>1. UNCHANGED <<deps, attempt, lease, worker, outcome, retryVars>>
    BY <1>4 DEF ReconcileEffect
  <2>2. \/ ProviderConfirms(e)
        \/ UNCHANGED <<wf, node, remaining, ready, progress>>
    BY <1>4 DEF ReconcileEffect, ProviderDenies
  <2>3. ASSUME node[Site[e]] = "IN_DOUBT", ResolveReconciledNodeSuccess(Site[e])
        PROVE  CoreOK' /\ Unborn'
    <3> USE DEF CoreOK
    <3>1. progress' \in [total : Nat, terminal : Nat, failed : Nat]
      BY <2>3 DEF ResolveReconciledNodeSuccess, IncrementWorkflowProgress
    <3>2. remaining' \in [Node -> Int]
      BY <2>3 DEF ResolveReconciledNodeSuccess
    <3>3. node' \in [Node -> NodeState \cup {"ABSENT"}]
      BY <2>3 DEF ResolveReconciledNodeSuccess, NodeState
    <3>4. ready' \in SUBSET Node
      BY <2>3 DEF ResolveReconciledNodeSuccess, Dependents
    <3>5. wf' \in {wf, "SUCCEEDED"}
      BY <2>3 DEF ResolveReconciledNodeSuccess
    <3>6. wf # "ABSENT"
      BY <2>3, EffectTypes DEF Unborn
    <3> QED
      BY <2>1, <3>1, <3>2, <3>3, <3>4, <3>5, <3>6 DEF Unborn, WorkflowState
  <2>4. CoreOK' /\ Unborn'
    BY <2>1, <2>2, <2>3 DEF ProviderConfirms, CoreOK, Unborn
  <2> QED
    BY <2>1, <2>4 DEF ListsInv, retryVars
<1>5. ASSUME NEW e \in Effect, NEW delay \in 0..MaxDelay, NEW late \in Late,
             ResolveReconciledRetry(e, delay, late)
      PROVE  Goal
  <2>1. UNCHANGED <<wf, deps, remaining, progress, attempt, lease, worker, outcome, refused, batch>>
    BY <1>5 DEF ResolveReconciledRetry
  <2>2. /\ node' \in [Node -> NodeState \cup {"ABSENT"}]
        /\ ready' \in SUBSET Node
        /\ wf # "ABSENT"
    BY <1>5, EffectTypes
       DEF ResolveReconciledRetry, CompareAndSwapNodeRun, CoreOK, NodeState, Undecided
  <2>3. schedule' \in [Node -> [attempt : Nat, wait : Int]]
    <3>1. CASE delay = 0
      BY <1>5, <3>1 DEF ResolveReconciledRetry, ListsInv
    <3>2. CASE delay # 0
      <4>1. [attempt |-> effect[e].last, wait |-> delay - late] \in [attempt : Nat, wait : Int]
        BY BoundsAssumption, PolicyAssumption DEF RowsInv, EffectRow, Late
      <4> QED
        BY <1>5, <3>2, <4>1 DEF ResolveReconciledRetry, ListsInv
    <3> QED
      BY <3>1, <3>2
  <2> QED
    BY <2>1, <2>2, <2>3 DEF CoreOK, Unborn, ListsInv
<1>6. ASSUME NEW e \in Effect, ResolveReconciledFailure(e) PROVE Goal
  <2>1. /\ UNCHANGED <<deps, remaining, attempt, lease, worker, outcome, retryVars>>
        /\ CompareAndSwapNodeRun(Site[e], "FAILED")
        /\ IncrementWorkflowProgress(TRUE)
        /\ wf' \in {wf, "FAILED"}
        /\ node[Site[e]] = "IN_DOUBT"
    BY <1>6 DEF ResolveReconciledFailure
  <2>2. progress' \in [total : Nat, terminal : Nat, failed : Nat]
    BY <2>1 DEF IncrementWorkflowProgress, CoreOK
  <2>3. node' \in [Node -> NodeState \cup {"ABSENT"}] /\ ready' \in SUBSET Node
    BY <2>1 DEF CompareAndSwapNodeRun, CoreOK, NodeState
  <2>4. wf # "ABSENT"
    BY <2>1, EffectTypes DEF Unborn
  <2> QED
    BY <2>1, <2>2, <2>3, <2>4 DEF CoreOK, Unborn, ListsInv, retryVars, WorkflowState
<1>7. CASE (RetryOperations \/ RetryTick) /\ UNCHANGED effectVars
  BY <1>1, <1>7 DEF RetryNext
<1>8. CASE ReclaimCertain
  BY <1>1, <1>8 DEF ReclaimCertain, RetryNext, Reclaim
<1>9. ASSUME NEW e \in Effect, NEW a \in Attempt, NEW fence \in Fence \cup {Unfenced}, NEW late \in Late,
             \/ PrepareEffect(e, a, fence, late)
             \/ MarkEffectDispatched(e, a, fence, late)
             \/ ConfirmEffect(e, a, fence, late)
             \/ FailEffect(e, a, fence, late)
      PROVE  Goal
  BY <1>0, <1>9 DEF PrepareEffect, MarkEffectDispatched, ConfirmEffect, FailEffect, ReportEffect
<1>10. ASSUME NEW e \in Effect, AskProvider(e) PROVE Goal
  BY <1>0, <1>10 DEF AskProvider
<1>11. CASE UNCHANGED evars
  BY <1>0, <1>11 DEF evars
<1> QED
  BY <1>2, <1>3, <1>4, <1>5, <1>6, <1>7, <1>8, <1>9, <1>10, <1>11 DEF EffectNext

----------------------------------------------------------------------------
(***************************************************************************)
(* What a step does to the effects: one is prepared, one is marked, or the  *)
(* rows that were sent move on while nothing else about effects changes.   *)
(* Only then do attempts and nodes move, and an attempt whose effects are  *)
(* uncertain is given no new owner.                                        *)
(***************************************************************************)
Preparing ==
  \E e \in Effect, a \in Attempt, fence \in Fence \cup {Unfenced}, late \in Late :
    PrepareEffect(e, a, fence, late)

Marking ==
  \E e \in Effect, a \in Attempt, fence \in Fence \cup {Unfenced}, late \in Late :
    MarkEffectDispatched(e, a, fence, late)

Settling ==
  /\ UNCHANGED <<prepared, bound, cleared, sender>>
  /\ effect' \in [Effect -> EffectRow]
  /\ \A e \in Effect :
       /\ effect'[e].last = effect[e].last
       /\ \/ effect'[e] = effect[e]
          \/ /\ effect[e].state \in {"DISPATCHED", "IN_DOUBT"}
             /\ effect'[e].state \in {"IN_DOUBT", "CONFIRMED", "FAILED"}
       /\ effect[e].state = "IN_DOUBT" /\ effect'[e].state = "CONFIRMED"
            => node'[Site[e]] # "IN_DOUBT"

Doubting(a) ==
  /\ Closing(a)
  /\ attempt'[a].state = "IN_DOUBT"
  /\ \E e \in Effect : <<e, a>> \in bound /\ effect'[e].state = "IN_DOUBT"

EffectMove ==
  \/ Preparing
  \/ Marking
  \/ /\ Settling
     /\ \/ LifeMove
        \/ \E a \in Attempt : Doubting(a) \/ (Uncertain(a) = {} /\ Reowning(a))

\* Effects that are left alone settle.
LEMMA StillSettles ==
  ASSUME RowsInv, UNCHANGED <<effect, prepared, bound, cleared, sender>>
  PROVE  Settling
BY DEF Settling, RowsInv

\* An effect keeps its type when its state changes.
LEMMA EffectRowTypes ==
  \A row \in EffectRow, s \in EffectState :
    /\ [row EXCEPT !.state = s] \in EffectRow
    /\ [row EXCEPT !.state = s].state = s
    /\ [row EXCEPT !.state = s].last = row.last
BY DEF EffectRow

\* The engine's steps and those of its retries, seen as moves.
LEMMA RetryMoves ==
  ASSUME CoreOK, Unborn, ListsInv, RowsInv,
         RetryOperations \/ RetryTick, UNCHANGED effectVars
  PROVE  Settling /\ LifeMove
<1>0. Settling
  BY StillSettles DEF effectVars
<1>1. ASSUME attempt' = attempt, node' = node PROVE LifeMove
  BY <1>1 DEF LifeMove, Staying, NodesStay
<1>2. ASSUME Operations PROVE LifeMove
  BY <1>2, LifeMoves
<1>3. ASSUME NEW a \in Attempt, NEW fence \in Fence \cup {Unfenced}, NEW permits \in Verdicts,
             NEW late \in Late, NEW delay \in ComputeDelay,
             TryScheduleRetry(a, fence, permits, delay, late)
      PROVE  LifeMove
  <2>1. /\ attempt[a].state = "RUNNING"
        /\ attempt' = [attempt EXCEPT ![a] = [attempt[a] EXCEPT !.state = "FAILED"]]
        /\ node' = [node EXCEPT ![NodeOf(a)] = "RETRY_WAIT"]
    BY <1>3 DEF TryScheduleRetry, Reportable, CompareAndSwapNodeRun
  <2>2. Closing(a) /\ node'[NodeOf(a)] # "IN_DOUBT"
    <3>1. Live(a) /\ attempt'[a].state = "FAILED" /\ OthersStay(a)
      BY <2>1 DEF CoreOK, OthersStay, Live, LiveAttempt, AttemptRow
    <3> QED
      BY <2>1, <3>1, EffectTypes DEF Closing, NodesStay, Busy, LiveAttempt, CoreOK
  <2> QED
    BY <2>2 DEF LifeMove
<1>4. ASSUME NEW report \in refused, NEW late \in Late, FailRefused(report, late) PROVE LifeMove
  <2>1. report[1] \in Attempt /\ report[2] \in Fence \cup {Unfenced}
    BY DEF ListsInv, Report
  <2>2. CompleteAttemptFailure(report[1], report[2], late) \/ UNCHANGED vars
    BY <1>4 DEF FailRefused
  <2> QED
    BY <2>1, <2>2, LifeMoves DEF Operations
<1>5. ASSUME NEW r \in Releaser, NEW n \in Node, ReleaseDueRetry(r, n) PROVE LifeMove
  <2>1. node[n] = "RETRY_WAIT" /\ node' = [node EXCEPT ![n] = "READY"] /\ attempt' = attempt
    BY <1>5 DEF ReleaseDueRetry, CompareAndSwapNodeRun
  <2> QED
    BY <2>1 DEF LifeMove, Staying, NodesStay, Busy, CoreOK
<1>6. ASSUME CancelWithRetries PROVE LifeMove
  <2>1. CancelWorkflow
    BY <1>6 DEF CancelWithRetries
  <2> QED
    BY <2>1, LifeMoves
<1>7. ASSUME RetryTick PROVE LifeMove
  <2>1. attempt' = attempt /\ node' = node
    BY <1>7 DEF RetryTick
  <2> QED
    BY <2>1, <1>1
<1>8. ASSUME UNCHANGED vars PROVE LifeMove
  BY <1>1, <1>8 DEF vars
<1>9. LifeMove
  BY <1>2, <1>3, <1>4, <1>5, <1>6, <1>7, <1>8
     DEF RetryOperations, RefuseRetry, DropRefused, ListDueRetries, SkipListedRetry, StopRelease
<1> QED
  BY <1>0, <1>9

\* Entering doubt closes the attempt.
LEMMA DoubtMoves ==
  ASSUME CoreOK, NEW a \in Attempt, attempt[a].state = "RUNNING", EnterDoubt(a)
  PROVE  Closing(a) /\ attempt'[a].state = "IN_DOUBT"
<1>1. /\ attempt' = [attempt EXCEPT ![a] = [attempt[a] EXCEPT !.state = "IN_DOUBT"]]
      /\ node' = [node EXCEPT ![NodeOf(a)] = "IN_DOUBT"]
  BY DEF EnterDoubt, CompareAndSwapNodeRun
<1>2. Live(a) /\ attempt'[a].state = "IN_DOUBT" /\ OthersStay(a)
  BY <1>1 DEF CoreOK, OthersStay, Live, LiveAttempt, AttemptRow
<1> QED
  BY <1>1, <1>2, EffectTypes DEF Closing, NodesStay, LiveAttempt, CoreOK

\* Every step of the effects is such a move.
LEMMA EffectMoves ==
  ASSUME CoreOK, Unborn, ListsInv, RowsInv, BoundInv, [EffectNext]_evars
  PROVE  EffectMove
<1> USE DEF RowsInv
<1>0. ASSUME NEW e \in Effect, NEW s \in EffectState, effect[e].state \in {"DISPATCHED", "IN_DOUBT"},
             s \in {"IN_DOUBT", "CONFIRMED", "FAILED"},
             effect' = [effect EXCEPT ![e] = [effect[e] EXCEPT !.state = s]],
             effect[e].state = "IN_DOUBT" /\ s = "CONFIRMED" => node'[Site[e]] # "IN_DOUBT",
             UNCHANGED <<prepared, bound, cleared, sender>>
      PROVE  Settling /\ effect'[e].state = s
  <2> DEFINE row == [effect[e] EXCEPT !.state = s]
  <2>1. row \in EffectRow /\ row.state = s /\ row.last = effect[e].last
    BY EffectRowTypes
  <2>2. effect' = [effect EXCEPT ![e] = row]
    BY <1>0
  <2> HIDE DEF row
  <2> QED
    BY <1>0, <2>1, <2>2 DEF Settling
<1>1. CASE (RetryOperations \/ RetryTick) /\ UNCHANGED effectVars
  BY <1>1, RetryMoves DEF EffectMove
<1>2. CASE ReclaimCertain
  BY <1>2, ReclaimMoves, StillSettles DEF ReclaimCertain, EffectMove, effectVars
<1>3. ASSUME NEW a \in Attempt, NEW w \in Worker, NEW late \in Late, ReclaimInDoubt(a, w, late)
      PROVE  EffectMove
  <2>1. /\ TransitionAttempt(attempt[a].state, "IN_DOUBT")
        /\ EnterDoubt(a)
        /\ Uncertain(a) # {}
        /\ effect' = [e \in Effect |-> IF e \in Uncertain(a)
                                         THEN [effect[e] EXCEPT !.state = "IN_DOUBT"] ELSE effect[e]]
        /\ UNCHANGED <<prepared, bound, cleared, sender>>
    BY <1>3 DEF ReclaimInDoubt, EnterDoubt
  <2>2. attempt[a].state = "RUNNING"
    BY <2>1 DEF TransitionAttempt, AttemptTransitions
  <2>3. \A e \in Effect : effect'[e] = IF e \in Uncertain(a)
                                         THEN [effect[e] EXCEPT !.state = "IN_DOUBT"] ELSE effect[e]
    BY <2>1
  <2>4. \A e \in Uncertain(a) : effect[e].state \in {"DISPATCHED", "IN_DOUBT"}
    BY DEF Uncertain
  <2>5. Settling
    <3>1. "IN_DOUBT" \in EffectState
      BY DEF EffectState
    <3>2. ASSUME NEW e \in Effect
          PROVE  /\ effect'[e] \in EffectRow
                 /\ effect'[e].last = effect[e].last
                 /\ effect'[e] = effect[e] \/ (e \in Uncertain(a) /\ effect'[e].state = "IN_DOUBT")
      <4> DEFINE row == [effect[e] EXCEPT !.state = "IN_DOUBT"]
      <4>1. row \in EffectRow /\ row.state = "IN_DOUBT" /\ row.last = effect[e].last
        BY <3>1, EffectRowTypes
      <4>2. effect'[e] = IF e \in Uncertain(a) THEN row ELSE effect[e]
        BY <2>3
      <4> HIDE DEF row
      <4> QED
        BY <4>1, <4>2
    <3>3. effect' \in [Effect -> EffectRow]
      BY <2>1, <3>2
    <3> QED
      BY <2>1, <2>4, <3>2, <3>3 DEF Settling
  <2>6. \E e \in Effect : <<e, a>> \in bound /\ effect'[e].state = "IN_DOUBT"
    <3>1. PICK e : e \in Uncertain(a)
      BY <2>1
    <3>2. <<e, a>> \in bound /\ e \in Effect
      BY <3>1 DEF Uncertain, EffectsOf
    <3>3. effect'[e] = [effect[e] EXCEPT !.state = "IN_DOUBT"]
      BY <2>3, <3>1, <3>2
    <3>4. effect'[e].state = "IN_DOUBT"
      BY <3>2, <3>3, EffectRowTypes DEF EffectState
    <3> QED
      BY <3>2, <3>4
  <2> QED
    BY <2>1, <2>2, <2>5, <2>6, DoubtMoves DEF EffectMove, Doubting
<1>4. ASSUME NEW e \in Effect, NEW a \in Attempt, NEW fence \in Fence \cup {Unfenced},
             NEW late \in Late, MarkEffectInDoubt(e, a, fence, late)
      PROVE  EffectMove
  <2>1. /\ effect[e].state = "DISPATCHED"
        /\ LastAttempt(e) = a
        /\ attempt[a].state = "RUNNING"
        /\ EnterDoubt(a)
        /\ effect' = [effect EXCEPT ![e] = [effect[e] EXCEPT !.state = "IN_DOUBT"]]
        /\ UNCHANGED <<prepared, bound, cleared, sender>>
    BY <1>4 DEF MarkEffectInDoubt, EnterDoubt
  <2>2. Settling /\ effect'[e].state = "IN_DOUBT"
    BY <1>0, <2>1 DEF EffectState
  <2>3. <<e, a>> \in bound
    BY <2>1 DEF BoundInv, Made
  <2> QED
    BY <2>1, <2>2, <2>3, DoubtMoves DEF EffectMove, Doubting
<1>5. ASSUME NEW e \in Effect, NEW a \in Attempt, NEW fence \in Fence \cup {Unfenced},
             NEW late \in Late,
             ConfirmEffect(e, a, fence, late) \/ FailEffect(e, a, fence, late)
      PROVE  EffectMove
  <2>1. PICK s \in {"CONFIRMED", "FAILED"} : ReportEffect(e, a, fence, late, s)
    BY <1>5 DEF ConfirmEffect, FailEffect
  <2>2. /\ effect[e].state = "DISPATCHED"
        /\ effect' = [effect EXCEPT ![e] = [effect[e] EXCEPT !.state = s]]
        /\ UNCHANGED <<rvars, prepared, bound, cleared, sender>>
    BY <2>1 DEF ReportEffect
  <2>3. Settling
    BY <1>0, <2>2 DEF EffectState
  <2>4. UNCHANGED vars
    BY <2>2 DEF rvars
  <2> QED
    BY <2>3, <2>4, LifeMoves DEF EffectMove
<1>6. ASSUME NEW e \in Effect, ReconcileEffect(e) PROVE EffectMove
  <2>1. attempt' = attempt /\ UNCHANGED <<prepared, bound, cleared, sender>>
    BY <1>6 DEF ReconcileEffect
  <2>2. CASE UNCHANGED <<effect, wf, node, remaining, ready, progress>>
    BY <2>1, <2>2, StillSettles DEF EffectMove, LifeMove, Staying, NodesStay
  <2>3. ASSUME effect[e].state = "IN_DOUBT", ProviderConfirms(e) PROVE EffectMove
    <3>1. /\ effect' = [effect EXCEPT ![e] = [effect[e] EXCEPT !.state = "CONFIRMED"]]
          /\ \/ node[Site[e]] = "IN_DOUBT" /\ ResolveReconciledNodeSuccess(Site[e])
             \/ node[Site[e]] # "IN_DOUBT" /\ node' = node
      BY <2>3 DEF ProviderConfirms
    <3>2. /\ node'[Site[e]] # "IN_DOUBT"
          /\ \A n \in Node : \/ node'[n] = node[n]
                             \/ node[n] \in {"IN_DOUBT", "PENDING_DEPENDENCIES"}
                                  /\ node'[n] \in {"SUCCEEDED", "READY"}
      BY <3>1, EffectTypes DEF ResolveReconciledNodeSuccess
    <3>3. Staying
      BY <2>1, <3>2 DEF Staying, NodesStay, Busy
    <3>4. Settling
      BY <1>0, <2>1, <2>3, <3>1, <3>2 DEF EffectState
    <3> QED
      BY <3>3, <3>4 DEF EffectMove, LifeMove
  <2>4. ASSUME effect[e].state = "IN_DOUBT", NEW absent \in BOOLEAN, ProviderDenies(e, absent)
        PROVE  EffectMove
    <3>1. /\ effect' = [effect EXCEPT ![e].state = "FAILED", ![e].absent = absent]
          /\ node' = node
      BY <2>4 DEF ProviderDenies
    <3>2. /\ effect' \in [Effect -> EffectRow]
          /\ effect'[e].state = "FAILED" /\ effect'[e].last = effect[e].last
          /\ \A f \in Effect \ {e} : effect'[f] = effect[f]
      BY <3>1 DEF EffectRow, EffectState
    <3>3. Settling
      BY <2>1, <2>4, <3>2 DEF Settling
    <3>4. Staying
      BY <2>1, <3>1 DEF Staying, NodesStay
    <3> QED
      BY <3>3, <3>4 DEF EffectMove, LifeMove
  <2> QED
    BY <1>6, <2>2, <2>3, <2>4 DEF ReconcileEffect
<1>7. ASSUME NEW e \in Effect, NEW delay \in 0..MaxDelay, NEW late \in Late,
             ResolveReconciledRetry(e, delay, late)
      PROVE  EffectMove
  <2>1. /\ node[Site[e]] = "IN_DOUBT" /\ attempt' = attempt /\ UNCHANGED effectVars
        /\ \E to \in {"READY", "RETRY_WAIT"} : node' = [node EXCEPT ![Site[e]] = to]
    BY <1>7 DEF ResolveReconciledRetry, CompareAndSwapNodeRun
  <2>2. Staying
    BY <2>1, EffectTypes DEF Staying, NodesStay, Busy, CoreOK
  <2> QED
    BY <2>1, <2>2, StillSettles DEF EffectMove, LifeMove, effectVars
<1>8. ASSUME NEW e \in Effect, ResolveReconciledFailure(e) PROVE EffectMove
  <2>1. /\ node[Site[e]] = "IN_DOUBT" /\ attempt' = attempt
        /\ node' = [node EXCEPT ![Site[e]] = "FAILED"]
        /\ effect' = [effect EXCEPT ![e] = [effect[e] EXCEPT !.state =
                         IF effect[e].state = "IN_DOUBT" THEN "FAILED" ELSE effect[e].state]]
        /\ UNCHANGED <<prepared, bound, cleared, sender>>
    BY <1>8 DEF ResolveReconciledFailure, CompareAndSwapNodeRun
  <2>2. Staying
    BY <2>1, EffectTypes DEF Staying, NodesStay, Busy, CoreOK
  <2>3. CASE effect[e].state = "IN_DOUBT"
    <3>1. Settling
      BY <1>0, <2>1, <2>3 DEF EffectState
    <3> QED
      BY <2>2, <3>1 DEF EffectMove, LifeMove
  <2>4. CASE effect[e].state # "IN_DOUBT"
    <3>1. effect' = effect
      BY <2>1, <2>4 DEF EffectRow
    <3> QED
      BY <2>1, <2>2, <3>1, StillSettles DEF EffectMove, LifeMove
  <2> QED
    BY <2>3, <2>4
<1>9. ASSUME UNCHANGED <<rvars, effect, prepared, bound, cleared, sender>> PROVE EffectMove
  <2>1. Settling
    BY <1>9, StillSettles
  <2>2. LifeMove
    BY <1>9, LifeMoves DEF rvars
  <2> QED
    BY <2>1, <2>2 DEF EffectMove
<1>10. CASE Preparing \/ Marking
  BY <1>10 DEF EffectMove
<1> QED
  BY <1>1, <1>2, <1>3, <1>4, <1>5, <1>6, <1>7, <1>8, <1>9, <1>10
     DEF EffectNext, AskProvider, evars, effectVars, Preparing, Marking

----------------------------------------------------------------------------
(* The facts about each kind of step that the invariant rests on.           *)

\* A fence that is accepted is the token of the attempt's last grant.
LEMMA FenceIsOwner ==
  ASSUME NEW a \in Attempt, NEW fence \in Fence \cup {Unfenced}, NEW late \in Late,
         AuthorizeCompletion(a, fence, late)
  PROVE  fence = [worker |-> attempt[a].worker, epoch |-> attempt[a].epoch]
<1>1. CASE fence = Unfenced
  BY <1>1 DEF AuthorizeCompletion, Unfenced
<1>2. CASE fence # Unfenced
  BY <1>2 DEF AuthorizeCompletion, AuthorizeLease, Fence
<1> QED
  BY <1>1, <1>2

\* A prepared effect is bound to a running attempt of its node.
LEMMA PrepareFacts ==
  ASSUME RowsInv, BoundInv, NEW e \in Effect, NEW a \in Attempt,
         NEW fence \in Fence \cup {Unfenced}, NEW late \in Late, PrepareEffect(e, a, fence, late)
  PROVE  /\ UNCHANGED <<rvars, sender>>
         /\ attempt[a].state = "RUNNING" /\ NodeOf(a) = Site[e]
         /\ effect' \in [Effect -> EffectRow]
         /\ effect'[e].last = a[2]
         /\ effect'[e].state = IF Made(e) THEN effect[e].state ELSE "PREPARED"
         /\ \A f \in Effect \ {e} : effect'[f] = effect[f]
         /\ bound' = bound \cup {<<e, a>>}
         /\ prepared' = IF Made(e) THEN prepared ELSE Append(prepared, e)
         /\ \/ cleared' = cleared
            \/ /\ DispatchAllowed(e, effect'[e].state)
               /\ cleared' = cleared \cup {<<e, <<a, fence>>, "PREPARED">>}
<1> DEFINE state == IF effect[e] = NoEffect THEN "PREPARED" ELSE effect[e].state
<1>1. effect[e] = NoEffect <=> ~Made(e)
  <2>1. ~Made(e) => effect[e] = NoEffect
    BY DEF BoundInv
  <2>2. NoEffect.state = "ABSENT"
    BY DEF NoEffect
  <2> QED
    BY <2>1, <2>2 DEF Made
<1>2. state = IF Made(e) THEN effect[e].state ELSE "PREPARED"
  BY <1>1
<1>3. state \in EffectState
  BY <1>2 DEF RowsInv, EffectRow, Made, EffectState
<1>4. /\ UNCHANGED <<rvars, sender>>
      /\ EffectAttemptContext(a, fence, late)
      /\ PutEffectIntent(e, a, state)
      /\ cleared' = IF DispatchAllowed(e, state)
                      THEN cleared \cup {<<e, <<a, fence>>, "PREPARED">>} ELSE cleared
  BY DEF PrepareEffect
<1> HIDE DEF state
<1>5. /\ NodeOf(a) = Site[e]
      /\ effect' = [effect EXCEPT ![e] = [state |-> state, last |-> a[2], absent |-> effect[e].absent]]
      /\ prepared' = IF effect[e] = NoEffect THEN Append(prepared, e) ELSE prepared
      /\ bound' = bound \cup {<<e, a>>}
  BY <1>4 DEF PutEffectIntent, ValidEffectAttempt
<1>6. [state |-> state, last |-> a[2], absent |-> effect[e].absent] \in EffectRow
  <2>1. effect[e].absent \in BOOLEAN
    BY DEF RowsInv, EffectRow
  <2>2. a[2] \in 0..MaxAttempts
    BY EffectTypes
  <2> QED
    BY <1>3, <2>1, <2>2 DEF EffectRow
<1>7. effect' \in [Effect -> EffectRow] /\ effect'[e].last = a[2] /\ effect'[e].state = state
      /\ \A f \in Effect \ {e} : effect'[f] = effect[f]
  BY <1>5, <1>6 DEF RowsInv
<1> QED
  BY <1>1, <1>2, <1>4, <1>5, <1>7 DEF EffectAttemptContext

\* An effect is marked for its last attempt, and first by that attempt's owner.
LEMMA MarkFacts ==
  ASSUME RowsInv, BoundInv, NEW e \in Effect, NEW a \in Attempt,
         NEW fence \in Fence \cup {Unfenced}, NEW late \in Late,
         MarkEffectDispatched(e, a, fence, late)
  PROVE  /\ UNCHANGED <<rvars, prepared, bound>>
         /\ Made(e) /\ LastAttempt(e) = a /\ <<e, a>> \in bound
         /\ effect' \in [Effect -> EffectRow]
         /\ effect'[e].state = "DISPATCHED" /\ effect'[e].last = effect[e].last
         /\ \A f \in Effect \ {e} : effect'[f] = effect[f] /\ sender'[f] = sender[f]
         /\ \/ effect[e].state = "DISPATCHED" /\ sender' = sender
            \/ /\ effect[e].state = "PREPARED"
               /\ sender' = [sender EXCEPT ![e] = <<a, fence>>]
               /\ fence = [worker |-> attempt[a].worker, epoch |-> attempt[a].epoch]
         /\ \/ cleared' = cleared
            \/ /\ <<e, <<a, fence>>, "PREPARED">> \in cleared
               /\ cleared' = cleared \cup {<<e, <<a, fence>>, "DISPATCHED">>}
<1>1. /\ UNCHANGED <<rvars, prepared, bound>>
      /\ Made(e) /\ LastAttempt(e) = a
      /\ GoAhead(e, a, fence)
      /\ \/ effect[e].state = "DISPATCHED" /\ UNCHANGED <<effect, sender>>
         \/ /\ AuthorizeCompletion(a, fence, late)
            /\ effect[e].state = "PREPARED"
            /\ effect' = [effect EXCEPT ![e] = [effect[e] EXCEPT !.state = "DISPATCHED"]]
            /\ sender' = [sender EXCEPT ![e] = <<a, fence>>]
  BY DEF MarkEffectDispatched, EffectAttemptContext, Made
<1>2. <<e, a>> \in bound
  BY <1>1 DEF BoundInv
<1>3. \/ cleared' = cleared
      \/ /\ <<e, <<a, fence>>, "PREPARED">> \in cleared
         /\ cleared' = cleared \cup {<<e, <<a, fence>>, "DISPATCHED">>}
  BY <1>1 DEF GoAhead
<1>4. CASE effect[e].state = "DISPATCHED" /\ UNCHANGED <<effect, sender>>
  BY <1>1, <1>2, <1>3, <1>4 DEF RowsInv
<1>5. CASE /\ AuthorizeCompletion(a, fence, late)
           /\ effect[e].state = "PREPARED"
           /\ effect' = [effect EXCEPT ![e] = [effect[e] EXCEPT !.state = "DISPATCHED"]]
           /\ sender' = [sender EXCEPT ![e] = <<a, fence>>]
  <2> DEFINE row == [effect[e] EXCEPT !.state = "DISPATCHED"]
  <2>1. row \in EffectRow /\ row.state = "DISPATCHED" /\ row.last = effect[e].last
    BY EffectRowTypes DEF RowsInv, EffectState
  <2>2. effect' = [effect EXCEPT ![e] = row]
    BY <1>5
  <2> HIDE DEF row
  <2>3. /\ effect' \in [Effect -> EffectRow]
        /\ effect'[e].state = "DISPATCHED" /\ effect'[e].last = effect[e].last
        /\ \A f \in Effect \ {e} : effect'[f] = effect[f]
    BY <2>1, <2>2 DEF RowsInv
  <2>4. \A f \in Effect \ {e} : sender'[f] = sender[f]
    BY <1>5 DEF RowsInv
  <2>5. fence = [worker |-> attempt[a].worker, epoch |-> attempt[a].epoch]
    BY <1>5, FenceIsOwner
  <2> QED
    BY <1>1, <1>2, <1>3, <1>5, <2>3, <2>4, <2>5
<1> QED
  BY <1>1, <1>4, <1>5

\* Settling makes no effect and sends none.
LEMMA SettleFacts ==
  ASSUME Settling, NEW e \in Effect
  PROVE  /\ Made(e)' <=> Made(e)
         /\ Sent(e)' <=> Sent(e)
         /\ LastAttempt(e)' = LastAttempt(e)
         /\ effect'[e].state = "DISPATCHED" => effect[e].state = "DISPATCHED"
         /\ effect'[e].last = effect[e].last
         /\ ~Made(e) => effect'[e] = effect[e]
BY DEF Settling, Made, Sent, LastAttempt

\* No move takes an attempt's row away, or revives one that is over.
LEMMA AttemptsLast ==
  ASSUME \/ LifeMove
         \/ \E a \in Attempt : Doubting(a) \/ (Uncertain(a) = {} /\ Reowning(a)),
         NEW b \in Attempt, attempt[b].state # "ABSENT"
  PROVE  /\ attempt'[b].state # "ABSENT"
         /\ ~Live(b) => attempt'[b] = attempt[b]
         /\ Live(b)' => \/ attempt'[b].worker = attempt[b].worker
                            /\ attempt'[b].epoch = attempt[b].epoch
                        \/ Uncertain(b) = {}
<1> DEFINE Goal == /\ attempt'[b].state # "ABSENT"
                   /\ ~Live(b) => attempt'[b] = attempt[b]
                   /\ Live(b)' => \/ attempt'[b].worker = attempt[b].worker
                                      /\ attempt'[b].epoch = attempt[b].epoch
                                  \/ Uncertain(b) = {}
<1>0. ASSUME attempt'[b] = attempt[b] PROVE Goal
  BY <1>0
<1>1. CASE Staying
  BY <1>0, <1>1 DEF Staying
<1>2. ASSUME NEW a \in Attempt, Opening(a) PROVE Goal
  <2>1. b # a
    BY <1>2, EffectTypes DEF Opening, IsNextAttempt
  <2> QED
    BY <1>0, <1>2, <2>1 DEF Opening, OthersStay
<1>3. ASSUME NEW a \in Attempt,
             Starting(a) \/ Closing(a) \/ (Uncertain(a) = {} /\ Reowning(a))
      PROVE  Goal
  <2>1. CASE b # a
    BY <1>0, <1>3, <2>1 DEF Starting, Closing, Reowning, OthersStay
  <2>2. CASE b = a
    BY <1>3, <2>2 DEF Starting, Closing, Reowning, Live, LiveAttempt
  <2> QED
    BY <2>1, <2>2
<1>4. CASE ClosingAll
  BY <1>4 DEF ClosingAll, Live, LiveAttempt
<1> QED
  BY <1>1, <1>2, <1>3, <1>4 DEF LifeMove, Doubting

----------------------------------------------------------------------------
(* Each part of the invariant under each kind of step.                      *)

\* The attempts of a node take their turns under effects and retries too.
LEMMA EffectTurns ==
  ASSUME LiveFits, InTurn, EffectMove
  PROVE  LiveFits' /\ InTurn'
<1>1. CASE Preparing \/ Marking
  <2>1. attempt' = attempt /\ node' = node
    BY <1>1 DEF Preparing, Marking, PrepareEffect, MarkEffectDispatched, rvars, vars
  <2> QED
    BY <2>1 DEF LiveFits, InTurn, Live
<1>2. CASE LifeMove \/ \E a \in Attempt : Doubting(a) \/ (Uncertain(a) = {} /\ Reowning(a))
  BY <1>2, TurnsKept DEF LifeMove, Doubting
<1> QED
  BY <1>1, <1>2 DEF EffectMove

\* The tables of the effects keep their types.
LEMMA RowsStep ==
  ASSUME RowsInv, BoundInv, EffectMove
  PROVE  RowsInv'
<1>0. \A a \in Attempt, fence \in Fence \cup {Unfenced} : <<a, fence>> \in Caller
  BY DEF Caller
<1>1. ASSUME NEW e \in Effect, NEW a \in Attempt, NEW fence \in Fence \cup {Unfenced}, NEW late \in Late,
             PrepareEffect(e, a, fence, late)
      PROVE  RowsInv'
  <2>1. <<e, <<a, fence>>, "PREPARED">> \in Effect \X Caller \X Stage
    BY <1>0 DEF Stage
  <2>2. /\ effect' \in [Effect -> EffectRow] /\ sender' = sender
        /\ bound' = bound \cup {<<e, a>>}
        /\ cleared' \subseteq cleared \cup {<<e, <<a, fence>>, "PREPARED">>}
    BY <1>1, PrepareFacts
  <2> QED
    BY <2>1, <2>2 DEF RowsInv
<1>2. ASSUME NEW e \in Effect, NEW a \in Attempt, NEW fence \in Fence \cup {Unfenced}, NEW late \in Late,
             MarkEffectDispatched(e, a, fence, late)
      PROVE  RowsInv'
  <2>1. <<e, <<a, fence>>, "DISPATCHED">> \in Effect \X Caller \X Stage
    BY <1>0 DEF Stage
  <2>2. /\ effect' \in [Effect -> EffectRow] /\ bound' = bound
        /\ sender' = sender \/ sender' = [sender EXCEPT ![e] = <<a, fence>>]
        /\ cleared' \subseteq cleared \cup {<<e, <<a, fence>>, "DISPATCHED">>}
    BY <1>2, MarkFacts
  <2>3. sender' \in [Effect -> Caller \cup {Nobody}]
    BY <1>0, <2>2 DEF RowsInv
  <2> QED
    BY <2>1, <2>2, <2>3 DEF RowsInv
<1>3. CASE Settling
  BY <1>3 DEF RowsInv, Settling
<1> QED
  BY <1>1, <1>2, <1>3 DEF EffectMove, Preparing, Marking

\* An effect's last attempt is bound to it and is the newest that is.
LEMMA BoundStep ==
  ASSUME InTurn, RowsInv, BoundInv, EffectMove
  PROVE  BoundInv'
<1>n. \A k \in 0..MaxAttempts : k \in Nat
  OBVIOUS
<1>1. ASSUME NEW e \in Effect, NEW a \in Attempt, NEW fence \in Fence \cup {Unfenced}, NEW late \in Late,
             PrepareEffect(e, a, fence, late), NEW f \in Effect
      PROVE  /\ Made(f)' => <<f, LastAttempt(f)'>> \in bound'
             /\ ~Made(f)' => effect'[f] = NoEffect
             /\ \A b \in Attempt : <<f, b>> \in bound' =>
                  /\ Made(f)' /\ NodeOf(b) = Site[f]
                  /\ attempt'[b].state # "ABSENT" /\ b[2] <= effect'[f].last
  <2>0. attempt' = attempt
    BY <1>1 DEF PrepareEffect, rvars, vars
  <2>1. CASE f # e
    <3>1. effect'[f] = effect[f] /\ \A b \in Attempt : <<f, b>> \in bound' <=> <<f, b>> \in bound
      BY <1>1, <2>1, PrepareFacts
    <3>2. LastAttempt(f)' = LastAttempt(f) /\ (Made(f)' <=> Made(f))
      BY <3>1 DEF LastAttempt, Made
    <3>3. bound \subseteq bound'
      BY <1>1, PrepareFacts
    <3> QED
      BY <2>0, <3>1, <3>2, <3>3 DEF BoundInv
  <2>2. CASE f = e
    <3>1. effect'[e].last = a[2] /\ Made(e)' /\ bound' = bound \cup {<<e, a>>}
          /\ attempt[a].state = "RUNNING" /\ NodeOf(a) = Site[e]
      BY <1>1, PrepareFacts DEF Made
    <3>2. LastAttempt(e)' = a
      BY <3>1, EffectTypes DEF LastAttempt
    <3>3. ASSUME NEW b \in Attempt, <<e, b>> \in bound' PROVE
            NodeOf(b) = Site[e] /\ attempt[b].state # "ABSENT" /\ b[2] <= a[2]
      <4>1. CASE b = a
        BY <3>1, <4>1, EffectTypes
      <4>2. CASE b # a
        <5>1. NodeOf(b) = Site[e] /\ attempt[b].state # "ABSENT"
          BY <3>1, <3>3, <4>2 DEF BoundInv
        <5>2. ~(a[2] < b[2])
          BY <3>1, <5>1, EffectTypes DEF InTurn, LiveAttempt
        <5> QED
          BY <5>1, <5>2, EffectTypes
      <4> QED
        BY <4>1, <4>2
    <3> QED
      BY <2>0, <2>2, <3>1, <3>2, <3>3
  <2> QED
    BY <2>1, <2>2
<1>2. ASSUME NEW e \in Effect, NEW a \in Attempt, NEW fence \in Fence \cup {Unfenced}, NEW late \in Late,
             MarkEffectDispatched(e, a, fence, late)
      PROVE  BoundInv'
  <2>1. attempt' = attempt /\ bound' = bound
    BY <1>2 DEF MarkEffectDispatched, rvars, vars
  <2>2. \A f \in Effect : /\ Made(f)' <=> Made(f)
                          /\ effect'[f].last = effect[f].last
                          /\ ~Made(f) => effect'[f] = effect[f]
    BY <1>2, MarkFacts DEF Made
  <2> QED
    BY <2>1, <2>2 DEF BoundInv, LastAttempt
<1>3. CASE /\ Settling
           /\ \/ LifeMove
              \/ \E a \in Attempt : Doubting(a) \/ (Uncertain(a) = {} /\ Reowning(a))
  <2>1. bound' = bound
    BY <1>3 DEF Settling
  <2>2. \A b \in Attempt : attempt[b].state # "ABSENT" => attempt'[b].state # "ABSENT"
    BY <1>3, AttemptsLast
  <2>3. \A f \in Effect : /\ Made(f)' <=> Made(f)
                          /\ effect'[f].last = effect[f].last
                          /\ ~Made(f) => effect'[f] = effect[f]
    BY <1>3, SettleFacts
  <2> QED
    BY <2>1, <2>2, <2>3 DEF BoundInv, LastAttempt
<1>4. CASE Preparing
  BY <1>1, <1>4 DEF Preparing, BoundInv
<1> QED
  BY <1>2, <1>3, <1>4 DEF EffectMove, Marking

\* The list of prepared effects has each effect that was made, once.
LEMMA ListedStep ==
  ASSUME RowsInv, BoundInv, ListedInv, EffectMove
  PROVE  ListedInv'
<1>1. ASSUME NEW e \in Effect, NEW a \in Attempt, NEW fence \in Fence \cup {Unfenced}, NEW late \in Late,
             PrepareEffect(e, a, fence, late)
      PROVE  ListedInv'
  <2>1. /\ prepared' = IF Made(e) THEN prepared ELSE Append(prepared, e)
        /\ Made(e)'
        /\ \A f \in Effect \ {e} : Made(f)' <=> Made(f)
    BY <1>1, PrepareFacts DEF Made
  <2>2. CASE Made(e)
    <3>1. prepared' = prepared /\ \A f \in Effect : Made(f)' <=> Made(f)
      BY <2>1, <2>2
    <3> QED
      BY <3>1 DEF ListedInv
  <2>3. CASE ~Made(e)
    <3>1. prepared' = Append(prepared, e) /\ prepared \in Seq(Effect)
      BY <2>1, <2>3 DEF ListedInv
    <3>2. /\ prepared' \in Seq(Effect)
          /\ DOMAIN prepared = 1..Len(prepared) /\ Len(prepared) \in Nat
          /\ DOMAIN prepared' = 1..(Len(prepared) + 1)
          /\ \A i \in 1..Len(prepared) : prepared'[i] = prepared[i]
          /\ prepared'[Len(prepared) + 1] = e
      BY <3>1
    <3>3. \A i \in 1..Len(prepared) : prepared[i] # e
      BY <2>3, <3>2 DEF ListedInv
    <3>4. \A i, j \in DOMAIN prepared' : prepared'[i] = prepared'[j] => i = j
      BY <3>2, <3>3 DEF ListedInv
    <3>5. \A f \in Effect : Made(f)' <=> \E i \in DOMAIN prepared' : prepared'[i] = f
      <4> SUFFICES ASSUME NEW f \in Effect
                   PROVE  Made(f)' <=> \E i \in DOMAIN prepared' : prepared'[i] = f
        OBVIOUS
      <4>1. CASE f = e
        BY <2>1, <3>2, <4>1
      <4>2. CASE f # e
        <5>1. Made(f)' <=> \E i \in 1..Len(prepared) : prepared[i] = f
          BY <2>1, <3>2, <4>2 DEF ListedInv
        <5> QED
          BY <3>2, <4>2, <5>1
      <4> QED
        BY <4>1, <4>2
    <3> QED
      BY <3>2, <3>4, <3>5 DEF ListedInv
  <2> QED
    BY <2>2, <2>3
<1>2. ASSUME prepared' = prepared, \A e \in Effect : Made(e)' <=> Made(e) PROVE ListedInv'
  BY <1>2 DEF ListedInv
<1>3. ASSUME NEW e \in Effect, NEW a \in Attempt, NEW fence \in Fence \cup {Unfenced}, NEW late \in Late,
             MarkEffectDispatched(e, a, fence, late)
      PROVE  ListedInv'
  <2>1. prepared' = prepared /\ \A f \in Effect : Made(f)' <=> Made(f)
    BY <1>3, MarkFacts DEF Made
  <2> QED
    BY <2>1, <1>2
<1>4. CASE Settling
  <2>1. prepared' = prepared
    BY <1>4 DEF Settling
  <2> QED
    BY <1>2, <1>4, <2>1, SettleFacts
<1> QED
  BY <1>1, <1>3, <1>4 DEF EffectMove, Preparing, Marking

\* Whoever was told to go ahead prepared the effect; one that must not be
\* repeated is sent only for the attempt it was first marked for.
LEMMA ClearedStep ==
  ASSUME RowsInv, BoundInv, ClearedInv, EffectMove
  PROVE  ClearedInv'
<1> DEFINE Goal(e) ==
      /\ Sent(e)' => sender'[e] \in Caller /\ <<e, sender'[e][1]>> \in bound'
      /\ \A c \in Caller :
           /\ <<e, c, "PREPARED">> \in cleared' =>
                /\ <<e, c[1]>> \in bound'
                /\ Sent(e)' /\ ~BlindRetrySafe(e) => c[1][2] <= sender'[e][1][2]
           /\ <<e, c, "DISPATCHED">> \in cleared' =>
                Sent(e)' /\ (~BlindRetrySafe(e) => c[1] = sender'[e][1])
<1>g. (\A e \in Effect : Goal(e)) => ClearedInv'
  BY DEF ClearedInv, BlindRetrySafe
<1>c. \A a \in Attempt, fence \in Fence \cup {Unfenced} :
        <<a, fence>> \in Caller /\ <<a, fence>>[1] = a
  BY DEF Caller
<1>d. \A c \in Caller : c[1] \in Attempt
  BY DEF Caller
<1>0. ASSUME NEW e \in Effect, Sent(e)' <=> Sent(e), sender'[e] = sender[e], bound \subseteq bound',
             \A c \in Caller, s \in Stage : <<e, c, s>> \in cleared' => <<e, c, s>> \in cleared
      PROVE  Goal(e)
  BY <1>0 DEF ClearedInv, Stage
<1>1. ASSUME NEW e \in Effect, NEW a \in Attempt, NEW fence \in Fence \cup {Unfenced}, NEW late \in Late,
             PrepareEffect(e, a, fence, late), NEW f \in Effect
      PROVE  Goal(f)
  <2>1. /\ sender' = sender /\ bound' = bound \cup {<<e, a>>}
        /\ effect'[e].state = IF Made(e) THEN effect[e].state ELSE "PREPARED"
        /\ \A g \in Effect \ {e} : effect'[g] = effect[g]
        /\ \/ cleared' = cleared
           \/ /\ DispatchAllowed(e, effect'[e].state)
              /\ cleared' = cleared \cup {<<e, <<a, fence>>, "PREPARED">>}
    BY <1>1, PrepareFacts
  <2>2. Sent(f)' <=> Sent(f)
    BY <2>1 DEF Sent, Made
  <2>3. CASE cleared' = cleared \/ f # e
    BY <1>0, <2>1, <2>2, <2>3
  <2>4. CASE /\ f = e
             /\ DispatchAllowed(e, effect'[e].state)
             /\ cleared' = cleared \cup {<<e, <<a, fence>>, "PREPARED">>}
    <3>1. Sent(e)' => BlindRetrySafe(e)
      BY <2>4 DEF DispatchAllowed, Sent
    <3>2. ASSUME NEW c \in Caller, <<e, c, "PREPARED">> \in cleared' PROVE <<e, c[1]>> \in bound'
      <4>1. CASE <<e, c, "PREPARED">> \in cleared
        BY <2>1, <4>1 DEF ClearedInv
      <4>2. CASE c = <<a, fence>>
        BY <2>1, <4>2
      <4> QED
        BY <2>4, <3>2, <4>1, <4>2
    <3>3. \A c \in Caller : <<e, c, "DISPATCHED">> \in cleared' => <<e, c, "DISPATCHED">> \in cleared
      BY <2>4
    <3> QED
      BY <2>1, <2>2, <2>4, <3>1, <3>2, <3>3 DEF ClearedInv
  <2> QED
    BY <2>1, <2>3, <2>4
<1>2. ASSUME NEW e \in Effect, NEW a \in Attempt, NEW fence \in Fence \cup {Unfenced}, NEW late \in Late,
             MarkEffectDispatched(e, a, fence, late), NEW f \in Effect
      PROVE  Goal(f)
  <2>1. /\ bound' = bound /\ Made(e) /\ LastAttempt(e) = a /\ <<e, a>> \in bound
        /\ effect'[e].state = "DISPATCHED"
        /\ \A g \in Effect \ {e} : effect'[g] = effect[g] /\ sender'[g] = sender[g]
        /\ \/ effect[e].state = "DISPATCHED" /\ sender' = sender
           \/ effect[e].state = "PREPARED" /\ sender' = [sender EXCEPT ![e] = <<a, fence>>]
        /\ \/ cleared' = cleared
           \/ /\ <<e, <<a, fence>>, "PREPARED">> \in cleared
              /\ cleared' = cleared \cup {<<e, <<a, fence>>, "DISPATCHED">>}
    BY <1>2, MarkFacts
  <2>2. CASE f # e
    <3>1. Sent(f)' <=> Sent(f)
      BY <2>1, <2>2 DEF Sent
    <3> QED
      BY <1>0, <2>1, <2>2, <3>1
  <2>3. CASE f = e
    <3>0. Sent(e)'
      BY <2>1 DEF Sent
    <3>1. \A c \in Caller :
            /\ <<e, c, "PREPARED">> \in cleared' => <<e, c, "PREPARED">> \in cleared
            /\ <<e, c, "DISPATCHED">> \in cleared' =>
                 \/ <<e, c, "DISPATCHED">> \in cleared
                 \/ c = <<a, fence>> /\ <<e, c, "PREPARED">> \in cleared
      BY <2>1
    <3>2. \A c \in Caller : <<e, c, "PREPARED">> \in cleared =>
            /\ <<e, c[1]>> \in bound
            /\ c[1][2] <= a[2]
      <4>1. effect[e].last = a[2]
        BY <2>1 DEF LastAttempt
      <4> QED
        BY <1>d, <4>1 DEF ClearedInv, BoundInv
    <3>3. CASE effect[e].state = "PREPARED" /\ sender' = [sender EXCEPT ![e] = <<a, fence>>]
      <4>1. sender'[e] = <<a, fence>> /\ ~Sent(e)
        BY <3>3 DEF RowsInv, Sent
      <4>2. \A c \in Caller : <<e, c, "DISPATCHED">> \notin cleared
        BY <4>1 DEF ClearedInv
      <4> QED
        BY <1>c, <2>1, <2>3, <3>0, <3>1, <3>2, <4>1, <4>2
    <3>4. CASE effect[e].state = "DISPATCHED" /\ sender' = sender
      <4>1. Sent(e)
        BY <3>4 DEF Sent
      <4>2. sender[e] \in Caller /\ <<e, sender[e][1]>> \in bound
        BY <4>1 DEF ClearedInv
      <4>3. ASSUME NEW c \in Caller, c = <<a, fence>>, <<e, c, "PREPARED">> \in cleared,
                   ~BlindRetrySafe(e)
            PROVE  c[1] = sender[e][1]
        <5>1. a[2] <= sender[e][1][2]
          BY <4>1, <4>3 DEF ClearedInv
        <5>2. /\ NodeOf(sender[e][1]) = Site[e] /\ NodeOf(a) = Site[e]
              /\ sender[e][1][2] <= effect[e].last /\ effect[e].last = a[2]
              /\ sender[e][1] \in Attempt
          BY <1>d, <2>1, <4>2 DEF BoundInv, LastAttempt, NodeOf
        <5>3. a[2] = sender[e][1][2]
          BY <5>1, <5>2, EffectTypes
        <5>4. a = sender[e][1]
          BY <5>2, <5>3, EffectTypes
        <5> QED
          BY <4>3, <5>4
      <4> QED
        BY <2>1, <2>3, <3>0, <3>1, <3>4, <4>1, <4>2, <4>3 DEF ClearedInv
    <3> QED
      BY <2>1, <3>3, <3>4
  <2> QED
    BY <2>2, <2>3
<1>3. ASSUME Settling, NEW e \in Effect PROVE Goal(e)
  BY <1>0, <1>3, SettleFacts DEF Settling
<1> HIDE DEF Goal
<1>4. CASE Preparing
  BY <1>1, <1>4, <1>g DEF Preparing
<1>5. CASE Marking
  BY <1>2, <1>5, <1>g DEF Marking
<1>6. CASE Settling
  BY <1>3, <1>6, <1>g
<1> QED
  BY <1>4, <1>5, <1>6 DEF EffectMove

----------------------------------------------------------------------------
\* The invariant holds before anything was done.
LEMMA EffectStart == EffectInit => EffectInv
<1> SUFFICES ASSUME EffectInit PROVE EffectInv
  OBVIOUS
<1>1. EngineInv
  <2>1. CoreOK /\ Unborn /\ ListsInv
    BY RetryStart DEF EffectInit, RetryInv
  <2>2. LiveFits /\ InTurn
    BY DEF EffectInit, RetryInit, Init, LiveFits, InTurn, Live, LiveAttempt, NoAttempt, Attempt
  <2> QED
    BY <2>1, <2>2 DEF EngineInv
<1>2. \A e \in Effect : effect[e] = NoEffect /\ ~Made(e) /\ ~Sent(e)
  BY DEF EffectInit, NoEffect, Made, Sent
<1>3. RowsInv
  <2>1. NoEffect \in EffectRow
    BY BoundsAssumption DEF NoEffect, EffectRow
  <2> QED
    BY <2>1 DEF EffectInit, RowsInv
<1>4. BoundInv /\ ClearedInv
  BY <1>2 DEF EffectInit, BoundInv, ClearedInv
<1>5. ListedInv
  BY <1>2 DEF EffectInit, ListedInv
<1> QED
  BY <1>1, <1>3, <1>4, <1>5 DEF EffectInv

\* Every step of the effects, of the retries and of the engine keeps it.
LEMMA EffectStep == EffectInv /\ [EffectNext]_evars => EffectInv' /\ EffectMove
<1> SUFFICES ASSUME EffectInv, [EffectNext]_evars PROVE EffectInv' /\ EffectMove
  OBVIOUS
<1> USE DEF EffectInv, EngineInv
<1>1. EffectMove
  BY EffectMoves
<1>2. EngineInv'
  BY <1>1, EffectTypeStep, EffectTurns
<1>3. RowsInv' /\ BoundInv' /\ ListedInv' /\ ClearedInv'
  BY <1>1, RowsStep, BoundStep, ListedStep, ClearedStep
<1> QED
  BY <1>1, <1>2, <1>3

\* An effect that must not be repeated (BlindRetrySafe) is sent by one attempt
\* only, however often its node is retried, reclaimed, resolved and re-armed.
THEOREM NoEffectIsRepeated == EffectSpec => []NoBlindRetry
<1>1. EffectInv => NoBlindRetry
  <2> SUFFICES ASSUME EffectInv, NEW e \in Effect, ~BlindRetrySafe(e)
               PROVE  Cardinality({c[1] : c \in Senders(e)}) <= 1
    BY DEF NoBlindRetry
  <2>1. {c[1] : c \in Senders(e)} \subseteq {sender[e][1]}
    BY DEF EffectInv, ClearedInv, Senders
  <2>2. IsFiniteSet({sender[e][1]}) /\ Cardinality({sender[e][1]}) = 1
    BY FS_Singleton
  <2>3. Cardinality({c[1] : c \in Senders(e)}) <= Cardinality({sender[e][1]})
    BY <2>1, <2>2, FS_Subset
  <2> QED
    BY <2>2, <2>3
<1> QED
  BY <1>1, EffectStart, EffectStep, PTL DEF EffectSpec

----------------------------------------------------------------------------
(***************************************************************************)
(* A node in doubt.  Only an attempt that becomes IN_DOUBT takes its node   *)
(* there, it is the newest one and stays it, and its uncertain effect      *)
(* leaves FAILED and IN_DOUBT only by being confirmed, which takes the     *)
(* node out of doubt in the same transaction.                              *)
(***************************************************************************)

\* A node that is not READY gets no new attempt.
LEMMA NoNewAttempt ==
  ASSUME EffectMove, NEW b \in Attempt, attempt[b].state = "ABSENT", node[NodeOf(b)] # "READY"
  PROVE  attempt'[b] = attempt[b]
<1>1. CASE Preparing \/ Marking
  BY <1>1 DEF Preparing, Marking, PrepareEffect, MarkEffectDispatched, rvars, vars
<1>2. CASE LifeMove \/ \E a \in Attempt : Doubting(a) \/ (Uncertain(a) = {} /\ Reowning(a))
  BY <1>2 DEF LifeMove, Doubting, Staying, Opening, Starting, Closing, Reowning, ClosingAll,
              OthersStay, Live, LiveAttempt
<1> QED
  BY <1>1, <1>2 DEF EffectMove

\* A node becomes IN_DOUBT only with an attempt of its own.
LEMMA DoubtBegins ==
  ASSUME CoreOK, EffectMove, NEW n \in Node, node[n] # "IN_DOUBT", node'[n] = "IN_DOUBT"
  PROVE  \E a \in Attempt : NodeOf(a) = n /\ Settling /\ Doubting(a)
<1>1. CASE Preparing \/ Marking
  BY <1>1 DEF Preparing, Marking, PrepareEffect, MarkEffectDispatched, rvars, vars
<1>2. CASE Settling /\ LifeMove
  BY <1>2 DEF LifeMove, Staying, Opening, Starting, Closing, ClosingAll, NodesStay, Busy
<1>3. CASE Settling /\ \E a \in Attempt : Doubting(a) \/ (Uncertain(a) = {} /\ Reowning(a))
  BY <1>3 DEF Doubting, Closing, Reowning, NodesStay
<1> QED
  BY <1>1, <1>2, <1>3 DEF EffectMove

\* An effect of a node that is in doubt stays open to evidence or failed.
LEMMA DoubtfulStays ==
  ASSUME RowsInv, BoundInv, EffectMove, NEW e \in Effect,
         effect[e].state \in {"IN_DOUBT", "FAILED"}, node'[Site[e]] = "IN_DOUBT"
  PROVE  effect'[e].state \in {"IN_DOUBT", "FAILED"}
<1>1. ASSUME NEW f \in Effect, NEW a \in Attempt, NEW fence \in Fence \cup {Unfenced}, NEW late \in Late,
             PrepareEffect(f, a, fence, late)
      PROVE  effect'[e].state \in {"IN_DOUBT", "FAILED"}
  <2>1. /\ effect'[f].state = IF Made(f) THEN effect[f].state ELSE "PREPARED"
        /\ \A g \in Effect \ {f} : effect'[g] = effect[g]
    BY <1>1, PrepareFacts
  <2> QED
    BY <2>1 DEF Made
<1>2. ASSUME NEW f \in Effect, NEW a \in Attempt, NEW fence \in Fence \cup {Unfenced}, NEW late \in Late,
             MarkEffectDispatched(f, a, fence, late)
      PROVE  effect'[e].state \in {"IN_DOUBT", "FAILED"}
  <2>1. /\ effect[f].state \in {"PREPARED", "DISPATCHED"}
        /\ \A g \in Effect \ {f} : effect'[g] = effect[g]
    BY <1>2, MarkFacts
  <2> QED
    BY <2>1
<1>3. CASE Settling
  BY <1>3 DEF Settling
<1> QED
  BY <1>1, <1>2, <1>3 DEF EffectMove, Preparing, Marking

\* Bindings are never taken back.
LEMMA BindingsLast ==
  ASSUME RowsInv, BoundInv, EffectMove
  PROVE  bound \subseteq bound'
<1>1. ASSUME NEW f \in Effect, NEW a \in Attempt, NEW fence \in Fence \cup {Unfenced}, NEW late \in Late,
             PrepareEffect(f, a, fence, late)
      PROVE  bound \subseteq bound'
  BY <1>1, PrepareFacts
<1> QED
  BY <1>1 DEF EffectMove, Preparing, Marking, MarkEffectDispatched, Settling

LatestInDoubt(n) ==
  \E k \in 1..MaxAttempts :
    /\ IsNextAttempt(n, k + 1)
    /\ attempt[<<n, k>>].state = "IN_DOUBT"
    /\ \E e \in Effect : <<e, <<n, k>>>> \in bound /\ effect[e].state \in {"IN_DOUBT", "FAILED"}

\* A node that stays in doubt keeps its newest attempt and that one's effect.
LEMMA DoubtRemains ==
  ASSUME EffectInv, EffectMove, NEW n \in Node, node[n] = "IN_DOUBT", node'[n] = "IN_DOUBT",
         LatestInDoubt(n)
  PROVE  LatestInDoubt(n)'
<1> USE DEF EffectInv, EngineInv
<1>1. PICK k \in 1..MaxAttempts :
        /\ IsNextAttempt(n, k + 1)
        /\ attempt[<<n, k>>].state = "IN_DOUBT"
        /\ \E e \in Effect : <<e, <<n, k>>>> \in bound /\ effect[e].state \in {"IN_DOUBT", "FAILED"}
  BY DEF LatestInDoubt
<1>2. PICK e \in Effect : <<e, <<n, k>>>> \in bound /\ effect[e].state \in {"IN_DOUBT", "FAILED"}
  BY <1>1
<1>3. \A j \in 1..MaxAttempts : <<n, j>> \in Attempt /\ NodeOf(<<n, j>>) = n
  BY EffectTypes
<1>4. ASSUME NEW b \in Attempt, NodeOf(b) = n
      PROVE  /\ attempt'[b].state # "ABSENT" <=> attempt[b].state # "ABSENT"
             /\ attempt[b].state = "IN_DOUBT" => attempt'[b].state = "IN_DOUBT"
  <2>1. CASE attempt[b].state = "ABSENT"
    BY <1>4, <2>1, NoNewAttempt
  <2>2. CASE attempt[b].state # "ABSENT"
    <3>1. CASE Preparing \/ Marking
      BY <2>2, <3>1 DEF Preparing, Marking, PrepareEffect, MarkEffectDispatched, rvars, vars
    <3>2. CASE \/ LifeMove
               \/ \E a \in Attempt : Doubting(a) \/ (Uncertain(a) = {} /\ Reowning(a))
      <4>1. /\ attempt'[b].state # "ABSENT"
            /\ ~Live(b) => attempt'[b] = attempt[b]
        BY <2>2, <3>2, AttemptsLast
      <4> QED
        BY <2>2, <4>1 DEF Live, LiveAttempt
    <3> QED
      BY <3>1, <3>2 DEF EffectMove
  <2> QED
    BY <2>1, <2>2
<1>5. IsNextAttempt(n, k + 1)' /\ attempt'[<<n, k>>].state = "IN_DOUBT"
  BY <1>1, <1>3, <1>4 DEF IsNextAttempt
<1>6. Site[e] = n
  BY <1>2, <1>3 DEF BoundInv
<1>7. <<e, <<n, k>>>> \in bound' /\ effect'[e].state \in {"IN_DOUBT", "FAILED"}
  BY <1>2, <1>6, BindingsLast, DoubtfulStays
<1> QED
  BY <1>5, <1>7 DEF LatestInDoubt

\* An attempt that takes its node into doubt is the newest one of the node.
LEMMA DoubtIsNewest ==
  ASSUME CoreOK, LiveFits', InTurn', InTurn, NEW a \in Attempt, Settling, Doubting(a)
  PROVE  LatestInDoubt(NodeOf(a))'
<1> DEFINE n == NodeOf(a)
<1> DEFINE k == a[2]
<1>1. n \in Node /\ k \in 1..MaxAttempts /\ a = <<n, k>>
  BY EffectTypes
<1>2. Live(a) /\ attempt'[a].state = "IN_DOUBT" /\ OthersStay(a)
  BY DEF Doubting, Closing
<1>3. \A j \in 1..MaxAttempts : attempt[<<n, j>>].state # "ABSENT" <=> j < k + 1
  <2> SUFFICES ASSUME NEW j \in 1..MaxAttempts
               PROVE  attempt[<<n, j>>].state # "ABSENT" <=> j < k + 1
    OBVIOUS
  <2>1. <<n, j>> \in Attempt /\ NodeOf(<<n, j>>) = n /\ <<n, j>>[2] = j
    BY <1>1, EffectTypes
  <2> QED
    BY <1>1, <1>2, <2>1 DEF InTurn, Live, LiveAttempt
<1>4. \A j \in 1..MaxAttempts : attempt'[<<n, j>>].state # "ABSENT" <=> j < k + 1
  <2> SUFFICES ASSUME NEW j \in 1..MaxAttempts
               PROVE  attempt'[<<n, j>>].state # "ABSENT" <=> attempt[<<n, j>>].state # "ABSENT"
    BY <1>3
  <2>1. <<n, j>> \in Attempt
    BY <1>1, EffectTypes
  <2> QED
    BY <1>2, <2>1 DEF OthersStay, Live, LiveAttempt
<1>5. \E e \in Effect : <<e, a>> \in bound' /\ effect'[e].state \in {"IN_DOUBT", "FAILED"}
  BY DEF Doubting, Settling
<1>6. IsNextAttempt(n, k + 1)'
  BY <1>4 DEF IsNextAttempt
<1> HIDE DEF n, k
<1>7. LatestInDoubt(n)'
  BY <1>1, <1>2, <1>5, <1>6 DEF LatestInDoubt
<1> QED
  BY <1>7 DEF n

\* A node is IN_DOUBT only with its newest attempt, and an effect of that attempt
\* is there for a reconciler or an operator to decide.  (MarkEffectInDoubt,
\* ReclaimExpiredAttempt, ReconcileEffect and the two Resolve calls.)
THEOREM DoubtIsExplained == EffectSpec => []DoubtExplained
<1> DEFINE Explained == \A n \in Node : node[n] = "IN_DOUBT" => LatestInDoubt(n)
<1>1. EffectInit => Explained
  BY DEF EffectInit, RetryInit, Init
<1>2. EffectInv /\ Explained /\ [EffectNext]_evars => Explained'
  <2> SUFFICES ASSUME EffectInv, Explained, [EffectNext]_evars, NEW n \in Node, node'[n] = "IN_DOUBT"
               PROVE  LatestInDoubt(n)'
    OBVIOUS
  <2>1. EffectInv' /\ EffectMove
    BY EffectStep
  <2>2. CASE node[n] = "IN_DOUBT"
    BY <2>1, <2>2, DoubtRemains
  <2>3. CASE node[n] # "IN_DOUBT"
    <3>1. PICK a \in Attempt : NodeOf(a) = n /\ Settling /\ Doubting(a)
      BY <2>1, <2>3, DoubtBegins DEF EffectInv, EngineInv
    <3>2. LatestInDoubt(NodeOf(a))'
      BY <2>1, <3>1, DoubtIsNewest DEF EffectInv, EngineInv
    <3> QED
      BY <3>1, <3>2
  <2> QED
    BY <2>2, <2>3
<1>3. EffectInv /\ Explained => DoubtExplained
  BY DEF DoubtExplained, LatestInDoubt, EffectInv, EngineInv, LiveFits, LiveAttemptsOf, Live, Busy
<1> QED
  BY <1>1, <1>2, <1>3, EffectStart, EffectStep, PTL DEF EffectSpec

----------------------------------------------------------------------------
(***************************************************************************)
(* The owner of an effect.  Where a reclaim sees every effect of an        *)
(* attempt, one that may have happened keeps the attempt with its sender.  *)
(***************************************************************************)

\* Where a node's effects fit into the list, every effect that is bound to an
\* attempt is among those that a reclaim looks at.
LEMMA BoundAreListed ==
  ASSUME FewEffects, RowsInv, BoundInv, ListedInv,
         NEW e \in Effect, NEW a \in Attempt, <<e, a>> \in bound
  PROVE  e \in EffectsOf(a)
<1> DEFINE mine == {i \in DOMAIN prepared : <<prepared[i], a>> \in bound}
<1> DEFINE its == {f \in Effect : Site[f] = NodeOf(a)}
<1>1. PICK i \in DOMAIN prepared : prepared[i] = e
  BY DEF BoundInv, ListedInv
<1> DEFINE upto == {k \in mine : k <= i}
<1>2. i \in mine
  BY <1>1
<1>3. IsFiniteSet(its) /\ Cardinality(its) <= ListLimit
  BY EffectTypes DEF FewEffects
<1>4. PICK g : g = [k \in upto |-> prepared[k]]
  OBVIOUS
<1>5. g \in Injection(upto, its)
  <2>1. ASSUME NEW k \in upto PROVE g[k] = prepared[k] /\ prepared[k] \in its
    <3>1. k \in DOMAIN prepared /\ <<prepared[k], a>> \in bound /\ g[k] = prepared[k]
      BY <1>4, <2>1
    <3>2. prepared[k] \in Effect
      BY <3>1 DEF RowsInv
    <3> QED
      BY <3>1, <3>2 DEF BoundInv
  <2>2. g \in [upto -> its]
    BY <1>4, <2>1
  <2>3. \A j, k \in upto : g[j] = g[k] => j = k
    BY <2>1 DEF ListedInv
  <2> QED
    BY <2>2, <2>3 DEF Injection, IsInjective
<1>6. IsFiniteSet(upto) /\ Cardinality(upto) <= Cardinality(its)
  BY <1>3, <1>5, FS_Injection
<1>7. Cardinality(upto) <= ListLimit
  <2>1. Cardinality(upto) \in Nat /\ Cardinality(its) \in Nat
    BY <1>3, <1>6, FS_CardinalityType
  <2> QED
    BY <1>3, <1>6, <2>1, EffectAssumption
<1>8. EffectsOf(a) = {prepared[j] : j \in {l \in mine : Cardinality({k \in mine : k <= l}) <= ListLimit}}
  BY DEF EffectsOf
<1> QED
  BY <1>1, <1>2, <1>7, <1>8

\* One step keeps what may have happened with the owner that sent it.
LEMMA OwnerStep ==
  ASSUME FewEffects, RowsInv, BoundInv, ListedInv, ClearedInv, EffectMove, SoleOwner
  PROVE  SoleOwner'
<1> DEFINE Owned(e) ==
      effect[e].state = "DISPATCHED" /\ ~BlindRetrySafe(e) /\ Live(sender[e][1])
        => sender[e][2] = [worker |-> attempt[sender[e][1]].worker,
                           epoch |-> attempt[sender[e][1]].epoch]
<1>0. \A e \in Effect : Owned(e)
  BY DEF SoleOwner
<1>g. (\A e \in Effect : Owned(e)') => SoleOwner'
  BY DEF SoleOwner, BlindRetrySafe
<1>s. ASSUME NEW e \in Effect, attempt' = attempt, sender'[e] = sender[e],
             effect'[e].state = "DISPATCHED" => effect[e].state = "DISPATCHED"
      PROVE  Owned(e)'
  BY <1>0, <1>s DEF Live, BlindRetrySafe
<1>1. ASSUME NEW f \in Effect, NEW a \in Attempt, NEW fence \in Fence \cup {Unfenced}, NEW late \in Late,
             PrepareEffect(f, a, fence, late), NEW e \in Effect
      PROVE  Owned(e)'
  <2>1. /\ UNCHANGED <<rvars, sender>>
        /\ effect'[f].state = IF Made(f) THEN effect[f].state ELSE "PREPARED"
        /\ \A g \in Effect \ {f} : effect'[g] = effect[g]
    BY <1>1, PrepareFacts
  <2>2. attempt' = attempt
    BY <2>1 DEF rvars, vars
  <2> HIDE DEF Owned
  <2> QED
    BY <1>s, <2>1, <2>2
<1>2. ASSUME NEW f \in Effect, NEW a \in Attempt, NEW fence \in Fence \cup {Unfenced}, NEW late \in Late,
             MarkEffectDispatched(f, a, fence, late), NEW e \in Effect
      PROVE  Owned(e)'
  <2>1. /\ UNCHANGED <<rvars, prepared, bound>>
        /\ \A g \in Effect \ {f} : effect'[g] = effect[g] /\ sender'[g] = sender[g]
        /\ \/ effect[f].state = "DISPATCHED" /\ sender' = sender
           \/ /\ sender' = [sender EXCEPT ![f] = <<a, fence>>]
              /\ fence = [worker |-> attempt[a].worker, epoch |-> attempt[a].epoch]
    BY <1>2, MarkFacts
  <2>2. attempt' = attempt
    BY <2>1 DEF rvars, vars
  <2>3. CASE e # f \/ (effect[f].state = "DISPATCHED" /\ sender' = sender)
    <3> HIDE DEF Owned
    <3> QED
      BY <1>s, <2>1, <2>2, <2>3
  <2>4. CASE /\ e = f
             /\ sender' = [sender EXCEPT ![f] = <<a, fence>>]
             /\ fence = [worker |-> attempt[a].worker, epoch |-> attempt[a].epoch]
    <3>1. sender'[e] = <<a, fence>>
      BY <2>4 DEF RowsInv
    <3> QED
      BY <2>2, <2>4, <3>1
  <2> QED
    BY <2>1, <2>3, <2>4
<1>3. ASSUME Settling,
             \/ LifeMove
             \/ \E a \in Attempt : Doubting(a) \/ (Uncertain(a) = {} /\ Reowning(a)),
             NEW e \in Effect, effect'[e].state = "DISPATCHED", ~BlindRetrySafe(e),
             attempt'[sender'[e][1]].state \in LiveAttempt
      PROVE  sender'[e][2] = [worker |-> attempt'[sender'[e][1]].worker,
                              epoch |-> attempt'[sender'[e][1]].epoch]
  <2>0. PICK a : a = sender[e][1]
    OBVIOUS
  <2>1. effect[e].state = "DISPATCHED"
    BY <1>3, SettleFacts
  <2>2. sender' = sender
    BY <1>3 DEF Settling
  <2>3. a \in Attempt /\ <<e, a>> \in bound
    BY <2>0, <2>1 DEF ClearedInv, Sent, Caller
  <2>4. attempt[a].state # "ABSENT"
    BY <2>3 DEF BoundInv
  <2>5. Live(a)'
    BY <1>3, <2>0, <2>2 DEF Live
  <2>6. /\ ~Live(a) => attempt'[a] = attempt[a]
        /\ \/ attempt'[a].worker = attempt[a].worker /\ attempt'[a].epoch = attempt[a].epoch
           \/ Uncertain(a) = {}
    BY <1>3, <2>3, <2>4, <2>5, AttemptsLast
  <2>7. Live(a)
    BY <2>5, <2>6 DEF Live
  <2>8. e \in Uncertain(a)
    BY <1>3, <2>1, <2>3, BoundAreListed DEF Uncertain
  <2>9. sender[e][2] = [worker |-> attempt[a].worker, epoch |-> attempt[a].epoch]
    BY <1>0, <1>3, <2>0, <2>1, <2>7
  <2> QED
    BY <2>0, <2>2, <2>6, <2>8, <2>9
<1>4. CASE Settling /\ (\/ LifeMove
                        \/ \E a \in Attempt : Doubting(a) \/ (Uncertain(a) = {} /\ Reowning(a)))
  <2>1. \A e \in Effect : Owned(e)'
    BY <1>3, <1>4 DEF BlindRetrySafe, Live
  <2> QED
    BY <2>1, <1>g
<1>5. CASE Preparing \/ Marking
  <2> HIDE DEF Owned
  <2> QED
    BY <1>1, <1>2, <1>5, <1>g DEF Preparing, Marking
<1> QED
  BY <1>4, <1>5 DEF EffectMove

\* While an effect that must not be repeated may be on its way, its attempt stays
\* with the owner that sent it (ReclaimExpiredAttempt), in every deployment whose
\* nodes have no more effects than the reclaim's query returns.
THEOREM SenderKeepsAttempt ==
  ASSUME FewEffects
  PROVE  EffectSpec => []SoleOwner
<1>1. EffectInit => SoleOwner
  BY DEF EffectInit, SoleOwner, NoEffect
<1>2. EffectInv /\ SoleOwner /\ [EffectNext]_evars => SoleOwner'
  BY EffectStep, OwnerStep DEF EffectInv
<1> QED
  BY <1>1, <1>2, EffectStart, EffectStep, PTL DEF EffectSpec

----------------------------------------------------------------------------
(***************************************************************************)
(* Verdicts that arrive late.  An effect's row is final once it is         *)
(* CONFIRMED or FAILED, and no step of a decided run makes a node READY    *)
(* or lets it wait for a retry.                                            *)
(***************************************************************************)
Quiet == \A n \in Node : node'[n] \notin {"READY", "RETRY_WAIT"} \/ node'[n] = node[n]

\* A step that writes one node makes it neither READY nor waiting.
LEMMA OneNodeQuiet ==
  ASSUME CoreOK, NEW n \in Node, NEW to, to \notin {"READY", "RETRY_WAIT"},
         node' = [node EXCEPT ![n] = to]
  PROVE  Quiet
BY DEF Quiet, CoreOK

\* The engine's operations re-arm nothing in a run that was decided.
LEMMA OperationsQuiet ==
  ASSUME CoreOK, wf \in TerminalWorkflow, Operations
  PROVE  Quiet
<1>0. wf \notin {"ABSENT", "RUNNING", "PAUSING", "PAUSED"} /\ ~WorkflowAllowsDrain(wf)
  BY DEF TerminalWorkflow, WorkflowAllowsDrain
<1>1. ASSUME NEW a \in Attempt, NEW fence \in Fence, NEW late \in Late,
             StartClaimedAttempt(a, fence, late)
      PROVE  Quiet
  <2>1. node' = [node EXCEPT ![NodeOf(a)] = "RUNNING"] /\ NodeOf(a) \in Node
    BY <1>1, EffectTypes DEF StartClaimedAttempt, CompareAndSwapNodeRun
  <2> QED
    BY <2>1, OneNodeQuiet
<1>2. ASSUME NEW a \in Attempt, NEW fence \in Fence \cup {Unfenced}, NEW late \in Late,
             CompleteAttemptSuccess(a, fence, late)
      PROVE  Quiet
  <2>1. \A n \in Node : node'[n] \in {"SUCCEEDED", node[n]}
    BY <1>0, <1>2 DEF CompleteAttemptSuccess
  <2> QED
    BY <2>1 DEF Quiet
<1>3. ASSUME NEW a \in Attempt, NEW fence \in Fence \cup {Unfenced}, NEW late \in Late,
             CompleteAttemptFailure(a, fence, late)
      PROVE  Quiet
  <2>1. node' = [node EXCEPT ![NodeOf(a)] = "FAILED"] /\ NodeOf(a) \in Node
    BY <1>3, EffectTypes DEF CompleteAttemptFailure, CompareAndSwapNodeRun
  <2> QED
    BY <2>1, OneNodeQuiet
<1>4. ASSUME node' = node PROVE Quiet
  BY <1>4 DEF Quiet
<1> QED
  BY <1>0, <1>1, <1>2, <1>3, <1>4
     DEF Operations, StartWorkflow, RegisterWorker, StartAttempt, ClaimNode, HeartbeatLease,
         PauseWorkflow, ResumeWorkflow

\* Nor do the steps of its retries.
LEMMA RetriesQuiet ==
  ASSUME CoreOK, ListsInv, wf \in TerminalWorkflow, RetryOperations \/ RetryTick
  PROVE  Quiet
<1>0. wf \notin {"RUNNING", "PAUSING", "PAUSED"} /\ ~WorkflowAllowsDrain(wf)
  BY DEF TerminalWorkflow, WorkflowAllowsDrain
<1>1. ASSUME node' = node PROVE Quiet
  BY <1>1 DEF Quiet
<1>2. ASSUME NEW report \in refused, NEW late \in Late, FailRefused(report, late) PROVE Quiet
  <2>1. report[1] \in Attempt /\ report[2] \in Fence \cup {Unfenced}
    BY DEF ListsInv, Report
  <2>2. CompleteAttemptFailure(report[1], report[2], late) \/ node' = node
    BY <1>2 DEF FailRefused, vars
  <2> QED
    BY <1>1, <2>1, <2>2, OperationsQuiet DEF Operations
<1>3. CASE RetryTick
  BY <1>1, <1>3 DEF RetryTick
<1>4. CASE Operations
  BY <1>4, OperationsQuiet
<1> QED
  BY <1>0, <1>1, <1>2, <1>3, <1>4
     DEF RetryOperations, TryScheduleRetry, RefuseRetry, DropRefused, ListDueRetries,
         SkipListedRetry, StopRelease, ReleaseDueRetry, CancelWithRetries, CancelWorkflow, vars

\* Nor do reclaims, the reports about effects, and the verdicts on them.
LEMMA EffectsQuiet ==
  ASSUME CoreOK, ListsInv, wf \in TerminalWorkflow, [EffectNext]_evars
  PROVE  Quiet
<1>0. wf \notin Undecided
  BY DEF TerminalWorkflow, Undecided
<1>1. ASSUME node' = node PROVE Quiet
  BY <1>1 DEF Quiet
<1>2. CASE (RetryOperations \/ RetryTick) /\ UNCHANGED effectVars
  BY <1>2, RetriesQuiet
<1>3. CASE ReclaimCertain
  BY <1>1, <1>3 DEF ReclaimCertain, ReclaimExpiredAttempt
<1>4. ASSUME NEW a \in Attempt, EnterDoubt(a) PROVE Quiet
  <2>1. node' = [node EXCEPT ![NodeOf(a)] = "IN_DOUBT"] /\ NodeOf(a) \in Node
    BY <1>4, EffectTypes DEF EnterDoubt, CompareAndSwapNodeRun
  <2> QED
    BY <2>1, OneNodeQuiet
<1>5. ASSUME NEW a \in Attempt, NEW w \in Worker, NEW late \in Late, ReclaimInDoubt(a, w, late)
      PROVE  Quiet
  <2>1. EnterDoubt(a)
    BY <1>5 DEF ReclaimInDoubt
  <2> QED
    BY <2>1, <1>4
<1>6. ASSUME NEW e \in Effect, NEW a \in Attempt, NEW fence \in Fence \cup {Unfenced}, NEW late \in Late,
             \/ PrepareEffect(e, a, fence, late)
             \/ MarkEffectDispatched(e, a, fence, late)
             \/ ConfirmEffect(e, a, fence, late)
             \/ FailEffect(e, a, fence, late)
             \/ MarkEffectInDoubt(e, a, fence, late)
      PROVE  Quiet
  <2>1. node' = node \/ EnterDoubt(a)
    BY <1>6 DEF PrepareEffect, MarkEffectDispatched, ConfirmEffect, FailEffect, ReportEffect,
                MarkEffectInDoubt, rvars, vars
  <2> QED
    BY <2>1, <1>1, <1>4
<1>7. ASSUME NEW e \in Effect, ReconcileEffect(e) PROVE Quiet
  <2>1. node' = node \/ ResolveReconciledNodeSuccess(Site[e])
    BY <1>7 DEF ReconcileEffect, ProviderConfirms, ProviderDenies
  <2>2. ASSUME ResolveReconciledNodeSuccess(Site[e]) PROVE Quiet
    <3>1. \A n \in Node : node'[n] \in {"SUCCEEDED", node[n]}
      BY <1>0, <2>2 DEF ResolveReconciledNodeSuccess
    <3> QED
      BY <3>1 DEF Quiet
  <2> QED
    BY <2>1, <2>2, <1>1
<1>8. ASSUME NEW e \in Effect, ResolveReconciledFailure(e) PROVE Quiet
  <2>1. node' = [node EXCEPT ![Site[e]] = "FAILED"] /\ Site[e] \in Node
    BY <1>8, EffectTypes DEF ResolveReconciledFailure, CompareAndSwapNodeRun
  <2> QED
    BY <2>1, OneNodeQuiet
<1>9. CASE UNCHANGED evars
  BY <1>1, <1>9 DEF evars, rvars, vars
<1> QED
  BY <1>0, <1>1, <1>2, <1>3, <1>5, <1>6, <1>7, <1>8, <1>9
     DEF EffectNext, AskProvider, ResolveReconciledRetry, rvars, vars

\* A row that says CONFIRMED or FAILED is not written again.
LEMMA VerdictsLast ==
  ASSUME RowsInv, BoundInv, EffectMove, NEW e \in Effect, effect[e].state \in {"CONFIRMED", "FAILED"}
  PROVE  effect'[e].state = effect[e].state /\ effect'[e].absent = effect[e].absent
<1> DEFINE Goal == effect'[e].state = effect[e].state /\ effect'[e].absent = effect[e].absent
<1>1. ASSUME NEW f \in Effect, NEW a \in Attempt, NEW fence \in Fence \cup {Unfenced}, NEW late \in Late,
             PrepareEffect(f, a, fence, late)
      PROVE  Goal
  <2>1. /\ effect'[f].state = IF Made(f) THEN effect[f].state ELSE "PREPARED"
        /\ \A g \in Effect \ {f} : effect'[g] = effect[g]
    BY <1>1, PrepareFacts
  <2>2. PICK state : effect' = [effect EXCEPT ![f] =
                       [state |-> state, last |-> a[2], absent |-> effect[f].absent]]
    BY <1>1 DEF PrepareEffect, PutEffectIntent
  <2>3. effect'[f].absent = effect[f].absent
    BY <2>2 DEF RowsInv
  <2> QED
    BY <2>1, <2>3 DEF Made
<1>2. ASSUME NEW f \in Effect, NEW a \in Attempt, NEW fence \in Fence \cup {Unfenced}, NEW late \in Late,
             MarkEffectDispatched(f, a, fence, late)
      PROVE  Goal
  <2>1. /\ effect[f].state \in {"PREPARED", "DISPATCHED"}
        /\ \A g \in Effect \ {f} : effect'[g] = effect[g]
    BY <1>2, MarkFacts
  <2> QED
    BY <2>1
<1>3. CASE Settling
  BY <1>3 DEF Settling
<1> QED
  BY <1>1, <1>2, <1>3 DEF EffectMove, Preparing, Marking

\* Evidence stands: a confirmed or failed effect is never changed by an answer
\* that comes late, and no verdict re-arms a node of a decided run.
\* (ReconcileEffect's second transaction and the Resolve calls' guards.)
THEOREM LateVerdicts == EffectSpec => EvidenceStands
<1>1. EffectInv /\ [EffectNext]_evars => [KeepsEvidence]_evars
  <2> SUFFICES ASSUME EffectInv, [EffectNext]_evars PROVE KeepsEvidence
    OBVIOUS
  <2>1. EffectMove
    BY EffectStep
  <2>2. \A e \in Effect : effect[e].state \in {"CONFIRMED", "FAILED"} =>
          effect'[e].state = effect[e].state /\ effect'[e].absent = effect[e].absent
    BY <2>1, VerdictsLast DEF EffectInv
  <2>3. wf \in TerminalWorkflow => Quiet
    BY EffectsQuiet DEF EffectInv, EngineInv
  <2> QED
    BY <2>2, <2>3 DEF KeepsEvidence, Quiet
<1> QED
  BY <1>1, EffectStart, EffectStep, PTL DEF EffectSpec, EvidenceStands
=============================================================================
