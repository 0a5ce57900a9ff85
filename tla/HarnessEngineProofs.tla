------------------------ MODULE HarnessEngineProofs ------------------------
(***************************************************************************)
(* Theorems about HarnessEngine, for every set of nodes and workers, every *)
(* set of definitions and every value of the bounds.                       *)
(***************************************************************************)
EXTENDS HarnessEngine, TLAPS, FiniteSetTheorems

\* TypeOK but for the dependencies: what the steps below rely on, and what a
\* mutation of the graph keeps too.
CoreOK ==
  /\ wf \in WorkflowState \cup {"ABSENT"}
  /\ node \in [Node -> NodeState \cup {"ABSENT"}]
  /\ remaining \in [Node -> Int]
  /\ ready \in SUBSET Node
  /\ progress \in [total : Nat, terminal : Nat, failed : Nat]
  /\ attempt \in [Attempt -> AttemptRow]
  /\ lease \in [Attempt -> [Epoch -> LeaseRow]]
  /\ worker \in [Worker -> {"ABSENT", "ACTIVE", "DRAINING", "LOST"}]
  /\ outcome \in [Attempt -> Fence \cup {NoOutcome, Unfenced}]

\* The rows an operation writes have the type of their table.
LEMMA RowTypes ==
  /\ \A w \in Worker, ttl \in 1..MaxTTL, late \in Late : CreateLease(w, ttl, late) \in LeaseRow
  /\ \A row \in LeaseRow, s \in {"RELEASED", "EXPIRED"} : CloseLease(row, s) \in LeaseRow
  /\ NoLease \in LeaseRow
  /\ NoAttempt \in AttemptRow
BY BoundsAssumption DEF CreateLease, CloseLease, LeaseRow, Late, NoLease, NoAttempt, AttemptRow

\* An attempt row keeps its type when its state changes.
LEMMA AttemptRowTypes ==
  \A row \in AttemptRow, s \in AttemptState : [row EXCEPT !.state = s] \in AttemptRow
BY DEF AttemptRow

\* The parts of a definition, and the sizes StartWorkflow stores.
LEMMA DefinitionTypes ==
  ASSUME NEW d \in Definitions
  PROVE  /\ d.nodes \in SUBSET Node
         /\ d.deps \in [Node -> SUBSET Node]
         /\ Cardinality(d.nodes) \in Nat
         /\ \A n \in Node : Cardinality(d.deps[n]) \in Nat
<1>1. /\ d.nodes \in SUBSET Node
      /\ d.deps \in [Node -> SUBSET Node]
      /\ IsFiniteSet(Node)
  BY DefinitionsAssumption
<1>2. \A S \in SUBSET Node : Cardinality(S) \in Nat
  BY <1>1, FS_Subset, FS_CardinalityType
<1> QED
  BY <1>1, <1>2

\* Every table keeps its type under every operation.
LEMMA TypeStep == CoreOK /\ [Next]_vars => CoreOK'
<1> SUFFICES ASSUME CoreOK, [Next]_vars PROVE CoreOK'
  OBVIOUS
<1> USE DEF CoreOK
<1>1. ASSUME NEW d \in Definitions, StartWorkflow(d) PROVE CoreOK'
  BY <1>1, DefinitionTypes DEF StartWorkflow, NodeState, WorkflowState
<1>2. ASSUME NEW w \in Worker, NEW state \in WorkerStates, RegisterWorker(w, state)
      PROVE CoreOK'
  BY <1>2, WorkerAssumption DEF RegisterWorker
<1>3. ASSUME NEW n \in Node, StartAttempt(n) PROVE CoreOK'
  BY <1>3, BoundsAssumption DEF StartAttempt, AttemptRow, NodeState, AttemptState, Attempt
<1>4. ASSUME NEW n \in Node, NEW w \in Worker, NEW ttl \in 1..MaxTTL, NEW late \in Late,
             ClaimNode(n, w, ttl, late)
      PROVE CoreOK'
  <2>1. PICK k \in 1..MaxAttempts :
          /\ attempt' = [attempt EXCEPT ![<<n, k>>] =
                           [state |-> "CLAIMED", worker |-> w, epoch |-> 1]]
          /\ lease' = [lease EXCEPT ![<<n, k>>][1] = CreateLease(w, ttl, late)]
    BY <1>4 DEF ClaimNode
  <2>2. 1 \in Epoch /\ 1 \in 0..MaxEpoch
    BY BoundsAssumption DEF Epoch
  <2>3. attempt' \in [Attempt -> AttemptRow]
    <3>1. [state |-> "CLAIMED", worker |-> w, epoch |-> 1] \in AttemptRow
      BY <2>2 DEF AttemptRow, AttemptState
    <3> QED
      BY <2>1, <3>1
  <2>4. lease' \in [Attempt -> [Epoch -> LeaseRow]]
    BY <2>1, <2>2, RowTypes
  <2>5. node' \in [Node -> NodeState \cup {"ABSENT"}] /\ ready' \in SUBSET Node
    BY <1>4 DEF ClaimNode, CompareAndSwapNodeRun, NodeState
  <2> QED
    BY <1>4, <2>3, <2>4, <2>5 DEF ClaimNode
<1>5. ASSUME NEW a \in Attempt, NEW w \in Worker, NEW ttl \in 1..MaxTTL, NEW late \in Late,
             ReclaimExpiredAttempt(a, w, ttl, late)
      PROVE CoreOK'
  <2>1. PICK e \in Epoch :
          /\ e < MaxEpoch
          /\ lease' = [lease EXCEPT ![a] = [f \in Epoch |->
                         IF f = e THEN CloseLease(lease[a][e], "EXPIRED")
                         ELSE IF f = e + 1 THEN CreateLease(w, ttl, late)
                         ELSE lease[a][f]]]
          /\ attempt' = [attempt EXCEPT ![a] =
                           [state |-> attempt[a].state, worker |-> w, epoch |-> e + 1]]
    BY <1>5 DEF ReclaimExpiredAttempt
  <2>2. e + 1 \in Epoch /\ e + 1 \in 0..MaxEpoch
    BY <2>1, BoundsAssumption DEF Epoch
  <2>3. attempt' \in [Attempt -> AttemptRow]
    BY <2>1, <2>2 DEF AttemptRow
  <2>4. lease' \in [Attempt -> [Epoch -> LeaseRow]]
    BY <2>1, <2>2, RowTypes
  <2> QED
    BY <1>5, <2>3, <2>4 DEF ReclaimExpiredAttempt
<1>6. ASSUME NEW a \in Attempt, NEW fence \in Fence, NEW late \in Late,
             StartClaimedAttempt(a, fence, late)
      PROVE CoreOK'
  <2>1. attempt' \in [Attempt -> AttemptRow]
    BY <1>6 DEF StartClaimedAttempt, AttemptRow, AttemptState
  <2>2. NodeOf(a) \in Node
    BY DEF Attempt, NodeOf
  <2> QED
    BY <1>6, <2>1, <2>2 DEF StartClaimedAttempt, CompareAndSwapNodeRun, NodeState
<1>7. ASSUME NEW a \in Attempt, NEW fence \in Fence, NEW late \in Late, NEW ttl \in 1..MaxTTL,
             HeartbeatLease(a, fence, ttl, late)
      PROVE CoreOK'
  <2>1. fence.epoch \in Epoch /\ ttl - late \in (-MaxLag)..MaxTTL
    BY BoundsAssumption DEF Fence, Late
  <2>2. lease' \in [Attempt -> [Epoch -> LeaseRow]]
    <3>1. lease[a][fence.epoch] \in LeaseRow
      BY <2>1
    <3>2. [lease[a][fence.epoch] EXCEPT !.left = ttl - late] \in LeaseRow
      BY <2>1, <3>1 DEF LeaseRow
    <3>3. lease' = [lease EXCEPT ![a] = [lease[a] EXCEPT ![fence.epoch] =
                       [lease[a][fence.epoch] EXCEPT !.left = ttl - late]]]
      BY <1>7 DEF HeartbeatLease
    <3> QED
      BY <2>1, <3>2, <3>3
  <2> QED
    BY <1>7, <2>2 DEF HeartbeatLease
<1>8. ASSUME NEW a \in Attempt, NEW fence \in Fence \cup {Unfenced}, NEW late \in Late,
             CompleteAttemptSuccess(a, fence, late)
      PROVE CoreOK'
  <2>1. attempt' \in [Attempt -> AttemptRow]
    <3>1. attempt' = [attempt EXCEPT ![a] = [attempt[a] EXCEPT !.state = "SUCCEEDED"]]
      BY <1>8 DEF CompleteAttemptSuccess
    <3>2. "SUCCEEDED" \in AttemptState
      BY DEF AttemptState
    <3> QED
      BY <3>1, <3>2, AttemptRowTypes
  <2>2. lease' \in [Attempt -> [Epoch -> LeaseRow]]
    <3>1. CASE fence = Unfenced
      BY <1>8, <3>1 DEF CompleteAttemptSuccess, ReleaseLease
    <3>2. CASE fence \in Fence
      <4>1. fence.epoch \in Epoch
        BY <3>2 DEF Fence
      <4> QED
        BY <1>8, <4>1, RowTypes DEF CompleteAttemptSuccess, ReleaseLease
    <3> QED
      BY <3>1, <3>2
  <2>3. progress' \in [total : Nat, terminal : Nat, failed : Nat]
    BY <1>8 DEF CompleteAttemptSuccess, IncrementWorkflowProgress
  <2>4. node' \in [Node -> NodeState \cup {"ABSENT"}] /\ ready' \in SUBSET Node
    <3>1. NodeOf(a) \in Node
      BY DEF Attempt, NodeOf
    <3> QED
      BY <1>8, <3>1 DEF CompleteAttemptSuccess, Dependents, CompareAndSwapNodeRun, NodeState
  <2>5. wf' \in WorkflowState \cup {"ABSENT"}
    BY <1>8 DEF CompleteAttemptSuccess, FinalizePauseIfDrained, WorkflowState
  <2>6. remaining' \in [Node -> Int]
    BY <1>8 DEF CompleteAttemptSuccess
  <2>7. outcome' \in [Attempt -> Fence \cup {NoOutcome, Unfenced}]
    BY <1>8 DEF CompleteAttemptSuccess
  <2>8. deps' = deps /\ worker' = worker
    BY <1>8 DEF CompleteAttemptSuccess
  <2> QED
    BY <2>1, <2>2, <2>3, <2>4, <2>5, <2>6, <2>7, <2>8
<1>9. ASSUME NEW a \in Attempt, NEW fence \in Fence \cup {Unfenced}, NEW late \in Late,
             CompleteAttemptFailure(a, fence, late)
      PROVE CoreOK'
  <2>1. attempt' \in [Attempt -> AttemptRow]
    <3>1. attempt' = [attempt EXCEPT ![a] = [attempt[a] EXCEPT !.state = "FAILED"]]
      BY <1>9 DEF CompleteAttemptFailure
    <3>2. "FAILED" \in AttemptState
      BY DEF AttemptState
    <3> QED
      BY <3>1, <3>2, AttemptRowTypes
  <2>2. lease' \in [Attempt -> [Epoch -> LeaseRow]]
    <3>1. CASE fence = Unfenced
      BY <1>9, <3>1 DEF CompleteAttemptFailure, ReleaseLease
    <3>2. CASE fence \in Fence
      <4>1. fence.epoch \in Epoch
        BY <3>2 DEF Fence
      <4> QED
        BY <1>9, <4>1, RowTypes DEF CompleteAttemptFailure, ReleaseLease
    <3> QED
      BY <3>1, <3>2
  <2>3. progress' \in [total : Nat, terminal : Nat, failed : Nat]
    BY <1>9 DEF CompleteAttemptFailure, IncrementWorkflowProgress
  <2>4. node' \in [Node -> NodeState \cup {"ABSENT"}] /\ ready' \in SUBSET Node
    <3>1. NodeOf(a) \in Node
      BY DEF Attempt, NodeOf
    <3> QED
      BY <1>9, <3>1 DEF CompleteAttemptFailure, Dependents, CompareAndSwapNodeRun, NodeState
  <2>5. wf' \in WorkflowState \cup {"ABSENT"}
    BY <1>9 DEF CompleteAttemptFailure, FinalizePauseIfDrained, WorkflowState
  <2>6. remaining' \in [Node -> Int]
    BY <1>9 DEF CompleteAttemptFailure
  <2>7. outcome' \in [Attempt -> Fence \cup {NoOutcome, Unfenced}]
    BY <1>9 DEF CompleteAttemptFailure
  <2>8. deps' = deps /\ worker' = worker
    BY <1>9 DEF CompleteAttemptFailure
  <2> QED
    BY <2>1, <2>2, <2>3, <2>4, <2>5, <2>6, <2>7, <2>8
<1>10. CASE PauseWorkflow
  BY <1>10 DEF PauseWorkflow, FinalizePauseIfDrained, WorkflowState
<1>11. CASE ResumeWorkflow
  BY <1>11 DEF ResumeWorkflow, WorkflowState
<1>12. CASE CancelWorkflow
  <2>1. CancelWorkflowRuntime /\ wf' = "CANCELLED" /\ UNCHANGED <<deps, remaining, worker, outcome>>
    BY <1>12 DEF CancelWorkflow
  <2>2. lease' \in [Attempt -> [Epoch -> LeaseRow]]
    BY <2>1, RowTypes DEF CancelWorkflowRuntime
  <2>3. attempt' \in [Attempt -> AttemptRow]
    <3>1. "CANCELLED" \in AttemptState
      BY DEF AttemptState
    <3> QED
      BY <2>1, <3>1, AttemptRowTypes DEF CancelWorkflowRuntime
  <2>4. /\ node' \in [Node -> NodeState \cup {"ABSENT"}]
        /\ ready' \in SUBSET Node
        /\ progress' \in [total : Nat, terminal : Nat, failed : Nat]
    BY <2>1 DEF CancelWorkflowRuntime, NodeState
  <2> QED
    BY <2>1, <2>2, <2>3, <2>4 DEF WorkflowState
<1>13. CASE Tick
  <2>1. ASSUME NEW a \in Attempt, NEW e \in Epoch, Ticking(a, e)
        PROVE  [lease[a][e] EXCEPT !.left = @ - 1] \in LeaseRow
    <3>1. lease[a][e].left - 1 \in (-MaxLag)..MaxTTL
      BY <2>1, BoundsAssumption DEF Ticking, Floor, LeaseRow
    <3>2. lease[a][e] \in LeaseRow
      OBVIOUS
    <3> QED
      BY <3>1, <3>2 DEF LeaseRow
  <2>2. lease' \in [Attempt -> [Epoch -> LeaseRow]]
    BY <1>13, <2>1 DEF Tick, TickLeases
  <2> QED
    BY <1>13, <2>2 DEF Tick, TickLeases
<1>14. CASE UNCHANGED vars
  BY <1>14 DEF vars
<1> QED
  BY <1>1, <1>2, <1>3, <1>4, <1>5, <1>6, <1>7, <1>8, <1>9, <1>10, <1>11, <1>12, <1>13, <1>14
     DEF Next, Operations, Reclaim

\* Type correctness of the whole database, in every reachable state.
THEOREM TypeCorrect == Spec => []TypeOK
<1> DEFINE DepsOK == deps \in [Node -> SUBSET Node]
<1>1. Init => CoreOK /\ DepsOK
  BY RowTypes DEF Init, CoreOK
<1>2. DepsOK /\ [Next]_vars => DepsOK'
  <2> SUFFICES ASSUME DepsOK, [Next]_vars PROVE DepsOK'
    OBVIOUS
  <2>1. ASSUME NEW d \in Definitions, StartWorkflow(d) PROVE DepsOK'
    BY <2>1, DefinitionTypes DEF StartWorkflow
  <2>2. ASSUME UNCHANGED deps PROVE DepsOK'
    BY <2>2
  <2> QED
    BY <2>1, <2>2
       DEF Next, Operations, Reclaim, RegisterWorker, StartAttempt, ClaimNode,
           StartClaimedAttempt, HeartbeatLease, CompleteAttemptSuccess, CompleteAttemptFailure,
           PauseWorkflow, ResumeWorkflow, ReclaimExpiredAttempt, CancelWorkflow, Tick, vars
<1>3. CoreOK /\ DepsOK => TypeOK
  BY DEF CoreOK, TypeOK
<1> HIDE DEF DepsOK
<1> QED
  BY <1>1, <1>2, <1>3, TypeStep, PTL DEF Spec

\* There are no node rows before the run is created.
Unborn == wf = "ABSENT" => \A n \in Node : node[n] = "ABSENT"

\* Every table has its type, and the leases are owned, before there is a run.
LEMMA Beginning == Init => CoreOK /\ Unborn /\ LeaseOwnership /\ FencedOutcome
BY RowTypes DEF Init, CoreOK, Unborn, LeaseOwnership, FencedOutcome, NoAttempt, NoLease, Live,
   LiveAttempt, Epoch

----------------------------------------------------------------------------
\* LeaseOwnership in two parts: which leases are held, and which are spent.
Held(b, e) ==
  /\ lease[b][e].state = "ACTIVE" <=> Live(b) /\ attempt[b].epoch = e
  /\ lease[b][e].state = "ACTIVE" => lease[b][e].worker = attempt[b].worker
  /\ e > attempt[b].epoch <=> lease[b][e].state = "ABSENT"
  /\ attempt[b].state = "ABSENT" => attempt[b] = NoAttempt

Spent(b, e) == e < attempt[b].epoch <=> lease[b][e].state = "EXPIRED"

HeldLeases == \A b \in Attempt, e \in Epoch : Held(b, e)

\* Each lease stays held by its owner, and spent when it was.
LEMMA LeaseStep ==
  ASSUME CoreOK, HeldLeases, [Next]_vars, NEW b \in Attempt, NEW e \in Epoch
  PROVE  Held(b, e)' /\ (Spent(b, e) => Spent(b, e)')
<1> DEFINE Owned(c, f) == Held(c, f)' /\ (Spent(c, f) => Spent(c, f)')
<1>0. \A c \in Attempt, f \in Epoch : Held(c, f)
  BY DEF HeldLeases
<1> USE <1>0 DEF CoreOK, AttemptRow, LeaseRow, Held, Spent
<1>u. lease'[b][e] = lease[b][e] /\ attempt'[b] = attempt[b] => Owned(b, e)
  BY DEF Live
<1>1. ASSUME NEW d \in Definitions, StartWorkflow(d) PROVE Owned(b, e)
  BY <1>1, <1>u DEF StartWorkflow
<1>2. ASSUME NEW w \in Worker, NEW state \in WorkerStates, RegisterWorker(w, state)
      PROVE Owned(b, e)
  BY <1>2, <1>u DEF RegisterWorker
<1>3. ASSUME NEW n \in Node, StartAttempt(n) PROVE Owned(b, e)
  <2>1. PICK k \in 1..MaxAttempts :
          /\ IsNextAttempt(n, k)
          /\ attempt' = [attempt EXCEPT ![<<n, k>>] =
                           [state |-> "RUNNING", worker |-> NoWorker, epoch |-> 0]]
    BY <1>3 DEF StartAttempt
  <2>2. <<n, k>> \in Attempt /\ attempt[<<n, k>>].state = "ABSENT"
    BY <2>1 DEF Attempt, IsNextAttempt, AttemptState
  <2>3. lease' = lease
    BY <1>3 DEF StartAttempt
  <2>4. CASE b # <<n, k>>
    BY <2>1, <2>3, <2>4, <1>u
  <2>5. CASE b = <<n, k>>
    BY <2>1, <2>2, <2>3, <2>5 DEF NoAttempt, Live, LiveAttempt, Epoch
  <2> QED
    BY <2>4, <2>5
<1>4. ASSUME NEW n \in Node, NEW w \in Worker, NEW ttl \in 1..MaxTTL, NEW late \in Late,
             ClaimNode(n, w, ttl, late)
      PROVE Owned(b, e)
  <2>1. PICK k \in 1..MaxAttempts :
          /\ IsNextAttempt(n, k)
          /\ attempt' = [attempt EXCEPT ![<<n, k>>] =
                           [state |-> "CLAIMED", worker |-> w, epoch |-> 1]]
          /\ lease' = [lease EXCEPT ![<<n, k>>][1] = CreateLease(w, ttl, late)]
    BY <1>4 DEF ClaimNode
  <2>2. <<n, k>> \in Attempt /\ attempt[<<n, k>>].state = "ABSENT" /\ 1 \in Epoch
    BY <2>1, BoundsAssumption DEF Attempt, IsNextAttempt, Epoch
  <2>3. CASE b # <<n, k>>
    BY <2>1, <2>3, <1>u
  <2>4. CASE b = <<n, k>>
    <3>1. attempt'[b] = [state |-> "CLAIMED", worker |-> w, epoch |-> 1]
      BY <2>1, <2>2, <2>4
    <3>2. lease'[b][e] = IF e = 1 THEN CreateLease(w, ttl, late) ELSE lease[b][e]
      BY <2>1, <2>2, <2>4
    <3>3. lease[b][e].state = "ABSENT"
      BY <2>2, <2>4 DEF NoAttempt, Epoch
    <3> QED
      BY <3>1, <3>2, <3>3 DEF CreateLease, Live, LiveAttempt, Epoch
  <2> QED
    BY <2>3, <2>4
<1>5. ASSUME NEW a \in Attempt, NEW w \in Worker, NEW ttl \in 1..MaxTTL, NEW late \in Late,
             ReclaimExpiredAttempt(a, w, ttl, late)
      PROVE Owned(b, e)
  <2>1. PICK f \in Epoch :
          /\ lease[a][f].state = "ACTIVE"
          /\ f < MaxEpoch
          /\ lease' = [lease EXCEPT ![a] = [g \in Epoch |->
                         IF g = f THEN CloseLease(lease[a][f], "EXPIRED")
                         ELSE IF g = f + 1 THEN CreateLease(w, ttl, late)
                         ELSE lease[a][g]]]
          /\ attempt' = [attempt EXCEPT ![a] =
                           [state |-> attempt[a].state, worker |-> w, epoch |-> f + 1]]
    BY <1>5 DEF ReclaimExpiredAttempt
  <2>2. f + 1 \in Epoch /\ Live(a) /\ attempt[a].epoch = f
    <3>1. f + 1 \in Epoch
      BY <2>1, BoundsAssumption DEF Epoch
    <3>2. Held(a, f)
      OBVIOUS
    <3> QED
      BY <2>1, <3>1, <3>2
  <2>3. CASE b # a
    BY <2>1, <2>3, <1>u
  <2>4. CASE b = a
    <3>1. attempt'[b] = [state |-> attempt[a].state, worker |-> w, epoch |-> f + 1]
      BY <2>1, <2>4
    <3>2. lease'[b][e] = IF e = f + 1 THEN CreateLease(w, ttl, late)
                         ELSE IF e = f THEN CloseLease(lease[b][e], "EXPIRED")
                         ELSE lease[b][e]
      BY <2>1, <2>2, <2>4 DEF Epoch
    <3> QED
      BY <2>1, <2>2, <2>4, <3>1, <3>2 DEF CreateLease, CloseLease, Live, LiveAttempt, Epoch
  <2> QED
    BY <2>3, <2>4
<1>6. ASSUME NEW a \in Attempt, NEW fence \in Fence, NEW late \in Late,
             StartClaimedAttempt(a, fence, late)
      PROVE Owned(b, e)
  BY <1>6 DEF StartClaimedAttempt, Live, LiveAttempt, NoAttempt
<1>7. ASSUME NEW a \in Attempt, NEW fence \in Fence, NEW late \in Late, NEW ttl \in 1..MaxTTL,
             HeartbeatLease(a, fence, ttl, late)
      PROVE Owned(b, e)
  BY <1>7 DEF HeartbeatLease, Fence, Live
<1>8. ASSUME NEW a \in Attempt, NEW fence \in Fence \cup {Unfenced}, NEW late \in Late,
             CompleteAttemptSuccess(a, fence, late)
      PROVE Owned(b, e)
  <2>1. /\ attempt[a].state = "RUNNING"
        /\ attempt' = [attempt EXCEPT ![a].state = "SUCCEEDED"]
        /\ AuthorizeCompletion(a, fence, late)
        /\ ReleaseLease(a, fence)
    BY <1>8 DEF CompleteAttemptSuccess
  <2>2. CASE b # a
    BY <2>1, <2>2, <1>u DEF ReleaseLease
  <2>3. CASE b = a
    <3>1. /\ attempt'[b].state = "SUCCEEDED"
          /\ attempt'[b].epoch = attempt[b].epoch
          /\ attempt'[b].worker = attempt[b].worker
      BY <2>1, <2>3
    <3>2. CASE fence = Unfenced
      <4>1. lease' = lease /\ attempt[b].epoch = 0
        BY <2>1, <2>3, <3>2 DEF AuthorizeCompletion, ReleaseLease
      <4> QED
        BY <4>1, <3>1, <2>1, <2>3 DEF Live, LiveAttempt, Epoch
    <3>3. CASE fence # Unfenced
      <4>1. fence.epoch \in Epoch /\ fence.epoch = attempt[b].epoch
        BY <2>1, <2>3, <3>3 DEF AuthorizeCompletion, AuthorizeLease, Fence
      <4>2. lease'[b][e] = IF e = fence.epoch THEN CloseLease(lease[b][e], "RELEASED")
                           ELSE lease[b][e]
        BY <2>1, <2>3, <3>3, <4>1 DEF ReleaseLease
      <4> QED
        BY <4>1, <4>2, <3>1, <2>1, <2>3 DEF CloseLease, Live, LiveAttempt, Epoch
    <3> QED
      BY <3>2, <3>3
  <2> QED
    BY <2>2, <2>3
<1>9. ASSUME NEW a \in Attempt, NEW fence \in Fence \cup {Unfenced}, NEW late \in Late,
             CompleteAttemptFailure(a, fence, late)
      PROVE Owned(b, e)
  <2>1. /\ attempt[a].state = "RUNNING"
        /\ attempt' = [attempt EXCEPT ![a].state = "FAILED"]
        /\ AuthorizeCompletion(a, fence, late)
        /\ ReleaseLease(a, fence)
    BY <1>9 DEF CompleteAttemptFailure
  <2>2. CASE b # a
    BY <2>1, <2>2, <1>u DEF ReleaseLease
  <2>3. CASE b = a
    <3>1. /\ attempt'[b].state = "FAILED"
          /\ attempt'[b].epoch = attempt[b].epoch
          /\ attempt'[b].worker = attempt[b].worker
      BY <2>1, <2>3
    <3>2. CASE fence = Unfenced
      <4>1. lease' = lease /\ attempt[b].epoch = 0
        BY <2>1, <2>3, <3>2 DEF AuthorizeCompletion, ReleaseLease
      <4> QED
        BY <4>1, <3>1, <2>1, <2>3 DEF Live, LiveAttempt, Epoch
    <3>3. CASE fence # Unfenced
      <4>1. fence.epoch \in Epoch /\ fence.epoch = attempt[b].epoch
        BY <2>1, <2>3, <3>3 DEF AuthorizeCompletion, AuthorizeLease, Fence
      <4>2. lease'[b][e] = IF e = fence.epoch THEN CloseLease(lease[b][e], "RELEASED")
                           ELSE lease[b][e]
        BY <2>1, <2>3, <3>3, <4>1 DEF ReleaseLease
      <4> QED
        BY <4>1, <4>2, <3>1, <2>1, <2>3 DEF CloseLease, Live, LiveAttempt, Epoch
    <3> QED
      BY <3>2, <3>3
  <2> QED
    BY <2>2, <2>3
<1>10. CASE PauseWorkflow \/ ResumeWorkflow
  BY <1>10, <1>u DEF PauseWorkflow, ResumeWorkflow
<1>11. CASE CancelWorkflow
  BY <1>11 DEF CancelWorkflow, CancelWorkflowRuntime, CloseLease, Live, LiveAttempt, NoAttempt
<1>12. CASE Tick
  BY <1>12 DEF Tick, TickLeases, Ticking, Live
<1>13. CASE UNCHANGED vars
  BY <1>13, <1>u DEF vars
<1> QED
  BY <1>1, <1>2, <1>3, <1>4, <1>5, <1>6, <1>7, <1>8, <1>9, <1>10, <1>11, <1>12, <1>13 DEF Next, Operations, Reclaim

\* LeaseOwnership is these two parts.
LEMMA OwnershipParts ==
  LeaseOwnership <=> HeldLeases /\ \A b \in Attempt, e \in Epoch : Spent(b, e)
BY DEF LeaseOwnership, HeldLeases, Held, Spent

\* LeaseOwnership is inductive, and so is its first part alone.
LEMMA OwnershipStep == CoreOK /\ LeaseOwnership /\ [Next]_vars => LeaseOwnership'
<1>1. LeaseOwnership' <=> HeldLeases' /\ \A b \in Attempt, e \in Epoch : Spent(b, e)'
  BY DEF LeaseOwnership, HeldLeases, Held, Spent
<1> QED
  BY <1>1, OwnershipParts, LeaseStep DEF HeldLeases

\* Every live attempt that was claimed is owned through exactly one ACTIVE
\* lease, whatever workers, clocks and users do.
THEOREM OwnershipCorrect == Spec => []LeaseOwnership
<1>1. CoreOK /\ LeaseOwnership /\ [Next]_vars => (CoreOK /\ LeaseOwnership)'
  BY TypeStep, OwnershipStep
<1> QED
  BY <1>1, Beginning, PTL DEF Spec

----------------------------------------------------------------------------
\* A completion, whoever calls it, carries the token of the attempt's last
\* grant, closes that lease and touches no other row of the two tables.
LEMMA CompletionFacts ==
  ASSUME CoreOK,
         NEW a \in Attempt, NEW fence \in Fence \cup {Unfenced}, NEW late \in Late,
         \/ CompleteAttemptSuccess(a, fence, late)
         \/ CompleteAttemptFailure(a, fence, late)
  PROVE  /\ attempt[a].state = "RUNNING"
         /\ \E s \in {"SUCCEEDED", "FAILED"} : attempt' = [attempt EXCEPT ![a].state = s]
         /\ fence = [worker |-> attempt[a].worker, epoch |-> attempt[a].epoch]
         /\ outcome' = [outcome EXCEPT ![a] = fence]
         /\ \A b \in Attempt \ {a} : lease'[b] = lease[b]
         /\ \A e \in Epoch : e # attempt[a].epoch => lease'[a][e] = lease[a][e]
         /\ \A e \in Epoch : e = attempt[a].epoch => lease'[a][e].state = "RELEASED"
<1> USE DEF CoreOK, AttemptRow
<1>1. /\ attempt[a].state = "RUNNING"
      /\ \E s \in {"SUCCEEDED", "FAILED"} : attempt' = [attempt EXCEPT ![a].state = s]
      /\ outcome' = [outcome EXCEPT ![a] = fence]
      /\ AuthorizeCompletion(a, fence, late)
      /\ ReleaseLease(a, fence)
  BY DEF CompleteAttemptSuccess, CompleteAttemptFailure
<1>2. CASE fence = Unfenced
  <2>1. attempt[a].epoch = 0 /\ attempt[a].worker = NoWorker /\ lease' = lease
    BY <1>1, <1>2 DEF AuthorizeCompletion, ReleaseLease
  <2>2. fence = [worker |-> attempt[a].worker, epoch |-> attempt[a].epoch]
    BY <1>2, <2>1 DEF Unfenced
  <2>3. \A e \in Epoch : e # attempt[a].epoch
    BY <2>1 DEF Epoch
  <2> QED
    BY <1>1, <2>1, <2>2, <2>3
<1>3. CASE fence # Unfenced
  <2>1. /\ fence \in Fence
        /\ fence.worker = attempt[a].worker
        /\ fence.epoch = attempt[a].epoch
        /\ fence.epoch \in Epoch
        /\ lease' = [lease EXCEPT ![a][fence.epoch] = CloseLease(lease[a][fence.epoch], "RELEASED")]
    BY <1>1, <1>3 DEF AuthorizeCompletion, AuthorizeLease, ReleaseLease, Fence
  <2>2. fence = [worker |-> attempt[a].worker, epoch |-> attempt[a].epoch]
    BY <2>1 DEF Fence
  <2> QED
    BY <1>1, <2>1, <2>2 DEF CloseLease
<1> QED
  BY <1>2, <1>3

\* A recorded outcome keeps the token it was accepted with.
LEMMA FencedStep ==
  CoreOK /\ LeaseOwnership /\ FencedOutcome /\ [Next]_vars => FencedOutcome'
<1> SUFFICES ASSUME CoreOK, LeaseOwnership, FencedOutcome, [Next]_vars,
                    NEW b \in Attempt, attempt'[b].state \in {"SUCCEEDED", "FAILED"}
             PROVE  /\ outcome'[b] = [worker |-> attempt'[b].worker, epoch |-> attempt'[b].epoch]
                    /\ attempt'[b].epoch > 0 => lease'[b][attempt'[b].epoch].state = "RELEASED"
  BY DEF FencedOutcome
<1> DEFINE Goal == /\ outcome'[b] = [worker |-> attempt'[b].worker, epoch |-> attempt'[b].epoch]
                   /\ attempt'[b].epoch > 0 => lease'[b][attempt'[b].epoch].state = "RELEASED"
<1> USE DEF CoreOK, AttemptRow
<1>e. attempt[b].epoch > 0 => attempt[b].epoch \in Epoch
  BY DEF Epoch
<1>u. ASSUME attempt'[b] = attempt[b], outcome'[b] = outcome[b],
             \A e \in Epoch : lease[b][e].state = "RELEASED" => lease'[b][e].state = "RELEASED"
      PROVE  Goal
  BY <1>u, <1>e DEF FencedOutcome
<1>1. ASSUME NEW d \in Definitions, StartWorkflow(d) PROVE Goal
  BY <1>1, <1>u DEF StartWorkflow
<1>2. ASSUME NEW w \in Worker, NEW state \in WorkerStates, RegisterWorker(w, state)
      PROVE Goal
  BY <1>2, <1>u DEF RegisterWorker
<1>3. ASSUME NEW n \in Node, StartAttempt(n) PROVE Goal
  <2>1. PICK k \in 1..MaxAttempts :
          attempt' = [attempt EXCEPT ![<<n, k>>] =
                        [state |-> "RUNNING", worker |-> NoWorker, epoch |-> 0]]
    BY <1>3 DEF StartAttempt
  <2>2. b # <<n, k>>
    BY <2>1
  <2> QED
    BY <1>3, <2>1, <2>2, <1>u DEF StartAttempt
<1>4. ASSUME NEW n \in Node, NEW w \in Worker, NEW ttl \in 1..MaxTTL, NEW late \in Late,
             ClaimNode(n, w, ttl, late)
      PROVE Goal
  <2>1. PICK k \in 1..MaxAttempts :
          /\ attempt' = [attempt EXCEPT ![<<n, k>>] =
                           [state |-> "CLAIMED", worker |-> w, epoch |-> 1]]
          /\ lease' = [lease EXCEPT ![<<n, k>>][1] = CreateLease(w, ttl, late)]
    BY <1>4 DEF ClaimNode
  <2>2. b # <<n, k>>
    BY <2>1
  <2> QED
    BY <1>4, <2>1, <2>2, <1>u DEF ClaimNode
<1>5. ASSUME NEW a \in Attempt, NEW w \in Worker, NEW ttl \in 1..MaxTTL, NEW late \in Late,
             ReclaimExpiredAttempt(a, w, ttl, late)
      PROVE Goal
  <2>1. PICK e \in Epoch :
          /\ lease' = [lease EXCEPT ![a] = [f \in Epoch |->
                         IF f = e THEN CloseLease(lease[a][e], "EXPIRED")
                         ELSE IF f = e + 1 THEN CreateLease(w, ttl, late)
                         ELSE lease[a][f]]]
          /\ attempt' = [attempt EXCEPT ![a] =
                           [state |-> attempt[a].state, worker |-> w, epoch |-> e + 1]]
    BY <1>5 DEF ReclaimExpiredAttempt
  <2>2. b # a
    BY <2>1, <1>5 DEF ReclaimExpiredAttempt, Live, LiveAttempt
  <2> QED
    BY <1>5, <2>1, <2>2, <1>u DEF ReclaimExpiredAttempt
<1>6. ASSUME NEW a \in Attempt, NEW fence \in Fence, NEW late \in Late,
             StartClaimedAttempt(a, fence, late)
      PROVE Goal
  <2>1. b # a
    BY <1>6 DEF StartClaimedAttempt
  <2> QED
    BY <1>6, <2>1, <1>u DEF StartClaimedAttempt
<1>7. ASSUME NEW a \in Attempt, NEW fence \in Fence, NEW late \in Late, NEW ttl \in 1..MaxTTL,
             HeartbeatLease(a, fence, ttl, late)
      PROVE Goal
  BY <1>7, <1>u DEF HeartbeatLease, Fence
<1>8. ASSUME NEW a \in Attempt, NEW fence \in Fence \cup {Unfenced}, NEW late \in Late,
             \/ CompleteAttemptSuccess(a, fence, late)
             \/ CompleteAttemptFailure(a, fence, late)
      PROVE Goal
  <2>0. /\ \E s \in {"SUCCEEDED", "FAILED"} : attempt' = [attempt EXCEPT ![a].state = s]
        /\ outcome' = [outcome EXCEPT ![a] =
                         [worker |-> attempt[a].worker, epoch |-> attempt[a].epoch]]
        /\ b # a => lease'[b] = lease[b]
        /\ \A e \in Epoch : e = attempt[a].epoch => lease'[a][e].state = "RELEASED"
    <3>1. /\ \E s \in {"SUCCEEDED", "FAILED"} : attempt' = [attempt EXCEPT ![a].state = s]
          /\ fence = [worker |-> attempt[a].worker, epoch |-> attempt[a].epoch]
          /\ outcome' = [outcome EXCEPT ![a] = fence]
          /\ \A c \in Attempt \ {a} : lease'[c] = lease[c]
          /\ \A e \in Epoch : e = attempt[a].epoch => lease'[a][e].state = "RELEASED"
      <4>1. CoreOK /\ LeaseOwnership
        OBVIOUS
      <4> QED
        BY ONLY <1>8, <4>1, CompletionFacts
    <3> QED
      BY <3>1
  <2>1. CASE b = a
    <3>1. /\ attempt'[a].epoch = attempt[a].epoch
          /\ attempt'[a].worker = attempt[a].worker
          /\ outcome'[a] = [worker |-> attempt[a].worker, epoch |-> attempt[a].epoch]
      BY <2>0
    <3> QED
      BY <2>0, <2>1, <3>1, <1>e
  <2>2. CASE b # a
    BY <2>0, <2>2, <1>u
  <2> QED
    BY <2>1, <2>2
<1>9. CASE PauseWorkflow \/ ResumeWorkflow
  BY <1>9, <1>u DEF PauseWorkflow, ResumeWorkflow
<1>10. CASE CancelWorkflow
  <2>1. /\ attempt'[b] = IF Live(b) THEN [attempt[b] EXCEPT !.state = "CANCELLED"] ELSE attempt[b]
        /\ outcome' = outcome
    BY <1>10 DEF CancelWorkflow, CancelWorkflowRuntime
  <2>2. attempt'[b] = attempt[b]
    BY <2>1
  <2>3. \A e \in Epoch : lease[b][e].state = "RELEASED" => lease'[b][e].state = "RELEASED"
    BY <1>10 DEF CancelWorkflow, CancelWorkflowRuntime
  <2> QED
    BY <2>1, <2>2, <2>3, <1>u
<1>11. CASE Tick
  BY <1>11, <1>u DEF Tick, TickLeases, Ticking
<1>12. CASE UNCHANGED vars
  BY <1>12, <1>u DEF vars
<1> QED
  BY <1>1, <1>2, <1>3, <1>4, <1>5, <1>6, <1>7, <1>8, <1>9, <1>10, <1>11, <1>12 DEF Next, Operations, Reclaim

\* A worker that lost its lease never decides an attempt: the result that was
\* recorded came with the attempt's last worker and epoch.
THEOREM OutcomesAreFenced == Spec => []FencedOutcome
<1>1. CoreOK /\ LeaseOwnership /\ FencedOutcome /\ [Next]_vars
        => (CoreOK /\ LeaseOwnership /\ FencedOutcome)'
  BY TypeStep, OwnershipStep, FencedStep
<1> QED
  BY <1>1, Beginning, PTL DEF Spec

----------------------------------------------------------------------------
\* The seven ways a step treats the attempts: it leaves them alone, opens one
\* without an owner, claims one, starts one, gives one a new owner, completes
\* one with the token of its last grant, or cancels all live ones.
Opens(a) ==
  /\ wf = "RUNNING"
  /\ attempt[a] = NoAttempt
  /\ attempt' = [attempt EXCEPT ![a] = [state |-> "RUNNING", worker |-> NoWorker, epoch |-> 0]]
  /\ outcome' = outcome

Claims(a, w) ==
  /\ wf = "RUNNING"
  /\ attempt[a] = NoAttempt
  /\ attempt' = [attempt EXCEPT ![a] = [state |-> "CLAIMED", worker |-> w, epoch |-> 1]]
  /\ outcome' = outcome

Starts(a) ==
  /\ attempt[a].state = "CLAIMED"
  /\ attempt' = [attempt EXCEPT ![a].state = "RUNNING"]
  /\ outcome' = outcome

Reowns(a, w) ==
  /\ attempt[a].state \in LiveAttempt
  /\ attempt[a].epoch > 0
  /\ attempt' = [attempt EXCEPT ![a] =
                   [state |-> attempt[a].state, worker |-> w, epoch |-> attempt[a].epoch + 1]]
  /\ outcome' = outcome

Decides(a, s) ==
  /\ attempt[a].state = "RUNNING"
  /\ attempt' = [attempt EXCEPT ![a].state = s]
  /\ outcome' = [outcome EXCEPT ![a] = [worker |-> attempt[a].worker, epoch |-> attempt[a].epoch]]

Cancels ==
  /\ attempt' = [a \in Attempt |->
                   IF attempt[a].state \in LiveAttempt
                     THEN [attempt[a] EXCEPT !.state = "CANCELLED"] ELSE attempt[a]]
  /\ outcome' = outcome

AttemptMove ==
  \/ UNCHANGED <<attempt, outcome>>
  \/ \E a \in Attempt : Opens(a) \/ Starts(a)
  \/ \E a \in Attempt, w \in Worker : Claims(a, w) \/ Reowns(a, w)
  \/ \E a \in Attempt, s \in {"SUCCEEDED", "FAILED"} : Decides(a, s)
  \/ Cancels

\* Every step of the engine is one of these moves of every attempt.
LEMMA AttemptMoves == CoreOK /\ HeldLeases /\ [Next]_vars => AttemptMove
<1> SUFFICES ASSUME CoreOK, HeldLeases, [Next]_vars PROVE AttemptMove
  OBVIOUS
<1>1. ASSUME NEW d \in Definitions, StartWorkflow(d) PROVE AttemptMove
  BY <1>1 DEF StartWorkflow, AttemptMove
<1>2. ASSUME NEW w \in Worker, NEW state \in WorkerStates, RegisterWorker(w, state)
      PROVE AttemptMove
  BY <1>2 DEF RegisterWorker, AttemptMove
<1>0. \A n \in Node, k \in 1..MaxAttempts :
        IsNextAttempt(n, k) => <<n, k>> \in Attempt /\ attempt[<<n, k>>] = NoAttempt
  <2> SUFFICES ASSUME NEW n \in Node, NEW k \in 1..MaxAttempts, IsNextAttempt(n, k)
               PROVE  <<n, k>> \in Attempt /\ attempt[<<n, k>>] = NoAttempt
    OBVIOUS
  <2>1. <<n, k>> \in Attempt /\ attempt[<<n, k>>].state = "ABSENT"
    BY DEF Attempt, IsNextAttempt
  <2>2. 1 \in Epoch
    BY BoundsAssumption DEF Epoch
  <2> QED
    BY <2>1, <2>2 DEF HeldLeases, Held
<1>3. ASSUME NEW n \in Node, StartAttempt(n) PROVE AttemptMove
  BY <1>3, <1>0 DEF StartAttempt, AttemptMove, Opens
<1>4. ASSUME NEW n \in Node, NEW w \in Worker, NEW ttl \in 1..MaxTTL, NEW late \in Late,
             ClaimNode(n, w, ttl, late)
      PROVE AttemptMove
  <2>1. PICK k \in 1..MaxAttempts :
          /\ IsNextAttempt(n, k)
          /\ attempt' = [attempt EXCEPT ![<<n, k>>] =
                           [state |-> "CLAIMED", worker |-> w, epoch |-> 1]]
    BY <1>4 DEF ClaimNode
  <2>2. wf = "RUNNING" /\ outcome' = outcome
    BY <1>4 DEF ClaimNode
  <2>3. Claims(<<n, k>>, w)
    BY <2>1, <2>2, <1>0 DEF Claims
  <2>4. <<n, k>> \in Attempt
    BY <2>1, <1>0
  <2> QED
    BY <2>3, <2>4 DEF AttemptMove
<1>5. ASSUME NEW a \in Attempt, NEW w \in Worker, NEW ttl \in 1..MaxTTL, NEW late \in Late,
             ReclaimExpiredAttempt(a, w, ttl, late)
      PROVE AttemptMove
  <2>1. PICK e \in Epoch :
          /\ lease[a][e].state = "ACTIVE"
          /\ attempt' = [attempt EXCEPT ![a] =
                           [state |-> attempt[a].state, worker |-> w, epoch |-> e + 1]]
    BY <1>5 DEF ReclaimExpiredAttempt
  <2>2. attempt[a].epoch = e /\ e > 0 /\ attempt[a].state \in LiveAttempt
    BY <2>1 DEF HeldLeases, Held, Live, Epoch
  <2> QED
    BY <1>5, <2>1, <2>2 DEF ReclaimExpiredAttempt, AttemptMove, Reowns
<1>6. ASSUME NEW a \in Attempt, NEW fence \in Fence, NEW late \in Late,
             StartClaimedAttempt(a, fence, late)
      PROVE AttemptMove
  BY <1>6 DEF StartClaimedAttempt, AttemptMove, Starts
<1>7. ASSUME NEW a \in Attempt, NEW fence \in Fence, NEW late \in Late, NEW ttl \in 1..MaxTTL,
             HeartbeatLease(a, fence, ttl, late)
      PROVE AttemptMove
  BY <1>7 DEF HeartbeatLease, AttemptMove
<1>8. ASSUME NEW a \in Attempt, NEW fence \in Fence \cup {Unfenced}, NEW late \in Late,
             \/ CompleteAttemptSuccess(a, fence, late)
             \/ CompleteAttemptFailure(a, fence, late)
      PROVE AttemptMove
  BY <1>8, CompletionFacts DEF AttemptMove, Decides
<1>9. CASE PauseWorkflow \/ ResumeWorkflow
  BY <1>9 DEF PauseWorkflow, ResumeWorkflow, AttemptMove
<1>10. CASE CancelWorkflow
  BY <1>10 DEF CancelWorkflow, CancelWorkflowRuntime, AttemptMove, Cancels, Live
<1>11. CASE Tick
  BY <1>11 DEF Tick, TickLeases, AttemptMove
<1>12. CASE UNCHANGED vars
  BY <1>12 DEF vars, AttemptMove
<1> QED
  BY <1>1, <1>2, <1>3, <1>4, <1>5, <1>6, <1>7, <1>8, <1>9, <1>10, <1>11, <1>12 DEF Next, Operations, Reclaim

\* Seen without leases and clocks, a run that does not exist has granted nothing.
LEMMA FencingStart == Init => Fencing!Init
<1> SUFFICES ASSUME Init PROVE Fencing!Init
  OBVIOUS
<1>1. attempt = [a \in Attempt |-> NoAttempt] /\ outcome = [a \in Attempt |-> NoOutcome]
  BY DEF Init
<1> QED
  <2>v. Verdict("ABSENT") = "UNUSED"
    BY DEF Verdict, LiveAttempt
  <2>1. \A a \in Attempt : /\ attempt[a].worker = NoWorker
                           /\ attempt[a].epoch = 0
                           /\ attempt[a].state = "ABSENT"
    BY <1>1 DEF NoAttempt
  <2>2. outcome = [a \in Attempt |-> Fencing!NoGrant]
    BY <1>1 DEF NoOutcome, Fencing!NoGrant
  <2> QED
    BY <2>v, <2>1, <2>2 DEF Fencing!Init

\* Seen without leases and clocks, every step is one of AttemptFencing.
LEMMA FencingMoves == CoreOK /\ LeaseOwnership /\ [Next]_vars => [Fencing!Next]_Fencing!vars
<1> SUFFICES ASSUME CoreOK, LeaseOwnership, AttemptMove
             PROVE  [Fencing!Next]_Fencing!vars
  BY AttemptMoves, OwnershipParts
<1> USE DEF CoreOK, AttemptRow
<1>v. /\ Verdict("ABSENT") = "UNUSED"
      /\ \A s \in LiveAttempt : Verdict(s) = "OPEN"
      /\ Verdict("SUCCEEDED") = "CLOSED" /\ Verdict("FAILED") = "CLOSED"
  BY DEF Verdict, LiveAttempt
<1>1. CASE UNCHANGED <<attempt, outcome>>
  BY <1>1 DEF Fencing!vars
<1>2. ASSUME NEW a \in Attempt, Opens(a) PROVE Fencing!OpenUnowned(a)
  <2>1. /\ attempt[a].state = "ABSENT"
        /\ attempt[a].worker = NoWorker
        /\ attempt[a].epoch = 0
    BY <1>2 DEF Opens, NoAttempt
  <2>2. \A b \in Attempt : /\ attempt'[b].worker = attempt[b].worker
                           /\ attempt'[b].epoch = attempt[b].epoch
                           /\ attempt'[b].state = IF b = a THEN "RUNNING" ELSE attempt[b].state
    BY <1>2, <2>1 DEF Opens
  <2>3. Verdict("RUNNING") = "OPEN" /\ outcome' = outcome
    BY <1>2, <1>v DEF LiveAttempt, Opens
  <2>4. /\ [b \in Attempt |-> Verdict(attempt'[b].state)]
             = [[b \in Attempt |-> Verdict(attempt[b].state)] EXCEPT ![a] = "OPEN"]
        /\ Verdict(attempt[a].state) = "UNUSED"
    BY ONLY <2>1, <2>2, <2>3, <1>v, a \in Attempt
  <2>5. /\ [b \in Attempt |-> attempt'[b].worker] = [b \in Attempt |-> attempt[b].worker]
        /\ [b \in Attempt |-> attempt'[b].epoch] = [b \in Attempt |-> attempt[b].epoch]
    BY ONLY <2>2
  <2> QED
    BY ONLY <2>3, <2>4, <2>5, a \in Attempt DEF Fencing!OpenUnowned
<1>3. ASSUME NEW a \in Attempt, Starts(a) PROVE UNCHANGED Fencing!vars
  BY <1>3 DEF Starts, Fencing!vars, Verdict, LiveAttempt
<1>4. ASSUME NEW a \in Attempt, NEW w \in Worker, Claims(a, w) PROVE Fencing!Claim(a, w)
  <2>1. attempt[a].state = "ABSENT"
    BY <1>4 DEF Claims, NoAttempt
  <2>2. \A b \in Attempt : /\ attempt'[b].worker = IF b = a THEN w ELSE attempt[b].worker
                           /\ attempt'[b].epoch = IF b = a THEN 1 ELSE attempt[b].epoch
                           /\ attempt'[b].state = IF b = a THEN "CLAIMED" ELSE attempt[b].state
    BY <1>4 DEF Claims
  <2>3. Verdict("CLAIMED") = "OPEN" /\ outcome' = outcome
    BY <1>4, <1>v DEF LiveAttempt, Claims
  <2>4. /\ [b \in Attempt |-> Verdict(attempt'[b].state)]
             = [[b \in Attempt |-> Verdict(attempt[b].state)] EXCEPT ![a] = "OPEN"]
        /\ Verdict(attempt[a].state) = "UNUSED"
    BY ONLY <2>1, <2>2, <2>3, <1>v, a \in Attempt
  <2>5. /\ [b \in Attempt |-> attempt'[b].worker]
             = [[b \in Attempt |-> attempt[b].worker] EXCEPT ![a] = w]
        /\ [b \in Attempt |-> attempt'[b].epoch]
             = [[b \in Attempt |-> attempt[b].epoch] EXCEPT ![a] = 1]
    BY ONLY <2>2, a \in Attempt
  <2> QED
    BY ONLY <2>3, <2>4, <2>5, a \in Attempt DEF Fencing!Claim
<1>5. ASSUME NEW a \in Attempt, NEW w \in Worker, Reowns(a, w) PROVE Fencing!Regrant(a, w)
  BY <1>5 DEF Reowns, Fencing!Regrant, Verdict, LiveAttempt
<1>6. ASSUME NEW a \in Attempt, NEW s \in {"SUCCEEDED", "FAILED"}, Decides(a, s)
      PROVE  Fencing!Close(a)
  <2>1. attempt[a].state \in LiveAttempt /\ Verdict(s) = "CLOSED"
    BY <1>6, <1>v DEF Decides, LiveAttempt
  <2>2. \A b \in Attempt : /\ attempt'[b].worker = attempt[b].worker
                           /\ attempt'[b].epoch = attempt[b].epoch
                           /\ attempt'[b].state = IF b = a THEN s ELSE attempt[b].state
    BY <1>6 DEF Decides
  <2>3. outcome' = [outcome EXCEPT ![a] =
                      [worker |-> attempt[a].worker, epoch |-> attempt[a].epoch]]
    BY <1>6 DEF Decides
  <2>4. /\ [b \in Attempt |-> Verdict(attempt'[b].state)]
             = [[b \in Attempt |-> Verdict(attempt[b].state)] EXCEPT ![a] = "CLOSED"]
        /\ Verdict(attempt[a].state) = "OPEN"
    BY ONLY <2>1, <2>2, <1>v, a \in Attempt
  <2>5. /\ [b \in Attempt |-> attempt'[b].worker] = [b \in Attempt |-> attempt[b].worker]
        /\ [b \in Attempt |-> attempt'[b].epoch] = [b \in Attempt |-> attempt[b].epoch]
    BY ONLY <2>2
  <2> QED
    BY ONLY <2>3, <2>4, <2>5, a \in Attempt DEF Fencing!Close
<1>7. CASE Cancels
  BY <1>7 DEF Cancels, Fencing!WithdrawAll, Fencing!Next, Verdict, LiveAttempt
<1> QED
  BY <1>1, <1>2, <1>3, <1>4, <1>5, <1>6, <1>7 DEF AttemptMove, Fencing!Next

\* Leases implement fencing tokens: seen without leases and clocks, the engine
\* only ever lets the holder of an attempt's latest grant close it.
THEOREM FencingRefinement == Spec => ImplementsFencing
<1>1. CoreOK /\ LeaseOwnership /\ [Next]_vars => (CoreOK /\ LeaseOwnership)'
  BY TypeStep, OwnershipStep
<1> QED
  BY <1>1, Beginning, FencingStart, FencingMoves, PTL DEF Spec, ImplementsFencing, Fencing!Spec

----------------------------------------------------------------------------
\* An attempt becomes live only while the run is RUNNING.
LEMMA GateStep == CoreOK /\ LeaseOwnership /\ [Next]_vars => [KeepsGate]_vars
<1> SUFFICES ASSUME CoreOK, AttemptMove, wf # "RUNNING", NEW a \in Attempt,
                    attempt'[a].state \in LiveAttempt
             PROVE  attempt[a].state \in LiveAttempt
  BY AttemptMoves, OwnershipParts DEF KeepsGate, Live
<1> QED
  BY DEF AttemptMove, Opens, Claims, Starts, Reowns, Decides, Cancels, CoreOK, AttemptRow,
     LiveAttempt

\* The scheduling gate: a pause waits for a set of attempts that only shrinks.
\* (StartAttempt and ClaimNode check the state, reclaim keeps the attempt.)
THEOREM GateHolds == Spec => GateClosed
<1>1. CoreOK /\ LeaseOwnership /\ [Next]_vars => (CoreOK /\ LeaseOwnership)'
  BY TypeStep, OwnershipStep
<1> QED
  BY <1>1, Beginning, GateStep, PTL DEF Spec, GateClosed

\* A run or a node in a terminal state is written by no operation.
LEMMA RowsStand ==
  CoreOK /\ Unborn /\ [Next]_vars
    => /\ Unborn'
       /\ wf \in TerminalWorkflow => wf' = wf
       /\ \A n \in Node : node[n] \in TerminalNode => node'[n] = node[n]
<1> DEFINE Goal == /\ Unborn'
                   /\ wf \in TerminalWorkflow => wf' = wf
                   /\ \A n \in Node : node[n] \in TerminalNode => node'[n] = node[n]
<1> SUFFICES ASSUME CoreOK, Unborn, [Next]_vars PROVE Goal
  OBVIOUS
<1> USE DEF CoreOK, Unborn, TerminalWorkflow, TerminalNode
<1>0. \A a \in Attempt : NodeOf(a) \in Node
  BY DEF Attempt, NodeOf
<1>2. ASSUME NEW n \in Node, NEW w \in Worker, NEW ttl \in 1..MaxTTL, NEW late \in Late,
             ClaimNode(n, w, ttl, late)
      PROVE Goal
  BY <1>2 DEF ClaimNode, CompareAndSwapNodeRun
<1>3. ASSUME NEW a \in Attempt, NEW fence \in Fence, NEW late \in Late,
             StartClaimedAttempt(a, fence, late)
      PROVE Goal
  BY <1>3, <1>0 DEF StartClaimedAttempt, CompareAndSwapNodeRun
<1>4. ASSUME NEW a \in Attempt, NEW fence \in Fence \cup {Unfenced}, NEW late \in Late,
             CompleteAttemptSuccess(a, fence, late)
      PROVE Goal
  BY <1>4, <1>0 DEF CompleteAttemptSuccess, FinalizePauseIfDrained, WorkflowAllowsDrain
<1>5. ASSUME NEW a \in Attempt, NEW fence \in Fence \cup {Unfenced}, NEW late \in Late,
             CompleteAttemptFailure(a, fence, late)
      PROVE Goal
  BY <1>5, <1>0 DEF CompleteAttemptFailure, CompareAndSwapNodeRun, WorkflowAllowsDrain
<1>6. CASE CancelWorkflow
  BY <1>6 DEF CancelWorkflow, CancelWorkflowRuntime
<1>7. CASE \E n \in Node : StartAttempt(n)
  BY <1>7 DEF StartAttempt
<1>8. CASE PauseWorkflow \/ ResumeWorkflow
  BY <1>8 DEF PauseWorkflow, ResumeWorkflow, FinalizePauseIfDrained
<1>10. ASSUME NEW a \in Attempt, NEW w \in Worker, NEW ttl \in 1..MaxTTL, NEW late \in Late,
              ReclaimExpiredAttempt(a, w, ttl, late)
       PROVE Goal
  BY <1>10 DEF ReclaimExpiredAttempt
<1>11. ASSUME NEW a \in Attempt, NEW fence \in Fence, NEW late \in Late, NEW ttl \in 1..MaxTTL,
              HeartbeatLease(a, fence, ttl, late)
       PROVE Goal
  BY <1>11 DEF HeartbeatLease
<1>12. ASSUME NEW w \in Worker, NEW state \in WorkerStates, RegisterWorker(w, state) PROVE Goal
  BY <1>12 DEF RegisterWorker
<1>13. ASSUME NEW d \in Definitions, StartWorkflow(d) PROVE Goal
  BY <1>13 DEF StartWorkflow
<1>14. CASE Tick
  BY <1>14 DEF Tick, TickLeases
<1>15. CASE UNCHANGED vars
  BY <1>15 DEF vars
<1> QED
  BY <1>2, <1>3, <1>4, <1>5, <1>6, <1>7, <1>8, <1>10, <1>11, <1>12, <1>13, <1>14, <1>15 DEF Next, Operations, Reclaim

\* No step changes what has been decided.
LEMMA DecisionStep ==
  CoreOK /\ LeaseOwnership /\ Unborn /\ [Next]_vars => [KeepsDecisions]_vars
<1> SUFFICES ASSUME CoreOK, Unborn, AttemptMove, [Next]_vars PROVE KeepsDecisions
  BY AttemptMoves, OwnershipParts
<1>1. ASSUME NEW a \in Attempt, attempt[a].state \notin LiveAttempt \cup {"ABSENT"}
      PROVE  attempt'[a] = attempt[a] /\ outcome'[a] = outcome[a]
  BY <1>1 DEF AttemptMove, Opens, Claims, Starts, Reowns, Decides, Cancels, CoreOK,
     AttemptRow, LiveAttempt, NoAttempt
<1> QED
  BY <1>1, RowsStand DEF KeepsDecisions

\* What has been decided stays decided: a terminal run, node or attempt is
\* never changed again.  (The guards on RUNNING and on the transition tables.)
THEOREM DecisionsStand == Spec => DecidedStaysDecided
<1>1. CoreOK /\ LeaseOwnership /\ Unborn /\ [Next]_vars => (CoreOK /\ LeaseOwnership /\ Unborn)'
  BY TypeStep, OwnershipStep, RowsStand
<1> QED
  BY <1>1, Beginning, DecisionStep, PTL DEF Spec, DecidedStaysDecided

----------------------------------------------------------------------------
(***************************************************************************)
(* How attempts and their nodes move together.  A step leaves the attempts *)
(* alone, opens the next one of a READY node, starts one, gives one a new  *)
(* owner, closes one, or closes all; and a node leaves QUEUED or RUNNING   *)
(* only with its live attempt.                                             *)
(***************************************************************************)
Busy == {"QUEUED", "RUNNING"}

NodesStay(S) ==
  \A n \in Node \ S : /\ node[n] \in Busy => node'[n] \in Busy
                      /\ node'[n] = "IN_DOUBT" => node[n] = "IN_DOUBT"

OthersStay(a) == \A b \in Attempt \ {a} : attempt'[b] = attempt[b]

Staying == attempt' = attempt /\ NodesStay({})

Opening(a) ==
  /\ node[NodeOf(a)] = "READY" /\ IsNextAttempt(NodeOf(a), a[2])
  /\ attempt'[a].state \in LiveAttempt /\ OthersStay(a)
  /\ node'[NodeOf(a)] \in Busy /\ NodesStay({NodeOf(a)})

Starting(a) ==
  /\ Live(a)
  /\ attempt'[a].state \in LiveAttempt /\ OthersStay(a)
  /\ attempt'[a].worker = attempt[a].worker /\ attempt'[a].epoch = attempt[a].epoch
  /\ NodesStay({})

Reowning(a) ==
  /\ Live(a)
  /\ attempt'[a].state \in LiveAttempt /\ OthersStay(a)
  /\ NodesStay({})

Closing(a) ==
  /\ Live(a)
  /\ attempt'[a].state \notin LiveAttempt \cup {"ABSENT"} /\ OthersStay(a)
  /\ NodesStay({NodeOf(a)})

ClosingAll ==
  /\ \A b \in Attempt :
       IF Live(b) THEN attempt'[b].state \notin LiveAttempt \cup {"ABSENT"}
                  ELSE attempt'[b] = attempt[b]
  /\ \A n \in Node : node'[n] # "IN_DOUBT"

LifeMove ==
  \/ Staying
  \/ \E a \in Attempt : \/ Opening(a)
                        \/ Starting(a)
                        \/ Closing(a) /\ node'[NodeOf(a)] # "IN_DOUBT"
  \/ ClosingAll

\* The steps of the engine that give no attempt a new owner, seen this way.
LEMMA LifeMoves ==
  ASSUME CoreOK, Unborn, Operations \/ CancelWorkflow \/ Tick \/ UNCHANGED vars
  PROVE  LifeMove
<1> USE DEF CoreOK
<1>0. \A a \in Attempt : NodeOf(a) \in Node
  BY DEF Attempt, NodeOf
<1>1. ASSUME NEW d \in Definitions, StartWorkflow(d) PROVE LifeMove
  BY <1>1 DEF StartWorkflow, Unborn, LifeMove, Staying, NodesStay, Busy
<1>2. ASSUME NEW n \in Node, NEW k \in 1..MaxAttempts, IsNextAttempt(n, k),
             node[n] = "READY", NEW to \in Busy, node' = [node EXCEPT ![n] = to],
             NEW row, row.state \in LiveAttempt, attempt' = [attempt EXCEPT ![<<n, k>>] = row]
      PROVE LifeMove
  <2>1. <<n, k>> \in Attempt /\ NodeOf(<<n, k>>) = n /\ <<n, k>>[2] = k
    BY DEF Attempt, NodeOf
  <2>2. Opening(<<n, k>>)
    BY <1>2, <2>1 DEF Opening, OthersStay, NodesStay, Busy
  <2> QED
    BY <2>1, <2>2 DEF LifeMove
<1>3. ASSUME NEW n \in Node, StartAttempt(n) PROVE LifeMove
  <2>1. PICK k \in 1..MaxAttempts :
          /\ IsNextAttempt(n, k)
          /\ attempt' = [attempt EXCEPT ![<<n, k>>] =
                           [state |-> "RUNNING", worker |-> NoWorker, epoch |-> 0]]
    BY <1>3 DEF StartAttempt
  <2>2. node[n] = "READY" /\ node' = [node EXCEPT ![n] = "RUNNING"] /\ "RUNNING" \in Busy
    BY <1>3 DEF StartAttempt, Busy
  <2>3. [state |-> "RUNNING", worker |-> NoWorker, epoch |-> 0].state \in LiveAttempt
    BY DEF LiveAttempt
  <2> QED
    BY ONLY <1>2, <2>1, <2>2, <2>3, n \in Node
<1>4. ASSUME NEW n \in Node, NEW w \in Worker, NEW ttl \in 1..MaxTTL, NEW late \in Late,
             ClaimNode(n, w, ttl, late)
      PROVE LifeMove
  <2>1. PICK k \in 1..MaxAttempts :
          /\ IsNextAttempt(n, k)
          /\ attempt' = [attempt EXCEPT ![<<n, k>>] =
                           [state |-> "CLAIMED", worker |-> w, epoch |-> 1]]
    BY <1>4 DEF ClaimNode
  <2>2. node[n] = "READY" /\ node' = [node EXCEPT ![n] = "QUEUED"] /\ "QUEUED" \in Busy
    BY <1>4 DEF ClaimNode, CompareAndSwapNodeRun, Busy
  <2>3. [state |-> "CLAIMED", worker |-> w, epoch |-> 1].state \in LiveAttempt
    BY DEF LiveAttempt
  <2> QED
    BY ONLY <1>2, <2>1, <2>2, <2>3, n \in Node
<1>5. ASSUME NEW a \in Attempt, NEW fence \in Fence, NEW late \in Late,
             StartClaimedAttempt(a, fence, late)
      PROVE LifeMove
  <2>1. Starting(a)
    BY <1>0, <1>5 DEF StartClaimedAttempt, CompareAndSwapNodeRun, Starting, OthersStay,
                      NodesStay, Busy, Live, LiveAttempt, AttemptRow
  <2> QED
    BY <2>1 DEF LifeMove
<1>6. ASSUME NEW a \in Attempt, NEW fence \in Fence \cup {Unfenced}, NEW late \in Late,
             CompleteAttemptSuccess(a, fence, late)
      PROVE LifeMove
  <2>1. Closing(a) /\ node'[NodeOf(a)] # "IN_DOUBT"
    <3>1. Live(a) /\ attempt'[a].state = "SUCCEEDED" /\ OthersStay(a)
      BY <1>6 DEF CompleteAttemptSuccess, OthersStay, Live, LiveAttempt, AttemptRow
    <3>2. node'[NodeOf(a)] = "SUCCEEDED"
      BY <1>0, <1>6 DEF CompleteAttemptSuccess
    <3>3. \A n \in Node \ {NodeOf(a)} :
            node'[n] = node[n] \/ (node[n] = "PENDING_DEPENDENCIES" /\ node'[n] = "READY")
      BY <1>6 DEF CompleteAttemptSuccess
    <3> QED
      BY <3>1, <3>2, <3>3 DEF Closing, NodesStay, Busy, LiveAttempt
  <2> QED
    BY <2>1 DEF LifeMove
<1>7. ASSUME NEW a \in Attempt, NEW fence \in Fence \cup {Unfenced}, NEW late \in Late,
             CompleteAttemptFailure(a, fence, late)
      PROVE LifeMove
  <2>1. Closing(a) /\ node'[NodeOf(a)] # "IN_DOUBT"
    <3>1. Live(a) /\ attempt'[a].state = "FAILED" /\ OthersStay(a)
      BY <1>7 DEF CompleteAttemptFailure, OthersStay, Live, LiveAttempt, AttemptRow
    <3>2. node' = [node EXCEPT ![NodeOf(a)] = "FAILED"]
      BY <1>7 DEF CompleteAttemptFailure, CompareAndSwapNodeRun
    <3> QED
      BY <1>0, <3>1, <3>2 DEF Closing, NodesStay, Busy, LiveAttempt
  <2> QED
    BY <2>1 DEF LifeMove
<1>8. CASE CancelWorkflow
  <2>1. ClosingAll
    BY <1>8 DEF CancelWorkflow, CancelWorkflowRuntime, ClosingAll, TerminalNode, LiveAttempt,
                Live, AttemptRow
  <2> QED
    BY <2>1 DEF LifeMove
<1>9. ASSUME attempt' = attempt, node' = node PROVE LifeMove
  BY <1>9 DEF LifeMove, Staying, NodesStay
<1> QED
  BY <1>1, <1>3, <1>4, <1>5, <1>6, <1>7, <1>8, <1>9
     DEF Operations, RegisterWorker, HeartbeatLease, PauseWorkflow, ResumeWorkflow, Tick, vars

\* A reclaim gives one live attempt a new owner and touches no node.
LEMMA ReclaimMoves ==
  ASSUME CoreOK, NEW a \in Attempt, NEW w \in Worker, NEW ttl \in 1..MaxTTL, NEW late \in Late,
         ReclaimExpiredAttempt(a, w, ttl, late)
  PROVE  Reowning(a)
<1>1. PICK e \in Epoch :
        attempt' = [attempt EXCEPT ![a] =
                      [state |-> attempt[a].state, worker |-> w, epoch |-> e + 1]]
  BY DEF ReclaimExpiredAttempt
<1> QED
  BY <1>1 DEF ReclaimExpiredAttempt, CoreOK, Reowning, OthersStay, NodesStay, Live

\* The attempts of a node are made one after the other: a live one belongs to a
\* QUEUED or RUNNING node, and all attempts before a newer one are over.
LiveFits == \A a \in Attempt : Live(a) => node[NodeOf(a)] \in Busy

InTurn ==
  \A n \in Node, j, k \in 1..MaxAttempts :
    j < k /\ attempt[<<n, k>>].state # "ABSENT"
      => attempt[<<n, j>>].state \notin LiveAttempt \cup {"ABSENT"}

\* Every such move keeps the attempts of each node in turn.
LEMMA TurnsKept ==
  ASSUME LiveFits, InTurn,
         \/ Staying
         \/ \E a \in Attempt : Opening(a) \/ Starting(a) \/ Reowning(a) \/ Closing(a)
         \/ ClosingAll
  PROVE  LiveFits' /\ InTurn'
<1>0. /\ \A n \in Node, k \in 1..MaxAttempts : <<n, k>> \in Attempt /\ NodeOf(<<n, k>>) = n
      /\ \A a \in Attempt : /\ NodeOf(a) \in Node /\ a[2] \in 1..MaxAttempts
                             /\ a = <<NodeOf(a), a[2]>>
  BY DEF Attempt, NodeOf
<1>n. \A k \in 1..MaxAttempts : k \in Nat
  OBVIOUS
<1>s. "ABSENT" \notin LiveAttempt
  BY DEF LiveAttempt
<1>1. CASE Staying
  <2>1. LiveFits'
    BY <1>0, <1>1 DEF Staying, NodesStay, LiveFits, Live
  <2>2. InTurn'
    BY <1>1 DEF Staying, InTurn
  <2> QED
    BY <2>1, <2>2
<1>2. ASSUME NEW a \in Attempt, Opening(a) PROVE LiveFits' /\ InTurn'
  <2>0. \A j \in 1..MaxAttempts :
          /\ attempt[<<NodeOf(a), j>>].state # "ABSENT" <=> j < a[2]
          /\ attempt[<<NodeOf(a), j>>].state \notin LiveAttempt
    BY <1>0, <1>2 DEF Opening, IsNextAttempt, LiveFits, Live, Busy
  <2>1. LiveFits'
    <3> SUFFICES ASSUME NEW b \in Attempt, attempt'[b].state \in LiveAttempt
                 PROVE  node'[NodeOf(b)] \in Busy
      BY DEF LiveFits, Live
    <3>1. CASE b = a
      BY <1>2, <3>1 DEF Opening
    <3>2. CASE b # a
      <4>1. attempt'[b] = attempt[b]
        BY <1>2, <3>2 DEF Opening, OthersStay
      <4>2. node[NodeOf(b)] \in Busy
        BY <4>1 DEF LiveFits, Live
      <4>3. CASE NodeOf(b) = NodeOf(a)
        BY <1>2, <4>3 DEF Opening
      <4>4. CASE NodeOf(b) # NodeOf(a)
        BY <1>0, <1>2, <4>2, <4>4 DEF Opening, NodesStay
      <4> QED
        BY <4>3, <4>4
    <3> QED
      BY <3>1, <3>2
  <2>2. InTurn'
    <3> SUFFICES ASSUME NEW n \in Node, NEW j \in 1..MaxAttempts, NEW k \in 1..MaxAttempts,
                        j < k, attempt'[<<n, k>>].state # "ABSENT"
                 PROVE  attempt'[<<n, j>>].state \notin LiveAttempt \cup {"ABSENT"}
      BY DEF InTurn
    <3>1. CASE <<n, k>> = a
      <4>1. n = NodeOf(a) /\ k = a[2] /\ <<n, j>> # a /\ <<n, j>> \in Attempt
        BY <1>0, <1>n, <3>1 DEF NodeOf
      <4>2. attempt'[<<n, j>>] = attempt[<<n, j>>]
        BY <1>2, <4>1 DEF Opening, OthersStay
      <4> QED
        BY <2>0, <4>1, <4>2
    <3>2. CASE <<n, k>> # a
      <4>1. attempt[<<n, k>>].state # "ABSENT"
        BY <1>0, <1>2, <3>2 DEF Opening, OthersStay
      <4>2. attempt[<<n, j>>].state \notin LiveAttempt \cup {"ABSENT"}
        BY <4>1 DEF InTurn
      <4>3. <<n, j>> # a
        BY <1>0, <2>0, <4>2
      <4> QED
        BY <1>0, <1>2, <4>2, <4>3 DEF Opening, OthersStay
    <3> QED
      BY <3>1, <3>2
  <2> QED
    BY <2>1, <2>2
<1>3. ASSUME NEW a \in Attempt, Starting(a) \/ Reowning(a) PROVE LiveFits' /\ InTurn'
  <2>1. /\ Live(a) /\ attempt'[a].state \in LiveAttempt
        /\ OthersStay(a) /\ NodesStay({})
    BY <1>3 DEF Starting, Reowning
  <2>2. LiveFits'
    BY <1>0, <2>1 DEF OthersStay, NodesStay, LiveFits, Live
  <2>3. \A b \in Attempt : /\ attempt'[b].state = "ABSENT" <=> attempt[b].state = "ABSENT"
                           /\ attempt'[b].state \in LiveAttempt <=> attempt[b].state \in LiveAttempt
    BY <1>s, <2>1 DEF OthersStay, Live
  <2>4. InTurn'
    BY <1>0, <2>3 DEF InTurn
  <2> QED
    BY <2>2, <2>4
<1>4. ASSUME NEW a \in Attempt, Closing(a) PROVE LiveFits' /\ InTurn'
  <2>1. /\ Live(a) /\ attempt'[a].state \notin LiveAttempt \cup {"ABSENT"}
        /\ OthersStay(a) /\ NodesStay({NodeOf(a)})
    BY <1>4 DEF Closing
  <2>2. LiveFits'
    <3> SUFFICES ASSUME NEW b \in Attempt, attempt'[b].state \in LiveAttempt
                 PROVE  node'[NodeOf(b)] \in Busy
      BY DEF LiveFits, Live
    <3>1. b # a /\ Live(b)
      BY <2>1 DEF OthersStay, Live
    <3>2. NodeOf(b) # NodeOf(a)
      <4>1. SUFFICES ASSUME NodeOf(b) = NodeOf(a) PROVE FALSE
        OBVIOUS
      <4>2. a[2] < b[2] \/ b[2] < a[2]
        BY <1>0, <1>n, <3>1, <4>1
      <4> QED
        BY <1>0, <1>s, <2>1, <3>1, <4>1, <4>2 DEF InTurn, Live
    <3> QED
      BY <1>0, <2>1, <3>1, <3>2 DEF NodesStay, LiveFits
  <2>3. \A b \in Attempt :
          /\ attempt'[b].state = "ABSENT" <=> attempt[b].state = "ABSENT"
          /\ attempt'[b].state \in LiveAttempt => attempt[b].state \in LiveAttempt
    BY <1>s, <2>1 DEF OthersStay, Live
  <2>4. InTurn'
    BY <1>0, <2>3 DEF InTurn
  <2> QED
    BY <2>2, <2>4
<1>5. CASE ClosingAll
  <2>1. \A b \in Attempt :
          /\ attempt'[b].state = "ABSENT" <=> attempt[b].state = "ABSENT"
          /\ attempt'[b].state \notin LiveAttempt
    BY <1>s, <1>5 DEF ClosingAll, Live
  <2>2. LiveFits' /\ InTurn'
    BY <1>0, <2>1 DEF LiveFits, InTurn, Live
  <2> QED
    BY <2>2
<1> QED
  BY <1>1, <1>2, <1>3, <1>4, <1>5

\* No node is ever worked on twice at once: of its attempts only the newest is
\* live, and only while the node is QUEUED or RUNNING.  (ClaimNode and
\* StartAttempt look at the node alone, never at its other attempts.)
THEOREM AttemptsTakeTurns == Spec => [](LiveFits /\ InTurn)
<1>1. Init => LiveFits /\ InTurn
  BY DEF Init, LiveFits, InTurn, Live, LiveAttempt, NoAttempt, Attempt
<1>2. CoreOK /\ Unborn /\ LiveFits /\ InTurn /\ [Next]_vars => (LiveFits /\ InTurn)'
  <2> SUFFICES ASSUME CoreOK, Unborn, LiveFits, InTurn, [Next]_vars PROVE (LiveFits /\ InTurn)'
    OBVIOUS
  <2>1. CASE Operations \/ CancelWorkflow \/ Tick \/ UNCHANGED vars
    BY <2>1, LifeMoves, TurnsKept DEF LifeMove
  <2>2. CASE Reclaim
    BY <2>2, ReclaimMoves, TurnsKept DEF Reclaim
  <2> QED
    BY <2>1, <2>2 DEF Next
<1>3. CoreOK /\ Unborn /\ [Next]_vars => (CoreOK /\ Unborn)'
  BY TypeStep, RowsStand
<1> QED
  BY <1>1, <1>2, <1>3, Beginning, PTL DEF Spec

----------------------------------------------------------------------------
(***************************************************************************)
(* The graph of a run.  Everything a node depends on has succeeded before  *)
(* it leaves PENDING_DEPENDENCIES; while the run is open, what a pending   *)
(* node still waits for is what its counter says, no node has failed, and  *)
(* the run's counters are the numbers of its nodes; a paused run works on  *)
(* nothing.  This is what RunContract needs to know of the engine.         *)
(***************************************************************************)
Opened == wf \in {"RUNNING", "PAUSING", "PAUSED"}
RunNodes == {n \in Node : node[n] # "ABSENT"}
DoneNodes == {n \in Node : node[n] = "SUCCEEDED"}
LostNodes == {n \in Node : node[n] \in {"FAILED", "TIMED_OUT"}}
BusyNodes == {n \in Node : node[n] \in Busy}
OpenNeeds(n) == {m \in deps[n] : node[m] # "SUCCEEDED"}

BusyLive == \A n \in Node : node[n] \in Busy => \E k \in 1..MaxAttempts : Live(<<n, k>>)

KnownPhase == Opened \/ wf \in TerminalWorkflow \cup {"ABSENT"}

NeedsMet ==
  \A n \in Node : node[n] \notin {"ABSENT", "PENDING_DEPENDENCIES", "CANCELLED"} => OpenNeeds(n) = {}

NeedsCounted ==
  Opened => \A n \in Node : node[n] = "PENDING_DEPENDENCIES" =>
              remaining[n] = Cardinality(OpenNeeds(n)) /\ remaining[n] > 0

NodesCounted ==
  Opened => /\ \A n \in Node : node[n] \notin {"FAILED", "TIMED_OUT", "CANCELLED", "SKIPPED"}
            /\ progress.total = Cardinality(RunNodes)
            /\ progress.terminal = Cardinality(DoneNodes)
            /\ progress.failed = 0

GraphInv ==
  /\ KnownPhase
  /\ deps \in [Node -> SUBSET Node]
  /\ wf = "PAUSED" => BusyNodes = {}
  /\ NeedsMet /\ NeedsCounted /\ NodesCounted

ContractInv == CoreOK /\ Unborn /\ LiveFits /\ InTurn /\ BusyLive /\ GraphInv

\* Every set of nodes is finite, and its size a number.
LEMMA NodesFinite ==
  /\ IsFiniteSet(Node)
  /\ \A S \in SUBSET Node : IsFiniteSet(S) /\ Cardinality(S) \in Nat
BY DefinitionsAssumption, FS_Subset, FS_CardinalityType

\* No attempt is live exactly when no node is QUEUED or RUNNING.
LEMMA IdleIsDrained ==
  ASSUME LiveFits, BusyLive
  PROVE  CountActiveAttempts(attempt) = {} <=> BusyNodes = {}
BY DEF LiveFits, BusyLive, BusyNodes, CountActiveAttempts, Live, Attempt, NodeOf

\* Nodes that move among READY, QUEUED, RUNNING and WAITING disturb nothing.
Relabelling ==
  /\ UNCHANGED <<wf, deps, progress, remaining>>
  /\ \A n \in Node :
       \/ node'[n] = node[n]
       \/ /\ node[n] \in {"READY", "WAITING"} \cup Busy
          /\ node'[n] \in {"READY", "WAITING"} \cup Busy
          /\ wf = "PAUSED" => node'[n] \notin Busy

\* Relabelling nodes that are neither done nor lost keeps the picture of the graph.
LEMMA RelabelKeeps ==
  ASSUME GraphInv, Relabelling
  PROVE  GraphInv' /\ RunNodes' = RunNodes /\ DoneNodes' = DoneNodes /\ LostNodes' = LostNodes
<1> USE DEF GraphInv
<1>1. RunNodes' = RunNodes /\ DoneNodes' = DoneNodes /\ LostNodes' = LostNodes
  BY DEF Relabelling, RunNodes, DoneNodes, LostNodes, Busy
<1>2. \A n \in Node : OpenNeeds(n)' = OpenNeeds(n)
  BY DEF Relabelling, OpenNeeds, Busy
<1>3. KnownPhase' /\ deps' \in [Node -> SUBSET Node] /\ (Opened' <=> Opened)
  BY DEF Relabelling, KnownPhase, Opened
<1>4. (wf = "PAUSED" => BusyNodes = {})'
  BY DEF Relabelling, BusyNodes
<1>5. NeedsMet'
  BY <1>2 DEF Relabelling, NeedsMet, Busy
<1>6. NeedsCounted'
  BY <1>2, <1>3 DEF Relabelling, NeedsCounted, Busy
<1>7. NodesCounted'
  BY <1>1, <1>3 DEF Relabelling, NodesCounted, Busy
<1> QED
  BY <1>1, <1>3, <1>4, <1>5, <1>6, <1>7

\* A new run waits for what its definition says.
LEMMA GraphStarts ==
  ASSUME CoreOK, Unborn, NEW d \in Definitions, StartWorkflow(d)
  PROVE  GraphInv' /\ BusyLive'
<1>1. /\ wf' = "RUNNING" /\ deps' = d.deps
      /\ remaining' = [n \in Node |-> Cardinality(d.deps[n])]
      /\ progress' = [total |-> Cardinality(d.nodes), terminal |-> 0, failed |-> 0]
      /\ \A n \in Node : node'[n] = IF n \in {m \in d.nodes : d.deps[m] = {}} THEN "READY"
                                    ELSE IF n \in d.nodes THEN "PENDING_DEPENDENCIES" ELSE "ABSENT"
  BY DEF StartWorkflow
<1>2. /\ d.nodes \in SUBSET Node /\ d.deps \in [Node -> SUBSET Node]
      /\ \A n \in Node \ d.nodes : d.deps[n] = {}
  BY DefinitionsAssumption
<1>3. RunNodes' = d.nodes /\ DoneNodes' = {} /\ BusyNodes' = {}
  BY <1>1, <1>2 DEF RunNodes, DoneNodes, BusyNodes, Busy
<1>4. \A n \in Node : OpenNeeds(n)' = d.deps[n]
  BY <1>1, <1>2 DEF OpenNeeds
<1>5. NeedsMet'
  BY <1>1, <1>4 DEF NeedsMet
<1>6. NeedsCounted'
  <2> SUFFICES ASSUME NEW n \in Node, node'[n] = "PENDING_DEPENDENCIES"
               PROVE  remaining'[n] = Cardinality(OpenNeeds(n)') /\ remaining'[n] > 0
    BY DEF NeedsCounted
  <2>1. d.deps[n] # {} /\ d.deps[n] \in SUBSET Node
    BY <1>1, <1>2
  <2>2. Cardinality(d.deps[n]) \in Nat /\ Cardinality(d.deps[n]) # 0
    BY <2>1, NodesFinite, FS_EmptySet
  <2> QED
    BY <1>1, <1>4, <2>2
<1>7. NodesCounted'
  <2>1. Cardinality(DoneNodes') = 0
    BY <1>3, FS_EmptySet
  <2> QED
    BY <1>1, <1>3, <2>1 DEF NodesCounted
<1>8. KnownPhase'
  BY <1>1 DEF KnownPhase, Opened
<1> QED
  BY <1>1, <1>2, <1>3, <1>5, <1>6, <1>7, <1>8 DEF GraphInv, BusyLive, BusyNodes

\* A node that fails decides an open run and meets or counts nothing new.
LEMMA FailureKeeps ==
  ASSUME CoreOK, GraphInv, NEW n \in Node, node[n] \notin {"ABSENT", "PENDING_DEPENDENCIES", "CANCELLED"},
         NEW to \in {"FAILED", "TIMED_OUT"}, node[n] # "SUCCEEDED",
         node' = [node EXCEPT ![n] = to],
         wf' = IF Opened THEN "FAILED" ELSE wf, wf # "ABSENT",
         deps' = deps
  PROVE  GraphInv'
<1> USE DEF GraphInv
<1>1. wf' \in TerminalWorkflow /\ ~Opened'
  BY DEF KnownPhase, Opened, TerminalWorkflow
<1>2. \A m \in Node : node'[m] = IF m = n THEN to ELSE node[m]
  BY DEF CoreOK
<1>3. \A m \in Node : OpenNeeds(m)' = OpenNeeds(m)
  BY <1>2 DEF OpenNeeds
<1>4. NeedsMet'
  BY <1>2, <1>3 DEF NeedsMet
<1> QED
  BY <1>1, <1>4 DEF KnownPhase, NeedsCounted, NodesCounted, TerminalWorkflow

\* When busy nodes and live attempts go together, one set drains with the other.
LEMMA DrainedTogether ==
  ASSUME NEW rows, NEW nodes,
         \A b \in Attempt : rows[b].state \in LiveAttempt => nodes[NodeOf(b)] \in Busy,
         \A m \in Node : nodes[m] \in Busy =>
           \E k \in 1..MaxAttempts : rows[<<m, k>>].state \in LiveAttempt
  PROVE  CountActiveAttempts(rows) = {} <=> \A m \in Node : nodes[m] \notin Busy
BY DEF CountActiveAttempts, Attempt, NodeOf

\* A step that writes one attempt keeps the busy nodes at work.
LEMMA BusyStays ==
  ASSUME BusyLive, NEW a \in Attempt, OthersStay(a),
         \A n \in Node \ {NodeOf(a)} : node'[n] \in Busy => node[n] \in Busy,
         node'[NodeOf(a)] \in Busy => attempt'[a].state \in LiveAttempt
  PROVE  BusyLive'
<1> SUFFICES ASSUME NEW n \in Node, node'[n] \in Busy
             PROVE  \E k \in 1..MaxAttempts : attempt'[<<n, k>>].state \in LiveAttempt
  BY DEF BusyLive, Live
<1>1. CASE n = NodeOf(a)
  <2>1. a[2] \in 1..MaxAttempts /\ a = <<n, a[2]>>
    BY <1>1 DEF Attempt, NodeOf
  <2> QED
    BY <1>1, <2>1
<1>2. CASE n # NodeOf(a)
  <2>1. PICK k \in 1..MaxAttempts : attempt[<<n, k>>].state \in LiveAttempt
    BY <1>2 DEF BusyLive, Live
  <2>2. <<n, k>> \in Attempt /\ <<n, k>> # a
    BY <1>2 DEF Attempt, NodeOf
  <2> QED
    BY <2>1, <2>2 DEF OthersStay
<1> QED
  BY <1>1, <1>2

\* A node that succeeds is counted once, and by each node that waits for it.
LEMMA SuccessKeeps ==
  ASSUME ContractInv, LiveFits', NEW a \in Attempt, NEW fence \in Fence \cup {Unfenced},
         NEW late \in Late, CompleteAttemptSuccess(a, fence, late)
  PROVE  /\ GraphInv' /\ BusyLive'
         /\ RunNodes' = RunNodes /\ LostNodes' = LostNodes
         /\ NodeOf(a) \in BusyNodes /\ BusyNodes' = BusyNodes \ {NodeOf(a)}
         /\ DoneNodes' = DoneNodes \cup {NodeOf(a)}
         /\ wf' = IF Opened THEN IF DoneNodes' = RunNodes THEN "SUCCEEDED"
                                 ELSE IF wf = "PAUSING" /\ BusyNodes' = {} THEN "PAUSED" ELSE wf
                  ELSE wf
<1> DEFINE n == NodeOf(a)
<1> DEFINE drains == WorkflowAllowsDrain(wf)
<1> DEFINE children == IF drains THEN Dependents(n) ELSE {}
<1> DEFINE released == {c \in children : remaining[c] = 1}
<1>0. n \in Node
  BY DEF Attempt, NodeOf
<1>1. /\ node[n] = "RUNNING" /\ attempt[a].state = "RUNNING"
      /\ attempt' = [attempt EXCEPT ![a] = [attempt[a] EXCEPT !.state = "SUCCEEDED"]]
      /\ \A c \in children : node[c] = "PENDING_DEPENDENCIES" /\ remaining[c] > 0
      /\ \A c \in Node : remaining'[c] = IF c \in children THEN remaining[c] - 1 ELSE remaining[c]
      /\ \A c \in Node : node'[c] = IF c = n THEN "SUCCEEDED"
                                    ELSE IF c \in released THEN "READY" ELSE node[c]
      /\ deps' = deps
  BY DEF CompleteAttemptSuccess
<1>2. /\ progress.terminal < progress.total
      /\ progress' = [total |-> progress.total, terminal |-> progress.terminal + 1,
                      failed |-> progress.failed + 0]
      /\ wf' = IF drains /\ progress'.terminal = progress'.total /\ progress'.failed = 0
                 THEN "SUCCEEDED" ELSE FinalizePauseIfDrained(wf, attempt')
  BY DEF CompleteAttemptSuccess, IncrementWorkflowProgress
<1> HIDE DEF n, drains, released
<1>3. n \in BusyNodes /\ wf # "PAUSED" /\ (drains <=> Opened)
  BY <1>0, <1>1 DEF BusyNodes, Busy, ContractInv, GraphInv, Opened, WorkflowAllowsDrain, drains
<1>c. /\ released \subseteq children
      /\ \A c \in children : c \in Node /\ n \in deps[c] /\ c # n
  BY <1>1 DEF Dependents, released
<1>d. \A c \in Node : node[c] = "PENDING_DEPENDENCIES" /\ n \in deps[c] /\ drains => c \in children
  BY DEF Dependents
<1> HIDE DEF children
<1>4. /\ RunNodes' = RunNodes /\ LostNodes' = LostNodes
      /\ BusyNodes' = BusyNodes \ {n} /\ DoneNodes' = DoneNodes \cup {n} /\ n \notin DoneNodes
  BY <1>0, <1>1, <1>c DEF RunNodes, LostNodes, BusyNodes, DoneNodes, Busy
<1>5. BusyLive'
  <2>1. OthersStay(a)
    BY <1>1 DEF OthersStay, ContractInv, CoreOK
  <2>2. \A c \in Node \ {n} : node'[c] \in Busy => node[c] \in Busy
    BY <1>1 DEF Busy
  <2>3. node'[n] \notin Busy
    BY <1>0, <1>1 DEF Busy
  <2> QED
    BY <2>1, <2>2, <2>3, BusyStays DEF ContractInv, n
<1>6. CountActiveAttempts(attempt') = {} <=> BusyNodes' = {}
  <2>1. /\ \A b \in Attempt : attempt'[b].state \in LiveAttempt => node'[NodeOf(b)] \in Busy
        /\ \A m \in Node : node'[m] \in Busy =>
             \E k \in 1..MaxAttempts : attempt'[<<m, k>>].state \in LiveAttempt
    BY <1>5 DEF LiveFits, BusyLive, Live
  <2>2. CountActiveAttempts(attempt') = {} <=> \A m \in Node : node'[m] \notin Busy
    BY <2>1, DrainedTogether
  <2> QED
    BY <2>2 DEF BusyNodes
<1>7. Opened => /\ Cardinality(DoneNodes') = Cardinality(DoneNodes) + 1
                /\ (Cardinality(DoneNodes') = Cardinality(RunNodes) <=> DoneNodes' = RunNodes)
  <2>1. IsFiniteSet(DoneNodes) /\ IsFiniteSet(RunNodes)
    BY NodesFinite DEF DoneNodes, RunNodes
  <2>2. Cardinality(DoneNodes') = Cardinality(DoneNodes) + 1
    BY <1>4, <2>1, FS_AddElement
  <2>3. DoneNodes' \in SUBSET RunNodes
    BY <1>4 DEF DoneNodes, RunNodes
  <2> QED
    BY <2>1, <2>2, <2>3, FS_Subset
<1>8. wf' = IF Opened THEN IF DoneNodes' = RunNodes THEN "SUCCEEDED"
                           ELSE IF wf = "PAUSING" /\ BusyNodes' = {} THEN "PAUSED" ELSE wf
            ELSE wf
  <2>1. CASE Opened
    <3>1. /\ progress.total = Cardinality(RunNodes) /\ progress.terminal = Cardinality(DoneNodes)
          /\ progress.failed = 0
      BY <2>1 DEF ContractInv, GraphInv, NodesCounted
    <3>2. progress'.total = Cardinality(RunNodes) /\ progress'.terminal = Cardinality(DoneNodes')
          /\ progress'.failed = 0
      BY <1>2, <1>7, <2>1, <3>1
    <3> QED
      BY <1>2, <1>3, <1>6, <1>7, <2>1, <3>2 DEF FinalizePauseIfDrained
  <2>2. CASE ~Opened
    BY <1>2, <1>3, <2>2 DEF FinalizePauseIfDrained, Opened
  <2> QED
    BY <2>1, <2>2
<1>9. \A c \in Node : OpenNeeds(c)' = OpenNeeds(c) \ {n}
  BY <1>0, <1>1, <1>c DEF OpenNeeds, ContractInv, GraphInv
<1>10. ASSUME NEW c \in children
       PROVE  /\ remaining[c] = Cardinality(OpenNeeds(c))
              /\ Cardinality(OpenNeeds(c)') = remaining[c] - 1
              /\ (remaining[c] = 1 => OpenNeeds(c)' = {})
  <2>1. c \in Node /\ Opened /\ node[c] = "PENDING_DEPENDENCIES" /\ n \in OpenNeeds(c)
    BY <1>1, <1>3, <1>c, <1>10 DEF OpenNeeds, children
  <2>2. remaining[c] = Cardinality(OpenNeeds(c))
    BY <2>1 DEF ContractInv, GraphInv, NeedsCounted
  <2>3. OpenNeeds(c) \in SUBSET Node
    BY <2>1 DEF OpenNeeds, ContractInv, GraphInv
  <2>4. IsFiniteSet(OpenNeeds(c)) /\ Cardinality(OpenNeeds(c)) \in Nat
    BY <2>3, NodesFinite
  <2>5. /\ IsFiniteSet(OpenNeeds(c) \ {n})
        /\ Cardinality(OpenNeeds(c) \ {n}) = Cardinality(OpenNeeds(c)) - 1
    BY <2>1, <2>4, FS_RemoveElement
  <2>6. Cardinality(OpenNeeds(c) \ {n}) = 0 => OpenNeeds(c) \ {n} = {}
    BY <2>5, FS_EmptySet
  <2> QED
    BY <1>9, <2>1, <2>2, <2>5, <2>6
<1>11. NeedsMet'
  <2> SUFFICES ASSUME NEW c \in Node, node'[c] \notin {"ABSENT", "PENDING_DEPENDENCIES", "CANCELLED"}
               PROVE  OpenNeeds(c)' = {}
    BY DEF NeedsMet
  <2>1. CASE c \in released
    BY <1>10, <2>1 DEF released
  <2>2. CASE c \notin released
    <3>1. node[c] \notin {"ABSENT", "PENDING_DEPENDENCIES", "CANCELLED"}
      BY <1>1, <2>2
    <3> QED
      BY <1>9, <3>1 DEF ContractInv, GraphInv, NeedsMet
  <2> QED
    BY <2>1, <2>2
<1>12. NeedsCounted'
  <2> SUFFICES ASSUME Opened', NEW c \in Node, node'[c] = "PENDING_DEPENDENCIES"
               PROVE  remaining'[c] = Cardinality(OpenNeeds(c)') /\ remaining'[c] > 0
    BY DEF NeedsCounted
  <2>1. Opened /\ c # n /\ c \notin released /\ node[c] = "PENDING_DEPENDENCIES"
    BY <1>1, <1>8 DEF Opened
  <2>2. CASE c \in children
    <3>1. remaining[c] \in Int /\ remaining[c] > 0 /\ remaining[c] # 1
      BY <1>1, <2>1, <2>2 DEF released, ContractInv, CoreOK
    <3>2. remaining'[c] = remaining[c] - 1 /\ Cardinality(OpenNeeds(c)') = remaining[c] - 1
      BY <1>1, <1>10, <2>2
    <3> QED
      BY <3>1, <3>2
  <2>3. CASE c \notin children
    <3>1. OpenNeeds(c)' = OpenNeeds(c)
      BY <1>3, <1>9, <1>d, <2>1, <2>3 DEF OpenNeeds
    <3> QED
      BY <1>1, <2>1, <2>3, <3>1 DEF ContractInv, GraphInv, NeedsCounted
  <2> QED
    BY <2>2, <2>3
<1>13. NodesCounted'
  <2> SUFFICES ASSUME Opened' PROVE NodesCounted'
    BY DEF NodesCounted
  <2>1. Opened
    BY <1>8 DEF Opened
  <2>2. \A c \in Node : node'[c] \notin {"FAILED", "TIMED_OUT", "CANCELLED", "SKIPPED"}
    BY <1>1, <2>1 DEF ContractInv, GraphInv, NodesCounted
  <2> QED
    BY <1>2, <1>4, <1>7, <2>1, <2>2 DEF NodesCounted, ContractInv, GraphInv
<1>14. KnownPhase' /\ (wf' = "PAUSED" => BusyNodes' = {})
  BY <1>3, <1>8 DEF KnownPhase, Opened, TerminalWorkflow, ContractInv, GraphInv
<1>15. GraphInv'
  BY <1>1, <1>11, <1>12, <1>13, <1>14 DEF GraphInv, ContractInv
<1> QED
  BY <1>3, <1>4, <1>5, <1>8, <1>15 DEF n

\* What a step of the engine does, seen as a step of RunContract.
LEMMA RunStutters ==
  ASSUME wf' = wf, deps' = deps, RunNodes' = RunNodes, BusyNodes' = BusyNodes,
         DoneNodes' = DoneNodes, LostNodes' = LostNodes
  PROVE  UNCHANGED Run!vars
BY DEF Run!vars, Phase, RunNodes, BusyNodes, DoneNodes, LostNodes, Busy

\* A READY node that gets an attempt begins.
LEMMA RunBegins ==
  ASSUME GraphInv, NEW n \in Node, node[n] = "READY", wf = "RUNNING",
         wf' = wf, deps' = deps, RunNodes' = RunNodes, BusyNodes' = BusyNodes \cup {n},
         DoneNodes' = DoneNodes, LostNodes' = LostNodes
  PROVE  Run!Begin(n)
<1>1. deps[n] \subseteq DoneNodes
  BY DEF GraphInv, NeedsMet, OpenNeeds, DoneNodes
<1>2. n \in RunNodes \ (BusyNodes \cup DoneNodes \cup LostNodes)
  BY DEF RunNodes, BusyNodes, DoneNodes, LostNodes, Busy
<1>3. Phase = "OPEN" /\ Phase' = Phase
  BY DEF Phase
<1> QED
  BY <1>1, <1>2, <1>3 DEF Run!Begin, RunNodes, BusyNodes, DoneNodes, LostNodes, Busy

\* A node whose attempt is opened: READY, and at work from then on.
LEMMA OpeningFits ==
  ASSUME ContractInv, NEW n \in Node, NEW k \in 1..MaxAttempts, NEW to \in Busy, NEW row,
         node[n] = "READY", wf = "RUNNING", row.state \in LiveAttempt,
         node' = [node EXCEPT ![n] = to], attempt' = [attempt EXCEPT ![<<n, k>>] = row],
         UNCHANGED <<wf, deps, remaining, progress>>
  PROVE  GraphInv' /\ BusyLive' /\ Run!Begin(n)
<1> USE DEF ContractInv
<1>0. <<n, k>> \in Attempt /\ NodeOf(<<n, k>>) = n
  BY DEF Attempt, NodeOf
<1>1. Relabelling
  BY DEF Relabelling, CoreOK
<1>2. GraphInv' /\ RunNodes' = RunNodes /\ DoneNodes' = DoneNodes /\ LostNodes' = LostNodes
  BY <1>1, RelabelKeeps
<1>3. BusyNodes' = BusyNodes \cup {n}
  BY DEF BusyNodes, CoreOK
<1>4. BusyLive'
  <2>1. OthersStay(<<n, k>>) /\ attempt'[<<n, k>>].state \in LiveAttempt
    BY <1>0 DEF OthersStay, CoreOK
  <2>2. \A m \in Node \ {n} : node'[m] \in Busy => node[m] \in Busy
    BY DEF CoreOK
  <2> QED
    BY <1>0, <2>1, <2>2, BusyStays
<1>5. Run!Begin(n)
  BY <1>2, <1>3, RunBegins
<1> QED
  BY <1>2, <1>4, <1>5

\* What leaves nodes and attempts' states alone.
LEMMA QuietFits ==
  ASSUME ContractInv, UNCHANGED <<wf, node, deps, remaining, progress>>,
         \A a \in Attempt : attempt'[a].state = attempt[a].state
  PROVE  GraphInv' /\ BusyLive' /\ UNCHANGED Run!vars
<1>1. Relabelling
  BY DEF Relabelling
<1>2. GraphInv' /\ RunNodes' = RunNodes /\ DoneNodes' = DoneNodes /\ LostNodes' = LostNodes
  BY <1>1, RelabelKeeps DEF ContractInv
<1>3. BusyNodes' = BusyNodes
  BY DEF BusyNodes
<1>4. BusyLive'
  BY DEF BusyLive, Live, ContractInv, Attempt
<1> QED
  BY <1>2, <1>3, <1>4, RunStutters

\* A failure, of an attempt or of an approval, decides the run that is open.
LEMMA RunFails ==
  ASSUME KnownPhase, NEW n \in Node, n \in BusyNodes, wf # "PAUSED",
         wf' = IF Opened THEN "FAILED" ELSE wf, deps' = deps, RunNodes' = RunNodes,
         BusyNodes' = BusyNodes \ {n}, DoneNodes' = DoneNodes, LostNodes' = LostNodes \cup {n}
  PROVE  Run!Fail(n)
<1>1. Phase' = IF Phase \in {"OPEN", "DRAINING"} THEN "FAILED" ELSE Phase
  BY DEF Phase, Opened, KnownPhase, TerminalWorkflow
<1> QED
  BY <1>1 DEF Run!Fail, RunNodes, BusyNodes, DoneNodes, LostNodes, Busy

\* A failed attempt fails its node, and decides a run that is not held or cancelled.
LEMMA FailureFits ==
  ASSUME ContractInv, NEW a \in Attempt, NEW fence \in Fence \cup {Unfenced}, NEW late \in Late,
         CompleteAttemptFailure(a, fence, late)
  PROVE  GraphInv' /\ BusyLive' /\ Run!Fail(NodeOf(a))
<1> USE DEF ContractInv
<1> DEFINE n == NodeOf(a)
<1>0. n \in Node
  BY DEF Attempt, NodeOf
<1>1. /\ node[n] = "RUNNING" /\ attempt[a].state = "RUNNING"
      /\ attempt' = [attempt EXCEPT ![a] = [attempt[a] EXCEPT !.state = "FAILED"]]
      /\ node' = [node EXCEPT ![n] = "FAILED"]
      /\ wf' = IF WorkflowAllowsDrain(wf) THEN "FAILED" ELSE wf
      /\ deps' = deps
  BY DEF CompleteAttemptFailure, CompareAndSwapNodeRun
<1> HIDE DEF n
<1>2. n \in BusyNodes /\ wf # "PAUSED" /\ wf' = IF Opened THEN "FAILED" ELSE wf
  BY <1>0, <1>1 DEF BusyNodes, Busy, GraphInv, Opened, WorkflowAllowsDrain
<1>3. wf # "ABSENT"
  BY <1>0, <1>1 DEF Unborn
<1>4. GraphInv'
  BY <1>0, <1>1, <1>2, <1>3, FailureKeeps
<1>5. /\ RunNodes' = RunNodes /\ LostNodes' = LostNodes \cup {n}
      /\ BusyNodes' = BusyNodes \ {n} /\ DoneNodes' = DoneNodes
  BY <1>0, <1>1 DEF RunNodes, LostNodes, BusyNodes, DoneNodes, Busy, CoreOK
<1>6. BusyLive'
  <2>1. OthersStay(a)
    BY <1>1 DEF OthersStay, CoreOK
  <2>2. /\ \A m \in Node \ {n} : node'[m] \in Busy => node[m] \in Busy
        /\ node'[n] \notin Busy
    BY <1>0, <1>1 DEF Busy, CoreOK
  <2> QED
    BY <2>1, <2>2, BusyStays DEF n
<1>7. Run!Fail(n)
  BY <1>0, <1>1, <1>2, <1>5, RunFails DEF GraphInv
<1> QED
  BY <1>4, <1>6, <1>7 DEF n

\* A success ends the run with its last node, and a pause with its last attempt.
LEMMA SuccessFits ==
  ASSUME ContractInv, LiveFits', NEW a \in Attempt, NEW fence \in Fence \cup {Unfenced},
         NEW late \in Late, CompleteAttemptSuccess(a, fence, late)
  PROVE  GraphInv' /\ BusyLive' /\ Run!Finish(NodeOf(a))
<1> DEFINE n == NodeOf(a)
<1>1. /\ GraphInv' /\ BusyLive'
      /\ RunNodes' = RunNodes /\ LostNodes' = LostNodes
      /\ n \in BusyNodes /\ BusyNodes' = BusyNodes \ {n}
      /\ DoneNodes' = DoneNodes \cup {n}
      /\ wf' = IF Opened THEN IF DoneNodes' = RunNodes THEN "SUCCEEDED"
                              ELSE IF wf = "PAUSING" /\ BusyNodes' = {} THEN "PAUSED" ELSE wf
               ELSE wf
  BY SuccessKeeps
<1>2. deps' = deps
  BY DEF CompleteAttemptSuccess
<1> HIDE DEF n
<1>3. wf # "PAUSED" /\ KnownPhase
  BY <1>1 DEF ContractInv, GraphInv
<1>4. Phase' = IF Phase \in {"OPEN", "DRAINING"}
                 THEN IF DoneNodes' = RunNodes THEN "SUCCEEDED"
                      ELSE IF Phase = "DRAINING" /\ BusyNodes' = {} THEN "HELD" ELSE Phase
                 ELSE Phase
  BY <1>1, <1>3 DEF Phase, Opened, KnownPhase, TerminalWorkflow
<1>5. Run!Finish(n)
  BY <1>1, <1>2, <1>4 DEF Run!Finish, Run!Settle, RunNodes, BusyNodes, DoneNodes, LostNodes, Busy
<1> QED
  BY <1>1, <1>5 DEF n

\* Pausing, resuming and cancelling.
LEMMA ControlFits ==
  ASSUME ContractInv, PauseWorkflow \/ ResumeWorkflow \/ CancelWorkflow
  PROVE  GraphInv' /\ BusyLive' /\ (Run!Pause \/ Run!Resume \/ Run!Cancel)
<1> USE DEF ContractInv
<1>1. ASSUME PauseWorkflow \/ ResumeWorkflow
      PROVE  GraphInv' /\ BusyLive' /\ (Run!Pause \/ Run!Resume)
  <2>1. UNCHANGED <<node, deps, remaining, progress, attempt>> /\ Opened /\ Opened'
    BY <1>1 DEF PauseWorkflow, ResumeWorkflow, Opened, FinalizePauseIfDrained
  <2>2. /\ RunNodes' = RunNodes /\ BusyNodes' = BusyNodes /\ DoneNodes' = DoneNodes
        /\ LostNodes' = LostNodes /\ \A n \in Node : OpenNeeds(n)' = OpenNeeds(n)
    BY <2>1 DEF RunNodes, BusyNodes, DoneNodes, LostNodes, OpenNeeds
  <2>3. wf' = "PAUSED" => BusyNodes = {}
    BY <1>1, IdleIsDrained DEF PauseWorkflow, ResumeWorkflow, FinalizePauseIfDrained
  <2>4. GraphInv'
    BY <2>1, <2>2, <2>3 DEF GraphInv, KnownPhase, NeedsMet, NeedsCounted, NodesCounted
  <2>5. BusyLive'
    BY <2>1 DEF BusyLive, Live
  <2>6. CASE PauseWorkflow
    <3>1. /\ Phase \in {"OPEN", "DRAINING"}
          /\ Phase' = IF BusyNodes = {} THEN "HELD" ELSE "DRAINING"
      BY <2>6, IdleIsDrained DEF PauseWorkflow, FinalizePauseIfDrained, Phase
    <3>2. Run!Pause
      BY <2>1, <2>2, <3>1 DEF Run!Pause, RunNodes, BusyNodes, DoneNodes, LostNodes, Busy
    <3> QED
      BY <2>4, <2>5, <3>2
  <2>7. CASE ResumeWorkflow
    <3>1. Phase = "HELD" /\ Phase' = "OPEN"
      BY <2>7 DEF ResumeWorkflow, Phase
    <3>2. Run!Resume
      BY <2>1, <2>2, <3>1 DEF Run!Resume, RunNodes, BusyNodes, DoneNodes, LostNodes, Busy
    <3> QED
      BY <2>4, <2>5, <3>2
  <2> QED
    BY <1>1, <2>6, <2>7
<1>2. ASSUME CancelWorkflow PROVE GraphInv' /\ BusyLive' /\ Run!Cancel
  <2>1. /\ Opened /\ wf' = "CANCELLED" /\ deps' = deps
        /\ \A n \in Node : node'[n] = IF node[n] \in TerminalNode \cup {"ABSENT"} THEN node[n]
                                      ELSE "CANCELLED"
    BY <1>2 DEF CancelWorkflow, CancelWorkflowRuntime, Opened
  <2>2. /\ RunNodes' = RunNodes /\ BusyNodes' = {} /\ DoneNodes' = DoneNodes
        /\ LostNodes' = LostNodes /\ \A n \in Node : OpenNeeds(n)' = OpenNeeds(n)
    BY <2>1 DEF RunNodes, BusyNodes, DoneNodes, LostNodes, OpenNeeds, Busy, TerminalNode,
                GraphInv
  <2>3. GraphInv'
    BY <2>1, <2>2 DEF GraphInv, KnownPhase, Opened, NeedsMet, NeedsCounted, NodesCounted,
                      TerminalWorkflow, TerminalNode
  <2>4. BusyLive'
    BY <2>2 DEF BusyLive, BusyNodes
  <2>5. Phase \in {"OPEN", "DRAINING", "HELD"} /\ Phase' = "CANCELLED"
    BY <2>1 DEF Phase, Opened
  <2>6. Run!Cancel
    BY <2>1, <2>2, <2>5 DEF Run!Cancel, RunNodes, BusyNodes, DoneNodes, LostNodes, Busy
  <2> QED
    BY <2>3, <2>4, <2>6
<1> QED
  BY <1>1, <1>2

\* Every step of the engine keeps the invariant and is one of RunContract.
LEMMA ContractStep ==
  ContractInv /\ [Next]_vars => ContractInv' /\ [Run!Next]_Run!vars
<1> SUFFICES ASSUME ContractInv, [Next]_vars PROVE ContractInv' /\ [Run!Next]_Run!vars
  OBVIOUS
<1> DEFINE Goal == GraphInv' /\ BusyLive' /\ [Run!Next]_Run!vars
<1>t. CoreOK' /\ Unborn' /\ LiveFits' /\ InTurn'
  <2>1. CoreOK' /\ Unborn'
    BY TypeStep, RowsStand DEF ContractInv
  <2>2. CASE Operations \/ CancelWorkflow \/ Tick \/ UNCHANGED vars
    BY <2>1, <2>2, LifeMoves, TurnsKept DEF LifeMove, ContractInv
  <2>3. CASE Reclaim
    BY <2>1, <2>3, ReclaimMoves, TurnsKept DEF Reclaim, ContractInv
  <2> QED
    BY <2>2, <2>3 DEF Next
<1>0. ASSUME UNCHANGED <<wf, node, deps, remaining, progress>>,
             \A a \in Attempt : attempt'[a].state = attempt[a].state
      PROVE  Goal
  BY <1>0, QuietFits
<1>1. ASSUME NEW d \in Definitions, StartWorkflow(d) PROVE Goal
  <2>1. GraphInv' /\ BusyLive'
    BY <1>1, GraphStarts DEF ContractInv
  <2>2. Run!Start(d)
    <3>1. /\ wf = "ABSENT" /\ wf' = "RUNNING" /\ deps' = d.deps
          /\ \A n \in Node : node'[n] = IF n \in {m \in d.nodes : d.deps[m] = {}} THEN "READY"
                                        ELSE IF n \in d.nodes THEN "PENDING_DEPENDENCIES" ELSE "ABSENT"
      BY <1>1 DEF StartWorkflow
    <3>2. \A n \in Node : node[n] = "ABSENT"
      BY <3>1 DEF ContractInv, Unborn
    <3>3. /\ RunNodes' = d.nodes /\ DoneNodes' = DoneNodes /\ BusyNodes' = BusyNodes
          /\ LostNodes' = LostNodes
      BY <3>1, <3>2, DefinitionTypes DEF RunNodes, DoneNodes, BusyNodes, LostNodes, Busy
    <3>4. Phase = "ABSENT" /\ Phase' = "OPEN"
      BY <3>1 DEF Phase
    <3> QED
      BY <3>1, <3>3, <3>4 DEF Run!Start, RunNodes, DoneNodes, BusyNodes, LostNodes, Busy
  <2> QED
    BY <2>1, <2>2 DEF Run!Next
<1>2. ASSUME NEW n \in Node, StartAttempt(n) PROVE Goal
  <2>1. PICK k \in 1..MaxAttempts :
          attempt' = [attempt EXCEPT ![<<n, k>>] = [state |-> "RUNNING", worker |-> NoWorker, epoch |-> 0]]
    BY <1>2 DEF StartAttempt
  <2>2. /\ wf = "RUNNING" /\ node[n] = "READY" /\ "RUNNING" \in Busy
        /\ node' = [node EXCEPT ![n] = "RUNNING"]
        /\ UNCHANGED <<wf, deps, remaining, progress>>
        /\ [state |-> "RUNNING", worker |-> NoWorker, epoch |-> 0].state \in LiveAttempt
    BY <1>2 DEF StartAttempt, Busy, LiveAttempt
  <2>3. GraphInv' /\ BusyLive' /\ Run!Begin(n)
    BY <2>1, <2>2, OpeningFits
  <2> QED
    BY <2>3 DEF Run!Next
<1>3. ASSUME NEW n \in Node, NEW w \in Worker, NEW ttl \in 1..MaxTTL, NEW late \in Late,
             ClaimNode(n, w, ttl, late)
      PROVE  Goal
  <2>1. PICK k \in 1..MaxAttempts :
          attempt' = [attempt EXCEPT ![<<n, k>>] = [state |-> "CLAIMED", worker |-> w, epoch |-> 1]]
    BY <1>3 DEF ClaimNode
  <2>2. /\ wf = "RUNNING" /\ node[n] = "READY" /\ "QUEUED" \in Busy
        /\ node' = [node EXCEPT ![n] = "QUEUED"]
        /\ UNCHANGED <<wf, deps, remaining, progress>>
        /\ [state |-> "CLAIMED", worker |-> w, epoch |-> 1].state \in LiveAttempt
    BY <1>3 DEF ClaimNode, CompareAndSwapNodeRun, Busy, LiveAttempt
  <2>3. GraphInv' /\ BusyLive' /\ Run!Begin(n)
    BY <2>1, <2>2, OpeningFits
  <2> QED
    BY <2>3 DEF Run!Next
<1>4. ASSUME NEW a \in Attempt, NEW fence \in Fence, NEW late \in Late,
             StartClaimedAttempt(a, fence, late)
      PROVE  Goal
  <2>1. /\ node[NodeOf(a)] = "QUEUED" /\ node' = [node EXCEPT ![NodeOf(a)] = "RUNNING"]
        /\ attempt' = [attempt EXCEPT ![a] = [attempt[a] EXCEPT !.state = "RUNNING"]]
        /\ UNCHANGED <<wf, deps, remaining, progress>>
        /\ NodeOf(a) \in Node
    BY <1>4 DEF StartClaimedAttempt, CompareAndSwapNodeRun, Attempt, NodeOf
  <2>2. \A n \in Node : node'[n] = IF n = NodeOf(a) THEN "RUNNING" ELSE node[n]
    BY <2>1 DEF ContractInv, CoreOK
  <2>3. NodeOf(a) \in BusyNodes /\ wf # "PAUSED"
    BY <2>1 DEF BusyNodes, Busy, ContractInv, GraphInv
  <2>4. Relabelling
    BY <2>1, <2>2, <2>3 DEF Relabelling, Busy
  <2>5. /\ GraphInv' /\ RunNodes' = RunNodes /\ DoneNodes' = DoneNodes /\ LostNodes' = LostNodes
    BY <2>4, RelabelKeeps DEF ContractInv
  <2>6. BusyNodes' = BusyNodes
    BY <2>1, <2>2 DEF BusyNodes, Busy
  <2>7. BusyLive'
    <3>1. OthersStay(a) /\ attempt'[a].state \in LiveAttempt
      BY <2>1 DEF OthersStay, LiveAttempt, ContractInv, CoreOK, AttemptRow
    <3>2. \A n \in Node \ {NodeOf(a)} : node'[n] \in Busy => node[n] \in Busy
      BY <2>2
    <3> QED
      BY <3>1, <3>2, BusyStays DEF ContractInv
  <2> QED
    BY <2>1, <2>5, <2>6, <2>7, RunStutters
<1>5. ASSUME NEW a \in Attempt, NEW w \in Worker, NEW ttl \in 1..MaxTTL, NEW late \in Late,
             ReclaimExpiredAttempt(a, w, ttl, late)
      PROVE  Goal
  <2>1. PICK e \in Epoch : attempt' = [attempt EXCEPT ![a] =
                             [state |-> attempt[a].state, worker |-> w, epoch |-> e + 1]]
    BY <1>5 DEF ReclaimExpiredAttempt
  <2>2. \A b \in Attempt : attempt'[b].state = attempt[b].state
    BY <2>1 DEF ContractInv, CoreOK
  <2>3. UNCHANGED <<wf, node, deps, remaining, progress>>
    BY <1>5 DEF ReclaimExpiredAttempt
  <2> QED
    BY <2>2, <2>3, <1>0
<1>6. ASSUME NEW a \in Attempt, NEW fence \in Fence \cup {Unfenced}, NEW late \in Late,
             CompleteAttemptSuccess(a, fence, late)
      PROVE  Goal
  <2>1. GraphInv' /\ BusyLive' /\ Run!Finish(NodeOf(a))
    BY <1>6, <1>t, SuccessFits
  <2> QED
    BY <2>1 DEF Run!Next, Attempt, NodeOf
<1>7. ASSUME NEW a \in Attempt, NEW fence \in Fence \cup {Unfenced}, NEW late \in Late,
             CompleteAttemptFailure(a, fence, late)
      PROVE  Goal
  <2>1. GraphInv' /\ BusyLive' /\ Run!Fail(NodeOf(a))
    BY <1>7, FailureFits
  <2> QED
    BY <2>1 DEF Run!Next, Attempt, NodeOf
<1>8. ASSUME PauseWorkflow \/ ResumeWorkflow \/ CancelWorkflow
      PROVE  Goal
  BY <1>8, ControlFits DEF Run!Next
<1>9. ASSUME UNCHANGED <<wf, node, deps, remaining, progress, attempt>>
      PROVE  Goal
  BY <1>9, <1>0
<1>10. Goal
  <2>1. ASSUME \/ \E w \in Worker, state \in WorkerStates : RegisterWorker(w, state)
               \/ \E a \in Attempt, fence \in Fence, late \in Late, ttl \in 1..MaxTTL :
                    HeartbeatLease(a, fence, ttl, late)
               \/ Tick
               \/ UNCHANGED vars
        PROVE  UNCHANGED <<wf, node, deps, remaining, progress, attempt>>
    BY <2>1 DEF RegisterWorker, HeartbeatLease, Tick, vars
  <2> HIDE DEF Goal
  <2> QED
    BY <1>1, <1>2, <1>3, <1>4, <1>5, <1>6, <1>7, <1>8, <1>9, <2>1 DEF Next, Operations, Reclaim
<1> QED
  BY <1>10, <1>t DEF ContractInv

\* Before a run exists nothing is counted and nothing is at work.
LEMMA ContractStart == Init => ContractInv /\ Run!Init
<1> SUFFICES ASSUME Init PROVE ContractInv /\ Run!Init
  OBVIOUS
<1>1. CoreOK /\ Unborn
  BY Beginning
<1>2. \A n \in Node : node[n] = "ABSENT" /\ deps[n] = {}
  BY DEF Init
<1>3. LiveFits /\ InTurn
  BY DEF Init, LiveFits, InTurn, Live, LiveAttempt, NoAttempt, Attempt
<1>4. BusyLive
  BY <1>2 DEF BusyLive, Busy
<1>5. wf = "ABSENT" /\ deps \in [Node -> SUBSET Node]
  BY DEF Init
<1>6. GraphInv
  BY <1>2, <1>5 DEF GraphInv, KnownPhase, Opened, NeedsMet, NeedsCounted, NodesCounted
<1>7. Run!Init
  BY <1>2, <1>5 DEF Run!Init, Init, Phase
<1> QED
  BY <1>1, <1>3, <1>4, <1>6, <1>7 DEF ContractInv

\* The engine implements RunContract, whatever the graph: a node begins only
\* after all it depends on and only while the run is open, a pause holds the run
\* with its last attempt, the first failure decides it and so does the last success.
THEOREM ContractRefinement == Spec => ImplementsRun
BY ContractStart, ContractStep, PTL DEF Spec, ImplementsRun, Run!Spec
=============================================================================
