------------------------ MODULE HarnessMutationProofs ------------------------
(***************************************************************************)
(* Theorems about HarnessMutation: what HarnessEngineProofs shows of a run  *)
(* whose graph stands still holds of one whose graph is changed under it,   *)
(* and why the dependency gate, completions and progress survive mutations, *)
(* for every proposal, every repair and every bound.                        *)
(***************************************************************************)
EXTENDS HarnessMutation, HarnessEngineProofs

mvars == <<vars, mutationVars>>

\* What a client offers to apply is a list of additions.
Listed(adds) == Len(adds) \in Nat /\ DOMAIN adds = 1..Len(adds)
OffersInv == \A o \in offers : Listed(o.mutation.adds)

----------------------------------------------------------------------------
\* A proposal becomes as many additions as it has actions.
LEMMA ProposalLength ==
  ASSUME NEW p \in Proposals, NEW trigger, NEW r
  PROVE  Listed(BuildHarnessMutation(p, trigger, r).adds)
<1>1. p.order \in Seq(DOMAIN p.actions)
  BY MutationAssumption
<1>2. Len(p.order) \in Nat /\ DOMAIN p.order = 1..Len(p.order)
  BY <1>1
<1> DEFINE F(k) ==
      Added(<<r, p.order[k]>>, IF p.actions[p.order[k]] = {} THEN {trigger}
                               ELSE {<<r, b>> : b \in p.actions[p.order[k]]})
           adds == [k \in 1..Len(p.order) |-> F(k)]
<1>3. BuildHarnessMutation(p, trigger, r).adds = adds
  BY <1>2 DEF BuildHarnessMutation, Mutation
<1>4. Len(adds) = Len(p.order)
  <2> HIDE DEF F
  <2> QED  BY <1>2
<1> QED
  BY <1>2, <1>3, <1>4 DEF Listed

\* A mutation changes no attempt, no lease and no terminal node, and its new
\* nodes, counters and queue rows have the types of their tables.
LEMMA MutationFacts ==
  ASSUME CoreOK, OffersInv, NEW o \in offers, ApplyGraphMutation(o)
  PROVE  /\ CoreOK'
         /\ UNCHANGED <<wf, attempt, lease, worker, outcome, offers>>
         /\ wf \notin TerminalWorkflow \cup {"ABSENT"}
         /\ \A n \in Node : node[n] \in TerminalNode => node'[n] = node[n]
<1> DEFINE m == o.mutation
<1>1. /\ UNCHANGED <<wf, attempt, lease, worker, outcome, offers>>
      /\ wf \notin TerminalWorkflow \cup {"ABSENT"}
      /\ Addable(m.adds)
      /\ node' = [n \in Node |-> IF n \in Ids(m) THEN InitialState(Needs(m, n))
                                 ELSE IF n \in Superseded(m) THEN "CANCELLED" ELSE node[n]]
      /\ remaining' = [n \in Node |-> IF n \in Ids(m) THEN InitialRemaining(Needs(m, n))
                                      ELSE remaining[n]]
      /\ progress' = [progress EXCEPT !.total = progress.total + Len(m.adds)]
      /\ \E roots : /\ roots \subseteq Ids(m)
                    /\ ready' = (ready \ Superseded(m)) \cup roots
  BY DEF ApplyGraphMutation
<1>2. Ids(m) \subseteq Node \ Existing
  BY <1>1 DEF Addable, Ids
<1>3. ASSUME NEW n \in Node PROVE Cardinality(Needs(m, n)) \in Int
  <2>1. ASSUME NEW k \in DOMAIN m.adds PROVE m.adds[k].needs \subseteq Node
    <3>1. \A j \in 1..(k - 1) : j \in DOMAIN m.adds
      BY <2>1 DEF OffersInv, Listed
    <3>2. \A j \in 1..(k - 1) : m.adds[j].id \in Node
      BY <1>2, <3>1 DEF Ids
    <3>3. m.adds[k].needs \subseteq Existing \cup {m.adds[j].id : j \in 1..(k - 1)}
      BY <1>1 DEF Addable
    <3> QED
      BY <3>2, <3>3 DEF Existing
  <2>2. Needs(m, n) \subseteq Node
    BY <2>1 DEF Needs
  <2>3. IsFiniteSet(Node)
    BY DefinitionsAssumption
  <2>4. IsFiniteSet(Needs(m, n))
    BY <2>2, <2>3, FS_Subset
  <2> QED
    BY <2>4, FS_CardinalityType
<1>4. node' \in [Node -> NodeState \cup {"ABSENT"}]
  BY <1>1 DEF CoreOK, InitialState, NodeState
<1>5. remaining' \in [Node -> Int]
  BY <1>1, <1>3 DEF CoreOK, InitialRemaining
<1>6. progress' \in [total : Nat, terminal : Nat, failed : Nat]
  <2>1. Len(m.adds) \in Nat
    BY DEF OffersInv, Listed
  <2> QED
    BY <1>1, <2>1 DEF CoreOK
<1>7. ready' \in SUBSET Node
  BY <1>1, <1>2 DEF CoreOK
<1>8. ASSUME NEW n \in Node, node[n] \in TerminalNode PROVE node'[n] = node[n]
  <2>1. n \notin Ids(m)
    BY <1>2, <1>8 DEF Existing, TerminalNode
  <2>2. n \notin Superseded(m)
    BY <1>8 DEF Superseded, TerminalNode
  <2> QED
    BY <1>1, <2>1, <2>2
<1> QED
  BY <1>1, <1>4, <1>5, <1>6, <1>7, <1>8 DEF CoreOK

\* Every step is one of the engine, or changes the graph.
LEMMA MutationStepKinds ==
  ASSUME [MutationNext]_mvars
  PROVE  \/ [Next]_vars
         \/ \E o \in offers : ApplyGraphMutation(o)
  BY DEF MutationNext, mvars, ProposeActions, Propose

\* What is offered stays a list of additions.
LEMMA OffersStep == OffersInv /\ [MutationNext]_mvars => OffersInv'
<1> SUFFICES ASSUME OffersInv, [MutationNext]_mvars PROVE OffersInv'
  OBVIOUS
<1>1. ASSUME NEW m, Listed(m.adds), Propose(m) PROVE OffersInv'
  BY <1>1 DEF Propose, Offer, OffersInv
<1>2. ASSUME NEW p \in Proposals, NEW n \in Node, ProposeActions(p, n) PROVE OffersInv'
  BY <1>1, <1>2, ProposalLength DEF ProposeActions
<1>3. ASSUME NEW m \in Repairs, Propose(m) PROVE OffersInv'
  <2>1. m.adds \in Seq([id : Node, needs : SUBSET Node])
    BY MutationAssumption
  <2>2. Listed(m.adds)
    BY <2>1 DEF Listed
  <2> QED
    BY <1>1, <1>3, <2>2
<1>4. ASSUME UNCHANGED offers PROVE OffersInv'
  BY <1>4 DEF OffersInv
<1> QED
  BY <1>2, <1>3, <1>4 DEF MutationNext, ApplyGraphMutation, mvars, mutationVars

----------------------------------------------------------------------------
MutationInv == CoreOK /\ Unborn /\ LeaseOwnership /\ FencedOutcome /\ OffersInv

\* The invariant of the engine holds before there is a run.
LEMMA MutationStart == MutationInit => MutationInv
BY Beginning DEF MutationInit, MutationInv, OffersInv

\* Steps of the engine keep it, and mutations do not reach what it speaks of.
LEMMA MutationStep == MutationInv /\ [MutationNext]_mvars => MutationInv'
<1> SUFFICES ASSUME MutationInv, [MutationNext]_mvars PROVE MutationInv'
  OBVIOUS
<1> USE DEF MutationInv
<1>1. CASE [Next]_vars
  BY <1>1, TypeStep, RowsStand, OwnershipStep, FencedStep, OffersStep
<1>2. ASSUME NEW o \in offers, ApplyGraphMutation(o) PROVE MutationInv'
  <2>1. /\ CoreOK' /\ UNCHANGED <<wf, attempt, lease, outcome>> /\ wf # "ABSENT"
    BY <1>2, MutationFacts
  <2>2. LeaseOwnership'
    BY <2>1 DEF LeaseOwnership, Live
  <2>3. FencedOutcome'
    BY <2>1 DEF FencedOutcome
  <2> QED
    BY <2>1, <2>2, <2>3, OffersStep DEF Unborn
<1> QED
  BY <1>1, <1>2, MutationStepKinds

\* Ownership through one lease, whatever is added to, rewired in or taken out of
\* the graph while workers hold leases (ApplyGraphMutation).
THEOREM OwnershipSurvivesMutation == MutationSpec => []LeaseOwnership
<1>1. MutationInv => LeaseOwnership
  BY DEF MutationInv
<1> QED
  BY MutationStart, MutationStep, <1>1, PTL DEF MutationSpec, mvars

\* The outcome of an attempt is its last owner's, whatever happens to the graph.
THEOREM OutcomesSurviveMutation == MutationSpec => []FencedOutcome
<1>1. MutationInv => FencedOutcome
  BY DEF MutationInv
<1> QED
  BY MutationStart, MutationStep, <1>1, PTL DEF MutationSpec, mvars

\* No mutation makes an attempt live, so the set a pause waits for shrinks still.
THEOREM GateSurvivesMutation == MutationSpec => GateClosed
<1>1. MutationInv /\ [MutationNext]_mvars => [KeepsGate]_vars
  <2> SUFFICES ASSUME MutationInv, [MutationNext]_mvars PROVE [KeepsGate]_vars
    OBVIOUS
  <2>1. CASE [Next]_vars
    BY <2>1, GateStep DEF MutationInv
  <2>2. ASSUME NEW o \in offers, ApplyGraphMutation(o) PROVE KeepsGate
    <3>1. attempt' = attempt
      BY <2>2, MutationFacts DEF MutationInv
    <3> QED
      BY <3>1 DEF KeepsGate, Live
  <2> QED
    BY <2>1, <2>2, MutationStepKinds
<1> QED
  BY MutationStart, MutationStep, <1>1, PTL DEF MutationSpec, mvars, GateClosed

\* A mutation is refused by a decided run and never touches a decided node: what
\* is decided stays decided although the graph changes.
THEOREM DecisionsSurviveMutation == MutationSpec => DecidedStaysDecided
<1>1. MutationInv /\ [MutationNext]_mvars => [KeepsDecisions]_vars
  <2> SUFFICES ASSUME MutationInv, [MutationNext]_mvars PROVE [KeepsDecisions]_vars
    OBVIOUS
  <2>1. CASE [Next]_vars
    BY <2>1, DecisionStep DEF MutationInv
  <2>2. ASSUME NEW o \in offers, ApplyGraphMutation(o) PROVE KeepsDecisions
    BY <2>2, MutationFacts DEF MutationInv, KeepsDecisions
  <2> QED
    BY <2>1, <2>2, MutationStepKinds
<1> QED
  BY MutationStart, MutationStep, <1>1, PTL DEF MutationSpec, mvars, DecidedStaysDecided

\* The engine with its mutations implements fencing tokens: a mutation is a step
\* AttemptFencing does not see.
THEOREM FencingSurvivesMutation == MutationSpec => ImplementsFencing
<1>1. MutationInit => Fencing!Init
  BY FencingStart DEF MutationInit
<1>2. MutationInv /\ [MutationNext]_mvars => [Fencing!Next]_Fencing!vars
  <2> SUFFICES ASSUME MutationInv, [MutationNext]_mvars PROVE [Fencing!Next]_Fencing!vars
    OBVIOUS
  <2>1. CASE [Next]_vars
    BY <2>1, FencingMoves DEF MutationInv
  <2>2. ASSUME NEW o \in offers, ApplyGraphMutation(o) PROVE UNCHANGED Fencing!vars
    <3>1. attempt' = attempt /\ outcome' = outcome
      BY <2>2, MutationFacts DEF MutationInv
    <3> QED
      BY <3>1 DEF Fencing!vars
  <2> QED
    BY <2>1, <2>2, MutationStepKinds
<1> QED
  BY MutationStart, MutationStep, <1>1, <1>2, PTL
     DEF MutationSpec, mvars, ImplementsFencing, Fencing!Spec

----------------------------------------------------------------------------
(***************************************************************************)
(* The graph under a run that changes.  A mutation never counts again, so   *)
(* what a node waits for is what is open among its dependencies together    *)
(* with those that had succeeded before the node was added; and it leaves   *)
(* every dependency between nodes that exist.                               *)
(***************************************************************************)
Unreleased == {"ABSENT", "PENDING_DEPENDENCIES", "CANCELLED"}
Never(n) == {m \in deps[n] : <<n, m>> \in missed}

Standing ==
  /\ deps \in [Node -> SUBSET Node]
  /\ \A n \in Node : /\ deps[n] \subseteq RunNodes
                     /\ node[n] = "ABSENT" => deps[n] = {}
  /\ \A n, m \in Node : <<n, m>> \in missed => node[m] = "SUCCEEDED"

Awaits(n) ==
  remaining[n] = Cardinality(OpenNeeds(n)) + Cardinality(Never(n)) /\ remaining[n] > 0

Gated ==
  \A n \in Node \ touched :
    /\ node[n] \notin Unreleased => OpenNeeds(n) = {}
    /\ Opened => node[n] # "CANCELLED"
    /\ Opened /\ node[n] = "PENDING_DEPENDENCIES" => Awaits(n)

HeldIsIdle == wf = "PAUSED" => \A a \in Attempt : ~Live(a)

GateInv == MutationInv /\ LiveFits /\ InTurn /\ Standing /\ Gated /\ HeldIsIdle

\* A step of the engine that neither begins the run nor lets a node succeed: it
\* releases nothing, and while the run stays open only puts nodes to work.
Calm ==
  /\ UNCHANGED <<deps, remaining>>
  /\ \A n \in Node : /\ node'[n] = "ABSENT" <=> node[n] = "ABSENT"
                     /\ node'[n] = "SUCCEEDED" <=> node[n] = "SUCCEEDED"
                     /\ node'[n] \notin Unreleased => node[n] \notin Unreleased
  /\ Opened' => /\ Opened /\ progress' = progress
                /\ \A n \in Node : \/ node'[n] = node[n] /\ (n \in ready => n \in ready')
                                   \/ node[n] \in {"READY"} \cup Busy /\ node'[n] \in Busy

\* What the engine's other steps are to the graph.
LEMMA CalmSteps ==
  ASSUME CoreOK, HeldIsIdle, [Next]_vars
  PROVE  \/ \E d \in Definitions : StartWorkflow(d)
         \/ \E a \in Attempt, fence \in Fence \cup {Unfenced}, late \in Late :
              CompleteAttemptSuccess(a, fence, late)
         \/ Calm
<1> USE DEF CoreOK
<1>0. \A a \in Attempt : NodeOf(a) \in Node
  BY DEF Attempt, NodeOf
<1>1. ASSUME NEW n \in Node, NEW to \in Busy, node[n] \in {"READY"} \cup Busy,
             node' = [node EXCEPT ![n] = to], ready' = ready \ {n},
             UNCHANGED <<wf, deps, remaining, progress>>
      PROVE  Calm
  BY <1>1 DEF Calm, Busy, Opened, Unreleased
<1>2. ASSUME NEW n \in Node, StartAttempt(n) PROVE Calm
  <2>1. /\ node[n] = "READY" /\ "RUNNING" \in Busy /\ node' = [node EXCEPT ![n] = "RUNNING"]
        /\ ready' = ready \ {n} /\ UNCHANGED <<wf, deps, remaining, progress>>
    BY <1>2 DEF StartAttempt, Busy
  <2> QED
    BY <2>1, <1>1
<1>3. ASSUME NEW n \in Node, NEW w \in Worker, NEW ttl \in 1..MaxTTL, NEW late \in Late,
             ClaimNode(n, w, ttl, late)
      PROVE  Calm
  <2>1. /\ node[n] = "READY" /\ "QUEUED" \in Busy /\ node' = [node EXCEPT ![n] = "QUEUED"]
        /\ ready' = ready \ {n} /\ UNCHANGED <<wf, deps, remaining, progress>>
    BY <1>3 DEF ClaimNode, CompareAndSwapNodeRun, Busy
  <2> QED
    BY <2>1, <1>1
<1>4. ASSUME NEW a \in Attempt, NEW fence \in Fence, NEW late \in Late,
             StartClaimedAttempt(a, fence, late)
      PROVE  Calm
  <2>1. /\ node[NodeOf(a)] \in Busy /\ "RUNNING" \in Busy
        /\ node' = [node EXCEPT ![NodeOf(a)] = "RUNNING"]
        /\ ready' = ready \ {NodeOf(a)} /\ UNCHANGED <<wf, deps, remaining, progress>>
    BY <1>4 DEF StartClaimedAttempt, CompareAndSwapNodeRun, Busy
  <2> QED
    BY <1>0, <2>1, <1>1
<1>5. ASSUME NEW a \in Attempt, NEW fence \in Fence \cup {Unfenced}, NEW late \in Late,
             CompleteAttemptFailure(a, fence, late)
      PROVE  Calm
  <2>1. /\ node[NodeOf(a)] = "RUNNING" /\ attempt[a].state = "RUNNING"
        /\ node' = [node EXCEPT ![NodeOf(a)] = "FAILED"]
        /\ wf' = IF WorkflowAllowsDrain(wf) THEN "FAILED" ELSE wf
        /\ UNCHANGED <<deps, remaining>>
    BY <1>5 DEF CompleteAttemptFailure, CompareAndSwapNodeRun
  <2>2. ~Opened'
    BY <2>1 DEF WorkflowAllowsDrain, Opened, HeldIsIdle, Live, LiveAttempt
  <2>3. NodeOf(a) \in Node
    BY <1>0
  <2> QED
    BY <2>1, <2>2, <2>3 DEF Calm, Unreleased
<1>6. CASE CancelWorkflow
  <2>1. /\ ~Opened' /\ UNCHANGED <<deps, remaining>>
        /\ \A n \in Node : node'[n] = IF node[n] \in TerminalNode \cup {"ABSENT"} THEN node[n]
                                      ELSE "CANCELLED"
    BY <1>6 DEF CancelWorkflow, CancelWorkflowRuntime, Opened
  <2> QED
    BY <2>1 DEF Calm, Unreleased, TerminalNode
<1>7. ASSUME UNCHANGED <<node, deps, remaining, ready, progress>>, Opened' => Opened
      PROVE  Calm
  BY <1>7 DEF Calm
<1>8. ASSUME PauseWorkflow \/ ResumeWorkflow PROVE Calm
  BY <1>7, <1>8 DEF PauseWorkflow, ResumeWorkflow, Opened
<1>9. ASSUME \/ \E w \in Worker, state \in WorkerStates : RegisterWorker(w, state)
             \/ \E a \in Attempt, fence \in Fence, late \in Late, ttl \in 1..MaxTTL :
                  HeartbeatLease(a, fence, ttl, late)
             \/ Reclaim \/ Tick \/ UNCHANGED vars
      PROVE  Calm
  BY <1>7, <1>9 DEF RegisterWorker, HeartbeatLease, Reclaim, ReclaimExpiredAttempt, Tick, vars, Opened
<1> QED
  BY <1>2, <1>3, <1>4, <1>5, <1>6, <1>8, <1>9 DEF Next, Operations

\* A calm step keeps the graph's picture: what is open and counted stays so.
LEMMA CalmKeeps ==
  ASSUME Standing, Gated, Calm, UNCHANGED <<missed, touched>>
  PROVE  Standing' /\ Gated'
<1>1. Standing'
  BY DEF Calm, Standing, RunNodes
<1>2. \A n \in Node : OpenNeeds(n)' = OpenNeeds(n) /\ Never(n)' = Never(n)
  BY DEF Calm, OpenNeeds, Never, Standing
<1>3. ASSUME NEW n \in Node \ touched PROVE
        /\ (node[n] \notin Unreleased => OpenNeeds(n) = {})'
        /\ (Opened => node[n] # "CANCELLED")'
        /\ (Opened /\ node[n] = "PENDING_DEPENDENCIES" => Awaits(n))'
  BY <1>2 DEF Calm, Gated, Awaits, Busy
<1> QED
  BY <1>1, <1>3 DEF Gated

\* A new run waits for what its definition says, and knows no missed success.
LEMMA StartKeeps ==
  ASSUME CoreOK, Unborn, Standing, NEW d \in Definitions, StartWorkflow(d),
         UNCHANGED <<missed, touched>>
  PROVE  Standing' /\ Gated'
<1>1. /\ wf = "ABSENT" /\ deps' = d.deps
      /\ remaining' = [n \in Node |-> Cardinality(d.deps[n])]
      /\ \A n \in Node : node'[n] = IF n \in {m \in d.nodes : d.deps[m] = {}} THEN "READY"
                                    ELSE IF n \in d.nodes THEN "PENDING_DEPENDENCIES" ELSE "ABSENT"
  BY DEF StartWorkflow
<1>2. /\ d.nodes \in SUBSET Node /\ d.deps \in [Node -> SUBSET Node]
      /\ \A n \in Node : d.deps[n] \subseteq d.nodes
      /\ \A n \in Node \ d.nodes : d.deps[n] = {}
  BY DefinitionsAssumption
<1>3. \A n, m \in Node : <<n, m>> \notin missed
  BY <1>1 DEF Unborn, Standing
<1>4. Standing'
  BY <1>1, <1>2, <1>3 DEF Standing, RunNodes
<1>5. \A n \in Node : OpenNeeds(n)' = d.deps[n] /\ Never(n)' = {}
  BY <1>1, <1>2, <1>3 DEF OpenNeeds, Never
<1>6. ASSUME NEW n \in Node, node'[n] = "PENDING_DEPENDENCIES" PROVE Awaits(n)'
  <2>1. d.deps[n] # {} /\ d.deps[n] \in SUBSET Node
    BY <1>1, <1>2, <1>6
  <2>2. Cardinality(d.deps[n]) \in Nat /\ Cardinality(d.deps[n]) # 0
    BY <2>1, NodesFinite, FS_EmptySet
  <2>3. Cardinality(Never(n)') = 0 /\ Cardinality(OpenNeeds(n)') = Cardinality(d.deps[n])
    BY <1>5, FS_EmptySet
  <2>4. remaining'[n] = Cardinality(d.deps[n])
    BY <1>1
  <2> QED
    BY <2>2, <2>3, <2>4 DEF Awaits
<1>7. \A n \in Node : /\ node'[n] # "CANCELLED"
                      /\ node'[n] \notin Unreleased => OpenNeeds(n)' = {}
  BY <1>1, <1>5 DEF Unreleased
<1> QED
  BY <1>4, <1>6, <1>7 DEF Gated

\* What a success writes.
LEMMA SuccessWrites ==
  ASSUME CoreOK, HeldIsIdle, NEW a \in Attempt, NEW fence \in Fence \cup {Unfenced},
         NEW late \in Late, CompleteAttemptSuccess(a, fence, late)
  PROVE  LET n == NodeOf(a)
             children == IF Opened THEN Dependents(n) ELSE {}
             released == {c \in children : remaining[c] = 1}
         IN /\ n \in Node /\ node[n] = "RUNNING"
            /\ \A c \in children : node[c] = "PENDING_DEPENDENCIES" /\ remaining[c] > 0
            /\ \A c \in Node : remaining'[c] = IF c \in children THEN remaining[c] - 1
                                               ELSE remaining[c]
            /\ \A c \in Node : node'[c] = IF c = n THEN "SUCCEEDED"
                                          ELSE IF c \in released THEN "READY" ELSE node[c]
            /\ ready' = ready \cup released
            /\ deps' = deps
            /\ Opened' => Opened
<1>1. NodeOf(a) \in Node /\ attempt[a].state = "RUNNING" /\ node[NodeOf(a)] = "RUNNING"
  BY DEF CompleteAttemptSuccess, Attempt, NodeOf
<1>2. WorkflowAllowsDrain(wf) <=> Opened
  BY <1>1 DEF WorkflowAllowsDrain, Opened, HeldIsIdle, Live, LiveAttempt
<1>3. Opened' => Opened
  BY DEF CompleteAttemptSuccess, FinalizePauseIfDrained, Opened
<1> QED
  BY <1>1, <1>2, <1>3 DEF CompleteAttemptSuccess

\* A success is counted once by each node that waits for it, and releases those
\* that wait for nothing else.
LEMMA SuccessGates ==
  ASSUME CoreOK, HeldIsIdle, Standing, Gated, NEW a \in Attempt,
         NEW fence \in Fence \cup {Unfenced}, NEW late \in Late,
         CompleteAttemptSuccess(a, fence, late), UNCHANGED <<missed, touched>>
  PROVE  Standing' /\ Gated'
<1> DEFINE n == NodeOf(a)
           children == IF Opened THEN Dependents(n) ELSE {}
           released == {c \in children : remaining[c] = 1}
<1>1. /\ n \in Node /\ node[n] = "RUNNING"
      /\ \A c \in children : node[c] = "PENDING_DEPENDENCIES" /\ remaining[c] > 0
      /\ \A c \in Node : remaining'[c] = IF c \in children THEN remaining[c] - 1
                                         ELSE remaining[c]
      /\ \A c \in Node : node'[c] = IF c = n THEN "SUCCEEDED"
                                    ELSE IF c \in released THEN "READY" ELSE node[c]
      /\ deps' = deps
      /\ Opened' => Opened
  BY SuccessWrites
<1> HIDE DEF n
<1>2. /\ \A c \in children : c \in Node /\ n \in deps[c] /\ c # n
      /\ \A c \in Node : Opened /\ node[c] = "PENDING_DEPENDENCIES" /\ n \in deps[c]
           => c \in children
      /\ \A c \in released : c \in children /\ remaining[c] = 1
      /\ \A c \in children \ released : remaining[c] # 1
      /\ \A c \in children : Opened
  BY <1>1 DEF Dependents
<1> HIDE DEF children, released
<1>3. Standing'
  BY <1>1, <1>2 DEF Standing, RunNodes
<1>4. \A c \in Node : OpenNeeds(c)' = OpenNeeds(c) \ {n} /\ Never(c)' = Never(c)
  BY <1>1, <1>2 DEF OpenNeeds, Never, Standing
<1>5. ASSUME NEW c \in children, c \notin touched
      PROVE  /\ remaining[c] \in Int /\ remaining[c] > 0
             /\ remaining[c] - 1 = Cardinality(OpenNeeds(c)') + Cardinality(Never(c)')
             /\ (remaining[c] = 1 => OpenNeeds(c)' = {})
  <2>1. c \in Node /\ Opened /\ node[c] = "PENDING_DEPENDENCIES" /\ n \in OpenNeeds(c)
    BY <1>1, <1>2 DEF OpenNeeds
  <2>2. /\ remaining[c] = Cardinality(OpenNeeds(c)) + Cardinality(Never(c)) /\ remaining[c] > 0
    BY <1>5, <2>1 DEF Gated, Awaits
  <2>3. OpenNeeds(c) \in SUBSET Node /\ Never(c) \in SUBSET Node
    BY <2>1 DEF OpenNeeds, Never, Standing
  <2>4. /\ IsFiniteSet(OpenNeeds(c)) /\ Cardinality(OpenNeeds(c)) \in Nat
        /\ Cardinality(Never(c)) \in Nat
    BY <2>3, NodesFinite
  <2>5. /\ IsFiniteSet(OpenNeeds(c) \ {n})
        /\ Cardinality(OpenNeeds(c) \ {n}) = Cardinality(OpenNeeds(c)) - 1
    BY <2>1, <2>4, FS_RemoveElement
  <2>6. /\ Cardinality(OpenNeeds(c) \ {n}) \in Nat
        /\ Cardinality(OpenNeeds(c) \ {n}) = 0 => OpenNeeds(c) \ {n} = {}
    BY <2>5, FS_EmptySet, FS_CardinalityType
  <2>7. OpenNeeds(c)' = OpenNeeds(c) \ {n} /\ Never(c)' = Never(c)
    BY <1>4, <2>1
  <2> QED
    BY <2>2, <2>4, <2>5, <2>6, <2>7
<1>6. ASSUME NEW c \in Node, c \notin touched, node'[c] \notin Unreleased
      PROVE  OpenNeeds(c)' = {}
  <2>1. CASE c \in released
    BY <1>2, <1>5, <1>6, <2>1
  <2>2. CASE c \notin released
    <3>1. node[c] \notin Unreleased
      BY <1>1, <1>6, <2>2 DEF Unreleased
    <3> QED
      BY <1>4, <1>6, <3>1 DEF Gated
  <2> QED
    BY <2>1, <2>2
<1>7. ASSUME NEW c \in Node, c \notin touched, Opened', node'[c] = "PENDING_DEPENDENCIES"
      PROVE  Awaits(c)'
  <2>1. Opened /\ c # n /\ c \notin released /\ node[c] = "PENDING_DEPENDENCIES"
    BY <1>1, <1>7
  <2>2. CASE c \in children
    <3>1. remaining[c] \in Int /\ remaining[c] > 0 /\ remaining[c] # 1
      BY <1>2, <1>5, <1>7, <2>1, <2>2
    <3>2. remaining'[c] = remaining[c] - 1
      BY <1>1, <2>2
    <3>3. remaining[c] - 1 = Cardinality(OpenNeeds(c)') + Cardinality(Never(c)')
      BY <1>5, <1>7, <2>2
    <3> QED
      BY <3>1, <3>2, <3>3 DEF Awaits
  <2>3. CASE c \notin children
    <3>1. OpenNeeds(c)' = OpenNeeds(c) /\ Never(c)' = Never(c)
      BY <1>2, <1>4, <2>1, <2>3 DEF OpenNeeds
    <3>2. remaining'[c] = remaining[c]
      BY <1>1, <2>3
    <3>3. Awaits(c)
      BY <1>7, <2>1 DEF Gated
    <3> QED
      BY <3>1, <3>2, <3>3 DEF Awaits
  <2> QED
    BY <2>2, <2>3
<1>8. ASSUME NEW c \in Node, c \notin touched, Opened' PROVE node'[c] # "CANCELLED"
  BY <1>1, <1>8 DEF Gated
<1> QED
  BY <1>1, <1>3, <1>6, <1>7, <1>8 DEF Gated

\* A held run works on nothing, and nothing but a drained pause holds a run.
LEMMA HeldStep ==
  ASSUME CoreOK, LeaseOwnership, HeldIsIdle, [Next]_vars
  PROVE  HeldIsIdle'
<1>1. \A a \in Attempt : wf = "PAUSED" => ~Live(a)'
  BY GateStep DEF KeepsGate, HeldIsIdle, vars, Live
<1>2. ASSUME CountActiveAttempts(attempt') = {} PROVE HeldIsIdle'
  BY <1>2 DEF HeldIsIdle, CountActiveAttempts, Live
<1>3. ASSUME NEW s, wf' = FinalizePauseIfDrained(s, attempt'), s = "PAUSED" => wf = "PAUSED"
      PROVE  HeldIsIdle'
  BY <1>1, <1>2, <1>3 DEF FinalizePauseIfDrained, HeldIsIdle
<1>4. ASSUME wf' = "PAUSED" => wf = "PAUSED" PROVE HeldIsIdle'
  BY <1>1, <1>4 DEF HeldIsIdle
<1>5. CASE PauseWorkflow
  BY <1>3, <1>5 DEF PauseWorkflow
<1>6. ASSUME NEW a \in Attempt, NEW fence \in Fence \cup {Unfenced}, NEW late \in Late,
             CompleteAttemptSuccess(a, fence, late)
      PROVE  HeldIsIdle'
  <2>1. wf' = "SUCCEEDED" \/ wf' = FinalizePauseIfDrained(wf, attempt')
    BY <1>6 DEF CompleteAttemptSuccess
  <2> QED
    BY <1>3, <1>4, <2>1
<1>7. ASSUME NEW a \in Attempt, NEW fence \in Fence \cup {Unfenced}, NEW late \in Late,
             CompleteAttemptFailure(a, fence, late)
      PROVE  HeldIsIdle'
  BY <1>4, <1>7 DEF CompleteAttemptFailure
<1>8. CASE CancelWorkflow \/ ResumeWorkflow \/ \E d \in Definitions : StartWorkflow(d)
  BY <1>4, <1>8 DEF CancelWorkflow, ResumeWorkflow, StartWorkflow
<1>9. ASSUME \/ \E w \in Worker, state \in WorkerStates : RegisterWorker(w, state)
             \/ \E n \in Node : StartAttempt(n)
             \/ \E n \in Node, w \in Worker, ttl \in 1..MaxTTL, late \in Late :
                  ClaimNode(n, w, ttl, late)
             \/ \E a \in Attempt, fence \in Fence, late \in Late :
                  \/ StartClaimedAttempt(a, fence, late)
                  \/ \E ttl \in 1..MaxTTL : HeartbeatLease(a, fence, ttl, late)
             \/ Reclaim \/ Tick \/ UNCHANGED vars
      PROVE  wf' = wf
  BY <1>9 DEF RegisterWorker, StartAttempt, ClaimNode, StartClaimedAttempt, HeartbeatLease,
              Reclaim, ReclaimExpiredAttempt, Tick, vars
<1> QED
  BY <1>4, <1>5, <1>6, <1>7, <1>8, <1>9 DEF Next, Operations

----------------------------------------------------------------------------
\* What a mutation writes: its new nodes were absent and depend on what there is
\* or will be, what it gives up was not at work, and what it rewires is known.
LEMMA MutationWrites ==
  ASSUME CoreOK, OffersInv, NEW o \in offers, ApplyGraphMutation(o)
  PROVE  LET m == o.mutation
         IN /\ Ids(m) \subseteq Node /\ \A n \in Ids(m) : node[n] = "ABSENT"
            /\ \A n \in Node : Needs(m, n) \subseteq RunNodes \cup Ids(m)
            /\ \A n \in Node \ Ids(m) : Needs(m, n) = {}
            /\ \A n \in Superseded(m) : node[n] \in {"PENDING_DEPENDENCIES", "READY", "WAITING"}
            /\ touched \subseteq touched' /\ Superseded(m) \subseteq touched'
            /\ \A k \in DOMAIN m.replaces :
                 /\ m.replaces[k].node \in touched'
                 /\ m.replaces[k].new \in RunNodes \cup Ids(m)
                 /\ m.replaces[k].node \in RunNodes \cup Ids(m)
<1> DEFINE m == o.mutation
<1>1. Addable(m.adds) /\ Replaceable(m)
  BY DEF ApplyGraphMutation
<1>2. Ids(m) \subseteq Node \ Existing
  BY <1>1 DEF Addable, Ids
<1>3. ASSUME NEW k \in DOMAIN m.adds PROVE m.adds[k].needs \subseteq RunNodes \cup Ids(m)
  <2>1. \A j \in 1..(k - 1) : j \in DOMAIN m.adds
    BY <1>3 DEF OffersInv, Listed
  <2>2. m.adds[k].needs \subseteq Existing \cup {m.adds[j].id : j \in 1..(k - 1)}
    BY <1>1 DEF Addable
  <2> QED
    BY <2>1, <2>2 DEF Ids, Existing, RunNodes
<1>4. \A n \in Node : Needs(m, n) \subseteq RunNodes \cup Ids(m)
  BY <1>3 DEF Needs
<1>5. \A n \in Node \ Ids(m) : Needs(m, n) = {}
  BY DEF Needs, Ids
<1>6. \A n \in Superseded(m) : node[n] \in {"PENDING_DEPENDENCIES", "READY", "WAITING"}
  BY DEF Superseded
<1>7. touched' = touched \cup Superseded(m) \cup {m.replaces[k].node : k \in DOMAIN m.replaces}
  BY DEF ApplyGraphMutation
<1>8. \A k \in DOMAIN m.replaces : /\ m.replaces[k].new \in RunNodes \cup Ids(m)
                                   /\ m.replaces[k].node \in RunNodes \cup Ids(m)
  BY <1>1 DEF Replaceable, Existing, RunNodes
<1> QED
  BY <1>2, <1>4, <1>5, <1>6, <1>7, <1>8 DEF Existing

\* A mutation leaves what nodes that exist depend on, and their states, unless it
\* supersedes or rewires them; a node it adds waits for what was asked for.
LEMMA MutationGraph ==
  ASSUME CoreOK, OffersInv, Standing, NEW o \in offers, ApplyGraphMutation(o)
  PROVE  LET m == o.mutation
         IN /\ \A n \in RunNodes \ touched' : deps'[n] = deps[n]
            /\ \A n \in Ids(m) \ touched' : deps'[n] = Needs(m, n)
            /\ \A n \in RunNodes \ Superseded(m) : node'[n] = node[n]
            /\ \A n \in Superseded(m) : node'[n] = "CANCELLED"
            /\ \A n \in Ids(m) : node'[n] = InitialState(Needs(m, n))
            /\ RunNodes' = RunNodes \cup Ids(m)
            /\ \A n \in RunNodes : /\ remaining'[n] = remaining[n]
                                   /\ node'[n] = "SUCCEEDED" <=> node[n] = "SUCCEEDED"
            /\ \A n \in Ids(m) : remaining'[n] = Cardinality(Needs(m, n))
            /\ Standing'
<1> DEFINE m == o.mutation
           ids == Ids(m)
           gone == Superseded(m)
<1>1. /\ ids \subseteq Node /\ \A n \in ids : node[n] = "ABSENT"
      /\ \A n \in Node : Needs(m, n) \subseteq RunNodes \cup ids
      /\ \A n \in Node \ ids : Needs(m, n) = {}
      /\ \A n \in gone : node[n] \in {"PENDING_DEPENDENCIES", "READY", "WAITING"}
      /\ touched \subseteq touched' /\ gone \subseteq touched'
      /\ \A k \in DOMAIN m.replaces : /\ m.replaces[k].node \in touched'
                                      /\ m.replaces[k].new \in RunNodes \cup ids
                                      /\ m.replaces[k].node \in RunNodes \cup ids
  BY MutationWrites
<1>2. /\ deps' = Mutated(deps, m)
      /\ node' = [n \in Node |-> IF n \in ids THEN InitialState(Needs(m, n))
                                 ELSE IF n \in gone THEN "CANCELLED" ELSE node[n]]
      /\ remaining' = [n \in Node |-> IF n \in ids THEN InitialRemaining(Needs(m, n))
                                      ELSE remaining[n]]
      /\ missed' = missed \cup {e \in ids \X Existing :
                                  e[2] \in Needs(m, e[1]) /\ node[e[2]] = "SUCCEEDED"}
  BY DEF ApplyGraphMutation
<1>3. gone \subseteq m.supersedes /\ m.supersedes \subseteq RunNodes
  BY DEF ApplyGraphMutation, Superseded, Existing, RunNodes
<1>4. /\ deps' \in [Node -> SUBSET Node]
      /\ \A n \in Node : \A d \in deps'[n] :
           d \in deps[n] \cup Needs(m, n) \/ \E k \in DOMAIN m.replaces : Adds(m.replaces[k], n, d)
      /\ \A n \in Node, d \in Node :
           (\A k \in DOMAIN m.replaces : m.replaces[k].node # n)
             => (d \in deps'[n] <=> d \in deps[n] \cup Needs(m, n))
  BY <1>2 DEF Mutated, Removes, Adds
<1> HIDE DEF m, ids, gone
<1>5. \A n \in Node \ touched' : deps'[n] = deps[n] \cup Needs(m, n)
  <2> SUFFICES ASSUME NEW n \in Node, n \notin touched'
               PROVE  deps'[n] = deps[n] \cup Needs(m, n)
    OBVIOUS
  <2>1. \A k \in DOMAIN m.replaces : m.replaces[k].node # n
    BY <1>1
  <2>2. deps'[n] \subseteq Node /\ deps[n] \subseteq Node /\ Needs(m, n) \subseteq Node
    BY <1>1, <1>4 DEF Standing, RunNodes
  <2> QED
    BY <1>4, <2>1, <2>2
<1>6. /\ \A n \in RunNodes : n \in Node /\ n \notin ids
      /\ \A n \in ids : deps[n] = {}
  BY <1>1 DEF RunNodes, Standing
<1>7. /\ \A n \in RunNodes \ gone : node'[n] = node[n]
      /\ \A n \in gone : node'[n] = "CANCELLED"
      /\ \A n \in ids : node'[n] = InitialState(Needs(m, n))
      /\ \A n \in RunNodes : remaining'[n] = remaining[n]
      /\ \A n \in ids : remaining'[n] = Cardinality(Needs(m, n))
      /\ \A n \in Node \ (RunNodes \cup ids) : node'[n] = "ABSENT"
  BY <1>1, <1>2, <1>3, <1>6 DEF InitialRemaining, RunNodes
<1>8. \A n \in RunNodes : node'[n] = "SUCCEEDED" <=> node[n] = "SUCCEEDED"
  BY <1>1, <1>7
<1>9. RunNodes' = RunNodes \cup ids
  <2>1. \A n \in RunNodes \cup ids : n \in Node /\ node'[n] # "ABSENT"
    BY <1>1, <1>3, <1>6, <1>7 DEF InitialState, RunNodes
  <2> QED
    BY <1>7, <2>1 DEF RunNodes
<1>10. ASSUME NEW n \in Node PROVE deps'[n] \subseteq RunNodes' /\ (node'[n] = "ABSENT" => deps'[n] = {})
  <2>1. deps[n] \cup Needs(m, n) \subseteq RunNodes'
    BY <1>1, <1>9 DEF Standing
  <2>2. deps'[n] \subseteq RunNodes'
    BY <1>1, <1>4, <1>9, <2>1 DEF Adds
  <2>3. ASSUME node'[n] = "ABSENT" PROVE deps'[n] = {}
    <3>1. n \notin RunNodes \cup ids /\ node[n] = "ABSENT"
      BY <1>9, <2>3 DEF RunNodes
    <3>2. deps[n] = {} /\ Needs(m, n) = {}
      BY <1>1, <3>1 DEF Standing
    <3>3. \A k \in DOMAIN m.replaces : m.replaces[k].node # n
      BY <1>1, <3>1
    <3>4. deps'[n] \subseteq Node
      BY <1>4
    <3> QED
      BY <1>4, <3>2, <3>3, <3>4
  <2> QED
    BY <2>2, <2>3
<1>11. ASSUME NEW n \in Node, NEW d \in Node, <<n, d>> \in missed' PROVE node'[d] = "SUCCEEDED"
  <2>1. node[d] = "SUCCEEDED"
    BY <1>2, <1>11 DEF Standing
  <2> QED
    BY <1>8, <2>1 DEF RunNodes
<1>12. Standing'
  BY <1>4, <1>10, <1>11 DEF Standing
<1>13. /\ \A n \in RunNodes \ touched' : deps'[n] = deps[n]
       /\ \A n \in ids \ touched' : deps'[n] = Needs(m, n)
  <2>1. ASSUME NEW n \in RunNodes \ touched' PROVE deps'[n] = deps[n]
    <3>1. n \in Node \ touched' /\ n \in Node \ ids
      BY <1>6, <2>1
    <3>2. deps'[n] = deps[n] \cup Needs(m, n) /\ Needs(m, n) = {}
      BY <1>1, <1>5, <3>1
    <3> QED
      BY <3>2
  <2>2. ASSUME NEW n \in ids \ touched' PROVE deps'[n] = Needs(m, n)
    <3>1. deps'[n] = deps[n] \cup Needs(m, n) /\ deps[n] = {}
      BY <1>1, <1>5, <1>6, <2>2
    <3> QED
      BY <3>1
  <2> QED
    BY <2>1, <2>2
<1> QED
  BY <1>7, <1>8, <1>9, <1>12, <1>13 DEF m, ids, gone

\* Nodes that exist wait for what they waited for; a new node waits for all its
\* dependencies, those open and those that will never be counted.
LEMMA MutationGates ==
  ASSUME CoreOK, OffersInv, Standing, Gated, NEW o \in offers, ApplyGraphMutation(o)
  PROVE  Gated'
<1> DEFINE m == o.mutation
           ids == Ids(m)
           gone == Superseded(m)
<1>1. /\ ids \subseteq Node /\ \A n \in ids : node[n] = "ABSENT"
      /\ \A n \in Node : Needs(m, n) \subseteq RunNodes \cup ids
      /\ touched \subseteq touched' /\ gone \subseteq touched'
  BY MutationWrites
<1>2. /\ \A n \in RunNodes \ touched' : deps'[n] = deps[n]
      /\ \A n \in ids \ touched' : deps'[n] = Needs(m, n)
      /\ \A n \in RunNodes \ gone : node'[n] = node[n]
      /\ \A n \in ids : node'[n] = InitialState(Needs(m, n))
      /\ RunNodes' = RunNodes \cup ids
      /\ \A n \in RunNodes : /\ remaining'[n] = remaining[n]
                             /\ node'[n] = "SUCCEEDED" <=> node[n] = "SUCCEEDED"
      /\ \A n \in ids : remaining'[n] = Cardinality(Needs(m, n))
  BY MutationGraph
<1>3. /\ missed' = missed \cup {e \in ids \X Existing :
                                  e[2] \in Needs(m, e[1]) /\ node[e[2]] = "SUCCEEDED"}
      /\ wf' = wf
  BY DEF ApplyGraphMutation
<1> HIDE DEF m, ids, gone
<1>4. Opened' <=> Opened
  BY <1>3 DEF Opened
<1>5. ASSUME NEW n \in RunNodes, n \notin touched'
      PROVE  /\ node'[n] = node[n] /\ remaining'[n] = remaining[n]
             /\ OpenNeeds(n)' = OpenNeeds(n) /\ Never(n)' = Never(n)
             /\ n \in Node \ touched
  <2>1. n \in Node /\ n \notin ids /\ n \notin gone /\ n \notin touched
    BY <1>1, <1>5 DEF RunNodes
  <2>2. deps'[n] = deps[n] /\ node'[n] = node[n] /\ remaining'[n] = remaining[n]
    BY <1>2, <1>5, <2>1
  <2>3. deps[n] \subseteq RunNodes
    BY <2>1 DEF Standing
  <2>4. OpenNeeds(n)' = OpenNeeds(n)
    BY <1>2, <2>2, <2>3 DEF OpenNeeds
  <2>5. \A d \in deps[n] : <<n, d>> \in missed' <=> <<n, d>> \in missed
    BY <1>3, <2>1
  <2>6. Never(n)' = Never(n)
    BY <2>2, <2>5 DEF Never
  <2> QED
    BY <2>1, <2>2, <2>4, <2>6
<1>6. ASSUME NEW n \in ids, n \notin touched'
      PROVE  /\ node'[n] = InitialState(Needs(m, n))
             /\ remaining'[n] = Cardinality(OpenNeeds(n)') + Cardinality(Never(n)')
             /\ OpenNeeds(n)' \subseteq Needs(m, n)
             /\ Needs(m, n) # {} => remaining'[n] > 0
  <2>1. deps'[n] = Needs(m, n) /\ n \in Node
    BY <1>1, <1>2, <1>6
  <2>2. ASSUME NEW d \in Needs(m, n)
        PROVE  <<n, d>> \in missed' <=> node'[d] = "SUCCEEDED"
    <3>1. CASE d \in ids
      <4>1. node'[d] # "SUCCEEDED"
        BY <1>2, <3>1 DEF InitialState
      <4>2. d \notin Existing /\ node[d] # "SUCCEEDED" /\ d \in Node
        BY <1>1, <3>1 DEF Existing
      <4> QED
        BY <1>3, <2>1, <4>1, <4>2 DEF Standing
    <3>2. CASE d \in RunNodes
      <4>1. node'[d] = "SUCCEEDED" <=> node[d] = "SUCCEEDED"
        BY <1>2, <3>2
      <4>2. d \in Existing /\ d \in Node
        BY <3>2 DEF Existing, RunNodes
      <4> QED
        BY <1>3, <1>6, <2>1, <2>2, <4>1, <4>2 DEF Standing
    <3> QED
      BY <1>1, <2>1, <3>1, <3>2
  <2>3. /\ OpenNeeds(n)' \cup Never(n)' = Needs(m, n) /\ OpenNeeds(n)' \cap Never(n)' = {}
    BY <2>1, <2>2 DEF OpenNeeds, Never
  <2>4. Needs(m, n) \in SUBSET Node /\ OpenNeeds(n)' \in SUBSET Node /\ Never(n)' \in SUBSET Node
    BY <1>1, <2>1, <2>3 DEF RunNodes
  <2>5. /\ IsFiniteSet(OpenNeeds(n)') /\ IsFiniteSet(Never(n)') /\ IsFiniteSet(Needs(m, n))
        /\ Cardinality(OpenNeeds(n)') \in Nat /\ Cardinality(Never(n)') \in Nat
        /\ Cardinality(Needs(m, n)) \in Nat
    BY <2>4, NodesFinite
  <2>6. Cardinality(OpenNeeds(n)' \cup Never(n)') =
          Cardinality(OpenNeeds(n)') + Cardinality(Never(n)') - Cardinality(OpenNeeds(n)' \cap Never(n)')
    BY <2>5, FS_Union
  <2>7. Cardinality(OpenNeeds(n)' \cap Never(n)') = 0
    BY <2>3, FS_EmptySet
  <2>8. Cardinality(Needs(m, n)) = Cardinality(OpenNeeds(n)') + Cardinality(Never(n)')
    <3> DEFINE open == OpenNeeds(n)'
               never == Never(n)'
               both == open \cup never
    <3>1. both = Needs(m, n)
      BY <2>3
    <3>2. Cardinality(both) = Cardinality(open) + Cardinality(never) - 0
      BY <2>6, <2>7
    <3>3. Cardinality(open) \in Nat /\ Cardinality(never) \in Nat
      BY <2>5
    <3> HIDE DEF open, never, both
    <3>4. Cardinality(both) = Cardinality(open) + Cardinality(never)
      BY <3>2, <3>3
    <3>5. Cardinality(Needs(m, n)) = Cardinality(open) + Cardinality(never)
      BY <3>1, <3>4
    <3> QED
      BY <3>5 DEF open, never
  <2>9. Needs(m, n) # {} => Cardinality(Needs(m, n)) # 0
    BY <2>5, FS_EmptySet
  <2> QED
    BY <1>2, <1>6, <2>3, <2>5, <2>8, <2>9
<1>7. ASSUME NEW n \in Node, n \notin touched'
      PROVE  /\ node'[n] \notin Unreleased => OpenNeeds(n)' = {}
             /\ Opened' => node'[n] # "CANCELLED"
             /\ Opened' /\ node'[n] = "PENDING_DEPENDENCIES" => Awaits(n)'
  <2>1. CASE n \in RunNodes
    <3>1. /\ node'[n] = node[n] /\ remaining'[n] = remaining[n]
          /\ OpenNeeds(n)' = OpenNeeds(n) /\ Never(n)' = Never(n)
          /\ n \in Node \ touched
      BY <1>5, <1>7, <2>1
    <3> QED
      BY <1>4, <3>1 DEF Gated, Awaits
  <2>2. CASE n \in ids
    <3>1. /\ node'[n] = InitialState(Needs(m, n))
          /\ remaining'[n] = Cardinality(OpenNeeds(n)') + Cardinality(Never(n)')
          /\ OpenNeeds(n)' \subseteq Needs(m, n)
          /\ Needs(m, n) # {} => remaining'[n] > 0
      BY <1>6, <1>7, <2>2
    <3> QED
      BY <3>1 DEF InitialState, Unreleased, Awaits
  <2>3. CASE n \notin RunNodes \cup ids
    <3>1. node'[n] = "ABSENT"
      BY <1>2, <2>3 DEF RunNodes
    <3> QED
      BY <3>1 DEF Unreleased
  <2> QED
    BY <2>1, <2>2, <2>3
<1> QED
  BY <1>7 DEF Gated

\* A mutation touches no node that is being worked on.
LEMMA MutationStays ==
  ASSUME CoreOK, OffersInv, NEW o \in offers, ApplyGraphMutation(o)
  PROVE  /\ Staying
         /\ \A n \in Node : node'[n] \in Busy => node[n] \in Busy
<1> DEFINE m == o.mutation
<1>1. /\ \A n \in Ids(m) : node[n] = "ABSENT"
      /\ \A n \in Superseded(m) : node[n] \in {"PENDING_DEPENDENCIES", "READY", "WAITING"}
  BY MutationWrites
<1>2. /\ attempt' = attempt
      /\ \A n \in Node : node'[n] = IF n \in Ids(m) THEN InitialState(Needs(m, n))
                                    ELSE IF n \in Superseded(m) THEN "CANCELLED" ELSE node[n]
  BY DEF ApplyGraphMutation
<1> HIDE DEF m
<1>3. \A n \in Node : /\ node'[n] \in Busy <=> node[n] \in Busy
                      /\ node'[n] = "IN_DOUBT" => node[n] = "IN_DOUBT"
  BY <1>1, <1>2 DEF InitialState, Busy
<1> QED
  BY <1>2, <1>3 DEF Staying, NodesStay

\* Attempts and nodes move together, whatever happens to the graph.
LEMMA TurnsStep ==
  ASSUME MutationInv, LiveFits, InTurn, [MutationNext]_mvars
  PROVE  LiveFits' /\ InTurn'
<1> USE DEF MutationInv
<1>1. CASE Operations \/ CancelWorkflow \/ Tick \/ UNCHANGED vars
  BY <1>1, LifeMoves, TurnsKept DEF LifeMove
<1>2. CASE Reclaim
  BY <1>2, ReclaimMoves, TurnsKept DEF Reclaim
<1>3. CASE \E o \in offers : ApplyGraphMutation(o)
  BY <1>3, MutationStays, TurnsKept
<1> QED
  BY <1>1, <1>2, <1>3, MutationStepKinds DEF Next

\* Only mutations write what the graph's history records.
LEMMA HistoryStands ==
  ASSUME [MutationNext]_mvars
  PROVE  \/ [Next]_vars /\ UNCHANGED <<missed, touched>>
         \/ \E o \in offers : ApplyGraphMutation(o)
  BY DEF MutationNext, mvars, mutationVars, ProposeActions, Propose

\* Before there is a run nothing depends on anything.
LEMMA GateStart == MutationInit => GateInv
<1> SUFFICES ASSUME MutationInit PROVE GateInv
  OBVIOUS
<1>1. MutationInv
  BY MutationStart
<1>2. LiveFits /\ InTurn /\ HeldIsIdle
  BY DEF MutationInit, Init, LiveFits, InTurn, HeldIsIdle, Live, LiveAttempt, NoAttempt, Attempt
<1>3. Standing /\ Gated
  BY DEF MutationInit, Init, Standing, Gated, RunNodes, Unreleased
<1> QED
  BY <1>1, <1>2, <1>3 DEF GateInv

\* Every step keeps nodes waiting for what they depend on.
LEMMA GateKept == GateInv /\ [MutationNext]_mvars => GateInv'
<1> SUFFICES ASSUME GateInv, [MutationNext]_mvars PROVE GateInv'
  OBVIOUS
<1> USE DEF GateInv
<1>1. MutationInv' /\ LiveFits' /\ InTurn'
  BY MutationStep, TurnsStep
<1>2. CoreOK /\ Unborn /\ LeaseOwnership /\ OffersInv
  BY DEF MutationInv
<1>3. CASE [Next]_vars /\ UNCHANGED <<missed, touched>>
  <2>1. HeldIsIdle'
    BY <1>2, <1>3, HeldStep
  <2>2. Standing' /\ Gated'
    BY <1>2, <1>3, CalmSteps, CalmKeeps, StartKeeps, SuccessGates
  <2> QED
    BY <1>1, <2>1, <2>2
<1>4. ASSUME NEW o \in offers, ApplyGraphMutation(o) PROVE GateInv'
  <2>1. HeldIsIdle'
    BY <1>2, <1>4, MutationFacts DEF HeldIsIdle, Live
  <2>2. Standing'
    BY <1>2, <1>4, MutationGraph
  <2>3. Gated'
    BY <1>2, <1>4, MutationGates
  <2> QED
    BY <1>1, <2>1, <2>2, <2>3
<1> QED
  BY <1>3, <1>4, HistoryStands

\* The dependency gate, whatever is added to the graph while the run goes on: a
\* node leaves PENDING_DEPENDENCIES only when all it depends on has succeeded, and
\* its stored counter is the number of successes it will still count, together
\* with those that came before it was added (ApplyGraphMutation, line 93).
THEOREM GateSurvivesGrowth == MutationSpec => []DependencyGate
<1>1. GateInv => DependencyGate
  <2> SUFFICES ASSUME GateInv, NEW n \in Node \ touched
               PROVE  /\ node[n] \notin Unreleased => \A m \in deps[n] : node[m] = "SUCCEEDED"
                      /\ node[n] = "PENDING_DEPENDENCIES" /\ Undecided => Awaits(n)
    BY DEF DependencyGate, Unreleased, Awaits, OpenNeeds, Never
  <2> QED
    BY DEF GateInv, Gated, OpenNeeds, Undecided, Opened
<1> QED
  BY GateStart, GateKept, <1>1, PTL DEF MutationSpec, mvars

\* No success is refused because the graph grew: whoever executes a node of an
\* undecided run finds each dependent that was not superseded or rewired waiting,
\* with something left to count (CompleteAttemptSuccess takes all or nothing).
THEOREM CompletionsAreTaken == MutationSpec => []CompletionAccepted
<1>1. GateInv => CompletionAccepted
  <2> SUFFICES ASSUME GateInv, Undecided, NEW a \in Attempt, attempt[a].state = "RUNNING",
                      NEW c \in Dependents(NodeOf(a)) \ touched
               PROVE  node[c] = "PENDING_DEPENDENCIES" /\ remaining[c] > 0
    BY DEF CompletionAccepted
  <2>1. node[NodeOf(a)] \in Busy
    BY DEF GateInv, LiveFits, Live, LiveAttempt
  <2>2. c \in Node \ touched /\ node[c] # "ABSENT" /\ NodeOf(a) \in OpenNeeds(c)
    BY <2>1 DEF Dependents, OpenNeeds, Busy
  <2>3. Opened
    BY DEF Undecided, Opened
  <2> QED
    BY <2>2, <2>3 DEF GateInv, Gated, Unreleased, Awaits
<1> QED
  BY GateStart, GateKept, <1>1, PTL DEF MutationSpec, mvars

----------------------------------------------------------------------------
(***************************************************************************)
(* Why a growing run is never stranded: its graph stays well founded, so    *)
(* among the nodes that have not succeeded one waits for none of them; and  *)
(* such a node is READY and queued, or worked on by a live attempt.         *)
(***************************************************************************)
\* Every set of nodes has one that depends on no other of the set.
Grounds(graph) == \A S \in SUBSET Node : S # {} => \E n \in S : graph[n] \cap S = {}
Grounded == touched = {} => Grounds(deps)

Counted ==
  Opened =>
    /\ \A n \in Node : node[n] \in Unreleased \cup {"READY", "SUCCEEDED"} \cup Busy
    /\ \A n \in Node : node[n] = "READY" => n \in ready
    /\ progress.total = Cardinality(RunNodes)
    /\ progress.terminal = Cardinality(DoneNodes)
    /\ progress.failed = 0
    /\ DoneNodes # RunNodes

GrowthInv == GateInv /\ BusyLive /\ Counted /\ Grounded

\* A set of numbers that is not empty has a least one.
LEMMA LeastNumber ==
  ASSUME NEW K \in Nat, NEW T \in SUBSET (0..K), T # {}
  PROVE  \E x \in T : \A y \in T : ~(y < x)
<1> DEFINE Below(x) == 0..(x - 1)
           U == {Below(x) : x \in T}
           R == StrictSubsetOrdering(0..K)
           F == FiniteSubsetsOf(0..K)
<1>1. \A x \in T : x \in Nat /\ x <= K /\ Below(x) \subseteq 0..K
  OBVIOUS
<1>2. \A x \in T : IsFiniteSet(Below(x))
  BY FS_Interval
<1>3. U \subseteq F
  BY <1>1, <1>2 DEF FiniteSubsetsOf
<1>4. U # {}
  OBVIOUS
<1>5. IsWellFoundedOn(R, F)
  BY FS_StrictSubsetOrderingWellFounded
<1>6. PICK X \in U : \A Y \in U : ~(<<Y, X>> \in R)
  <2> HIDE DEF U, R, F
  <2> QED  BY <1>3, <1>4, <1>5, WFMin
<1>7. PICK x \in T : X = Below(x)
  OBVIOUS
<1>8. ASSUME NEW y \in T, y < x PROVE FALSE
  <2>1. x \in Nat /\ y \in Nat
    BY <1>1
  <2>2. Below(y) \subseteq Below(x)
    BY <1>8, <2>1
  <2>3. y \in Below(x) /\ y \notin Below(y)
    BY <1>8, <2>1
  <2>4. Below(y) # Below(x) /\ Below(y) \in SUBSET (0..K) /\ Below(x) \in SUBSET (0..K)
    BY <1>1, <2>3
  <2>5. <<Below(y), Below(x)>> \in R
    <3> HIDE DEF Below
    <3> QED  BY <2>2, <2>4 DEF StrictSubsetOrdering
  <2> QED
    BY <1>6, <1>7, <2>5
<1> QED
  BY <1>8

\* A graph with a topological order is well founded.
LEMMA OrderGrounds ==
  ASSUME NEW graph, NEW K \in Nat, NEW rank \in [Node -> 0..K],
         \A n \in Node : graph[n] \subseteq Node,
         \A n \in Node : \A m \in graph[n] : rank[m] < rank[n]
  PROVE  Grounds(graph)
<1> SUFFICES ASSUME NEW S \in SUBSET Node, S # {}
             PROVE  \E n \in S : graph[n] \cap S = {}
  BY DEF Grounds
<1> DEFINE T == {rank[n] : n \in S}
<1>1. T \in SUBSET (0..K) /\ T # {}
  OBVIOUS
<1> HIDE DEF T
<1>2. PICK x \in T : \A y \in T : ~(y < x)
  BY <1>1, LeastNumber
<1>3. PICK n \in S : rank[n] = x
  BY DEF T
<1>4. \A m \in S : ~(rank[m] < rank[n])
  BY <1>2, <1>3 DEF T
<1> QED
  BY <1>4

\* What begins a run is well founded: the compiler checked its definition.
LEMMA DefinitionGrounds ==
  ASSUME NEW d \in Definitions
  PROVE  Grounds(d.deps)
<1>1. Cardinality(Node) \in Nat
  BY NodesFinite
<1>2. PICK rank \in [Node -> 0..Cardinality(Node)] :
        \A n \in Node : \A m \in d.deps[n] : rank[m] < rank[n]
  BY DefinitionsAssumption
<1>3. \A n \in Node : d.deps[n] \subseteq Node
  BY DefinitionsAssumption
<1> QED
  BY <1>1, <1>2, <1>3, OrderGrounds

\* Additions each behind what there is already keep the graph well founded.
LEMMA MutationGrounds ==
  ASSUME CoreOK, OffersInv, Standing, Grounded, NEW o \in offers, ApplyGraphMutation(o)
  PROVE  Grounded'
<1> SUFFICES ASSUME touched' = {}, NEW S \in SUBSET Node, S # {}
             PROVE  \E n \in S : deps'[n] \cap S = {}
  BY DEF Grounded, Grounds
<1> DEFINE m == o.mutation
           ids == Ids(m)
           old == S \cap RunNodes
<1>1. /\ ids \subseteq Node /\ touched \subseteq touched'
      /\ \A n \in RunNodes : deps'[n] = deps[n]
      /\ \A n \in ids : deps'[n] = Needs(m, n)
      /\ RunNodes' = RunNodes \cup ids
      /\ Standing'
  BY MutationWrites, MutationGraph
<1>2. Grounds(deps)
  BY <1>1 DEF Grounded
<1>3. CASE old # {}
  <2>1. PICK n \in old : deps[n] \cap old = {}
    BY <1>2, <1>3 DEF Grounds
  <2>2. n \in S /\ n \in RunNodes /\ deps[n] \subseteq RunNodes
    BY <2>1 DEF Standing, RunNodes
  <2> QED
    BY <1>1, <2>1, <2>2
<1>4. CASE old = {} /\ S \cap ids # {}
  <2>1. Addable(m.adds) /\ Len(m.adds) \in Nat /\ DOMAIN m.adds = 1..Len(m.adds)
    BY DEF ApplyGraphMutation, OffersInv, Listed
  <2> DEFINE places == {k \in DOMAIN m.adds : m.adds[k].id \in S}
  <2>2. places \in SUBSET (0..Len(m.adds)) /\ places # {}
    BY <1>4, <2>1 DEF Ids
  <2>3. PICK k \in places : \A j \in places : ~(j < k)
    BY <2>1, <2>2, LeastNumber
  <2> DEFINE n == m.adds[k].id
  <2>4. k \in DOMAIN m.adds /\ n \in S /\ n \in ids
    BY DEF Ids
  <2>5. ASSUME NEW j \in DOMAIN m.adds, m.adds[j].id = n PROVE j = k
    BY <2>1, <2>4, <2>5 DEF Addable
  <2>6. Needs(m, n) = m.adds[k].needs
    BY <2>4, <2>5 DEF Needs
  <2>7. m.adds[k].needs \subseteq Existing \cup {m.adds[j].id : j \in 1..(k - 1)}
    BY <2>1, <2>4 DEF Addable
  <2>8. ASSUME NEW d \in Needs(m, n), d \in S PROVE FALSE
    <3>1. d \notin Existing
      BY <1>4, <2>8 DEF Existing, RunNodes
    <3>2. PICK j \in 1..(k - 1) : m.adds[j].id = d
      BY <2>6, <2>7, <2>8, <3>1
    <3>3. j \in places /\ j < k
      BY <2>1, <2>4, <2>8, <3>2
    <3> QED
      BY <2>3, <3>3
  <2> QED
    BY <1>1, <2>4, <2>8
<1>5. CASE old = {} /\ S \cap ids = {}
  <2>1. PICK n \in S : TRUE
    OBVIOUS
  <2>2. node'[n] = "ABSENT"
    BY <1>1, <1>5, <2>1 DEF RunNodes
  <2> QED
    BY <1>1, <2>1, <2>2 DEF Standing
<1> QED
  BY <1>3, <1>4, <1>5

\* A node that is QUEUED or RUNNING is worked on by a live attempt, through every
\* step of the engine.
LEMMA BusyStep ==
  ASSUME CoreOK, BusyLive, [Next]_vars
  PROVE  BusyLive'
<1> USE DEF CoreOK
<1>0. \A a \in Attempt : NodeOf(a) \in Node
  BY DEF Attempt, NodeOf
<1>1. ASSUME NEW n \in Node, NEW k \in 1..MaxAttempts, NEW to \in Busy, NEW row,
             row.state \in LiveAttempt, node' = [node EXCEPT ![n] = to],
             attempt' = [attempt EXCEPT ![<<n, k>>] = row]
      PROVE  BusyLive'
  <2>1. <<n, k>> \in Attempt /\ NodeOf(<<n, k>>) = n
    BY DEF Attempt, NodeOf
  <2>2. OthersStay(<<n, k>>) /\ attempt'[<<n, k>>].state \in LiveAttempt
    BY <1>1, <2>1 DEF OthersStay
  <2>3. \A m \in Node \ {n} : node'[m] \in Busy => node[m] \in Busy
    BY <1>1
  <2> QED
    BY <2>1, <2>2, <2>3, BusyStays
<1>2. ASSUME NEW n \in Node, StartAttempt(n) PROVE BusyLive'
  <2>1. PICK k \in 1..MaxAttempts :
          attempt' = [attempt EXCEPT ![<<n, k>>] = [state |-> "RUNNING", worker |-> NoWorker, epoch |-> 0]]
    BY <1>2 DEF StartAttempt
  <2>2. /\ "RUNNING" \in Busy /\ node' = [node EXCEPT ![n] = "RUNNING"]
        /\ [state |-> "RUNNING", worker |-> NoWorker, epoch |-> 0].state \in LiveAttempt
    BY <1>2 DEF StartAttempt, Busy, LiveAttempt
  <2> QED
    BY ONLY <1>1, <2>1, <2>2, n \in Node
<1>3. ASSUME NEW n \in Node, NEW w \in Worker, NEW ttl \in 1..MaxTTL, NEW late \in Late,
             ClaimNode(n, w, ttl, late)
      PROVE  BusyLive'
  <2>1. PICK k \in 1..MaxAttempts :
          attempt' = [attempt EXCEPT ![<<n, k>>] = [state |-> "CLAIMED", worker |-> w, epoch |-> 1]]
    BY <1>3 DEF ClaimNode
  <2>2. /\ "QUEUED" \in Busy /\ node' = [node EXCEPT ![n] = "QUEUED"]
        /\ [state |-> "CLAIMED", worker |-> w, epoch |-> 1].state \in LiveAttempt
    BY <1>3 DEF ClaimNode, CompareAndSwapNodeRun, Busy, LiveAttempt
  <2> QED
    BY ONLY <1>1, <2>1, <2>2, n \in Node
<1>4. ASSUME NEW a \in Attempt, OthersStay(a),
             \A n \in Node \ {NodeOf(a)} : node'[n] \in Busy => node[n] \in Busy,
             node'[NodeOf(a)] \in Busy => attempt'[a].state \in LiveAttempt
      PROVE  BusyLive'
  BY <1>4, BusyStays
<1>5. ASSUME NEW a \in Attempt, NEW fence \in Fence, NEW late \in Late,
             StartClaimedAttempt(a, fence, late)
      PROVE  BusyLive'
  <2>1. /\ attempt' = [attempt EXCEPT ![a] = [attempt[a] EXCEPT !.state = "RUNNING"]]
        /\ node' = [node EXCEPT ![NodeOf(a)] = "RUNNING"]
    BY <1>5 DEF StartClaimedAttempt, CompareAndSwapNodeRun
  <2>2. OthersStay(a) /\ attempt'[a].state \in LiveAttempt
    BY <2>1 DEF OthersStay, LiveAttempt, AttemptRow
  <2>3. \A n \in Node \ {NodeOf(a)} : node'[n] \in Busy => node[n] \in Busy
    BY <2>1
  <2> QED
    BY <1>4, <2>2, <2>3
<1>6. ASSUME NEW a \in Attempt, NEW fence \in Fence \cup {Unfenced}, NEW late \in Late,
             CompleteAttemptSuccess(a, fence, late)
      PROVE  BusyLive'
  <2>1. OthersStay(a)
    BY <1>6 DEF CompleteAttemptSuccess, OthersStay
  <2>2. /\ node'[NodeOf(a)] \notin Busy
        /\ \A n \in Node \ {NodeOf(a)} : node'[n] \in Busy => node[n] \in Busy
    BY <1>0, <1>6 DEF CompleteAttemptSuccess, Busy
  <2> QED
    BY <1>4, <2>1, <2>2
<1>7. ASSUME NEW a \in Attempt, NEW fence \in Fence \cup {Unfenced}, NEW late \in Late,
             CompleteAttemptFailure(a, fence, late)
      PROVE  BusyLive'
  <2>1. OthersStay(a)
    BY <1>7 DEF CompleteAttemptFailure, OthersStay
  <2>2. node' = [node EXCEPT ![NodeOf(a)] = "FAILED"]
    BY <1>7 DEF CompleteAttemptFailure, CompareAndSwapNodeRun
  <2>3. /\ node'[NodeOf(a)] \notin Busy
        /\ \A n \in Node \ {NodeOf(a)} : node'[n] \in Busy => node[n] \in Busy
    BY <1>0, <2>2 DEF Busy
  <2> QED
    BY <1>4, <2>1, <2>3
<1>8. ASSUME CancelWorkflow \/ \E d \in Definitions : StartWorkflow(d) PROVE BusyLive'
  <2>1. \A n \in Node : node'[n] \notin Busy
    BY <1>8 DEF CancelWorkflow, CancelWorkflowRuntime, StartWorkflow, Busy, TerminalNode
  <2> QED
    BY <2>1 DEF BusyLive
<1>9. ASSUME node' = node, \A a \in Attempt : attempt'[a].state = attempt[a].state PROVE BusyLive'
  BY <1>9 DEF BusyLive, Live, Attempt
<1>10. ASSUME NEW a \in Attempt, NEW w \in Worker, NEW ttl \in 1..MaxTTL, NEW late \in Late,
              ReclaimExpiredAttempt(a, w, ttl, late)
       PROVE  BusyLive'
  <2>1. PICK e \in Epoch : attempt' = [attempt EXCEPT ![a] =
                             [state |-> attempt[a].state, worker |-> w, epoch |-> e + 1]]
    BY <1>10 DEF ReclaimExpiredAttempt
  <2>2. \A b \in Attempt : attempt'[b].state = attempt[b].state
    BY <2>1
  <2>3. node' = node
    BY <1>10 DEF ReclaimExpiredAttempt
  <2> QED
    BY <1>9, <2>2, <2>3
<1>11. ASSUME \/ \E w \in Worker, state \in WorkerStates : RegisterWorker(w, state)
              \/ \E a \in Attempt, fence \in Fence, late \in Late, ttl \in 1..MaxTTL :
                   HeartbeatLease(a, fence, ttl, late)
              \/ PauseWorkflow \/ ResumeWorkflow \/ Tick \/ UNCHANGED vars
       PROVE  node' = node /\ attempt' = attempt
  BY <1>11 DEF RegisterWorker, HeartbeatLease, PauseWorkflow, ResumeWorkflow, Tick, vars
<1> QED
  BY <1>2, <1>3, <1>5, <1>6, <1>7, <1>8, <1>9, <1>10, <1>11 DEF Next, Operations, Reclaim

\* The counters of an open run are the numbers of its nodes, and its READY nodes
\* are queued, when a node succeeds.
LEMMA SuccessCounts ==
  ASSUME CoreOK, HeldIsIdle, Counted, NEW a \in Attempt,
         NEW fence \in Fence \cup {Unfenced}, NEW late \in Late,
         CompleteAttemptSuccess(a, fence, late)
  PROVE  Counted'
<1> SUFFICES ASSUME Opened' PROVE Counted'
  BY DEF Counted
<1> DEFINE n == NodeOf(a)
           children == IF Opened THEN Dependents(n) ELSE {}
           released == {c \in children : remaining[c] = 1}
<1>1. /\ n \in Node /\ node[n] = "RUNNING"
      /\ \A c \in children : node[c] = "PENDING_DEPENDENCIES" /\ remaining[c] > 0
      /\ \A c \in Node : node'[c] = IF c = n THEN "SUCCEEDED"
                                    ELSE IF c \in released THEN "READY" ELSE node[c]
      /\ ready' = ready \cup released
      /\ Opened
  BY SuccessWrites
<1>2. /\ progress' = [total |-> progress.total, terminal |-> progress.terminal + 1,
                      failed |-> progress.failed + 0]
      /\ (progress'.terminal = progress'.total /\ progress'.failed = 0 => wf' = "SUCCEEDED")
  <2>1. WorkflowAllowsDrain(wf)
    BY <1>1 DEF WorkflowAllowsDrain, Opened, HeldIsIdle, CompleteAttemptSuccess, Live, LiveAttempt
  <2> QED
    BY <2>1 DEF CompleteAttemptSuccess, IncrementWorkflowProgress
<1>3. released \subseteq children /\ \A c \in released : node[c] = "PENDING_DEPENDENCIES"
  BY <1>1
<1> HIDE DEF n, children, released
<1>4. /\ \A c \in Node : node[c] \in Unreleased \cup {"READY", "SUCCEEDED"} \cup Busy
      /\ \A c \in Node : node[c] = "READY" => c \in ready
      /\ progress.total = Cardinality(RunNodes) /\ progress.terminal = Cardinality(DoneNodes)
      /\ progress.failed = 0
  BY <1>1 DEF Counted
<1>5. RunNodes' = RunNodes /\ DoneNodes' = DoneNodes \cup {n} /\ n \notin DoneNodes
  BY <1>1, <1>3 DEF RunNodes, DoneNodes
<1>6. Cardinality(DoneNodes') = Cardinality(DoneNodes) + 1
  <2>1. IsFiniteSet(DoneNodes)
    BY NodesFinite DEF DoneNodes
  <2> QED
    BY <1>5, <2>1, FS_AddElement
<1>7. /\ progress'.total = Cardinality(RunNodes') /\ progress'.terminal = Cardinality(DoneNodes')
      /\ progress'.failed = 0
  BY <1>2, <1>4, <1>5, <1>6
<1>8. DoneNodes' # RunNodes'
  BY <1>2, <1>7 DEF Opened
<1>9. /\ \A c \in Node : node'[c] \in Unreleased \cup {"READY", "SUCCEEDED"} \cup Busy
      /\ \A c \in Node : node'[c] = "READY" => c \in ready'
  BY <1>1, <1>4
<1> QED
  BY <1>7, <1>8, <1>9 DEF Counted

\* The same, when a run begins and when nothing succeeds.
LEMMA OthersCount ==
  ASSUME CoreOK, Counted, Calm \/ \E d \in Definitions : StartWorkflow(d)
  PROVE  Counted'
<1>1. CASE Calm
  <2> SUFFICES ASSUME Opened' PROVE Counted'
    BY DEF Counted
  <2>1. RunNodes' = RunNodes /\ DoneNodes' = DoneNodes /\ progress' = progress /\ Opened
    BY <1>1 DEF Calm, RunNodes, DoneNodes
  <2>2. /\ \A c \in Node : node'[c] \in Unreleased \cup {"READY", "SUCCEEDED"} \cup Busy
        /\ \A c \in Node : node'[c] = "READY" => c \in ready'
    BY <1>1, <2>1 DEF Calm, Counted, Busy
  <2> QED
    BY <2>1, <2>2 DEF Counted
<1>2. ASSUME NEW d \in Definitions, StartWorkflow(d) PROVE Counted'
  <2>1. /\ d.nodes \in SUBSET Node /\ d.nodes # {}
    BY DefinitionsAssumption
  <2>2. /\ ready' = {n \in d.nodes : d.deps[n] = {}}
        /\ progress' = [total |-> Cardinality(d.nodes), terminal |-> 0, failed |-> 0]
        /\ \A n \in Node : node'[n] = IF n \in {m \in d.nodes : d.deps[m] = {}} THEN "READY"
                                      ELSE IF n \in d.nodes THEN "PENDING_DEPENDENCIES" ELSE "ABSENT"
    BY <1>2 DEF StartWorkflow
  <2>3. RunNodes' = d.nodes /\ DoneNodes' = {}
    BY <2>1, <2>2 DEF RunNodes, DoneNodes
  <2>4. Cardinality(DoneNodes') = 0
    BY <2>3, FS_EmptySet
  <2> QED
    BY <2>1, <2>2, <2>3, <2>4 DEF Counted, Unreleased
<1> QED
  BY <1>1, <1>2

\* As many nodes are added as the mutation lists.
LEMMA AddedOnce ==
  ASSUME OffersInv, NEW o \in offers, ApplyGraphMutation(o)
  PROVE  /\ IsFiniteSet(Ids(o.mutation))
         /\ Cardinality(Ids(o.mutation)) = Len(o.mutation.adds)
<1> DEFINE adds == o.mutation.adds
           ids == Ids(o.mutation)
           f == [k \in 1..Len(adds) |-> adds[k].id]
<1>1. Addable(adds) /\ Len(adds) \in Nat /\ DOMAIN adds = 1..Len(adds)
  BY DEF ApplyGraphMutation, OffersInv, Listed
<1>2. IsFiniteSet(1..Len(adds)) /\ Cardinality(1..Len(adds)) = Len(adds)
  BY <1>1, FS_Interval
<1>3. f \in Surjection(1..Len(adds), ids)
  BY <1>1 DEF Surjection, Ids
<1>4. \A j, k \in 1..Len(adds) : adds[j].id = adds[k].id => j = k
  <2> SUFFICES ASSUME NEW j \in 1..Len(adds), NEW k \in 1..Len(adds), adds[j].id = adds[k].id, j # k
               PROVE  FALSE
    OBVIOUS
  <2>1. j \in 1..(k - 1) \/ k \in 1..(j - 1)
    BY <1>1
  <2> QED
    BY <1>1, <2>1 DEF Addable
<1>5. f \in Injection(1..Len(adds), ids)
  BY <1>1, <1>4 DEF Injection, IsInjective, Ids
<1>6. ExistsBijection(1..Len(adds), ids)
  BY <1>3, <1>5 DEF ExistsBijection, Bijection
<1> QED
  BY <1>2, <1>6, FS_Bijection

\* A mutation counts the nodes it adds, queues those that wait for nothing and
\* takes what it supersedes out of the queue.
LEMMA MutationCounts ==
  ASSUME CoreOK, OffersInv, Standing, Counted, NEW o \in offers, ApplyGraphMutation(o)
  PROVE  Counted'
<1> SUFFICES ASSUME Opened PROVE Counted'
  BY DEF Counted, Opened, ApplyGraphMutation
<1> DEFINE m == o.mutation
           ids == Ids(m)
           gone == Superseded(m)
<1>1. /\ ids \subseteq Node /\ \A n \in ids : node[n] = "ABSENT"
      /\ \A n \in gone : node[n] \in {"PENDING_DEPENDENCIES", "READY", "WAITING"}
  BY MutationWrites
<1>2. /\ \A n \in RunNodes \ gone : node'[n] = node[n]
      /\ \A n \in gone : node'[n] = "CANCELLED"
      /\ \A n \in ids : node'[n] = InitialState(Needs(m, n))
      /\ RunNodes' = RunNodes \cup ids
      /\ \A n \in RunNodes : node'[n] = "SUCCEEDED" <=> node[n] = "SUCCEEDED"
  BY MutationGraph
<1>3. /\ progress' = [progress EXCEPT !.total = progress.total + Len(m.adds)]
      /\ ready' = (ready \ gone) \cup {n \in ids : InitialState(Needs(m, n)) = "READY"}
  BY DEF ApplyGraphMutation
<1>4. IsFiniteSet(ids) /\ Cardinality(ids) = Len(m.adds) /\ Len(m.adds) \in Nat
  BY AddedOnce DEF OffersInv, Listed
<1> HIDE DEF m, ids, gone
<1>5. DoneNodes' = DoneNodes
  BY <1>1, <1>2 DEF DoneNodes, RunNodes, InitialState
<1>6. Cardinality(RunNodes') = Cardinality(RunNodes) + Len(m.adds)
  <2>1. IsFiniteSet(RunNodes) /\ Cardinality(RunNodes) \in Nat /\ RunNodes \cap ids = {}
    BY <1>1, NodesFinite DEF RunNodes
  <2>2. Cardinality(RunNodes \cup ids) =
          Cardinality(RunNodes) + Cardinality(ids) - Cardinality(RunNodes \cap ids)
    BY <1>4, <2>1, FS_Union
  <2>3. Cardinality(RunNodes \cap ids) = 0
    BY <2>1, FS_EmptySet
  <2>4. Cardinality(RunNodes \cup ids) = Cardinality(RunNodes) + Len(m.adds)
    BY <1>4, <2>1, <2>2, <2>3
  <2> QED
    BY <1>2, <2>4
<1>7. /\ progress'.total = Cardinality(RunNodes') /\ progress'.terminal = Cardinality(DoneNodes')
      /\ progress'.failed = 0
  BY <1>3, <1>5, <1>6 DEF Counted, CoreOK
<1>8. DoneNodes' # RunNodes'
  BY <1>2, <1>5 DEF Counted, DoneNodes, RunNodes
<1>9. ASSUME NEW n \in Node
      PROVE  /\ node'[n] \in Unreleased \cup {"READY", "SUCCEEDED"} \cup Busy
             /\ node'[n] = "READY" => n \in ready'
  <2>1. CASE n \in gone
    BY <1>2, <2>1 DEF Unreleased
  <2>2. CASE n \in ids
    BY <1>2, <1>3, <2>2 DEF Unreleased, InitialState
  <2>3. CASE n \in RunNodes \ gone
    BY <1>2, <1>3, <2>3 DEF Counted
  <2>4. CASE n \notin RunNodes \cup ids
    BY <1>2, <2>4 DEF RunNodes, Unreleased
  <2> QED
    BY <2>1, <2>2, <2>3, <2>4
<1> QED
  BY <1>7, <1>8, <1>9 DEF Counted

\* Before there is a run nothing is counted, queued or worked on.
LEMMA GrowthStart == MutationInit => GrowthInv
<1> SUFFICES ASSUME MutationInit PROVE GrowthInv
  OBVIOUS
<1>1. GateInv
  BY GateStart
<1>2. \A n \in Node : node[n] = "ABSENT" /\ deps[n] = {}
  BY DEF MutationInit, Init
<1>3. BusyLive /\ Counted /\ Grounded
  BY <1>2 DEF MutationInit, Init, BusyLive, Busy, Counted, Opened, Grounded, Grounds
<1> QED
  BY <1>1, <1>3 DEF GrowthInv

\* Every step keeps the graph well founded and its nodes counted.
LEMMA GrowthKept == GrowthInv /\ [MutationNext]_mvars => GrowthInv'
<1> SUFFICES ASSUME GrowthInv, [MutationNext]_mvars PROVE GrowthInv'
  OBVIOUS
<1> USE DEF GrowthInv
<1>1. GateInv'
  BY GateKept
<1>2. CoreOK /\ OffersInv /\ Standing /\ HeldIsIdle
  BY DEF GateInv, MutationInv
<1>3. CASE [Next]_vars /\ UNCHANGED <<missed, touched>>
  <2>1. BusyLive'
    BY <1>2, <1>3, BusyStep
  <2>2. /\ Counted'
        /\ deps' = deps \/ \E d \in Definitions : deps' = d.deps
    BY <1>2, <1>3, CalmSteps, OthersCount, SuccessCounts DEF Calm, StartWorkflow,
       CompleteAttemptSuccess
  <2>3. Grounded'
    BY <1>3, <2>2, DefinitionGrounds DEF Grounded, Grounds
  <2> QED
    BY <1>1, <2>1, <2>2, <2>3
<1>4. ASSUME NEW o \in offers, ApplyGraphMutation(o) PROVE GrowthInv'
  <2>1. /\ attempt' = attempt
        /\ \A n \in Node : node'[n] \in Busy => node[n] \in Busy
    BY <1>2, <1>4, MutationStays DEF Staying
  <2>2. BusyLive'
    BY <2>1 DEF BusyLive, Live
  <2>3. Counted'
    BY <1>2, <1>4, MutationCounts
  <2>4. Grounded'
    BY <1>2, <1>4, MutationGrounds
  <2> QED
    BY <1>1, <2>2, <2>3, <2>4
<1> QED
  BY <1>3, <1>4, HistoryStands

\* A run whose graph only grows, never behind a node that had succeeded, always
\* has a node to act on until it is decided: by LeastNumber one of the nodes that
\* have not succeeded waits for none of them, so it was released, and what was
\* released is in the ready queue or has a live attempt.
THEOREM GrowthNeverStrands == MutationSpec => []OnlyMissedStrand
<1>1. GrowthInv => OnlyMissedStrand
  <2> SUFFICES ASSUME GrowthInv, missed = {}, touched = {}, Opened
               PROVE  \E n \in Node : n \in ready \/ LiveAttemptsOf(n) # {}
    BY DEF OnlyMissedStrand, NothingStranded, Opened
  <2> DEFINE left == RunNodes \ DoneNodes
  <2>1. left \in SUBSET Node /\ left # {}
    BY DEF GrowthInv, Counted, RunNodes, DoneNodes
  <2>2. PICK n \in left : deps[n] \cap left = {}
    BY <2>1 DEF GrowthInv, Grounded, Grounds
  <2>3. n \in Node \ touched /\ node[n] # "ABSENT" /\ node[n] # "SUCCEEDED"
    BY <2>1, <2>2 DEF RunNodes, DoneNodes
  <2>4. deps[n] \subseteq RunNodes
    BY <2>3 DEF GrowthInv, GateInv, Standing
  <2>5. OpenNeeds(n) = {} /\ Never(n) = {}
    BY <2>2, <2>4 DEF OpenNeeds, Never, RunNodes, DoneNodes
  <2>6. ~Awaits(n)
    <3>1. Cardinality(OpenNeeds(n)) = 0 /\ Cardinality(Never(n)) = 0
      BY <2>5, FS_EmptySet
    <3> QED
      BY <3>1 DEF Awaits
  <2>7. node[n] \in {"READY"} \cup Busy
    BY <2>3, <2>6 DEF GrowthInv, GateInv, Gated, Counted, Unreleased
  <2>8. CASE node[n] = "READY"
    BY <2>3, <2>8 DEF GrowthInv, Counted
  <2>9. CASE node[n] \in Busy
    <3>1. PICK k \in 1..MaxAttempts : Live(<<n, k>>)
      BY <2>3, <2>9 DEF GrowthInv, BusyLive
    <3>2. <<n, k>> \in LiveAttemptsOf(n)
      BY <2>3, <3>1 DEF LiveAttemptsOf, Attempt, NodeOf
    <3> QED
      BY <2>3, <3>2
  <2> QED
    BY <2>7, <2>8, <2>9
<1> QED
  BY GrowthStart, GrowthKept, <1>1, PTL DEF MutationSpec, mvars

\* Every table keeps its type, the dependencies too: a mutation names only nodes
\* that exist or that it adds.
THEOREM MutationTyped == MutationSpec => []TypeOK
<1>1. GateInv => TypeOK
  BY DEF GateInv, MutationInv, CoreOK, Standing, TypeOK
<1> QED
  BY GateStart, GateKept, <1>1, PTL DEF MutationSpec, mvars
=============================================================================
