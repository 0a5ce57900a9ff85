------------------------- MODULE HarnessWaitsProofs -------------------------
(***************************************************************************)
(* Theorems about HarnessWaits, for every graph, every set of signals and  *)
(* every value of the bounds: a run with waits still implements            *)
(* RunContract, a node that waits has exactly one reason to, and a signal  *)
(* and the node that waits for it always find each other.                  *)
(***************************************************************************)
EXTENDS HarnessWaits, HarnessEngineProofs

ApprovalState == {"ABSENT", "PENDING", "APPROVED", "REJECTED", "EXPIRED", "CANCELLED"}
ExpiryState == {"ABSENT", "PENDING", "FIRED", "CANCELLED"}
ApprovalRow == [state : ApprovalState, left : Ticks, timer : ExpiryState]

WaitTypeOK ==
  /\ wakeup \in [Node -> Ticks]
  /\ signal \in [Signal -> [state : {"ABSENT", "PENDING", "CONSUMED"}, by : Node \cup {NoNode}]]
  /\ wait \in [Node -> [state : {"ABSENT", "WAITING", "DELIVERED", "CANCELLED"},
                        name : Name \cup {"none"}]]
  /\ approval \in [Approval -> ApprovalRow]

----------------------------------------------------------------------------
(***************************************************************************)
(* What a step does to the run: a node is parked or woken, or refused, or  *)
(* the step is one of the engine's own.                                    *)
(***************************************************************************)
Moves(n) ==
  /\ Park(n) \/ Wake(n)
  /\ CoreUnchanged

Refuses(n) == \E to \in {"FAILED", "TIMED_OUT"} : FailApprovalWait(n, to)

CoreMove ==
  \/ [Next]_vars
  \/ \E n \in Node : Moves(n) \/ Refuses(n)

\* A tick of the clock is a tick of the engine's, or moves only deadlines of waits.
LEMMA TicksMove ==
  ASSUME CoreOK, WaitTick
  PROVE  [Next]_vars
<1>1. CASE \E a \in Attempt, e \in Epoch : Ticking(a, e)
  BY <1>1 DEF WaitTick, Tick, Next
<1>2. CASE ~ \E a \in Attempt, e \in Epoch : Ticking(a, e)
  <2>1. lease' = [a \in Attempt |-> [e \in Epoch |-> lease[a][e]]]
    BY <1>2 DEF WaitTick, TickLeases
  <2>2. lease' = lease
    BY <2>1 DEF CoreOK
  <2> QED
    BY <2>2 DEF WaitTick, vars
<1> QED
  BY <1>1, <1>2

\* Every step of the waits is one of these.
LEMMA CoreMoves == CoreOK /\ [WaitNext]_wvars => CoreMove
<1> SUFFICES ASSUME CoreOK, [WaitNext]_wvars PROVE CoreMove
  OBVIOUS
<1>1. CASE Operations \/ Reclaim \/ UNCHANGED wvars \/ CancelWithWaits
  BY <1>1 DEF wvars, CancelWithWaits, Next, CoreMove
<1>2. ASSUME NEW n \in Node, NEW late \in Late, NEW ticks \in 1..MaxWait, WaitUntil(n, ticks, late)
      PROVE  CoreMove
  BY <1>2 DEF WaitUntil, CoreMove, Moves
<1>3. ASSUME NEW n \in Node, NEW late \in Late, ReleaseDueTimer(n, late) PROVE CoreMove
  BY <1>3 DEF ReleaseDueTimer, CoreMove, Moves
<1>4. ASSUME NEW n \in Node, NEW late \in Late, NEW ttl \in 0..MaxWait, RequestApproval(n, ttl, late)
      PROVE  CoreMove
  BY <1>4 DEF RequestApproval, CoreMove, Moves
<1>5. ASSUME NEW n \in Node, NEW name \in Name, WaitForSignal(n, name) PROVE CoreMove
  <2>1. CASE Pending(name) = {}
    BY <1>5, <2>1 DEF WaitForSignal, CoreMove, Moves
  <2>2. CASE Pending(name) # {}
    BY <1>5, <2>2 DEF WaitForSignal, CoreMove, CoreUnchanged, vars
  <2> QED
    BY <2>1, <2>2
<1>6. ASSUME NEW s \in Signal, SendSignal(s) PROVE CoreMove
  <2>1. CASE Waiting(SignalName[s]) = {}
    BY <1>6, <2>1 DEF SendSignal, CoreMove, CoreUnchanged, vars
  <2>2. CASE Waiting(SignalName[s]) # {}
    BY <1>6, <2>2 DEF SendSignal, CoreMove, Moves, Waiting
  <2> QED
    BY <2>1, <2>2
<1>7. ASSUME NEW p \in Approval, NEW late \in Late,
             Approve(p, late) \/ Reject(p, late) \/ ReleaseExpiredApproval(p, late)
      PROVE  CoreMove
  <2>1. p[1] \in Node
    BY DEF Approval
  <2> QED
    BY <1>7, <2>1 DEF Approve, Reject, ReleaseExpiredApproval, CoreMove, Moves, Refuses
<1>8. CASE WaitTick
  BY <1>8, TicksMove DEF CoreMove
<1> QED
  BY <1>1, <1>2, <1>3, <1>4, <1>5, <1>6, <1>7, <1>8 DEF WaitNext

----------------------------------------------------------------------------
\* A node that is parked or woken changes nothing the contract speaks of.
LEMMA MovesFit ==
  ASSUME ContractInv, NEW n \in Node, Moves(n)
  PROVE  ContractInv' /\ UNCHANGED Run!vars
<1> USE DEF ContractInv
<1>1. PICK to \in {"READY", "WAITING"} :
        /\ node[n] \in {"READY", "WAITING"}
        /\ node' = [node EXCEPT ![n] = to]
        /\ ready' = IF to = "READY" THEN ready \cup {n} ELSE ready \ {n}
        /\ UNCHANGED <<wf, deps, remaining, progress, attempt, lease, worker, outcome>>
  BY DEF Moves, Park, Wake, CompareAndSwapNodeRun, CoreUnchanged
<1>2. \A m \in Node : node'[m] = IF m = n THEN to ELSE node[m]
  BY <1>1 DEF CoreOK
<1>3. CoreOK'
  BY <1>1 DEF CoreOK, NodeState
<1>4. Unborn' /\ LiveFits' /\ InTurn'
  <2>1. Unborn'
    BY <1>1, <1>2 DEF Unborn
  <2>2. LiveFits' /\ InTurn'
    BY <1>1, <1>2 DEF LiveFits, InTurn, Live, Attempt, NodeOf, Busy
  <2> QED
    BY <2>1, <2>2
<1>5. Relabelling
  BY <1>1, <1>2 DEF Relabelling, Busy
<1>6. GraphInv' /\ RunNodes' = RunNodes /\ DoneNodes' = DoneNodes /\ LostNodes' = LostNodes
  BY <1>5, RelabelKeeps
<1>7. BusyNodes' = BusyNodes /\ BusyLive'
  BY <1>1, <1>2 DEF BusyNodes, BusyLive, Busy, Live
<1>8. UNCHANGED Run!vars
  BY <1>1, <1>6, <1>7, RunStutters
<1> QED
  BY <1>3, <1>4, <1>6, <1>7, <1>8

\* A refused node decides a run that is open, a held one too.
LEMMA RefusalFits ==
  ASSUME ContractInv, NEW n \in Node, Refuses(n)
  PROVE  ContractInv' /\ Run!Refuse(n)
<1> USE DEF ContractInv
<1>1. PICK to \in {"FAILED", "TIMED_OUT"} :
        /\ node[n] = "WAITING"
        /\ node' = [node EXCEPT ![n] = to]
        /\ ready' = ready \ {n}
        /\ IncrementWorkflowProgress(TRUE)
        /\ wf' = IF wf \in TerminalWorkflow THEN wf ELSE "FAILED"
        /\ UNCHANGED <<deps, remaining, attempt, lease, worker, outcome>>
  BY DEF Refuses, FailApprovalWait, CompareAndSwapNodeRun
<1>2. \A m \in Node : node'[m] = IF m = n THEN to ELSE node[m]
  BY <1>1 DEF CoreOK
<1>3. wf # "ABSENT" /\ wf' # "ABSENT"
  BY <1>1 DEF Unborn, TerminalWorkflow
<1>4. CoreOK'
  <2>1. wf' \in WorkflowState
    BY <1>1, <1>3 DEF CoreOK, WorkflowState
  <2>2. node' \in [Node -> NodeState \cup {"ABSENT"}] /\ ready' \in SUBSET Node
    BY <1>1 DEF CoreOK, NodeState
  <2>3. progress' \in [total : Nat, terminal : Nat, failed : Nat]
    BY <1>1 DEF CoreOK, IncrementWorkflowProgress
  <2> QED
    BY <1>1, <2>1, <2>2, <2>3 DEF CoreOK
<1>5. Unborn' /\ LiveFits' /\ InTurn'
  <2>1. Unborn'
    BY <1>3 DEF Unborn
  <2>2. LiveFits' /\ InTurn'
    BY <1>1, <1>2 DEF LiveFits, InTurn, Live, Attempt, NodeOf, Busy
  <2> QED
    BY <2>1, <2>2
<1>6. wf' = IF Opened THEN "FAILED" ELSE wf
  BY <1>1, <1>3 DEF GraphInv, KnownPhase, Opened, TerminalWorkflow
<1>7. GraphInv'
  BY <1>1, <1>3, <1>6, FailureKeeps
<1>8. /\ RunNodes' = RunNodes /\ BusyNodes' = BusyNodes /\ DoneNodes' = DoneNodes
      /\ LostNodes' = LostNodes \cup {n} /\ n \in RunNodes \ (BusyNodes \cup DoneNodes \cup LostNodes)
  BY <1>1, <1>2 DEF RunNodes, BusyNodes, DoneNodes, LostNodes, Busy
<1>9. BusyLive'
  BY <1>1, <1>2 DEF BusyLive, Busy, Live
<1>10. deps[n] \subseteq DoneNodes
  BY <1>1 DEF GraphInv, NeedsMet, OpenNeeds, DoneNodes
<1>11. Phase' = IF Phase \in {"OPEN", "DRAINING", "HELD"} THEN "FAILED" ELSE Phase
  BY <1>6 DEF Phase, Opened, GraphInv, KnownPhase, TerminalWorkflow
<1>12. Run!Refuse(n)
  BY <1>1, <1>8, <1>10, <1>11 DEF Run!Refuse, RunNodes, BusyNodes, DoneNodes, LostNodes, Busy
<1> QED
  BY <1>4, <1>5, <1>7, <1>9, <1>12

----------------------------------------------------------------------------
(***************************************************************************)
(* Why a node waits.  Explained is WaitExplained without cardinalities.    *)
(* The engine's own steps neither park nor wake a node, and each action of *)
(* the waits opens or closes one reason together with the node's state.    *)
(***************************************************************************)
Reason == ({"timer", "signal"} \X {0}) \cup ({"approval"} \X (1..MaxApprovals))

IsOpen(n, r) ==
  \/ r[1] = "timer" /\ wakeup[n] # Never
  \/ r[1] = "signal" /\ wait[n].state = "WAITING"
  \/ r[1] = "approval" /\ approval[<<n, r[2]>>].state = "PENDING"

Explained ==
  \A n \in Node : IF node[n] = "WAITING" THEN \E r \in Reason : OpenReasons(n) = {r}
                  ELSE OpenReasons(n) = {}

\* A node has one reason exactly when its open rows are a singleton.
LEMMA ExplainedCounts == Explained => WaitExplained
<1> SUFFICES ASSUME Explained, NEW n \in Node
             PROVE  Cardinality(OpenReasons(n)) = IF node[n] = "WAITING" THEN 1 ELSE 0
  BY DEF WaitExplained
<1>1. CASE node[n] = "WAITING"
  <2>1. PICK r \in Reason : OpenReasons(n) = {r}
    BY <1>1 DEF Explained
  <2>2. Cardinality({r}) = 1
    BY FS_Singleton
  <2> QED
    BY <1>1, <2>1, <2>2
<1>2. CASE node[n] # "WAITING"
  BY <1>2, FS_EmptySet DEF Explained
<1> QED
  BY <1>1, <1>2

\* The reasons are the open ones of the kinds there are.
LEMMA ReasonsAre ==
  /\ \A n \in Node : OpenReasons(n) = {r \in Reason : IsOpen(n, r)}
  /\ \A r \in Reason : \/ r = <<"timer", 0>>
                       \/ r = <<"signal", 0>>
                       \/ \E k \in 1..MaxApprovals : r = <<"approval", k>>
  /\ <<"timer", 0>> \in Reason /\ <<"signal", 0>> \in Reason
  /\ \A k \in 1..MaxApprovals : <<"approval", k>> \in Reason
BY DEF OpenReasons, Reason, IsOpen

\* The rows behind each reason, for any tables.
LEMMA OpenIs ==
  ASSUME NEW n \in Node
  PROVE  /\ IsOpen(n, <<"timer", 0>>) <=> wakeup[n] # Never
         /\ IsOpen(n, <<"signal", 0>>) <=> wait[n].state = "WAITING"
         /\ \A k \in 1..MaxApprovals :
              IsOpen(n, <<"approval", k>>) <=> approval[<<n, k>>].state = "PENDING"
BY DEF IsOpen

\* What one step does to the reasons of node n alone.
OthersExplained(n) ==
  \A m \in Node \ {n} : /\ node'[m] = node[m]
                        /\ OpenReasons(m)' = OpenReasons(m)

\* Opening the first reason of a node that is parked keeps every wait explained.
LEMMA ReasonOpens ==
  ASSUME Explained, NEW n \in Node, node[n] # "WAITING", node'[n] = "WAITING",
         NEW r \in Reason, OpenReasons(n)' = OpenReasons(n) \cup {r}, OthersExplained(n)
  PROVE  Explained'
BY DEF Explained, OthersExplained

\* Closing the only reason of a node that leaves its wait does, too.
LEMMA ReasonCloses ==
  ASSUME Explained, NEW n \in Node, node[n] = "WAITING", node'[n] # "WAITING",
         NEW r \in Reason, r \in OpenReasons(n), OpenReasons(n)' = OpenReasons(n) \ {r},
         OthersExplained(n)
  PROVE  Explained'
BY DEF Explained, OthersExplained

\* The same reasons, for the same waiting nodes.
LEMMA ReasonsStay ==
  ASSUME Explained, \A n \in Node : node'[n] = "WAITING" <=> node[n] = "WAITING",
         \A n \in Node : OpenReasons(n)' = OpenReasons(n)
  PROVE  Explained'
BY DEF Explained

\* What becomes of the reasons when one of them is opened or closed.
LEMMA ReasonChanges ==
  ASSUME NEW n \in Node, NEW r \in Reason,
         \A m \in Node, q \in Reason : m # n \/ q # r => (IsOpen(m, q)' <=> IsOpen(m, q))
  PROVE  /\ \A m \in Node \ {n} : OpenReasons(m)' = OpenReasons(m)
         /\ IsOpen(n, r)' => OpenReasons(n)' = OpenReasons(n) \cup {r}
         /\ ~IsOpen(n, r)' => OpenReasons(n)' = OpenReasons(n) \ {r}
<1>1. \A m \in Node : /\ OpenReasons(m) = {q \in Reason : IsOpen(m, q)}
                      /\ OpenReasons(m)' = {q \in Reason : IsOpen(m, q)'}
  BY DEF OpenReasons, Reason, IsOpen
<1> QED
  BY <1>1

\* The steps of the engine neither park nor wake a node.
LEMMA EngineParksNobody ==
  ASSUME CoreOK, Unborn, Operations \/ Reclaim \/ UNCHANGED vars
  PROVE  \A n \in Node : node'[n] = "WAITING" <=> node[n] = "WAITING"
<1> DEFINE Goal == \A n \in Node : node'[n] = "WAITING" <=> node[n] = "WAITING"
<1> USE DEF CoreOK
<1>1. ASSUME NEW d \in Definitions, StartWorkflow(d) PROVE Goal
  BY <1>1 DEF StartWorkflow, Unborn
<1>2. ASSUME NEW n \in Node, StartAttempt(n) PROVE Goal
  BY <1>2 DEF StartAttempt
<1>3. ASSUME NEW n \in Node, NEW w \in Worker, NEW ttl \in 1..MaxTTL, NEW late \in Late,
             ClaimNode(n, w, ttl, late)
      PROVE  Goal
  BY <1>3 DEF ClaimNode, CompareAndSwapNodeRun
<1>4. ASSUME NEW a \in Attempt, NEW fence \in Fence, NEW late \in Late,
             StartClaimedAttempt(a, fence, late)
      PROVE  Goal
  BY <1>4 DEF StartClaimedAttempt, CompareAndSwapNodeRun
<1>5. ASSUME NEW a \in Attempt, NEW fence \in Fence \cup {Unfenced}, NEW late \in Late,
             CompleteAttemptSuccess(a, fence, late)
      PROVE  Goal
  BY <1>5 DEF CompleteAttemptSuccess
<1>6. ASSUME NEW a \in Attempt, NEW fence \in Fence \cup {Unfenced}, NEW late \in Late,
             CompleteAttemptFailure(a, fence, late)
      PROVE  Goal
  BY <1>6 DEF CompleteAttemptFailure, CompareAndSwapNodeRun
<1>7. ASSUME UNCHANGED node PROVE Goal
  BY <1>7
<1> HIDE DEF Goal, CoreOK
<1>8. Goal
  BY <1>1, <1>2, <1>3, <1>4, <1>5, <1>6, <1>7
     DEF Operations, Reclaim, RegisterWorker, HeartbeatLease, ReclaimExpiredAttempt,
         PauseWorkflow, ResumeWorkflow, vars
<1> QED
  BY <1>8 DEF Goal

\* Deadlines that pass keep their type, and a timer that is set stays set.
LEMMA SoonerTypes ==
  \A left \in Ticks : Sooner(left) \in Ticks /\ (Sooner(left) = Never <=> left = Never)
BY BoundsAssumption, WaitAssumption DEF Ticks, Sooner, Never

\* A new deadline is no longer than MaxWait, and none is Never.
LEMMA DeadlineTypes ==
  /\ \A ticks \in 0..MaxWait, late \in Late : ticks - late \in Ticks /\ ticks - late # Never
  /\ Never \in Ticks
BY BoundsAssumption, WaitAssumption DEF Ticks, Never, Late

\* An approval keeps its type when it is decided, and when its deadline nears.
LEMMA ApprovalTypes ==
  ASSUME NEW row \in ApprovalRow
  PROVE  /\ row.state \in ApprovalState /\ row.left \in Ticks /\ row.timer \in ExpiryState
         /\ \A s \in ApprovalState, t \in ExpiryState :
              [row EXCEPT !.state = s, !.timer = t] \in ApprovalRow
         /\ \A t \in ExpiryState : [row EXCEPT !.timer = t] \in ApprovalRow
         /\ \A left \in Ticks : [row EXCEPT !.left = left] \in ApprovalRow
BY DEF ApprovalRow

\* Deciding an approval, and creating one, writes a row of the right type.
LEMMA DecisionTypes ==
  ASSUME WaitTypeOK, NEW p \in Approval, NEW late \in Late, NEW state \in ApprovalState,
         CompareAndSwapApproval(p, state, late)
  PROVE  approval' \in [Approval -> ApprovalRow]
<1>1. approval[p] \in ApprovalRow
  BY DEF WaitTypeOK
<1>2. PICK t \in ExpiryState : approval' = [approval EXCEPT ![p] =
                                   [approval[p] EXCEPT !.state = state, !.timer = t]]
  <2>1. approval' = [approval EXCEPT ![p] = [approval[p] EXCEPT !.state = state,
                       !.timer = IF state = "EXPIRED" THEN "FIRED" ELSE approval[p].timer]]
    BY DEF CompareAndSwapApproval
  <2>2. (IF state = "EXPIRED" THEN "FIRED" ELSE approval[p].timer) \in ExpiryState
    BY <1>1, ApprovalTypes DEF ExpiryState
  <2> QED
    BY <2>1, <2>2
<1>3. [approval[p] EXCEPT !.state = state, !.timer = t] \in ApprovalRow
  BY <1>1, ApprovalTypes
<1> QED
  BY <1>2, <1>3 DEF WaitTypeOK

\* Every table of the waits keeps its type.
LEMMA WaitTypeStep == WaitTypeOK /\ [WaitNext]_wvars => WaitTypeOK'
<1> SUFFICES ASSUME WaitTypeOK, [WaitNext]_wvars PROVE WaitTypeOK'
  OBVIOUS
<1> USE DEF WaitTypeOK
<1>0. \A s \in Signal : SignalName[s] \in Name
  BY DEF Name
<1>1. CASE ((Operations \/ Reclaim) /\ UNCHANGED waitVars) \/ UNCHANGED wvars
  BY <1>1 DEF waitVars, wvars
<1>2. ASSUME NEW n \in Node, NEW late \in Late, NEW ticks \in 1..MaxWait, WaitUntil(n, ticks, late)
      PROVE  WaitTypeOK'
  BY <1>2, DeadlineTypes DEF WaitUntil, CreateTimer
<1>3. ASSUME NEW n \in Node, NEW late \in Late, ReleaseDueTimer(n, late) PROVE WaitTypeOK'
  BY <1>3, DeadlineTypes DEF ReleaseDueTimer, CompareAndSwapTimer
<1>4. ASSUME NEW n \in Node, NEW late \in Late, NEW ttl \in 0..MaxWait, RequestApproval(n, ttl, late)
      PROVE  WaitTypeOK'
  <2>1. PICK k \in 1..MaxApprovals : CreateApproval(<<n, k>>, ttl, late)
    BY <1>4 DEF RequestApproval
  <2> DEFINE row == [state |-> "PENDING",
                     left |-> IF ttl = 0 THEN Never ELSE ttl - late,
                     timer |-> IF ttl = 0 THEN "ABSENT" ELSE "PENDING"]
  <2>2. row \in ApprovalRow
    BY DeadlineTypes DEF ApprovalRow, ApprovalState, ExpiryState
  <2>3. approval' = [approval EXCEPT ![<<n, k>>] = row]
    BY <2>1 DEF CreateApproval
  <2> HIDE DEF row
  <2>4. approval' \in [Approval -> ApprovalRow]
    BY <2>2, <2>3 DEF WaitTypeOK
  <2> QED
    BY <1>4, <2>4 DEF RequestApproval, WaitTypeOK
<1>5. ASSUME NEW n \in Node, NEW s \in Signal, DeliverSignal(n, s), UNCHANGED <<wakeup, approval>>
      PROVE  WaitTypeOK'
  BY <1>0, <1>5 DEF DeliverSignal
<1>6. ASSUME NEW n \in Node, NEW name \in Name, WaitForSignal(n, name) PROVE WaitTypeOK'
  <2>1. CASE Pending(name) = {}
    BY <1>6, <2>1 DEF WaitForSignal, CreateSignalWait
  <2>2. CASE Pending(name) # {}
    BY <1>5, <1>6, <2>2 DEF WaitForSignal, Pending
  <2> QED
    BY <2>1, <2>2
<1>7. ASSUME NEW s \in Signal, SendSignal(s) PROVE WaitTypeOK'
  <2>1. CASE Waiting(SignalName[s]) = {}
    BY <1>7, <2>1 DEF SendSignal, PutSignal
  <2>2. CASE Waiting(SignalName[s]) # {}
    BY <1>5, <1>7, <2>2 DEF SendSignal, Waiting
  <2> QED
    BY <2>1, <2>2
<1>8. ASSUME NEW p \in Approval, NEW late \in Late,
             Approve(p, late) \/ Reject(p, late) \/ ReleaseExpiredApproval(p, late)
      PROVE  WaitTypeOK'
  <2>1. UNCHANGED <<wakeup, signal, wait>>
    BY <1>8 DEF Approve, Reject, ReleaseExpiredApproval
  <2>2. CASE \E state \in {"APPROVED", "REJECTED", "EXPIRED"} : CompareAndSwapApproval(p, state, late)
    BY <2>1, <2>2, DecisionTypes DEF WaitTypeOK, ApprovalState
  <2>3. CASE approval' = [approval EXCEPT ![p].timer = "CANCELLED"]
    <3>1. [approval[p] EXCEPT !.timer = "CANCELLED"] \in ApprovalRow
      BY ApprovalTypes DEF WaitTypeOK, ExpiryState
    <3> QED
      BY <2>1, <2>3, <3>1 DEF WaitTypeOK
  <2> QED
    BY <1>8, <2>2, <2>3 DEF Approve, Reject, ReleaseExpiredApproval
<1>9. CASE CancelWithWaits
  <2>1. /\ wakeup' = [n \in Node |-> Never]
        /\ wait' = [n \in Node |-> IF wait[n].state = "WAITING"
                                    THEN [wait[n] EXCEPT !.state = "CANCELLED"] ELSE wait[n]]
        /\ approval' = [p \in Approval |->
             [approval[p] EXCEPT
               !.state = IF approval[p].state = "PENDING" THEN "CANCELLED" ELSE approval[p].state,
               !.timer = IF approval[p].timer = "PENDING" THEN "CANCELLED" ELSE approval[p].timer]]
        /\ UNCHANGED signal
    BY <1>9 DEF CancelWithWaits
  <2>2. \A p \in Approval :
          /\ (IF approval[p].state = "PENDING" THEN "CANCELLED" ELSE approval[p].state) \in ApprovalState
          /\ (IF approval[p].timer = "PENDING" THEN "CANCELLED" ELSE approval[p].timer) \in ExpiryState
    BY ApprovalTypes DEF WaitTypeOK, ApprovalState, ExpiryState
  <2>3. approval' \in [Approval -> ApprovalRow]
    BY <2>1, <2>2, ApprovalTypes DEF WaitTypeOK
  <2> QED
    BY <2>1, <2>3, DeadlineTypes DEF WaitTypeOK
<1>10. CASE WaitTick
  <2>1. \A p \in Approval : [approval[p] EXCEPT !.left = Sooner(approval[p].left)] \in ApprovalRow
    BY ApprovalTypes, SoonerTypes DEF WaitTypeOK
  <2> QED
    BY <1>10, <2>1, SoonerTypes DEF WaitTick, WaitTypeOK
<1> QED
  BY <1>1, <1>2, <1>3, <1>4, <1>6, <1>7, <1>8, <1>9, <1>10 DEF WaitNext

\* Each action of the waits opens, closes or leaves the reasons of one node.
LEMMA ExplainedStep ==
  CoreOK /\ Unborn /\ WaitTypeOK /\ Explained /\ [WaitNext]_wvars => Explained'
<1> SUFFICES ASSUME CoreOK, Unborn, WaitTypeOK, Explained, [WaitNext]_wvars PROVE Explained'
  OBVIOUS
<1> DEFINE timer == <<"timer", 0>>
<1> DEFINE sig == <<"signal", 0>>
<1> DEFINE app(k) == <<"approval", k>>
<1>r. /\ timer \in Reason /\ sig \in Reason /\ \A k \in 1..MaxApprovals : app(k) \in Reason
      /\ \A q \in Reason : q = timer \/ q = sig \/ \E k \in 1..MaxApprovals : q = app(k)
      /\ timer # sig /\ \A k \in 1..MaxApprovals : app(k) # timer /\ app(k) # sig
      /\ \A k, j \in 1..MaxApprovals : app(k) = app(j) => k = j
  BY ReasonsAre
<1>o. \A n \in Node :
        /\ IsOpen(n, timer) <=> wakeup[n] # Never
        /\ IsOpen(n, sig) <=> wait[n].state = "WAITING"
        /\ \A k \in 1..MaxApprovals : IsOpen(n, app(k)) <=> approval[<<n, k>>].state = "PENDING"
        /\ IsOpen(n, timer)' <=> wakeup'[n] # Never
        /\ IsOpen(n, sig)' <=> wait'[n].state = "WAITING"
        /\ \A k \in 1..MaxApprovals : IsOpen(n, app(k))' <=> approval'[<<n, k>>].state = "PENDING"
  BY DEF IsOpen
<1>q. \A n \in Node : OpenReasons(n) = {q \in Reason : IsOpen(n, q)}
  BY ReasonsAre
<1>p. \A p \in Approval : /\ p[1] \in Node /\ p[2] \in 1..MaxApprovals /\ p = <<p[1], p[2]>>
  BY DEF Approval
<1>k. \A n \in Node, k \in 1..MaxApprovals : <<n, k>> \in Approval
  BY DEF Approval
<1>n. /\ node \in [Node -> NodeState \cup {"ABSENT"}] /\ wakeup \in [Node -> Ticks]
      /\ DOMAIN wait = Node /\ DOMAIN approval = Approval
  BY DEF CoreOK, WaitTypeOK
<1> HIDE DEF timer, sig, app
\* One reason of node n changes, and no other.
<1>t. ASSUME NEW n \in Node, UNCHANGED <<wait, approval>>,
             \A m \in Node \ {n} : wakeup'[m] = wakeup[m]
      PROVE  \A m \in Node, q \in Reason : m # n \/ q # timer => (IsOpen(m, q)' <=> IsOpen(m, q))
  <2> SUFFICES ASSUME NEW m \in Node, NEW q \in Reason, m # n \/ q # timer
               PROVE  IsOpen(m, q)' <=> IsOpen(m, q)
    OBVIOUS
  <2>1. CASE q = sig
    BY <2>1, <1>t, <1>o
  <2>2. CASE q = timer
    BY <2>2, <1>t, <1>o
  <2>3. ASSUME NEW j \in 1..MaxApprovals, q = app(j) PROVE IsOpen(m, q)' <=> IsOpen(m, q)
    BY <2>3, <1>t, <1>o
  <2> QED
    BY <2>1, <2>2, <2>3, <1>r
<1>s. ASSUME NEW n \in Node, UNCHANGED <<wakeup, approval>>,
             \A m \in Node \ {n} : wait'[m] = wait[m]
      PROVE  \A m \in Node, q \in Reason : m # n \/ q # sig => (IsOpen(m, q)' <=> IsOpen(m, q))
  <2> SUFFICES ASSUME NEW m \in Node, NEW q \in Reason, m # n \/ q # sig
               PROVE  IsOpen(m, q)' <=> IsOpen(m, q)
    OBVIOUS
  <2>1. CASE q = timer
    BY <2>1, <1>s, <1>o
  <2>2. CASE q = sig
    BY <2>2, <1>s, <1>o
  <2>3. ASSUME NEW j \in 1..MaxApprovals, q = app(j) PROVE IsOpen(m, q)' <=> IsOpen(m, q)
    BY <2>3, <1>s, <1>o
  <2> QED
    BY <2>1, <2>2, <2>3, <1>r
<1>a. ASSUME NEW n \in Node, NEW k \in 1..MaxApprovals, UNCHANGED <<wakeup, wait>>,
             \A p \in Approval \ {<<n, k>>} : approval'[p] = approval[p]
      PROVE  \A m \in Node, q \in Reason : m # n \/ q # app(k) => (IsOpen(m, q)' <=> IsOpen(m, q))
  <2> SUFFICES ASSUME NEW m \in Node, NEW q \in Reason, m # n \/ q # app(k)
               PROVE  IsOpen(m, q)' <=> IsOpen(m, q)
    OBVIOUS
  <2>1. CASE q = timer \/ q = sig
    BY <2>1, <1>a, <1>o
  <2>2. ASSUME NEW j \in 1..MaxApprovals, q = app(j) PROVE IsOpen(m, q)' <=> IsOpen(m, q)
    <3>1. <<m, j>> # <<n, k>> /\ <<m, j>> \in Approval
      BY <2>2, <1>k
    <3>2. approval'[<<m, j>>] = approval[<<m, j>>]
      BY <3>1, <1>a
    <3> QED
      BY <2>2, <3>2, <1>o
  <2> QED
    BY <2>1, <2>2, <1>r
\* A node is parked with a new reason, or leaves its wait with its reason.
<1>up. ASSUME NEW n \in Node, NEW r \in Reason,
              \A m \in Node, q \in Reason : m # n \/ q # r => (IsOpen(m, q)' <=> IsOpen(m, q)),
              IsOpen(n, r)', node[n] # "WAITING", node' = [node EXCEPT ![n] = "WAITING"]
       PROVE  Explained'
  <2>1. OthersExplained(n) /\ OpenReasons(n)' = OpenReasons(n) \cup {r}
    BY <1>up, <1>n, ReasonChanges DEF OthersExplained
  <2> QED
    BY <2>1, <1>up, <1>n, ReasonOpens
<1>down. ASSUME NEW n \in Node, NEW r \in Reason, NEW to,
                \A m \in Node, q \in Reason : m # n \/ q # r => (IsOpen(m, q)' <=> IsOpen(m, q)),
                IsOpen(n, r), ~IsOpen(n, r)', node[n] = "WAITING", to # "WAITING",
                node' = [node EXCEPT ![n] = to]
         PROVE  Explained'
  <2>1. OthersExplained(n) /\ OpenReasons(n)' = OpenReasons(n) \ {r}
    BY <1>down, <1>n, ReasonChanges DEF OthersExplained
  <2>2. r \in OpenReasons(n)
    BY <1>down, <1>q
  <2> QED
    BY <2>1, <2>2, <1>down, <1>n, ReasonCloses
\* Nothing opens or closes, and nobody is parked or woken.
<1>same. ASSUME \A n \in Node : node'[n] = "WAITING" <=> node[n] = "WAITING",
                \A m \in Node, q \in Reason : IsOpen(m, q)' <=> IsOpen(m, q)
         PROVE  Explained'
  <2>1. \A n \in Node : OpenReasons(n)' = {q \in Reason : IsOpen(n, q)'}
    BY DEF OpenReasons, Reason, IsOpen
  <2> QED
    BY <2>1, <1>same, <1>q, ReasonsStay
<1>1. CASE ((Operations \/ Reclaim) /\ UNCHANGED waitVars) \/ UNCHANGED wvars
  <2>1. \A n \in Node : node'[n] = "WAITING" <=> node[n] = "WAITING"
    BY <1>1, EngineParksNobody DEF wvars
  <2>2. \A m \in Node, q \in Reason : IsOpen(m, q)' <=> IsOpen(m, q)
    BY <1>1 DEF waitVars, wvars, IsOpen
  <2> QED
    BY <2>1, <2>2, <1>same
<1>2. ASSUME NEW n \in Node, NEW late \in Late, NEW ticks \in 1..MaxWait, WaitUntil(n, ticks, late)
      PROVE  Explained'
  <2>1. /\ node[n] # "WAITING" /\ node' = [node EXCEPT ![n] = "WAITING"]
        /\ wakeup' = [wakeup EXCEPT ![n] = ticks - late] /\ UNCHANGED <<wait, approval>>
    BY <1>2 DEF WaitUntil, Park, CompareAndSwapNodeRun, CreateTimer
  <2>2. wakeup'[n] # Never
    BY <2>1, <1>n, DeadlineTypes
  <2>3. \A m \in Node, q \in Reason : m # n \/ q # timer => (IsOpen(m, q)' <=> IsOpen(m, q))
    BY <2>1, <1>n, <1>t
  <2> QED
    BY <2>1, <2>2, <2>3, <1>o, <1>r, <1>up
<1>3. ASSUME NEW n \in Node, NEW late \in Late, ReleaseDueTimer(n, late) PROVE Explained'
  <2>1. /\ node[n] = "WAITING" /\ node' = [node EXCEPT ![n] = "READY"]
        /\ wakeup[n] # Never /\ wakeup' = [wakeup EXCEPT ![n] = Never]
        /\ UNCHANGED <<wait, approval>>
    BY <1>3 DEF ReleaseDueTimer, Wake, CompareAndSwapNodeRun, CompareAndSwapTimer
  <2>2. \A m \in Node, q \in Reason : m # n \/ q # timer => (IsOpen(m, q)' <=> IsOpen(m, q))
    BY <2>1, <1>n, <1>t
  <2>3. IsOpen(n, timer) /\ ~IsOpen(n, timer)'
    BY <2>1, <1>n, <1>o
  <2> QED
    BY <2>1, <2>2, <2>3, <1>r, <1>down
<1>4. ASSUME NEW n \in Node, NEW late \in Late, NEW ttl \in 0..MaxWait, RequestApproval(n, ttl, late)
      PROVE  Explained'
  <2>1. PICK k \in 1..MaxApprovals : CreateApproval(<<n, k>>, ttl, late)
    BY <1>4 DEF RequestApproval
  <2>2. /\ node[n] # "WAITING" /\ node' = [node EXCEPT ![n] = "WAITING"]
        /\ UNCHANGED <<wakeup, wait>>
    BY <1>4 DEF RequestApproval, Park, CompareAndSwapNodeRun
  <2>3. /\ approval'[<<n, k>>].state = "PENDING"
        /\ \A p \in Approval \ {<<n, k>>} : approval'[p] = approval[p]
    BY <2>1, <1>k, <1>n DEF CreateApproval
  <2>4. \A m \in Node, q \in Reason : m # n \/ q # app(k) => (IsOpen(m, q)' <=> IsOpen(m, q))
    BY <2>2, <2>3, <1>a
  <2>5. IsOpen(n, app(k))' /\ app(k) \in Reason
    BY <2>3, <1>o, <1>r
  <2> QED
    BY <2>2, <2>4, <2>5, <1>up
<1>5. ASSUME NEW n \in Node, NEW name \in Name, WaitForSignal(n, name) PROVE Explained'
  <2>1. UNCHANGED <<wakeup, approval>> /\ node[n] = "READY" /\ wait[n] = NoWait
    BY <1>5 DEF WaitForSignal
  <2>2. CASE Pending(name) = {}
    <3>1. /\ node' = [node EXCEPT ![n] = "WAITING"]
          /\ wait' = [wait EXCEPT ![n] = [state |-> "WAITING", name |-> name]]
      BY <1>5, <2>2 DEF WaitForSignal, Park, CompareAndSwapNodeRun, CreateSignalWait
    <3>2. \A m \in Node, q \in Reason : m # n \/ q # sig => (IsOpen(m, q)' <=> IsOpen(m, q))
      BY <2>1, <3>1, <1>n, <1>s
    <3>3. IsOpen(n, sig)'
      BY <3>1, <1>n, <1>o
    <3> QED
      BY <2>1, <3>1, <3>2, <3>3, <1>r, <1>up
  <2>3. CASE Pending(name) # {}
    <3>1. PICK s \in Signal : wait' = [wait EXCEPT ![n] = [state |-> "DELIVERED", name |-> SignalName[s]]]
      BY <1>5, <2>3 DEF WaitForSignal, DeliverSignal, Pending
    <3>2. node' = node
      BY <1>5, <2>3 DEF WaitForSignal
    <3>3. \A m \in Node : wait'[m].state = "WAITING" <=> wait[m].state = "WAITING"
      BY <2>1, <3>1, <1>n DEF NoWait
    <3>4. \A m \in Node, q \in Reason : IsOpen(m, q)' <=> IsOpen(m, q)
      BY <2>1, <3>3 DEF IsOpen
    <3> QED
      BY <3>2, <3>4, <1>same
  <2> QED
    BY <2>2, <2>3
<1>6. ASSUME NEW s \in Signal, SendSignal(s) PROVE Explained'
  <2>1. CASE Waiting(SignalName[s]) = {}
    <3>1. UNCHANGED <<node, wait, wakeup, approval>>
      BY <1>6, <2>1 DEF SendSignal
    <3>2. \A m \in Node, q \in Reason : IsOpen(m, q)' <=> IsOpen(m, q)
      BY <3>1 DEF IsOpen
    <3> QED
      BY <3>1, <3>2, <1>same
  <2>2. CASE Waiting(SignalName[s]) # {}
    <3>1. PICK n \in Waiting(SignalName[s]) : Wake(n) /\ DeliverSignal(n, s)
      BY <1>6, <2>2 DEF SendSignal
    <3>2. /\ n \in Node /\ wait[n].state = "WAITING"
          /\ node[n] = "WAITING" /\ node' = [node EXCEPT ![n] = "READY"]
          /\ wait' = [wait EXCEPT ![n] = [state |-> "DELIVERED", name |-> SignalName[s]]]
          /\ UNCHANGED <<wakeup, approval>>
      BY <1>6, <3>1 DEF SendSignal, Waiting, Wake, CompareAndSwapNodeRun, DeliverSignal
    <3>3. \A m \in Node, q \in Reason : m # n \/ q # sig => (IsOpen(m, q)' <=> IsOpen(m, q))
      BY <3>2, <1>n, <1>s
    <3>4. IsOpen(n, sig) /\ ~IsOpen(n, sig)'
      BY <3>2, <1>n, <1>o
    <3> QED
      BY <3>2, <3>3, <3>4, <1>r, <1>down
  <2> QED
    BY <2>1, <2>2
<1>7. ASSUME NEW p \in Approval, NEW late \in Late, NEW state \in {"APPROVED", "REJECTED", "EXPIRED"},
             CompareAndSwapApproval(p, state, late), UNCHANGED <<wakeup, wait>>,
             node[p[1]] = "WAITING", NEW to, to # "WAITING", node' = [node EXCEPT ![p[1]] = to]
      PROVE  Explained'
  <2>1. /\ approval[p].state = "PENDING" /\ approval'[p].state # "PENDING"
        /\ \A q \in Approval \ {p} : approval'[q] = approval[q]
    <3>1. approval[p] \in ApprovalRow
      BY DEF WaitTypeOK
    <3>2. PICK t : approval' = [approval EXCEPT ![p] =
                                  [approval[p] EXCEPT !.state = state, !.timer = t]]
      BY <1>7 DEF CompareAndSwapApproval
    <3>3. [approval[p] EXCEPT !.state = state, !.timer = t].state = state
      BY <3>1 DEF ApprovalRow
    <3>4. approval'[p].state = state
      BY <3>2, <3>3, <1>n
    <3> QED
      BY <1>7, <3>2, <3>4, <1>n DEF CompareAndSwapApproval
  <2>2. p[1] \in Node /\ p[2] \in 1..MaxApprovals /\ p = <<p[1], p[2]>>
    BY <1>p
  <2>3. \A m \in Node, q \in Reason : m # p[1] \/ q # app(p[2]) => (IsOpen(m, q)' <=> IsOpen(m, q))
    BY <1>7, <2>1, <2>2, <1>a
  <2>4. IsOpen(p[1], app(p[2])) /\ ~IsOpen(p[1], app(p[2]))' /\ app(p[2]) \in Reason
    BY <2>1, <2>2, <1>o, <1>r
  <2> QED
    BY <1>7, <2>2, <2>3, <2>4, <1>down
<1>8. ASSUME NEW p \in Approval, NEW late \in Late,
             Approve(p, late) \/ Reject(p, late) \/ ReleaseExpiredApproval(p, late)
      PROVE  Explained'
  <2>1. CASE Approve(p, late)
    <3>1. /\ node[p[1]] = "WAITING" /\ node' = [node EXCEPT ![p[1]] = "READY"]
          /\ CompareAndSwapApproval(p, "APPROVED", late) /\ UNCHANGED <<wakeup, wait>>
      BY <2>1 DEF Approve, Wake, CompareAndSwapNodeRun
    <3> QED
      BY <3>1, <1>7
  <2>2. CASE Reject(p, late)
    <3>1. /\ node[p[1]] = "WAITING" /\ node' = [node EXCEPT ![p[1]] = "FAILED"]
          /\ CompareAndSwapApproval(p, "REJECTED", late) /\ UNCHANGED <<wakeup, wait>>
      BY <2>2 DEF Reject, FailApprovalWait, CompareAndSwapNodeRun
    <3> QED
      BY <3>1, <1>7
  <2>3. CASE ReleaseExpiredApproval(p, late) /\ CompareAndSwapApproval(p, "EXPIRED", late)
                                             /\ FailApprovalWait(p[1], "TIMED_OUT")
    <3>1. /\ node[p[1]] = "WAITING" /\ node' = [node EXCEPT ![p[1]] = "TIMED_OUT"]
          /\ CompareAndSwapApproval(p, "EXPIRED", late) /\ UNCHANGED <<wakeup, wait>>
      BY <2>3 DEF ReleaseExpiredApproval, FailApprovalWait, CompareAndSwapNodeRun
    <3> QED
      BY <3>1, <1>7
  <2>4. CASE /\ UNCHANGED <<vars, wakeup, wait>>
             /\ approval' = [approval EXCEPT ![p].timer = "CANCELLED"]
    <3>1. \A q \in Approval : approval'[q].state = approval[q].state
      <4>1. approval[p] \in ApprovalRow
        BY DEF WaitTypeOK
      <4>2. [approval[p] EXCEPT !.timer = "CANCELLED"].state = approval[p].state
        BY <4>1 DEF ApprovalRow
      <4> QED
        BY <2>4, <4>2, <1>n
    <3>2. \A m \in Node, q \in Reason : IsOpen(m, q)' <=> IsOpen(m, q)
      <4>1. \A m \in Node, k \in 1..MaxApprovals :
              IsOpen(m, app(k))' <=> IsOpen(m, app(k))
        BY <3>1, <1>k, <1>o
      <4> QED
        BY <2>4, <4>1, <1>o, <1>r
    <3> QED
      BY <2>4, <3>2, <1>same DEF vars
  <2> QED
    BY <1>8, <2>1, <2>2, <2>3, <2>4 DEF ReleaseExpiredApproval
<1>9. CASE CancelWithWaits
  <2>1. \A n \in Node : node'[n] # "WAITING"
    BY <1>9 DEF CancelWithWaits, CancelWorkflow, CancelWorkflowRuntime, TerminalNode
  <2>2. \A n \in Node : wakeup'[n] = Never
    BY <1>9 DEF CancelWithWaits
  <2>3. \A n \in Node : wait'[n].state # "WAITING"
    <3>1. \A n \in Node : wait'[n] = IF wait[n].state = "WAITING"
                                     THEN [wait[n] EXCEPT !.state = "CANCELLED"] ELSE wait[n]
      BY <1>9 DEF CancelWithWaits
    <3> QED
      BY <3>1 DEF WaitTypeOK
  <2>4. \A p \in Approval : approval'[p].state # "PENDING"
    <3> SUFFICES ASSUME NEW p \in Approval PROVE approval'[p].state # "PENDING"
      OBVIOUS
    <3>1. PICK t : approval'[p] = [approval[p] EXCEPT
             !.state = IF approval[p].state = "PENDING" THEN "CANCELLED" ELSE approval[p].state,
             !.timer = t]
      BY <1>9 DEF CancelWithWaits
    <3>2. approval[p] \in ApprovalRow
      BY DEF WaitTypeOK
    <3> QED
      BY <3>1, <3>2 DEF ApprovalRow
  <2>5. \A n \in Node, q \in Reason : ~IsOpen(n, q)'
    <3> SUFFICES ASSUME NEW n \in Node, NEW q \in Reason PROVE ~IsOpen(n, q)'
      OBVIOUS
    <3>1. \A k \in 1..MaxApprovals : ~IsOpen(n, app(k))'
      BY <2>4, <1>k, <1>o
    <3>2. ~IsOpen(n, timer)' /\ ~IsOpen(n, sig)'
      BY <2>2, <2>3, <1>o
    <3> QED
      BY <3>1, <3>2, <1>r
  <2>6. \A n \in Node : OpenReasons(n)' = {q \in Reason : IsOpen(n, q)'}
    BY DEF OpenReasons, Reason, IsOpen
  <2>7. \A n \in Node : OpenReasons(n)' = {}
    BY <2>5, <2>6
  <2> QED
    BY <2>1, <2>7 DEF Explained
<1>10. CASE WaitTick
  <2>1. /\ node' = node /\ wait' = wait
        /\ \A n \in Node : wakeup'[n] = Sooner(wakeup[n])
        /\ \A p \in Approval : approval'[p] = [approval[p] EXCEPT !.left = Sooner(approval[p].left)]
    BY <1>10 DEF WaitTick
  <2>2. \A n \in Node : wakeup'[n] = Never <=> wakeup[n] = Never
    BY <2>1, <1>n, SoonerTypes
  <2>3. \A p \in Approval : approval'[p].state = approval[p].state
    <3> SUFFICES ASSUME NEW p \in Approval PROVE approval'[p].state = approval[p].state
      OBVIOUS
    <3>1. approval[p] \in ApprovalRow
      BY DEF WaitTypeOK
    <3> QED
      BY <2>1, <3>1 DEF ApprovalRow
  <2>4. \A m \in Node, k \in 1..MaxApprovals : IsOpen(m, app(k))' <=> IsOpen(m, app(k))
    BY <2>3, <1>k, <1>o
  <2>5. \A m \in Node, q \in Reason : IsOpen(m, q)' <=> IsOpen(m, q)
    BY <2>1, <2>2, <2>4, <1>o, <1>r
  <2> QED
    BY <2>1, <2>5, <1>same
<1> QED
  BY <1>1, <1>2, <1>3, <1>4, <1>5, <1>6, <1>8, <1>9, <1>10 DEF WaitNext

\* The invariant behind all three theorems.
WaitInv == ContractInv /\ WaitTypeOK /\ Explained

\* Nothing is open before there is a run.
LEMMA WaitStart == WaitInit => WaitInv
<1> SUFFICES ASSUME WaitInit PROVE WaitInv
  OBVIOUS
<1>1. /\ wakeup = [n \in Node |-> Never]
      /\ signal = [s \in Signal |-> [state |-> "ABSENT", by |-> NoNode]]
      /\ wait = [n \in Node |-> NoWait]
      /\ approval = [p \in Approval |-> NoApproval]
      /\ \A n \in Node : node[n] = "ABSENT"
  BY DEF WaitInit, Init
<1>2. NoApproval \in ApprovalRow
  BY DeadlineTypes DEF NoApproval, ApprovalRow, ApprovalState, ExpiryState
<1>3. WaitTypeOK
  BY <1>1, <1>2, DeadlineTypes DEF WaitTypeOK, NoWait
<1>4. Explained
  <2>1. \A n \in Node, q \in Reason : ~IsOpen(n, q)
    <3> SUFFICES ASSUME NEW n \in Node, NEW q \in Reason PROVE ~IsOpen(n, q)
      OBVIOUS
    <3>1. wakeup[n] = Never /\ wait[n].state = "ABSENT"
      BY <1>1 DEF NoWait
    <3>2. \A k \in 1..MaxApprovals : approval[<<n, k>>].state = "ABSENT"
      BY <1>1 DEF Approval, NoApproval
    <3>3. ~IsOpen(n, <<"timer", 0>>) /\ ~IsOpen(n, <<"signal", 0>>)
      BY <3>1 DEF IsOpen
    <3>4. \A k \in 1..MaxApprovals : ~IsOpen(n, <<"approval", k>>)
      BY <3>2 DEF IsOpen
    <3> QED
      BY <3>3, <3>4, ReasonsAre
  <2> QED
    BY <1>1, <2>1, ReasonsAre DEF Explained
<1> QED
  BY <1>3, <1>4, ContractStart DEF WaitInv, WaitInit

\* The contract's invariant is kept by the waits.
LEMMA ContractStays == ContractInv /\ [WaitNext]_wvars => ContractInv' /\ [Run!Next]_Run!vars
<1> SUFFICES ASSUME ContractInv, [WaitNext]_wvars PROVE ContractInv' /\ [Run!Next]_Run!vars
  OBVIOUS
<1>1. CoreMove
  BY CoreMoves DEF ContractInv
<1>2. CASE [Next]_vars
  BY <1>2, ContractStep
<1>3. ASSUME NEW n \in Node, Moves(n) PROVE ContractInv' /\ [Run!Next]_Run!vars
  BY <1>3, MovesFit
<1>4. ASSUME NEW n \in Node, Refuses(n) PROVE ContractInv' /\ [Run!Next]_Run!vars
  BY <1>4, RefusalFits DEF Run!Next
<1> QED
  BY <1>1, <1>2, <1>3, <1>4 DEF CoreMove

\* The waits keep their invariant.
LEMMA WaitStep == WaitInv /\ [WaitNext]_wvars => WaitInv'
BY ContractStays, WaitTypeStep, ExplainedStep DEF WaitInv, ContractInv

\* A run with waits implements RunContract as well: nodes begin after all they
\* depend on and only in an open run, and a refusal or an expired approval fails
\* a run even while it is held.
THEOREM WaitsKeepContract == WaitSpec => ImplementsRun
<1>1. WaitInit => ContractInv /\ Run!Init
  BY ContractStart DEF WaitInit
<1> QED
  BY <1>1, ContractStays, PTL DEF WaitSpec, ImplementsRun, Run!Spec

\* Every table of the waits has its type, and the engine's tables theirs.
THEOREM WaitsTyped == WaitSpec => [](CoreOK /\ WaitTypeOK)
<1>1. WaitInv => CoreOK /\ WaitTypeOK
  BY DEF WaitInv, ContractInv
<1> QED
  BY <1>1, WaitStart, WaitStep, PTL DEF WaitSpec

\* A node that waits has exactly one open timer, signal wait or approval, and
\* no other node has any: nothing that is due, sent or decided is refused, and
\* no node is parked for ever.
THEOREM WaitsExplained == WaitSpec => []WaitExplained
<1>1. WaitInv => WaitExplained
  BY ExplainedCounts DEF WaitInv
<1> QED
  BY <1>1, WaitStart, WaitStep, PTL DEF WaitSpec

----------------------------------------------------------------------------
(***************************************************************************)
(* Signals.  Met is SignalsMeet without cardinalities, and it says that    *)
(* only a consumed signal names a node.                                    *)
(***************************************************************************)
Delivered(n) == {s \in Signal : signal[s].by = n}

NobodyMissed == \A name \in Name : Pending(name) = {} \/ Waiting(name) = {}
ConsumedOnly == \A s \in Signal : signal[s].state # "CONSUMED" => signal[s].by = NoNode
DeliveredOnce ==
  \A n \in Node : IF wait[n].state = "DELIVERED" THEN \E s \in Signal : Delivered(n) = {s}
                  ELSE Delivered(n) = {}

Met == NobodyMissed /\ ConsumedOnly /\ DeliveredOnce

\* One signal was delivered to a node exactly when its set is a singleton.
LEMMA MetCounts == Met => SignalsMeet
<1> SUFFICES ASSUME Met PROVE SignalsMeet
  OBVIOUS
<1>1. ASSUME NEW n \in Node
      PROVE  /\ wait[n].state = "DELIVERED" <=> Cardinality({s \in Signal : signal[s].by = n}) = 1
             /\ Cardinality({s \in Signal : signal[s].by = n}) <= 1
  <2>1. CASE wait[n].state = "DELIVERED"
    <3>1. PICK s \in Signal : Delivered(n) = {s}
      BY <2>1 DEF Met, DeliveredOnce
    <3>2. Cardinality(Delivered(n)) = 1
      BY <3>1, FS_Singleton
    <3>3. Cardinality({t \in Signal : signal[t].by = n}) = 1
      BY <3>2 DEF Delivered
    <3> QED
      BY <2>1, <3>3
  <2>2. CASE wait[n].state # "DELIVERED"
    <3>1. Delivered(n) = {}
      BY <2>2 DEF Met, DeliveredOnce
    <3>2. Cardinality(Delivered(n)) = 0
      BY <3>1, FS_EmptySet
    <3> QED
      BY <2>2, <3>2 DEF Delivered
  <2> QED
    BY <2>1, <2>2
<1> QED
  BY <1>1 DEF SignalsMeet, Met, NobodyMissed

\* A signal that nobody consumed yet is handed to a node that got none.
LEMMA DeliveryMeets ==
  ASSUME WaitTypeOK, Met, NEW n \in Node, NEW s \in Signal, DeliverSignal(n, s),
         signal[s].state # "CONSUMED", wait[n].state # "DELIVERED"
  PROVE  Met'
<1>1. /\ \A t \in Signal : signal'[t] = IF t = s THEN [state |-> "CONSUMED", by |-> n] ELSE signal[t]
      /\ \A m \in Node : wait'[m] = IF m = n THEN [state |-> "DELIVERED", name |-> SignalName[s]]
                                    ELSE wait[m]
  BY DEF DeliverSignal, WaitTypeOK
<1>2. NobodyMissed'
  <2>1. \A name \in Name : Pending(name)' \subseteq Pending(name) /\ Waiting(name)' \subseteq Waiting(name)
    BY <1>1 DEF Pending, Waiting
  <2> QED
    BY <2>1 DEF Met, NobodyMissed
<1>3. ConsumedOnly'
  BY <1>1 DEF Met, ConsumedOnly
<1>4. DeliveredOnce'
  <2>1. Delivered(n) = {} /\ signal[s].by = NoNode
    BY DEF Met, DeliveredOnce, ConsumedOnly
  <2>2. Delivered(n)' = {s}
    BY <1>1, <2>1 DEF Delivered
  <2>3. \A m \in Node \ {n} : Delivered(m)' = Delivered(m)
    BY <1>1, <2>1, WaitAssumption DEF Delivered
  <2> QED
    BY <1>1, <2>2, <2>3 DEF Met, DeliveredOnce
<1> QED
  BY <1>2, <1>3, <1>4 DEF Met

\* No action leaves a signal and a node that waits for it side by side.
LEMMA MetStep == WaitTypeOK /\ Met /\ [WaitNext]_wvars => Met'
<1> SUFFICES ASSUME WaitTypeOK, Met, [WaitNext]_wvars PROVE Met'
  OBVIOUS
<1>1. ASSUME UNCHANGED <<signal, wait>> PROVE Met'
  BY <1>1 DEF Met, NobodyMissed, ConsumedOnly, DeliveredOnce, Delivered, Pending, Waiting
<1>2. ASSUME NEW n \in Node, NEW name \in Name, WaitForSignal(n, name) PROVE Met'
  <2>1. CASE Pending(name) = {}
    <3>1. /\ UNCHANGED signal /\ wait[n] = NoWait
          /\ wait' = [wait EXCEPT ![n] = [state |-> "WAITING", name |-> name]]
      BY <1>2, <2>1 DEF WaitForSignal, CreateSignalWait
    <3>2. \A m \in Node : wait'[m] = IF m = n THEN [state |-> "WAITING", name |-> name] ELSE wait[m]
      BY <3>1 DEF WaitTypeOK
    <3>3. NobodyMissed'
      BY <2>1, <3>1, <3>2 DEF Met, NobodyMissed, Pending, Waiting
    <3>4. ConsumedOnly' /\ \A m \in Node : Delivered(m)' = Delivered(m)
      BY <3>1 DEF Met, ConsumedOnly, Delivered
    <3>5. \A m \in Node : wait'[m].state = "DELIVERED" <=> wait[m].state = "DELIVERED"
      BY <3>1, <3>2 DEF NoWait
    <3>6. DeliveredOnce'
      BY <3>4, <3>5 DEF Met, DeliveredOnce
    <3> QED
      BY <3>3, <3>4, <3>6 DEF Met
  <2>2. CASE Pending(name) # {}
    <3>1. PICK s \in Pending(name) : DeliverSignal(n, s)
      BY <1>2, <2>2 DEF WaitForSignal
    <3>2. s \in Signal /\ signal[s].state # "CONSUMED" /\ wait[n].state # "DELIVERED"
      BY <1>2 DEF WaitForSignal, NoWait, Pending
    <3> QED
      BY <3>1, <3>2, DeliveryMeets
  <2> QED
    BY <2>1, <2>2
<1>3. ASSUME NEW s \in Signal, SendSignal(s) PROVE Met'
  <2>1. CASE Waiting(SignalName[s]) = {}
    <3>1. /\ UNCHANGED wait /\ signal[s].state # "CONSUMED"
          /\ signal' = [signal EXCEPT ![s] = IF signal[s].state = "ABSENT"
                          THEN [state |-> "PENDING", by |-> NoNode] ELSE signal[s]]
      BY <1>3, <2>1 DEF SendSignal, PutSignal
    <3>2. \A t \in Signal : signal'[t] = IF t = s /\ signal[s].state = "ABSENT"
                                         THEN [state |-> "PENDING", by |-> NoNode] ELSE signal[t]
      BY <3>1 DEF WaitTypeOK
    <3>3. \A name \in Name : /\ Waiting(name)' = Waiting(name)
                             /\ name # SignalName[s] => Pending(name)' = Pending(name)
      BY <3>1, <3>2 DEF Waiting, Pending
    <3>4. NobodyMissed'
      BY <2>1, <3>3 DEF Met, NobodyMissed
    <3>5. ConsumedOnly'
      BY <3>2 DEF Met, ConsumedOnly
    <3>6. \A m \in Node : Delivered(m)' = Delivered(m)
      BY <3>1, <3>2, WaitAssumption DEF Met, ConsumedOnly, Delivered
    <3>7. DeliveredOnce'
      BY <3>1, <3>6 DEF Met, DeliveredOnce
    <3> QED
      BY <3>4, <3>5, <3>7 DEF Met
  <2>2. CASE Waiting(SignalName[s]) # {}
    <3>1. PICK n \in Waiting(SignalName[s]) : DeliverSignal(n, s)
      BY <1>3, <2>2 DEF SendSignal
    <3>2. n \in Node /\ signal[s].state # "CONSUMED" /\ wait[n].state # "DELIVERED"
      BY <1>3 DEF SendSignal, Waiting
    <3> QED
      BY <3>1, <3>2, DeliveryMeets
  <2> QED
    BY <2>1, <2>2
<1>4. CASE CancelWithWaits
  <2>1. /\ UNCHANGED signal
        /\ \A n \in Node : wait'[n] = IF wait[n].state = "WAITING"
                                      THEN [wait[n] EXCEPT !.state = "CANCELLED"] ELSE wait[n]
    BY <1>4 DEF CancelWithWaits
  <2>2. \A n \in Node : /\ wait'[n].state # "WAITING"
                        /\ wait'[n].state = "DELIVERED" <=> wait[n].state = "DELIVERED"
    BY <2>1 DEF WaitTypeOK
  <2>3. NobodyMissed'
    BY <2>2 DEF NobodyMissed, Waiting
  <2>4. ConsumedOnly' /\ DeliveredOnce'
    BY <2>1, <2>2 DEF Met, ConsumedOnly, DeliveredOnce, Delivered
  <2> QED
    BY <2>3, <2>4 DEF Met
<1>5. ASSUME NEW n \in Node, NEW late \in Late,
             \/ \E ticks \in 1..MaxWait : WaitUntil(n, ticks, late)
             \/ ReleaseDueTimer(n, late)
             \/ \E ttl \in 0..MaxWait : RequestApproval(n, ttl, late)
      PROVE  UNCHANGED <<signal, wait>>
  BY <1>5 DEF WaitUntil, ReleaseDueTimer, RequestApproval
<1>6. ASSUME NEW p \in Approval, NEW late \in Late,
             Approve(p, late) \/ Reject(p, late) \/ ReleaseExpiredApproval(p, late)
      PROVE  UNCHANGED <<signal, wait>>
  BY <1>6 DEF Approve, Reject, ReleaseExpiredApproval
<1> QED
  BY <1>1, <1>2, <1>3, <1>4, <1>5, <1>6 DEF WaitNext, WaitTick, waitVars, wvars

\* A signal and the node that waits for it never miss each other, whichever came
\* first, and a node is handed one signal only.
THEOREM SignalsAlwaysMeet == WaitSpec => []SignalsMeet
<1>1. WaitInit => Met
  <2> SUFFICES ASSUME WaitInit PROVE Met
    OBVIOUS
  <2>1. /\ \A s \in Signal : signal[s].state = "ABSENT" /\ signal[s].by = NoNode
        /\ \A n \in Node : wait[n].state = "ABSENT"
    BY DEF WaitInit, NoWait
  <2> QED
    BY <2>1, WaitAssumption
       DEF Met, NobodyMissed, ConsumedOnly, DeliveredOnce, Delivered, Pending, Waiting
<1>2. WaitInv => WaitTypeOK
  BY DEF WaitInv
<1> QED
  BY <1>1, <1>2, WaitStart, WaitStep, MetStep, MetCounts, PTL DEF WaitSpec
=============================================================================
