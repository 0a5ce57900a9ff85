--------------------------- MODULE HarnessEngine ---------------------------
(***************************************************************************)
(* The core of internal/harness/engine over internal/harness/store/sqlite: *)
(* one workflow run, its nodes, their attempts and leases.                 *)
(*                                                                         *)
(* Every engine operation is one serialized SQLite write transaction       *)
(* (tx.go, DB.Update): its reads, checks and writes are one action here,   *)
(* and an operation that returns an error rolls back, which is the action  *)
(* not being enabled.  Nothing the engine relies on lives outside the      *)
(* database, so a crash and restart of the orchestrator between two        *)
(* transactions changes nothing and needs no action of its own.            *)
(*                                                                         *)
(* Workers are outside the engine.  They may stop at any moment, be slow,  *)
(* and call with any attempt, worker id and epoch they ever learned, so    *)
(* every operation a worker calls takes them as free inputs.               *)
(*                                                                         *)
(* An operation reads the clock before its transaction waits its turn for  *)
(* the only writer connection, so the time it decides with may be up to    *)
(* MaxLag ticks old when it runs: `late` is that lag.                      *)
(*                                                                         *)
(* Bounds: MaxAttempts rows per node, MaxEpoch leases per attempt, leases  *)
(* of at most MaxTTL clock ticks, clock readings at most MaxLag ticks old. *)
(***************************************************************************)
EXTENDS HarnessState, Integers, FiniteSets

CONSTANTS
  Node,         \* node ids a definition may use
  Worker,       \* worker ids
  NoWorker,     \* the empty worker id of an attempt that was never leased
  Definitions,  \* compiled workflow definitions a client may start
  WorkerStates, \* states a worker may register with
  MaxAttempts, MaxEpoch, MaxTTL, MaxLag

Epoch == 1..MaxEpoch
Attempt == Node \X (1..MaxAttempts)
Late == 0..MaxLag
NodeOf(a) == a[1]

ASSUME BoundsAssumption ==
  /\ MaxAttempts \in Nat \ {0}
  /\ MaxEpoch \in Nat \ {0}
  /\ MaxTTL \in Nat \ {0}
  /\ MaxLag \in Nat

ASSUME WorkerAssumption ==
  /\ NoWorker \notin Worker
  /\ WorkerStates \subseteq {"ACTIVE", "DRAINING", "LOST"}

ASSUME DefinitionsAssumption ==
  /\ IsFiniteSet(Node)
  /\ \A d \in Definitions :
       /\ d.nodes \in SUBSET Node
       /\ d.nodes # {}
       /\ d.deps \in [Node -> SUBSET Node]
       /\ \A n \in Node : d.deps[n] \subseteq d.nodes
       /\ \A n \in Node \ d.nodes : d.deps[n] = {}
       \* compiler.ValidateCompiled: the graph has a topological order
       /\ \E rank \in [Node -> 0..Cardinality(Node)] :
            \A n \in Node : \A m \in d.deps[n] : rank[m] < rank[n]

VARIABLES
  wf,         \* workflow_runs.state
  node,       \* node_runs.state
  deps,       \* dependencies: deps[n] are the nodes n depends on
  remaining,  \* node_runs.remaining_dependencies
  ready,      \* ready_queue, the nodes it has a row for
  progress,   \* workflow_progress: total, terminal and failed counters
  attempt,    \* attempts: state, worker_id and lease_epoch of each row
  lease,      \* leases: one row per attempt and epoch
  worker,     \* workers.state
  outcome     \* history: the token each completion was reported with

vars == <<wf, node, deps, remaining, ready, progress, attempt, lease, worker, outcome>>

NoAttempt == [state |-> "ABSENT", worker |-> NoWorker, epoch |-> 0]
NoLease == [state |-> "ABSENT", worker |-> NoWorker, left |-> 0]
NoOutcome == [worker |-> NoWorker, epoch |-> -1]
Unfenced == [worker |-> NoWorker, epoch |-> 0]

Fence == [worker : Worker, epoch : Epoch]

AttemptRow == [state : AttemptState \cup {"ABSENT"},
               worker : Worker \cup {NoWorker}, epoch : 0..MaxEpoch]
LeaseRow == [state : {"ABSENT", "ACTIVE", "RELEASED", "EXPIRED"},
             worker : Worker \cup {NoWorker}, left : (-MaxLag)..MaxTTL]

TypeOK ==
  /\ wf \in WorkflowState \cup {"ABSENT"}
  /\ node \in [Node -> NodeState \cup {"ABSENT"}]
  /\ deps \in [Node -> SUBSET Node]
  /\ remaining \in [Node -> Int]
  /\ ready \in SUBSET Node
  /\ progress \in [total : Nat, terminal : Nat, failed : Nat]
  /\ attempt \in [Attempt -> AttemptRow]
  /\ lease \in [Attempt -> [Epoch -> LeaseRow]]
  /\ worker \in [Worker -> {"ABSENT", "ACTIVE", "DRAINING", "LOST"}]
  /\ outcome \in [Attempt -> Fence \cup {NoOutcome, Unfenced}]

----------------------------------------------------------------------------
(* Store operations: what each SQL statement writes.                       *)

Live(a) == attempt[a].state \in LiveAttempt

\* SELECT COUNT(*) ... state IN ('CLAIMED','RUNNING'), over the rows `rows`.
CountActiveAttempts(rows) == {a \in Attempt : rows[a].state \in LiveAttempt}

\* CompareAndSwapNodeRun keeps ready_queue in step with the READY state.
CompareAndSwapNodeRun(n, to) ==
  /\ TransitionNode(node[n], to)
  /\ node' = [node EXCEPT ![n] = to]
  /\ ready' = IF to = "READY" THEN ready \cup {n} ELSE ready \ {n}

\* attempt_number is COALESCE(MAX(attempt_number), 0) + 1 over n's rows.
IsNextAttempt(n, k) ==
  \A j \in 1..MaxAttempts : attempt[<<n, j>>].state # "ABSENT" <=> j < k

\* Mutant: the lag of the clock lengthens the lease.
CreateLeaseLagAdded(w, ttl, late) == [state |-> "ACTIVE", worker |-> w, left |-> ttl + late]

CreateLease(w, ttl, late) == [state |-> "ACTIVE", worker |-> w, left |-> ttl - late]

\* RELEASED and EXPIRED rows are never read again: their clock is dropped.
CloseLease(row, target) == [state |-> target, worker |-> row.worker, left |-> 0]

Dependents(n) == {c \in Node : node[c] # "ABSENT" /\ n \in deps[c]}

----------------------------------------------------------------------------
(* Ownership checks.                                                       *)

\* left is how far the deadline is now; the caller's clock is `late` behind.
Expired(row, late) == row.left + late <= 0

\* The ACTIVE row is the current lease; it must be this worker's, at this
\* epoch, and not past its deadline.
ValidateAuthority(row, w, late) ==
  /\ row.state = "ACTIVE"
  /\ row.worker = w
  /\ ~Expired(row, late)

\* Mutant: any caller may act while the attempt has a valid lease.
AuthorizeLeaseUnfenced(a, fence, late) ==
  \E e \in Epoch : lease[a][e].state = "ACTIVE" /\ ~Expired(lease[a][e], late)

AuthorizeLease(a, fence, late) ==
  /\ attempt[a].worker = fence.worker
  /\ attempt[a].epoch = fence.epoch
  /\ ValidateAuthority(lease[a][fence.epoch], fence.worker, late)

\* Mutant: the compatibility call completes leased attempts too.
AuthorizeCompletionOpen(a, fence, late) ==
  \/ fence = Unfenced
  \/ fence \in Fence /\ AuthorizeLease(a, fence, late)

\* The unfenced calls are refused once the attempt is owned through a lease.
AuthorizeCompletion(a, fence, late) ==
  IF fence = Unfenced
    THEN attempt[a].epoch = 0 /\ attempt[a].worker = NoWorker
    ELSE fence \in Fence /\ AuthorizeLease(a, fence, late)

\* Mutant: the lease of a completed attempt is left ACTIVE.
ReleaseLeaseNever(a, fence) == lease' = lease

ReleaseLease(a, fence) ==
  lease' = IF fence = Unfenced THEN lease
           ELSE [lease EXCEPT ![a][fence.epoch] = CloseLease(@, "RELEASED")]

----------------------------------------------------------------------------
(* Workflow helpers.                                                       *)

\* Mutant: completions of a draining run release nothing.
WorkflowAllowsDrainRunning(state) == state = "RUNNING"

WorkflowAllowsDrain(state) == state \in {"RUNNING", "PAUSING"}

\* Mutant: the last completion does not look.
FinalizePauseNever(state, rows) == state

\* The workflow state once the attempts are `rows`: PAUSING becomes PAUSED in
\* the transaction that ends the last live attempt.
FinalizePauseIfDrained(state, rows) ==
  IF state = "PAUSING" /\ CountActiveAttempts(rows) = {} THEN "PAUSED" ELSE state

\* Mutant: the last node can not be counted.
IncrementAllButLast(failed) ==
  /\ progress.terminal + 1 < progress.total
  /\ progress' = [progress EXCEPT !.terminal = @ + 1, !.failed = IF failed THEN @ + 1 ELSE @]

\* One more terminal node; the statement matches no row when all are counted.
IncrementWorkflowProgress(failed) ==
  /\ progress.terminal < progress.total
  /\ progress' = [total |-> progress.total,
                  terminal |-> progress.terminal + 1,
                  failed |-> progress.failed + (IF failed THEN 1 ELSE 0)]

----------------------------------------------------------------------------
Init ==
  /\ wf = "ABSENT"
  /\ node = [n \in Node |-> "ABSENT"]
  /\ deps = [n \in Node |-> {}]
  /\ remaining = [n \in Node |-> 0]
  /\ ready = {}
  /\ progress = [total |-> 0, terminal |-> 0, failed |-> 0]
  /\ attempt = [a \in Attempt |-> NoAttempt]
  /\ lease = [a \in Attempt |-> [e \in Epoch |-> NoLease]]
  /\ worker = [w \in Worker |-> "ABSENT"]
  /\ outcome = [a \in Attempt |-> NoOutcome]

\* The run is created, its roots are made READY and it is taken through
\* CREATED, VALIDATING and QUEUED to RUNNING, all in one transaction.
StartWorkflow(d) ==
  LET roots == {n \in d.nodes : d.deps[n] = {}} IN
  /\ wf = "ABSENT"
  /\ wf' = "RUNNING"
  /\ node' = [n \in Node |-> IF n \in roots THEN "READY"
                             ELSE IF n \in d.nodes THEN "PENDING_DEPENDENCIES"
                             ELSE "ABSENT"]
  /\ deps' = d.deps
  /\ remaining' = [n \in Node |-> Cardinality(d.deps[n])]
  /\ ready' = roots
  /\ progress' = [total |-> Cardinality(d.nodes), terminal |-> 0, failed |-> 0]
  /\ UNCHANGED <<attempt, lease, worker, outcome>>

\* Registry.Register upserts the row: any state, at any time.
RegisterWorker(w, state) ==
  /\ worker' = [worker EXCEPT ![w] = state]
  /\ UNCHANGED <<wf, node, deps, remaining, ready, progress, attempt, lease, outcome>>

\* Mutant: only the node's state is looked at.
StartAttemptUngated(n) ==
  /\ node[n] = "READY"
  /\ node' = [node EXCEPT ![n] = "RUNNING"]
  /\ ready' = ready \ {n}
  /\ \E k \in 1..MaxAttempts :
       /\ IsNextAttempt(n, k)
       /\ attempt' = [attempt EXCEPT ![<<n, k>>] =
                        [state |-> "RUNNING", worker |-> NoWorker, epoch |-> 0]]
  /\ UNCHANGED <<wf, deps, remaining, progress, lease, worker, outcome>>

\* The unleased compatibility path: READY -> QUEUED -> RUNNING at once.
StartAttempt(n) ==
  /\ wf = "RUNNING"
  /\ node[n] = "READY"
  /\ node' = [node EXCEPT ![n] = "RUNNING"]
  /\ ready' = ready \ {n}
  /\ \E k \in 1..MaxAttempts :
       /\ IsNextAttempt(n, k)
       /\ attempt' = [attempt EXCEPT ![<<n, k>>] =
                        [state |-> "RUNNING", worker |-> NoWorker, epoch |-> 0]]
  /\ UNCHANGED <<wf, deps, remaining, progress, lease, worker, outcome>>

\* READY -> QUEUED, a new CLAIMED attempt and its first lease.
ClaimNode(n, w, ttl, late) ==
  /\ worker[w] = "ACTIVE"
  /\ wf = "RUNNING"
  /\ node[n] = "READY"
  /\ CompareAndSwapNodeRun(n, "QUEUED")
  /\ \E k \in 1..MaxAttempts :
       /\ IsNextAttempt(n, k)
       /\ attempt' = [attempt EXCEPT ![<<n, k>>] =
                        [state |-> "CLAIMED", worker |-> w, epoch |-> 1]]
       /\ lease' = [lease EXCEPT ![<<n, k>>][1] = CreateLease(w, ttl, late)]
  /\ UNCHANGED <<wf, deps, remaining, progress, worker, outcome>>

\* No workflow check: a claim made before PAUSING still starts and drains.
StartClaimedAttempt(a, fence, late) ==
  /\ attempt[a].state = "CLAIMED"
  /\ AuthorizeLease(a, fence, late)
  /\ node[NodeOf(a)] = "QUEUED"
  /\ CompareAndSwapNodeRun(NodeOf(a), "RUNNING")
  /\ attempt' = [attempt EXCEPT ![a].state = "RUNNING"]
  /\ UNCHANGED <<wf, deps, remaining, progress, lease, worker, outcome>>

HeartbeatLease(a, fence, ttl, late) ==
  /\ Live(a)
  /\ AuthorizeLease(a, fence, late)
  /\ lease' = [lease EXCEPT ![a][fence.epoch].left = ttl - late]
  /\ UNCHANGED <<wf, node, deps, remaining, ready, progress, attempt, worker, outcome>>

\* The current lease ran out: it is closed and worker w gets the next epoch.
\* The attempt keeps its state and number, whatever the workflow's state.
ReclaimExpiredAttempt(a, w, ttl, late) ==
  /\ worker[w] = "ACTIVE"
  /\ Live(a)
  /\ \E e \in Epoch :
       /\ lease[a][e].state = "ACTIVE"
       /\ Expired(lease[a][e], late)
       /\ e < MaxEpoch
       /\ lease' = [lease EXCEPT ![a] = [f \in Epoch |->
                      IF f = e THEN CloseLease(lease[a][e], "EXPIRED")
                      ELSE IF f = e + 1 THEN CreateLease(w, ttl, late)
                      ELSE lease[a][f]]]
       /\ attempt' = [attempt EXCEPT ![a] =
                        [state |-> attempt[a].state, worker |-> w, epoch |-> e + 1]]
  /\ UNCHANGED <<wf, node, deps, remaining, ready, progress, worker, outcome>>

\* Success: the node is counted, its dependents released while the workflow
\* drains, and the workflow finished or its pause completed.  A dependent that
\* is not waiting for this node is a conflict and refuses the whole completion.
CompleteAttemptSuccess(a, fence, late) ==
  LET n == NodeOf(a)
      drains == WorkflowAllowsDrain(wf)
      children == IF drains THEN Dependents(n) ELSE {}
      released == {c \in children : remaining[c] = 1}
  IN
  /\ AuthorizeCompletion(a, fence, late)
  /\ attempt[a].state = "RUNNING"
  /\ node[n] = "RUNNING"
  /\ attempt' = [attempt EXCEPT ![a].state = "SUCCEEDED"]
  /\ ReleaseLease(a, fence)
  /\ IncrementWorkflowProgress(FALSE)
  /\ \A c \in children : node[c] = "PENDING_DEPENDENCIES" /\ remaining[c] > 0
  /\ remaining' = [c \in Node |-> IF c \in children THEN remaining[c] - 1
                                  ELSE remaining[c]]
  /\ node' = [c \in Node |-> IF c = n THEN "SUCCEEDED"
                             ELSE IF c \in released THEN "READY" ELSE node[c]]
  /\ ready' = ready \cup released
  /\ wf' = IF drains /\ progress'.terminal = progress'.total /\ progress'.failed = 0
             THEN "SUCCEEDED"
             ELSE FinalizePauseIfDrained(wf, attempt')
  /\ outcome' = [outcome EXCEPT ![a] = fence]
  /\ UNCHANGED <<deps, worker>>

\* Terminal failure: the first one fails a draining workflow, and leaves every
\* other node, attempt and lease as it is.
CompleteAttemptFailure(a, fence, late) ==
  LET n == NodeOf(a) IN
  /\ AuthorizeCompletion(a, fence, late)
  /\ attempt[a].state = "RUNNING"
  /\ node[n] = "RUNNING"
  /\ attempt' = [attempt EXCEPT ![a].state = "FAILED"]
  /\ CompareAndSwapNodeRun(n, "FAILED")
  /\ ReleaseLease(a, fence)
  /\ IncrementWorkflowProgress(TRUE)
  /\ wf' = IF WorkflowAllowsDrain(wf) THEN "FAILED" ELSE wf
  /\ outcome' = [outcome EXCEPT ![a] = fence]
  /\ UNCHANGED <<deps, remaining, worker>>

----------------------------------------------------------------------------
(* Control of the run by its user.                                         *)

PauseWorkflow ==
  /\ wf \in {"RUNNING", "PAUSING"}
  /\ wf' = FinalizePauseIfDrained("PAUSING", attempt)
  /\ UNCHANGED <<node, deps, remaining, ready, progress, attempt, lease, worker, outcome>>

\* PAUSING is not resumable: the drain set must empty first.
ResumeWorkflow ==
  /\ wf = "PAUSED"
  /\ wf' = "RUNNING"
  /\ UNCHANGED <<node, deps, remaining, ready, progress, attempt, lease, worker, outcome>>

\* CancelWorkflowRuntime: leases of live attempts, the attempts, the ready
\* rows and every node that is not terminal, in this order; then the counter.
CancelWorkflowRuntime ==
  /\ lease' = [a \in Attempt |-> [e \in Epoch |->
                 IF Live(a) /\ lease[a][e].state = "ACTIVE"
                   THEN CloseLease(lease[a][e], "RELEASED") ELSE lease[a][e]]]
  /\ attempt' = [a \in Attempt |->
                   IF Live(a) THEN [attempt[a] EXCEPT !.state = "CANCELLED"]
                   ELSE attempt[a]]
  /\ ready' = {}
  /\ node' = [n \in Node |-> IF node[n] \in TerminalNode \cup {"ABSENT"} THEN node[n]
                             ELSE "CANCELLED"]
  /\ progress' = [progress EXCEPT !.terminal = progress.total]

\* Mutant: a decided run is cancelled as well.
CancelAnyWorkflow ==
  /\ wf # "ABSENT"
  /\ wf' = "CANCELLED"
  /\ CancelWorkflowRuntime
  /\ UNCHANGED <<deps, remaining, worker, outcome>>

\* RUNNING, PAUSING or PAUSED -> CANCELLING -> CANCELLED.  The other states
\* CancelWorkflow accepts never outlive the transaction that sets them.
CancelWorkflow ==
  /\ wf \in {"RUNNING", "PAUSING", "PAUSED"}
  /\ wf' = "CANCELLED"
  /\ CancelWorkflowRuntime
  /\ UNCHANGED <<deps, remaining, worker, outcome>>

----------------------------------------------------------------------------
\* One clock tick: every ACTIVE lease is a tick closer to its deadline, or
\* past it.  The last modelled epoch's lease is taken to be kept alive.
Floor(e) == IF e = MaxEpoch THEN 1 ELSE -MaxLag

Ticking(a, e) == lease[a][e].state = "ACTIVE" /\ lease[a][e].left > Floor(e)

TickLeases ==
  lease' = [a \in Attempt |-> [e \in Epoch |->
              IF Ticking(a, e) THEN [lease[a][e] EXCEPT !.left = @ - 1]
              ELSE lease[a][e]]]

Tick ==
  /\ \E a \in Attempt, e \in Epoch : Ticking(a, e)
  /\ TickLeases
  /\ UNCHANGED <<wf, node, deps, remaining, ready, progress, attempt, worker, outcome>>

\* What every feature of the engine leaves as it is.
Operations ==
  \/ \E d \in Definitions : StartWorkflow(d)
  \/ \E w \in Worker, state \in WorkerStates : RegisterWorker(w, state)
  \/ \E n \in Node : StartAttempt(n)
  \/ \E n \in Node, w \in Worker, ttl \in 1..MaxTTL, late \in Late :
       ClaimNode(n, w, ttl, late)
  \/ \E a \in Attempt, fence \in Fence, late \in Late :
       \/ StartClaimedAttempt(a, fence, late)
       \/ \E ttl \in 1..MaxTTL : HeartbeatLease(a, fence, ttl, late)
  \/ \E a \in Attempt, fence \in Fence \cup {Unfenced}, late \in Late :
       \/ CompleteAttemptSuccess(a, fence, late)
       \/ CompleteAttemptFailure(a, fence, late)
  \/ PauseWorkflow
  \/ ResumeWorkflow

Reclaim == \E a \in Attempt, w \in Worker, ttl \in 1..MaxTTL, late \in Late :
             ReclaimExpiredAttempt(a, w, ttl, late)

Next == Operations \/ Reclaim \/ CancelWorkflow \/ Tick

Spec == Init /\ [][Next]_vars

----------------------------------------------------------------------------
(* Safety.                                                                 *)

LiveAttemptsOf(n) == {a \in Attempt : NodeOf(a) = n /\ Live(a)}

\* A live attempt that was claimed is owned through exactly one ACTIVE lease:
\* the one of the attempt's own epoch and worker.  The leases before it are
\* EXPIRED, none exists after it, and no other attempt has an ACTIVE lease; an
\* attempt that was never created has no owner and no lease.
\* (ClaimNode, ReclaimExpiredAttempt, CloseLease, CancelWorkflowRuntime.)
LeaseOwnership ==
  \A a \in Attempt, e \in Epoch :
    /\ lease[a][e].state = "ACTIVE" <=> Live(a) /\ attempt[a].epoch = e
    /\ lease[a][e].state = "ACTIVE" => lease[a][e].worker = attempt[a].worker
    /\ e < attempt[a].epoch <=> lease[a][e].state = "EXPIRED"
    /\ e > attempt[a].epoch <=> lease[a][e].state = "ABSENT"
    /\ attempt[a].state = "ABSENT" => attempt[a] = NoAttempt

\* The result recorded for an attempt came from the last worker and epoch the
\* attempt was ever leased to, and that lease was closed by the completion: a
\* worker that lost its lease never decides an attempt, late as it may call.
FencedOutcome ==
  \A a \in Attempt : attempt[a].state \in {"SUCCEEDED", "FAILED"} =>
    /\ outcome[a] = [worker |-> attempt[a].worker, epoch |-> attempt[a].epoch]
    /\ attempt[a].epoch > 0 => lease[a][attempt[a].epoch].state = "RELEASED"

\* An undecided run always has a node a client can still act on: READY and in
\* the queue, or owned by a live attempt.
NothingStranded ==
  wf \in {"RUNNING", "PAUSING", "PAUSED"} =>
    \E n \in Node : n \in ready \/ LiveAttemptsOf(n) # {}

----------------------------------------------------------------------------
(* What a step may never do.                                               *)

KeepsDecisions ==
  /\ wf \in TerminalWorkflow => wf' = wf
  /\ \A n \in Node : node[n] \in TerminalNode => node'[n] = node[n]
  /\ \A a \in Attempt : attempt[a].state \notin LiveAttempt \cup {"ABSENT"} =>
       attempt'[a] = attempt[a] /\ outcome'[a] = outcome[a]

\* Decided rows stay as they are: a terminal run, node or attempt (with the
\* outcome recorded for it) is never changed again by any call.
DecidedStaysDecided == [][KeepsDecisions]_vars

KeepsGate == wf # "RUNNING" => \A a \in Attempt : Live(a)' => Live(a)

\* The scheduling gate: no attempt becomes live unless the run is RUNNING, so
\* the set a pause waits for only shrinks.
GateClosed == [][KeepsGate]_vars

----------------------------------------------------------------------------
(* Progress, for clients that are fair.                                    *)

\* A requested pause completes, or the run is decided first.
PauseDrains == wf = "PAUSING" ~> wf \in TerminalWorkflow \cup {"PAUSED"}

\* A run does not stay RUNNING for ever: it is decided, or its user stops it.
RunAdvances == wf = "RUNNING" ~> wf # "RUNNING"

----------------------------------------------------------------------------
(* The abstract specifications the engine implements.                      *)

Verdict(state) ==
  CASE state = "ABSENT" -> "UNUSED"
    [] state \in LiveAttempt -> "OPEN"
    [] state \in {"SUCCEEDED", "FAILED"} -> "CLOSED"
    [] OTHER -> "WITHDRAWN"

Fencing == INSTANCE AttemptFencing WITH
  holder <- [a \in Attempt |-> attempt[a].worker],
  token <- [a \in Attempt |-> attempt[a].epoch],
  verdict <- [a \in Attempt |-> Verdict(attempt[a].state)],
  closedBy <- outcome

Phase ==
  CASE wf = "RUNNING" -> "OPEN"
    [] wf = "PAUSING" -> "DRAINING"
    [] wf = "PAUSED" -> "HELD"
    [] OTHER -> wf

Run == INSTANCE RunContract WITH
  phase <- Phase,
  nodes <- {n \in Node : node[n] # "ABSENT"},
  needs <- deps,
  running <- {n \in Node : node[n] \in {"QUEUED", "RUNNING"}},
  done <- {n \in Node : node[n] = "SUCCEEDED"},
  failed <- {n \in Node : node[n] \in {"FAILED", "TIMED_OUT"}}

\* Leases implement fencing tokens: only the latest grant closes an attempt.
ImplementsFencing == Fencing!Spec

\* The engine implements the contract of a run with dependencies and pauses.
ImplementsRun == Run!Spec
=============================================================================
