# agctl: a verification project in TLA+

`agctl` bootstraps and drives coding agents. Its own logic, where concurrency, loss and
delay can break it, sits in four places: the **harness**, a durable workflow engine over
SQLite with services around it (`src/internal/harness`); the **task supervisor** with its
plans and replanning, processes that share a directory of JSON files (`src/internal/tasks`,
`planner`, `replan`); the **remote daemon**, which drives IDE instances from Telegram
(`src/internal/remote`, `telegram`); and the **completion gate** of an autonomous turn
(`src/internal/loop`, `hooks`, `engineering`). This project models them, checks them with TLC
on small instances, and proves the safety of the harness with TLAPS for every size.

All paths below are relative to `src/`. `PROJECT.json` lists every component, run, mutant,
mapped definition, finding, hazard and theorem.

## 1. Inventory

### Parts that are modelled

| part | state it keeps | operations | what is hard |
|---|---|---|---|
| engine core (`harness/engine/{workflow,attempt,lease_runtime,pause,cancel}.go`) | workflow run and its counters, node runs with a count of open dependencies, ready queue, attempts, leases with epochs, workers | StartWorkflow, StartAttempt, ClaimNode, StartClaimedAttempt, HeartbeatLease, ReclaimExpiredAttempt, completion, Pause, Resume, Cancel | workers call late, twice or with an old epoch; a clock reading is older than the transaction it is used in; pause and cancel race completions |
| graph mutation (`engine/mutation.go`, `replan/harness_replan.go`) | graph revision, nodes and dependencies of a run at work | build a mutation from a proposal, apply it | a mutation is worked out from a graph read earlier; what it adds, supersedes and rewires moves on meanwhile |
| retries (`engine/retry_runtime.go`, `harness/retry/{policy,backoff}.go`, `retry_store.go`) | schedules, their history, budgets with windows | report of a failure, retry or refusal, release loop | a refusal takes two transactions; the release loop works from a stale list; two budgets are charged in one step |
| external effects (`engine/effect_runtime.go`, `executor/reconciler.go`) | effect intents and the attempts bound to them | prepare, mark dispatched, confirm, fail, in doubt, reconcile, resolve as success, retry or failure | a lost worker may or may not have sent what must not be sent twice; answers come late |
| waits (`engine/{timer,signal,approval}_runtime.go`) | timers, signals, signal waits, approvals | wait until, wait for and send a signal, request, approve, reject, two release loops | a signal before or after its waiter; a human against a deadline; a wait whose run is paused, failed or cancelled |
| scheduler (`harness/scheduler`, `resource`) | ready rows with verdicts, lanes with weights and debts | Next, enqueue, priorities, restart under another capacity | the decision is not a claim; a lane's candidates are looked at up to a limit; verdicts outlive the capacity they were given under |
| circuit breaker (`harness/retry/{coordinator,breaker}.go`) | a stored breaker with a revision, tickets in memory | Acquire, Record | processes with different policies share the row; a prober may die or be outdated |
| provider selection and routing (`harness/provider/{selector,session,capacity,fault,router,reservation,handoff}`) | accounts, capacity windows, claims, assignments, sessions, circuits | select, route, execute, settle, reserve, release, expire, hand off | selection and assignment are two transactions; three services write one ledger |
| process executor (`executor/process`) | registry of executions, what the goroutines of one share | Execute, copy, consume, escalate, Cancel | a full queue, a sink that hangs, a child that ignores signals, a Cancel at any moment |
| artifacts and node cache (`harness/artifact`) | rows, content files, cache entries | Put, delete, GC, cache store, lookup, evict | rows and files change one after the other; the collector looks at the same files |
| workspaces (`harness/workspace`, `remote/workspace`) | lease rows, worktrees, branches | allocate, release, Reconcile, GC | rows and directories change one after the other; sweeps work from old lists |
| task supervisor (`internal/tasks`) | one JSON file and one lock file per task, processes | add, run, run-pending, cancel, retry, remove | only lock files order the processes; every writer replaces a file from a record it read earlier; crashes leave locks behind |
| planner and replanning (`internal/{planner,replan}`) | a plan file, proposals in an inbox, tasks of the plan | enqueue, recover a failure, take over a proposal, finalise, `replan apply` | several files are written one after the other, by observers of several processes |
| completion (`internal/{loop,hooks,engineering}`, `harness/coordinator`) | the state file of a conversation, the plan and the repository | hooks before a turn and before Stop, `state complete`, `state block`, commit coordinator, publisher | read, verify for seconds, write back whole; git answers one question at a time |
| remote sessions (`remote/session`, `store`, `daemon`) | instances in Cockpit, stored instances and sessions, Bridges in memory | start-up, recovery, provisioning with rollback | the user starts and stops the same instances; the daemon dies anywhere |
| remote commands and mirror (`remote/{command,mirror}`, `telegram`) | commands, events, outbox, views, bindings | poll, send, ingest, queue, deliver, retry | answers are lost, sends half done, topics rebound |
| account switch and reconciler (`remote/{account,reconcile,runtime}`) | the instance's account and start, conversations, stored rows | Plan, Switch, Reconcile passes | each writes back rows it read some steps earlier |

How they interact: the engine's operations are called by the CLI and the API server,
by workers and by release loops; each is one SQLite write transaction over one writer
connection (`store/sqlite/tx.go`), so they interact through the database only. Effects,
retries, waits and mutations share nodes, attempts and the run with the core and add tables of
their own. The supervisor is called by `agctl tasks ...`, by the web console in a goroutine,
and passes each ended task to replanning's observer; these interact through files only. The
remote daemon runs one loop and one poller over one database, next to the IDEs and Telegram.

### Parts that are not modelled

The compiler, budgets and policy of the harness, executors' adapters, task envelopes,
events and telemetry, the API server and the import, the provider adapters with the demand
estimator, the web console's pages, installer, doctor, backup, catalogues and probes
of external tools, permissions, risk and skills: pure I/O, text, parsing, or decisions
about one input at a time. `PROJECT.json` says so per component. Two switches of the
provider code that call no other are left out of `ProviderRouting`: `CheckPlanDrift` and the answer
of a replayed route.

Several modelled parts are called by tests only and by no program path yet: the scheduler's `Next`,
the circuit breaker's coordinator, `ApplyHarnessMutation`, router, reservation and handoff, the
commit coordinator and publisher, the composite reconciler, the remote reconciler, the account switch
and the workspace allocator. They are modelled as their interfaces permit them to be used.

## 2. Modules

| module | what it is |
|---|---|
| `HarnessState` | states and transition tables (`harness/model`, `harness/state`) |
| `HarnessEngine` | the core: `wf`, `deps`, `node`, `remaining`, `ready`, `progress`, `attempt`, `lease`, `worker`, history `outcome`; one action per operation |
| `AttemptFencing` | abstract: an attempt is granted with rising tokens and closed once, by its latest grant |
| `RunContract` | abstract: dependencies, the gate, pause and hold, success, first failure, cancellation of one run |
| `HarnessMutation` | extends the core: offers of mutations and their application |
| `HarnessRetry` | extends the core with schedules, history, budgets, refused reports and release lists |
| `HarnessEffects` | extends retries with effect intents, their bindings and what callers were told |
| `HarnessWaits` | extends the core with timers, signals and approvals |
| `HarnessScheduler`, `CircuitBreaker`, `ProcessExecutor`, `ArtifactStore`, `Workspaces` | services, each on its own |
| `ProviderSelection`, `ProviderRouting` | the pure choice of a provider, and the ledger that extends it |
| `TaskSupervisor`, `Planner`, `Replan` | task files, locks and processes; plans as graphs; the observer on top of both |
| `Completion` | a conversation's state file, the gate, the repository, coordinator and publisher |
| `RemoteSessions`, `RemoteMirror` | start-up, recovery and provisioning; the running daemon that extends it |
| `AccountSwitch` | switch and reconciler of one instance among a user's actions |
| `MC...` | values for TLC; `MCServices` composes seven components that share no state, of which the variable `part` lets one move; `MCSupervision` does so for `Replan` and `ProviderRouting` |
| `...Proofs` | theorems about the module they are named after; `HarnessEffectsProofs` (retries and effects), `ServicesProofs`, `ControlPlaneProofs` and `RemoteProofs` hold those of several |

**Correspondence with the engine.** An operation is an action because it is one
transaction: its error returns are guards, an error rolls everything back, and its
conditional updates (`UPDATE ... WHERE state = ?`) are conjuncts. A crash of the
orchestrator between two transactions loses nothing but the memory of calls that span
several (a refused retry, a release list, an asked provider, an offered mutation), and those
are variables that a step may drop. Calls by workers take attempt, worker and epoch as free
inputs: a late, repeated or foreign call is just another value. Leases and deadlines are kept
as the ticks left until they pass, so that time needs no absolute clock; a call reads the
clock up to `MaxLag` ticks before its transaction runs, because it waits for the writer
after reading it. The event journal, payloads, names and digests are left out: no operation
reads them back.

**Correspondence with supervisor and replanning.** Nothing is a transaction here, so each file
operation is a step: a listing, the creation of a lock, its removal, each save of a task or a
plan. A runner's goroutine is `job[r][t]`, an observer is `obs[r]`, each with the record in
memory it will write back. The start of a process and the save of its pid are one step. A
listing is one step although the code reads file by file.

**Correspondence with the providers.** Each `Store.Update` is one step; what a caller
remembers between two of them is its program counter and the selection it made.

**Correspondence with the remote daemon and the account switch.** Each database write and each call of Cockpit, an
IDE or Telegram is a step of its own; each external call may fail, with or without its effect;
the daemon may stop between any two steps and loses what it held in memory.

**Correspondence of the services.** The goroutines of the executor are actions of their own; a
git command of the gate is a step, an editor's or pusher's action can come between any two; the
collector's look at a file and its removal are two steps; the breaker and the scheduler are transactions.

## 3. Runs

Bounds are small because the properties are about pairs: a worker and its successor, a
report and a pause, a list and what changed since, two budgets, two supervisors. Each
bound is a constant named in the module.

| run | asks | instance |
|---|---|---|
| `engine` | Who decides an attempt, do nodes wait for what they depend on, and does a changing graph break either? | join and triangle of 3 nodes, a single node and a pair that grow to 3; 2 workers (symmetric), 2 epochs, readings one tick late, proposals of one action, a row and a cycle, one repair, 3 revisions, 2 offers |
| `retry` | Are retries paid, bounded and on time, and do they and pauses end? | a chain with 3 and 2 attempts, two budgets whose shapes differ, 2 release loops with lists a tick old, window 2, a policy that always permits: refusals come from exhausted attempts and budgets, budgets of another shape and runs that do not drain |
| `effects` | Is what must not be repeated ever sent by two attempts, and can doubt be resolved? | a chain with one such effect at its first node, 2 attempts, 2 epochs, three kinds of reconcilers |
| `waits` | Does every wait have one reason and one end? | 2 nodes, timers, 2 messages of one signal, an approval per node with or without deadline |
| `supervision` | Tasks: do locks, dependencies, batches and recoveries hold together? Routing: does an attempt have one provider, and is doubt never handed over? | tasks: six situations of up to 9 task names, 2 runners (symmetric), at most one disturbance; routing: 2 accounts, 2 models, 3 windows, 1 session, 2 attempts, 2 callers |
| `remote` | Is one session made per `--open`, each text sent once, the mirror finally right? | six situations: two openings, restarts, sending, answers, rebinding, pairing |
| `services` | One question per component, see below | one small instance of each of seven components |
| `effects_sender`, `tasks_twice`, `replan_stranded`, `remote_finals`, `scheduler_hidden` | What does the documentation say that the code does not do? | as above; each stops at a counterexample |

What the passing runs show:

* *engine*: at most one lease of an attempt is active and it is the attempt's own
  (`LeaseOwnership`), the recorded outcome came from the last owner (`FencedOutcome`), no node
  starts before what it waits for (`DependencyGate`), a completion is refused only for a graph
  mutation's sake (`CompletionAccepted`), an undecided run has something to act on unless a
  mutation stranded it (`OnlyMissedStrand`), decisions stand and the gate holds
  (`DecidedStaysDecided`, `GateClosed`), and the engine implements `AttemptFencing`.
* *retry*: `BudgetsHold`, `NeverEarly`; with fairness `PauseDrains`, `RunAdvances`.
* *effects*: the live attempt that may have sent an unrepeatable effect still belongs to
  its sender (`SoleOwner`), only one attempt is ever told to send it (`NoBlindRetry`), doubt
  is explained by an effect an operator can resolve (`DoubtExplained`), a late answer
  overturns nothing (`EvidenceStands`).
* *waits*: `WaitExplained`, `SignalsMeet`, `WaitsEnd`, and the run keeps implementing `RunContract`
  (`ImplementsRun`).
* *supervision*: a task is executed by one process at a time unless its lock was taken from a
  runner at work (`OneProcess`), a supervisor does not end on queued work (`NothingLeftQueued`),
  a task or whatever took its place precedes its dependents (`DependentsWait`), a plan is completed
  only when its tasks are (`CompletedIsSettled`). Of routing: `OneProvider`, `NoDoubtHandedOver`.
* *remote*: `OneSessionPerOpen`, `SentOnce`, and with fairness `MirrorCatchesUp`.
* *services*: breaker `ProbeCanSettle`; scheduler `FairWaitEnds` (a feasible node
  without a verdict, in a lane that is looked at, is not passed over for ever; `scheduler_hidden` shows that
  one with an old verdict may be, finding 5); executor `TimeLimitHolds` (a time limit ends an execution whatever child and sink do); artifacts
  `ContentKept` (with two exceptions, section 6); completion `CompletionEarned` and `TurnEndsOnItsOwn`; workspaces `OneWriter`; account switch
  `CheckpointCarried` and `ReportsWhatRuns`.

Every property of a passing run has a mutant: a definition of the model changed the way a
bug would change the code, under which TLC finds the property violated.

Deadlock is not checked: runs and tasks end, and the bounds stop the rest.

**Why the bounds are enough.** Two epochs are an owner and its successor, and each one's late
calls; a third epoch adds only another stranger (the theorems hold for any number). One tick
of lag separates "read before" from "read after" a deadline. Three nodes contain every shape in
which a node has two parents or two children, and a pair that grows by one is the least
in which an added node depends on an old one. Two attempts are the least in which
an effect outlives its attempt. In `supervision`, the second execution of a task, a crash, and
each operator's command are in reach of two processes and one disturbance, and two
disturbances were explored while the module was written. Two routes, two claims and two callers
are the least that collide. Limits of lists are explored where a definition has one (`CandidateLimit`,
`LaneLimit`, `ListLimit`, batch sizes of the daemon) and otherwise left out (section 6).

**Fairness.** `retry` assumes that workers claim, start and report, that reclaims and
releases are tried again and again, and that time passes. Weak fairness is enough wherever
the call stays possible; releasing one due retry needs strong fairness, since it is possible only
while a release loop has the row in its list, and each list is followed by another.
The code asks its caller for this: `ReleaseDueRetries`, `ReleaseDueTimers` and
`ReleaseExpiredApprovals` are calls of a loop outside the engine. `waits` assumes the two
timer loops and time, nothing of workers or humans. `remote` assumes that the daemon's own
goroutines go on: start-up, the supervisor's loop, the poller, and that a retry becomes due. `services` assumes
a dispatcher that keeps asking, and of each execution that its goroutines run; the child and the sink are
assumed nothing, but that a sink returns when its context is cancelled. Nothing is assumed of pause, resume, cancel,
operators, users or providers. `engine`, `effects` and `supervision` check safety and state no fairness.

## 4. Proofs

TLC looks at one small instance; the theorems below hold for every set of nodes, workers,
effects, signals, nodes of a graph, and every value of the bounds. tlapm checks them to the last leaf.

| module | theorems | of |
|---|---|---|
| `HarnessEngineProofs` | `TypeCorrect`, `OwnershipCorrect` (`LeaseOwnership`), `OutcomesAreFenced` (`FencedOutcome`), `FencingRefinement` (`ImplementsFencing`), `GateHolds` (`GateClosed`), `DecisionsStand` (`DecidedStaysDecided`), `AttemptsTakeTurns`, `ContractRefinement` (`ImplementsRun`) | `Spec` |
| `HarnessMutationProofs` | `OwnershipSurvivesMutation`, `OutcomesSurviveMutation`, `GateSurvivesMutation`, `DecisionsSurviveMutation`, `FencingSurvivesMutation` (the five above for a graph that changes), `MutationTyped` (`TypeOK`), `GateSurvivesGrowth` (`DependencyGate`), `CompletionsAreTaken` (`CompletionAccepted`), `GrowthNeverStrands` (`OnlyMissedStrand`) | `MutationSpec` |
| `HarnessEffectsProofs` | `BudgetsAreKept` (`BudgetsHold`), `RetriesArePaid` (`RetriesPaid`), `NoEarlyRelease` (`NeverEarly`) | `RetrySpec` |
| | `NoEffectIsRepeated` (`NoBlindRetry`), `DoubtIsExplained` (`DoubtExplained`), `SenderKeepsAttempt` (`SoleOwner`), `LateVerdicts` (`EvidenceStands`) | `EffectSpec` |
| `HarnessWaitsProofs` | `WaitsKeepContract` (`ImplementsRun`), `WaitsTyped`, `WaitsExplained` (`WaitExplained`), `SignalsAlwaysMeet` (`SignalsMeet`) | `WaitSpec` |
| `ServicesProofs` | `ProbesSettle` (`ProbeCanSettle`) | `BreakerSpec` |
| | `ContentSurvives` (`ContentKept`) | `ArtifactSpec` |
| | `SingleWriter` (`OneWriter`) | `WorkspacesSpec` |
| `ControlPlaneProofs` | `CompletionIsEarned` (`CompletionEarned`), `EndsOnItsOwn` (`TurnEndsOnItsOwn`) | `CompletionSpec` |
| | `CheckpointIsCarried` (`CheckpointCarried`), `PassTellsTheTruth` (`ReportsWhatRuns`) | `SwitchSpec` |
| | `OneProcessAtATime` (`OneProcess`) | `Spec` of `Replan` |
| `ProviderRoutingProofs` | `OneProviderAtATime` (`OneProvider`), `HandedOverWithoutDoubt` (`NoDoubtHandedOver`) | `RoutingSpec` |
| `RemoteProofs` | `OpenedOnce` (`OneSessionPerOpen`), `TextsAreSentOnce` (`SentOnce`) | `Spec` of `RemoteMirror` |

A specification with fairness implies the one without, so the theorems cover `RetryFairSpec` and
`WaitFairSpec` of the runs. Those of the services, of `Replan` and of routing are about each component's own specification;
the runs `services` and `supervision` compose them and let one move at a time. `RetriesPaid` is proved and not
run: the charge and the schedule are one transaction.

**Assumptions.** Bounds are natural numbers (`BoundsAssumption`), "no worker" is not a worker
(`WorkerAssumption`), the nodes are finitely many and a definition's dependencies are acyclic and
stay among its nodes, as the compiler checks (`DefinitionsAssumption`); policies, mutations, effects, waits,
breaker, artifacts and workspaces each name theirs next to their CONSTANTS; `CompletionAssumption` says that the ancestors
of a commit's ancestors are its ancestors, `SwitchAssumption` that there is an account;
`SetupsAssumption` that the sessions stored at first are of different repositories and accounts (only the daemon's own start stores
any, `remote_daemon.go:239`), `NoneAssumption` that "none" is no state of the daemon;
`RoutingAssumption` that a caller works for an attempt and candidates are ranked by numbers, `TaskAssumption` that "no one" is
no process of the supervisor. TLC evaluates every one. One theorem has a
hypothesis of its own: `SenderKeepsAttempt` assumes `FewEffects`, that no node has more effects
than `ListUnresolvedEffectsForAttempt` returns (LIMIT 100, `lease_runtime.go:204`): beyond the limit a
reclaim does give away an attempt whose effect may be on its way.

**Arguments.** No safety invariant is inductive alone; these are the strengthenings.

* *Leases.* `CoreOK` (types) with `LeaseOwnership`, taken apart into `HeldLeases` (what is active is the
  live attempt's, at its epoch) and `Spent` (older epochs are expired). `CompletionFacts` derives from it that
  whoever passes the authority check is the current owner; `FencedOutcome` follows. `AttemptMoves` sorts all
  operations into six moves of an attempt, from which the gate, decisions and the fencing refinement follow.
* *Turns.* `LiveFits` (a live attempt's node is QUEUED or RUNNING) and `InTurn` (all attempts before
  an existing one are over): neither `ClaimNode` nor `StartAttempt` looks at other attempts, so only
  both together keep a second one from being opened.
* *The contract of a run.* `ContractInv` adds `BusyLive` (the converse of `LiveFits`: without it a
  pause might hold a run at work) and `GraphInv`: what a node depends on succeeded before it left
  PENDING_DEPENDENCIES (`NeedsMet`); the counter of a pending node is the number of dependencies still open
  (`NeedsCounted`, since the code releases on the counter and never looks at the dependencies again); the run's
  counters are the cardinalities of its nodes (`NodesCounted`, since the code ends the run when they are equal).
  The two counters are true only while the run is open, and the proof has to know when they stop being kept.
  `SuccessKeeps` is the heart: one completion moves all three in step.
* *A graph that changes.* `GateInv` replaces `NeedsCounted`, which a mutation breaks: the counter of a pending node is
  the number of dependencies still open *and* of those that had succeeded before the node was added (`Awaits`), since
  `mutation.go:93` counts them and nothing ever counts them down. It holds of every node that was not superseded or
  rewired; `Standing` keeps dependencies among nodes that exist, and the history `missed` among successes.
  Each step of the engine starts the run, is one success, or is `Calm`: it releases nothing.
  `GrowthInv` adds why something can always be done: the counters are the numbers of nodes (`Counted`, over what
  mutations add to the total), a busy node has its live attempt (`BusyLive`), and the graph is well founded (`Grounded`:
  every set of nodes has one that depends on none of the set). The compiler's topological order gives that for a
  definition; a mutation may add a node only behind what there is already. `LeastNumber`, the least of a set
  of numbers, is drawn from the well-foundedness of strict inclusion among finite sets, because the
  induction theorems take an operator.
* *Retries.* `RetryInv`: `CoreOK` and `Unborn`, `BudgetInv` (the two budgets' rows and what they granted), `ListsInv` (rows,
  lists and refused reports have their types: a list's age is what `NeverEarly` has to survive), `HistoryInv` (only
  failed attempts were given a retry). Every step that is none of reporting, refusing and releasing is one
  of the engine's (`EngineStep`), so only three operations are looked at.
* *Effects.* `EffectInv`: an effect is bound to attempts of its own node, the newest it was prepared for among them
  (`BoundInv`); the order of preparation lists each effect once (`ListedInv`); whoever was cleared to send an
  unrepeatable effect is an earlier attempt's caller than its sender or of the sender's attempt (`ClearedInv`): without this,
  `NoBlindRetry` would not survive a reconciliation. Every operation is one of three moves, preparing, marking and
  settling, which keeps twenty actions out of each proof. That the newest attempt is the one in
  doubt (`LatestInDoubt`) gives `DoubtExplained`; `BoundAreListed` counts a node's effects against the limit
  of the list for `SoleOwner`. `LeaseOwnership` is *not* an invariant here: a reclaim in doubt leaves the lease EXPIRED at
  the attempt's own epoch, so these proofs use no fact about leases.
* *Waits.* Each action opens or closes one reason in the step that parks or wakes the node (`Explained`,
  over `ContractInv` and types); a step of the engine parks nobody (`EngineParksNobody`). For signals, `Met`:
  only a consumed signal names a node, or a second delivery could not be told from a first.
* *Breaker.* `BreakerInv`: nobody probes outside HALF_OPEN and no two calls ever do (`OneProbe`); the probe of a half-open
  row holds a ticket of the row's revision, unless it was disowned (`ProbeIsCurrent`).
* *Artifacts.* `ArtifactInv`, of the puts no collection has overtaken: what a Put wrote is within its grace until its row
  is there (`StoredIsRecent`). A Put that found its file there has no such grace, so while a collection is
  under way the content of either is recent or among the reachable ones (`ReachableOrRecent`). What a collector judged
  unused therefore belongs to overtaken puts only (`JudgedUnused`).
* *Workspaces.* `WorkspaceInv`: rows in order, one lock per repository, a worker at work holds the row it
  allocated unless an expiry or Reconcile took it, a listed row is over, directories exist.
* *Completion.* `CompletionInv`: what a verification has looked at is still there unless it was disturbed
  (`Verified`, one clause per step of the gate: each look is compared with the tree or HEAD as it is now), and what
  it has seen of the remote stays true because main only grows. A command holds a task and is no younger than the turn (`Loaded`).
* *Account switch.* `SwitchInv`: past the checkpoints every open session is among the saved ones (`SavesAll`),
  so an instance is meant to be STOPPED only if nobody has a session in it (`StoppedIsUnused`): without that, a pass
  might leave sessions READY in a stopped IDE. `CalmPass` follows a pass that nothing disturbs: what it has
  read is what is there, and what it has written so far is true.
* *Supervisor.* `SupervisorInv`, of every task whose lock was not seized: who is at work on it made its lock; a process, also
  one whose runner died, leaves the lock where it is; there is one process at most; and whoever is about to launch finds none
  (`Guarded`). The third needs the fourth, and the fourth the second: a lock is made only where there is none, so nobody's
  process is left. What the records say is never used: every writer puts back an old one. Each step is calm (`CalmStep`: it starts
  nothing and takes no lock), removes a lock (`LockRemoved`), makes one, launches, or is a crash. It holds with observers at work too.
* *Remote daemon.* `SessionInv`: the start looks for a session of an --open and stores one several steps later, so an
  operation in flight must keep what it was begun for (`OpSound`: the daemon is still opening, and no session is of that
  repository and account), and an operation that recovers never reaches the step that stores. `SendInv`: the commands are of
  different updates, a pending one was not sent, and the one the loop has claimed is pending no more and was not sent either
  (`ClaimedUnsent`), until it is. The rows of a turn are a set the loop goes through in ascending order.
* *Provider routing.* `LedgerOK` speaks of the rows alone: callers keep the index of a row as long as they like, settle it twice
  or after a handoff, so nothing may rest on what they remember. A row is ACTIVE, or has ended and claims nothing (`RowOK`), and of one attempt at most one
  is ACTIVE (`OneActive`). A step changes rows in place (`RowsKept`), adds one (`RowAdded`), or, in a handoff, does
  both: the new row fits only because the old one was the attempt's only ACTIVE one. That a replacement is on another account
  needs the least of the candidates' ranks to exist (`LeastNumber`).

**Only model-checked.** The action properties of the supervisor and its observers (`NothingLeftQueued`, `DependentsWait`,
`CompletedIsSettled`): the first rests on dependencies never forming a cycle, which holds as long as one process at a time writes a
plan's tasks; the others on `Settled`, a recursion along what replaced what.
**Out of the provers' reach**, and left to TLC: liveness under
fairness (`PauseDrains`, `RunAdvances`, `WaitsEnd`, `MirrorCatchesUp`, `FairWaitEnds`, `TimeLimitHolds`), and induction
over data: the recursive definitions of `HarnessScheduler`. The replacements of a mutation are applied one after the
other in the code; `Mutated` says what remains after the last one, so that no recursion stands in the way of a proof.

## 5. Findings

Five runs show the code doing what the repository's own text excludes; `PROJECT.json` quotes
the lines.

1. `effects_sender`: `markEffectDispatched` (`effect_runtime.go:128`) answers an effect that is
   DISPATCHED already before it looks at the caller's fence, so a worker whose lease was
   reclaimed and its successor are both told that they may send
   (`HARNESS_IMPLEMENTATION_PLAN_RU.md:75`). Both calls are of the same attempt, so `NoBlindRetry`
   holds all the same.
2. `tasks_twice`: a supervisor executes the record it listed before it had the lock, and so
   executes again what another has completed (`tasks.go:506`, `CHANGELOG.md:38`).
3. `replan_stranded`: after a late recovery only the direct dependents of the replaced task are queued
   again (`tasks.go:185`); what was blocked behind them stays so, and the plan never completes
   (`ARCHITECTURE_RU.md:134-136`).
4. `remote_finals`: after a failed send the worker goes on, and an item of another stream raises the
   sequence below which the retry of the failed final answer counts as shown
   (`telegram_worker.go:97`, `REMOTE_CONTROL_IMPLEMENTATION_PLAN_RU.md:1414` and `:1375`).
5. `scheduler_hidden`: rows keep the verdict of an earlier capacity, and the search ends at a full batch that marks
   nothing new (`scheduler.go:127`): a node behind it that fits the capacity of a restarted scheduler is
   never looked at again and is reported as RESOURCE for ever (`scheduler.go:76-77`).

Seen while modelling, without a run of their own:

*Effects.* Failing a node in doubt (`effect_runtime.go:522`) ends the run only if all nodes are terminal, and
nothing makes those behind it terminal. A node re-armed after proven absence can never send its
effect: the row is FAILED, and preparing it answers "not allowed" (`:89`, against the comment at `:395`). `ProviderRef` is set
only with a confirmation, so for an effect in doubt the filesystem reconciler looks at a path named like the operation
(`executor/reconciler.go:33-37`): "write" is always absent, "delete" always confirmed. A reclaim looks at 100
effects (`lease_runtime.go:204`). PAUSED to SUCCEEDED is refused (`effect_runtime.go:388`), so reconciling the last node
of a paused run is rolled back until it is resumed. A completion does not look at DISPATCHED effects of its attempt.

*Retries, providers, breaker.* A budget's row keeps the shape of its first user (`retry_store.go:172`). A
refusal takes two transactions (`retry_runtime.go:59`). Routes oversubscribe capacity (`router.go:176`,
`MASTER_PLAN.md:654`); a circuit that opened stays open, since `NextProbeAt` is not read (`fault/circuit.go:121`); a handoff releases
the first ACTIVE reservation only (`handoff.go:247`) and leaves the old executor running.

*Mutation.* A node added behind a SUCCEEDED one is never released (`mutation.go:93`); superseding a
PENDING node makes the success of its dependency refused; `ReplaceDependencies` recomputes neither counter nor state, and
cycles are possible; the nodes table is shared by runs; superseded nodes never become terminal.

*Executor, artifacts, workspaces.* A tail shorter than the ring is wrong (`executor/process/tail.go:31`); a Cancel during
STARTING is lost (`process.go:299-309`), a late one marks an exit of 0 Cancelled; the collector's reachable set ignores
cache entries; a lookup evicts by key (`cache.go:132-137`); Open never verifies digests; a Put whose rename is
refused keeps an old orphaned file (`cas.go:95-99`), which a collection may remove before the row is there. The
scheduler looks at 256 lanes at most (`scheduler.go:40`): if the first ones hold only work that does not fit, they are never
served, stay first, and hide the others. Workspaces: GC lists ACTIVE rows though
its comment says released (`manager.go:194-218`), Reconcile marks from a stale list (`185-190`), a
branch left behind makes the next allocation fail.

*Tasks and plans.* `tasks.go:316`: between FAILED and QUEUED another supervisor blocks the dependents for good;
`512-522`: without the `agy` executable no attempt is counted; `458-478`: a cancellation does not reach the
runner; `304`: what is run because nothing fits ignores exclusive workspaces; a task RUNNING under a dead supervisor stays
so. A crash between two saves of a recovery makes its tasks again on `replan apply`; observers of two processes lose
each other's plan update (`tasks.go:244`); `finalizePlans` saves a stale plan (`replan.go:640`).

*Completion.* A stale save (`loop.go:289-294`); a plan absent for a moment bypasses the gate
(`engineering/process.go`); `coordinator.go:151-172` is not the one step its comment says; a failing hook leaves the
previous completion accepted (`hooks.go:226-229`).

*Remote.* A command RUNNING at a crash is never listed again; the oldest 50 items starve the rest; an expired
pairing code wedges the poller (`poller.go:23`); a crash between send and save duplicates; a failed `--open` leaves
instance and mirror. Account switch: a failure after the conversation is bound leaves the session under the old account while
READY; a stale desired state overwrites a pause (`reconciler.go:265`).

## 6. What the models leave out

Contents of definitions, inputs, outputs and events; priorities and resources of nodes
(the scheduler is a component of its own); the exponential formula of back-off (any delay up to
`MaxDelay`); LIMITs of list queries, except those named in section 3; text comparison of timestamps; several runs at
once, except through the budgets' counters, since no operation but a budget reads another run's rows; time
limits of attempts and deadlines of runs, which the engine stores and does not enforce. For the
supervisor: file-by-file listing, failures of a save, the gap between remove and rename on Windows,
reuse of pids, priorities, and the parsing of agy's stream (a process succeeds or fails). The Telegram UI
with its callbacks; the demand estimator and the provider adapters.

Not composed: waits with mutations. A mutation cancels a superseded WAITING node too (`mutation.go:146`) and leaves its
timer, signal wait or approval open; `HarnessMutation` has no waits and `HarnessWaits` no mutations, so `WaitExplained`
says nothing of such a node. Two daemons on one database at the same time, and sessions opened while an account
switch is under way, are outside the models.

Exceptions the properties state, each a case the code does not exclude: tasks whose lock was `seized` (`OneProcess`), a task state `revived` by a stale save (`TurnEndsOnItsOwn`) and evidence `disturbed`
during a verification (`CompletionEarned`); passes that are not calm (`ReportsWhatRuns`); sessions with an item settled
while the topic was unbound (`MirrorCatchesUp`); in `ContentKept`, puts of orphaned content that replace the
file in the middle of its removal, or keep it and are met by a collection before their row.

## 7. Plan

What is left, in order of importance:

1. `TaskSupervisor`, `Replan` (`NothingLeftQueued`): the dependencies of what is queued are well founded, for plain tasks because
   each depends on older ones, for a plan because a revision puts its tasks between a task and what waited for it.
