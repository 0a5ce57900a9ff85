---------------------------- MODULE MCServices ----------------------------
(***************************************************************************)
(* Seven components that share no state, checked in one run: "part" chooses  *)
(* the one that moves, the others rest in their initial states.             *)
(***************************************************************************)
EXTENDS CircuitBreaker, HarnessScheduler, ProcessExecutor, ArtifactStore, Completion, Workspaces, AccountSwitch
VARIABLE part
CONSTANTS Parts, h1, h2, s1, k1, k2, c1, c2, c3, x1, x2, p1, p2, p3, d1, d2
ThreeCalls == {c1, c2, c3}
Twos == [c \in Call |-> IF c = c3 THEN 1 ELSE 2]

FourNodes == 1..4
RunsOf == <<1, 1, 1, 2>>
ParentsOf == [n \in Node |-> IF n = 2 THEN {3} ELSE {}]
Priorities == <<3, 2, 1, 2>>
SomeNeeds == <<3, 2, 1, 1>>

TwoExecutions == {x1, x2}
SameId == [x \in Execution |-> "run"]
SomeLimits == [x \in Execution |-> IF x = x1 THEN {"EXECUTION_TIMEOUT"} ELSE {}]

ThreePuts == {p1, p2, p3}
DigestsOf == [p \in Put |-> IF p = p3 THEN d2 ELSE d1]
RunsIn == [p \in Put |-> IF p = p1 THEN 1 ELSE 2]

TwoCommands == {k1, k2}
ThreeCommits == 0..2
History == [c \in Commit |-> 0..(c - 1)]
TreesOf == [c \in Commit |-> IF c = 0 THEN "old" ELSE IF c = 1 THEN "new" ELSE "half"]
PlansIn == [t \in Tree |-> IF t = "old" THEN "open" ELSE IF t = "bare" THEN "absent" ELSE "done"]
Good == [head |-> 1, base |-> 0, tree |-> "new"]
Wrong == {[head |-> 1, base |-> 0, tree |-> "half"], [head |-> 1, base |-> 1, tree |-> "new"],
          [head |-> 1, base |-> 2, tree |-> "new"]}
SomeBudgets == {[turns |-> 1, tasks |-> 1, calls |-> 1, moves |-> 2, at |-> 1, claims |-> {Good} \cup Wrong],
                [turns |-> 2, tasks |-> 2, calls |-> 3, moves |-> 0, at |-> 1, claims |-> {Good}]}

TwoHolders == {h1, h2}
SomeModes ==
  {[h \in Holder |-> IF h = h1 THEN "EXCLUSIVE_WRITE" ELSE m] : m \in {"SHARED_READ", "EXCLUSIVE_WRITE", "WORKTREE"}}

vars == <<breakerVars, schedulerVars, executorVars, artifactVars, completionVars, workspaceVars, switchVars, part>>
Init == /\ BreakerInit /\ SchedulerInit /\ ExecutorInit /\ ArtifactInit /\ CompletionInit
        /\ WorkspacesInit /\ SwitchInit /\ part \in Parts
        /\ part = "scheduler" \/ capacity = CHOOSE c \in Capacities : TRUE
        /\ part = "completion" \/ budget = CHOOSE b \in Budgets : TRUE
        /\ part = "workspaces" \/ mode = CHOOSE m \in Modes : TRUE
        /\ part = "switch" \/ Open = {}
Next == /\ \/ part = "breaker" /\ BreakerNext
              /\ UNCHANGED <<schedulerVars, executorVars, artifactVars, completionVars, workspaceVars, switchVars>>
           \/ part = "scheduler" /\ SchedulerNext
              /\ UNCHANGED <<breakerVars, executorVars, artifactVars, completionVars, workspaceVars, switchVars>>
           \/ part = "executor" /\ ExecutorNext
              /\ UNCHANGED <<breakerVars, schedulerVars, artifactVars, completionVars, workspaceVars, switchVars>>
           \/ part = "artifacts" /\ ArtifactNext
              /\ UNCHANGED <<breakerVars, schedulerVars, executorVars, completionVars, workspaceVars, switchVars>>
           \/ part = "completion" /\ CompletionNext
              /\ UNCHANGED <<breakerVars, schedulerVars, executorVars, artifactVars, workspaceVars, switchVars>>
           \/ part = "workspaces" /\ WorkspacesNext
              /\ UNCHANGED <<breakerVars, schedulerVars, executorVars, artifactVars, completionVars, switchVars>>
           \/ part = "switch" /\ SwitchNext
              /\ UNCHANGED <<breakerVars, schedulerVars, executorVars, artifactVars, completionVars, workspaceVars>>
        /\ UNCHANGED part
Spec == Init /\ [][Next]_vars
   /\ WF_dispatcher(part = "scheduler" /\ Dispatches)
   /\ \A x \in Execution : ExecutorFairness(x)
=============================================================================
