---------------------------- MODULE HarnessRetry ----------------------------
(***************************************************************************)
(* Durable retries (engine/retry_runtime.go, store/sqlite/retry_store.go)  *)
(* over the engine's core: failures a policy turns into a later attempt,   *)
(* the budgets they are paid from, and the loop that makes them READY.     *)
(*                                                                         *)
(* Two calls are more than one transaction.  A refused retry rolls its     *)
(* first transaction back and fails the attempt in a second one; a release *)
(* lists the due retries, keeps the clock reading it listed them with, and *)
(* then treats each in a transaction of its own.  `refused` and `batch`    *)
(* are what the calls remember in between; both are lost in a crash.       *)
(*                                                                         *)
(* Deadlines are kept as the ticks left until they pass.  Bounds: delays   *)
(* of at most MaxDelay ticks, budget windows of Window ticks, a release    *)
(* loop at most MaxAge ticks behind the clock.                             *)
(***************************************************************************)
EXTENDS HarnessEngine

CONSTANTS
  Policy,    \* Policy[n]: the attempts allowed to n and its budget limits
  Releaser,  \* callers of ReleaseDueRetries
  Verdicts,  \* what a policy may say of a failure's class and elapsed time
  Window, MaxDelay, MaxAge

Scope == {"workflow", "service"}

ASSUME PolicyAssumption ==
  /\ Policy \in [Node -> [max : 1..MaxAttempts, limits : [Scope -> Nat]]]
  /\ Verdicts \subseteq BOOLEAN
  /\ Window \in Nat \ {0}
  /\ MaxDelay \in Nat
  /\ MaxAge \in Nat /\ MaxAge >= MaxLag

VARIABLES
  schedule,  \* retry_schedule: the failed attempt and the ticks until it is due
  history,   \* retry_schedule_history: attempts whose retry was ever scheduled
  budget,    \* retry_budgets: limit, tokens used and ticks left of the window
  refused,   \* reports whose retry was refused and that have yet to fail the attempt
  batch      \* due retries a release loop still has to treat, and its clock's age

retryVars == <<schedule, history, budget, refused, batch>>
rvars == <<vars, retryVars>>

NoSchedule == [attempt |-> 0, wait |-> 0]
NoBudget == [limit |-> 0, used |-> 0, left |-> 0]
Idle == [nodes |-> {}, age |-> 0]
Report == Attempt \X (Fence \cup {Unfenced})
Without(b, n) == IF b.nodes \subseteq {n} THEN Idle ELSE [b EXCEPT !.nodes = @ \ {n}]

----------------------------------------------------------------------------
(* Budgets.                                                                *)

Limit(n, s) == Policy[n].limits[s]

\* A first reservation, or one whose clock is past the stored window.
WindowOver(s, late) == budget[s].used = 0 \/ budget[s].left + late <= 0

\* The row keeps the shape it was created with; another shape is an error.
Conflicting(n, s) == Limit(n, s) > 0 /\ budget[s].used > 0 /\ budget[s].limit # Limit(n, s)

Exhausted(n, s, late) ==
  /\ Limit(n, s) > 0
  /\ ~Conflicting(n, s)
  /\ ~WindowOver(s, late)
  /\ budget[s].used >= budget[s].limit

\* Mutant: the limit is compared with the counter of the previous window.
ReserveStale(n, s, late) ==
  IF Limit(n, s) = 0 THEN budget[s]
  ELSE [budget[s] EXCEPT !.limit = Limit(n, s), !.used = @ + 1,
          !.left = IF WindowOver(s, late) THEN Window - late ELSE @]

\* ReserveRetryBudget when it grants: a token of this window or of a new one.
ReserveRetryBudget(n, s, late) ==
  IF Limit(n, s) = 0 THEN budget[s]
  ELSE IF WindowOver(s, late)
    THEN [limit |-> Limit(n, s), used |-> 1, left |-> Window - late]
  ELSE [budget[s] EXCEPT !.used = @ + 1]

\* The workflow's budget is asked first; the service's only once it granted.
BudgetDenied(n, late) ==
  \/ Exhausted(n, "workflow", late)
  \/ ~Conflicting(n, "workflow") /\ Exhausted(n, "service", late)

BudgetGranted(n, late) ==
  \A s \in Scope : ~Conflicting(n, s) /\ ~Exhausted(n, s, late)

----------------------------------------------------------------------------
(* Reporting a failure.                                                    *)

\* The back-off, its jitter, its ceiling and a server's Retry-After.
ComputeDelay == 0..MaxDelay

\* Decide: `permits` is the verdict on the failure's class and on the elapsed
\* time; the number of the attempt is the durable one.
Decide(a, permits) == permits /\ a[2] < Policy[NodeOf(a)].max

Reportable(a, fence, late) ==
  /\ AuthorizeCompletion(a, fence, late)
  /\ attempt[a].state = "RUNNING"
  /\ node[NodeOf(a)] = "RUNNING"

\* The retry is granted: the attempt fails, its node waits, nothing is counted.
TryScheduleRetry(a, fence, permits, delay, late) ==
  LET n == NodeOf(a) IN
  /\ Reportable(a, fence, late)
  /\ WorkflowAllowsDrain(wf)
  /\ Decide(a, permits)
  /\ BudgetGranted(n, late)
  /\ budget' = [s \in Scope |-> ReserveRetryBudget(n, s, late)]
  /\ attempt' = [attempt EXCEPT ![a].state = "FAILED"]
  /\ CompareAndSwapNodeRun(n, "RETRY_WAIT")
  /\ ReleaseLease(a, fence)
  /\ schedule[n] = NoSchedule
  /\ schedule' = [schedule EXCEPT ![n] = [attempt |-> a[2], wait |-> delay - late]]
  /\ history' = history \cup {a}
  /\ wf' = FinalizePauseIfDrained(wf, attempt')
  /\ outcome' = [outcome EXCEPT ![a] = fence]
  /\ UNCHANGED <<deps, remaining, progress, worker, refused, batch>>

\* authorizeTerminalDuplicate: a repeated report of a failed attempt is
\* accepted from the owner of its last epoch, whatever the lease.
TerminalDuplicate(a, fence) ==
  /\ attempt[a].state = "FAILED"
  /\ fence = [worker |-> attempt[a].worker, epoch |-> attempt[a].epoch]

\* The retry is refused and the transaction rolled back: the workflow does not
\* drain, the policy says no, a budget denies, or the attempt has failed before
\* without a retry.  A repeated report whose retry is in the history is answered
\* from it and changes nothing.
RefuseRetry(a, fence, permits, late) ==
  /\ \/ /\ Reportable(a, fence, late)
        /\ \/ ~WorkflowAllowsDrain(wf)
           \/ ~Decide(a, permits)
           \/ BudgetDenied(NodeOf(a), late)
     \/ TerminalDuplicate(a, fence) /\ a \notin history
  /\ refused' = refused \cup {<<a, fence>>}
  /\ UNCHANGED <<vars, schedule, history, budget, batch>>

\* The second transaction: the attempt fails for good, or is found failed.
FailRefused(report, late) ==
  /\ report \in refused
  /\ refused' = refused \ {report}
  /\ \/ CompleteAttemptFailure(report[1], report[2], late)
     \/ TerminalDuplicate(report[1], report[2]) /\ UNCHANGED vars
  /\ UNCHANGED <<schedule, history, budget, batch>>

\* The reporter stops, or its second transaction is refused.
DropRefused(report) ==
  /\ report \in refused
  /\ refused' = refused \ {report}
  /\ UNCHANGED <<vars, schedule, history, budget, batch>>

----------------------------------------------------------------------------
(* Releasing due retries.                                                  *)

ListDueRetries(r, late) ==
  /\ batch[r].nodes = {}
  /\ batch' = [batch EXCEPT ![r] =
       [nodes |-> {n \in Node : schedule[n] # NoSchedule /\ schedule[n].wait + late <= 0},
        age |-> late]]
  /\ batch'[r].nodes # {}
  /\ UNCHANGED <<vars, schedule, history, budget, refused>>

\* Mutant: the row is not looked at again.
ReleaseListed(r, n) ==
  /\ n \in batch[r].nodes
  /\ node[n] = "RETRY_WAIT"
  /\ wf = "RUNNING"
  /\ CompareAndSwapNodeRun(n, "READY")
  /\ schedule' = [schedule EXCEPT ![n] = NoSchedule]
  /\ batch' = [batch EXCEPT ![r] = Without(@, n)]
  /\ UNCHANGED <<wf, deps, remaining, progress, attempt, lease, worker, outcome,
                 history, budget, refused>>

\* A listed retry that is still due, of a RUNNING workflow.
ReleaseDueRetry(r, n) ==
  /\ n \in batch[r].nodes
  /\ schedule[n] # NoSchedule
  /\ schedule[n].wait + batch[r].age <= 0
  /\ node[n] = "RETRY_WAIT"
  /\ wf = "RUNNING"
  /\ CompareAndSwapNodeRun(n, "READY")
  /\ schedule' = [schedule EXCEPT ![n] = NoSchedule]
  /\ batch' = [batch EXCEPT ![r] = Without(@, n)]
  /\ UNCHANGED <<wf, deps, remaining, progress, attempt, lease, worker, outcome,
                 history, budget, refused>>

\* A listed retry that is passed over: it is gone, due later, or its workflow
\* does not run.
SkipListedRetry(r, n) ==
  /\ n \in batch[r].nodes
  /\ \/ schedule[n] = NoSchedule
     \/ schedule[n].wait + batch[r].age > 0
     \/ wf # "RUNNING"
  /\ batch' = [batch EXCEPT ![r] = Without(@, n)]
  /\ UNCHANGED <<vars, schedule, history, budget, refused>>

\* The loop stops at its first error, or with its process.
StopRelease(r) ==
  /\ batch[r].nodes # {}
  /\ batch' = [batch EXCEPT ![r] = Idle]
  /\ UNCHANGED <<vars, schedule, history, budget, refused>>

----------------------------------------------------------------------------
CancelWithRetries ==
  /\ CancelWorkflow
  /\ schedule' = [n \in Node |-> NoSchedule]
  /\ UNCHANGED <<history, budget, refused, batch>>

Falls(left) == IF left > -MaxAge THEN left - 1 ELSE left

\* Time passes for leases, due times, budget windows and open release loops.
RetryTick ==
  /\ \/ \E a \in Attempt, e \in Epoch : Ticking(a, e)
     \/ \E n \in Node : schedule[n] # NoSchedule /\ schedule[n].wait > -MaxAge
     \/ \E s \in Scope : budget[s].used > 0 /\ budget[s].left > -MaxAge
  /\ \A r \in Releaser : batch[r].nodes # {} => batch[r].age < MaxAge
  /\ TickLeases
  /\ schedule' = [n \in Node |-> IF schedule[n] = NoSchedule THEN NoSchedule
                                 ELSE [schedule[n] EXCEPT !.wait = Falls(@)]]
  /\ budget' = [s \in Scope |-> IF budget[s].used = 0 THEN NoBudget
                                ELSE [budget[s] EXCEPT !.left = Falls(@)]]
  /\ batch' = [r \in Releaser |-> IF batch[r].nodes = {} THEN Idle
                                  ELSE [batch[r] EXCEPT !.age = @ + 1]]
  /\ UNCHANGED <<wf, node, deps, remaining, ready, progress, attempt, worker, outcome,
                 history, refused>>

RetryInit ==
  /\ Init
  /\ schedule = [n \in Node |-> NoSchedule]
  /\ history = {}
  /\ budget = [s \in Scope |-> NoBudget]
  /\ refused = {}
  /\ batch = [r \in Releaser |-> Idle]

\* What the features built on retries leave as it is.
RetryOperations ==
  \/ Operations /\ UNCHANGED retryVars
  \/ \E a \in Attempt, fence \in Fence \cup {Unfenced}, permits \in Verdicts, late \in Late :
       \/ RefuseRetry(a, fence, permits, late)
       \/ \E delay \in ComputeDelay : TryScheduleRetry(a, fence, permits, delay, late)
  \/ \E report \in refused : DropRefused(report) \/ \E late \in Late : FailRefused(report, late)
  \/ \E r \in Releaser :
       \/ \E late \in Late : ListDueRetries(r, late)
       \/ \E n \in Node : ReleaseDueRetry(r, n) \/ SkipListedRetry(r, n)
       \/ StopRelease(r)
  \/ CancelWithRetries

RetryNext ==
  \/ RetryOperations
  \/ Reclaim /\ UNCHANGED retryVars
  \/ RetryTick

RetrySpec == RetryInit /\ [][RetryNext]_rvars

\* The engine schedules nothing by itself: clients claim, start, complete and
\* reclaim, and fairness is that some client keeps doing each of these things.
\* A due retry is not passed over for ever by loops that stop before it.
RetryFairSpec ==
  /\ RetrySpec
  /\ \A n \in Node :
       WF_rvars(/\ \/ StartAttempt(n)
                   \/ \E w \in Worker, ttl \in 1..MaxTTL, late \in Late : ClaimNode(n, w, ttl, late)
                /\ UNCHANGED retryVars)
  /\ \A a \in Attempt :
       /\ WF_rvars((\E fence \in Fence, late \in Late : StartClaimedAttempt(a, fence, late))
                     /\ UNCHANGED retryVars)
       /\ WF_rvars((\E w \in Worker, ttl \in 1..MaxTTL, late \in Late :
                      ReclaimExpiredAttempt(a, w, ttl, late)) /\ UNCHANGED retryVars)
       /\ WF_rvars(\E fence \in Fence \cup {Unfenced}, late \in Late :
                     \/ CompleteAttemptSuccess(a, fence, late) /\ UNCHANGED retryVars
                     \/ CompleteAttemptFailure(a, fence, late) /\ UNCHANGED retryVars
                     \/ \E delay \in ComputeDelay : TryScheduleRetry(a, fence, TRUE, delay, late))
  /\ WF_rvars(\E r \in Releaser, late \in Late : ListDueRetries(r, late))
  /\ \A n \in Node : /\ SF_rvars(\E r \in Releaser : ReleaseDueRetry(r, n))
                     /\ WF_rvars(\E r \in Releaser : SkipListedRetry(r, n))
  /\ WF_rvars(RetryTick)

----------------------------------------------------------------------------
(* Safety.                                                                 *)

\* No window of a budget ever grants more tokens than its limit, whatever the
\* order of failures and of clock readings that fall behind.
BudgetsHold == \A s \in Scope : budget[s].used <= budget[s].limit

KeepsBudgets == history' = history => \A s \in Scope : budget'[s].used = budget[s].used

\* A token is consumed only by a retry that was scheduled in the same step: a
\* denied second budget never charges the first one (proved, see RetriesArePaid).
RetriesPaid == [][KeepsBudgets]_rvars

KeepsDeadlines ==
  \A n \in Node : node[n] = "RETRY_WAIT" /\ node'[n] = "READY" =>
    schedule[n].wait <= 0 /\ wf = "RUNNING"

\* A retry is never released before its deadline, nor into a run that is not
\* RUNNING, however long ago it was listed.
NeverEarly == [][KeepsDeadlines]_rvars

=============================================================================
