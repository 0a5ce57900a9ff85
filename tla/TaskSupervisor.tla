--------------------------- MODULE TaskSupervisor ---------------------------
(***************************************************************************)
(* The headless task supervisor (internal/tasks): one JSON file per task,  *)
(* replaced as a whole by every writer, and one lock file per task that is *)
(* being executed.  Any number of processes work on them at once: several  *)
(* `agctl tasks run-pending`, single runs of one task from the CLI or the  *)
(* web console, and operators' cancel, retry and remove.                   *)
(*                                                                         *)
(* Nothing but the lock files orders these processes.  A runner keeps the  *)
(* record it read in memory and writes it back at every stage of the run,  *)
(* so `job` carries the record a goroutine works with.  Each file          *)
(* operation is a step of its own.  A listing is one step.                 *)
(*                                                                         *)
(* `seized`, `succeeded` and `closed` are history, not files.              *)
(***************************************************************************)
EXTENDS Naturals, SequencesExt

CONSTANTS
  Task,         \* tasks, with the identifiers AddAdvanced gives them
  Runner,       \* processes that execute tasks
  Order,        \* all tasks, oldest first
  Resource,     \* kinds of resource: CPU weight, build slots, browser slots
  Demand,       \* Demand[t][k]: what t needs of k
  Capacity,     \* Capacity[k]: the configured budget of k
  Workspace,    \* Workspace[t]: the directory t works in
  MayExclude,   \* tasks that may want their workspace for themselves
  MaxParallel,  \* configured number of tasks at a time
  MaxRetries,   \* configured number of retries
  Watchdog,     \* whether a run ends before its lock file counts as abandoned
  MaxLaunches,  \* bound: processes started
  MaxTroubles,  \* bound: commands of operators, runners that die, failed starts
  NoOne

ASSUME TaskAssumption ==
  /\ Range(Order) = Task
  /\ Demand \in [Task -> [Resource -> Nat]]
  /\ Capacity \in [Resource -> Nat]
  /\ MayExclude \subseteq Task
  /\ MaxParallel \in Nat \ {0}
  /\ MaxRetries \in Nat
  /\ Watchdog \in BOOLEAN
  /\ NoOne \notin Runner

VARIABLES
  record,     \* the task files
  claim,      \* the lock files: who made it, and whether it is over six hours old
  alive,      \* processes started for tasks
  launches,   \* how many there have been: the last pid
  mode,       \* what each runner was started for
  job,        \* each runner's goroutines, by task
  command,    \* the operator's command that is under way
  troubles,   \* how many of those there have been
  seized,     \* history: tasks whose lock was taken from a runner at work
  succeeded,  \* history: tasks that were executed with success
  closed      \* history: succeeded or cancelled, and not asked for again

tvars == <<record, claim, alive, launches, mode, job, command, troubles,
           seized, succeeded, closed>>

NoRecord == [status |-> "ABSENT", pid |-> 0, attempts |-> 0, deps |-> {}, cause |-> NoOne,
             exclusive |-> FALSE, priority |-> 0]
Missing == {"ABSENT", "REMOVED"}

Free == [by |-> NoOne, old |-> FALSE]
NoJob == [step |-> "none", rec |-> NoRecord, failed |-> FALSE]
Job(step, rec, failed) == [step |-> step, rec |-> rec, failed |-> failed]
NoCommand == [kind |-> "none", task |-> NoOne, rec |-> NoRecord]

historyVars == <<seized, succeeded, closed>>

----------------------------------------------------------------------------
(* What a listing decides.                                                 *)

StatusOf(t) == record[t].status
Deps(t) == record[t].deps
Queued == {t \in Task : StatusOf(t) = "QUEUED"}
Executing == {t \in Task : StatusOf(t) = "RUNNING"}

\* Mutant: only what failed blocks.
HopelessFailed(t) == {d \in Deps(t) : StatusOf(d) \in Missing \cup {"FAILED"}}

\* Its dependencies that are gone, failed, cancelled or blocked.
Hopeless(t) == {d \in Deps(t) : StatusOf(d) \in Missing \cup {"FAILED", "CANCELLED", "BLOCKED"}}
Blockable == {t \in Queued : Hopeless(t) # {}}

\* Mutant: a superseded dependency is as good as one that succeeded.
SatisfiedOrSuperseded(t) == \A d \in Deps(t) : StatusOf(d) \in {"SUCCEEDED", "SUPERSEDED"}
DependenciesSatisfied(t) == \A d \in Deps(t) : StatusOf(d) = "SUCCEEDED"
Ready == {t \in Queued : DependenciesSatisfied(t)}

Total(S, k) == MapThenSumSet(LAMBDA t : Demand[t][k], S)

\* Whether t can work next to the tasks of S.
Fits(t, S) ==
  /\ Cardinality(S) < MaxParallel
  /\ \A k \in Resource : Demand[t][k] > 0 => Total(S, k) + Demand[t][k] <= Capacity[k]
  /\ \A u \in S : Workspace[u] = Workspace[t] => ~record[u].exclusive /\ ~record[t].exclusive

\* What is ready, by priority and age.
Line ==
  LET Place(t) == CHOOSE k \in DOMAIN Order : Order[k] = t
      Before(t, u) == \/ record[t].priority > record[u].priority
                      \/ record[t].priority = record[u].priority /\ Place(t) < Place(u)
  IN SetToSortSeq(Ready, Before)

\* selectBatchWithRunning, next to everything that is RUNNING.
SelectBatch ==
  LET take(S, t) == IF Fits(t, Executing \cup S) THEN S \cup {t} ELSE S
  IN FoldLeft(take, {}, Line)

\* When nothing fits, the first task that is ready is run all the same.
Batch == IF SelectBatch # {} THEN SelectBatch ELSE {Head(Line)}

----------------------------------------------------------------------------
(* The loop of a run-pending.                                              *)

\* An adaptive supervisor gives what it has executed to an observer: see Replan.
Supervising(r) == mode[r] \in {"pending", "adaptive"}
Busy(r) == {t \in Task : job[r][t] # NoJob}
JobsDone(r) == Busy(r) = {}
Listing(r) == Supervising(r) /\ JobsDone(r)

\* One goroutine or one write for each task of S, with the record as listed.
Assign(r, S, step) ==
  job' = [job EXCEPT ![r] = [t \in Task |-> IF t \in S THEN Job(step, record[t], FALSE) ELSE NoJob]]

StartPending(r) ==
  /\ mode[r] = "off"
  /\ mode' = [mode EXCEPT ![r] = "pending"]
  /\ UNCHANGED <<record, claim, alive, launches, job, command, troubles, historyVars>>

ListBlocked(r) ==
  /\ Listing(r)
  /\ Blockable # {}
  /\ \E cause \in [Blockable -> UNION {Deps(t) : t \in Blockable}] :
       /\ \A t \in Blockable : cause[t] \in Hopeless(t)
       /\ job' = [job EXCEPT ![r] = [t \in Task |->
             IF t \in Blockable THEN Job("block", [record[t] EXCEPT !.cause = cause[t]], FALSE)
             ELSE NoJob]]
  /\ UNCHANGED <<record, claim, alive, launches, mode, command, troubles, historyVars>>

ListBatch(r) ==
  /\ Listing(r)
  /\ Blockable = {} /\ Ready # {}
  /\ Assign(r, Batch, "claim")
  /\ UNCHANGED <<record, claim, alive, launches, mode, command, troubles, historyVars>>

ListNothing(r) ==
  /\ Listing(r)
  /\ Blockable = {} /\ Ready = {}
  /\ mode' = [mode EXCEPT ![r] = IF @ = "pending" THEN "off" ELSE "closing"]
  /\ UNCHANGED <<record, claim, alive, launches, job, command, troubles, historyVars>>

Save(t, rec, status, pid) ==
  record' = [record EXCEPT ![t] = [rec EXCEPT !.status = status, !.pid = pid, !.cause = NoOne]]

\* The error of a blocked task names one dependency: the first hopeless one of its
\* list, whose order the model does not keep.
BlockTask(r, t) ==
  /\ job[r][t].step = "block"
  /\ record' = [record EXCEPT ![t] = [job[r][t].rec EXCEPT !.status = "BLOCKED"]]
  /\ job' = [job EXCEPT ![r][t] = NoJob]
  /\ UNCHANGED <<claim, alive, launches, mode, command, troubles, historyVars>>

----------------------------------------------------------------------------
(* Executing one task.                                                     *)

\* `run` of one task: whatever its state, unless it is cancelled.
RunSingle(r, t) ==
  /\ mode[r] = "off"
  /\ troubles < MaxTroubles
  /\ StatusOf(t) \notin Missing \cup {"CANCELLED"}
  /\ troubles' = troubles + 1
  /\ mode' = [mode EXCEPT ![r] = "single"]
  /\ Assign(r, {t}, "claim")
  /\ closed' = closed \ {t}
  /\ UNCHANGED <<record, claim, alive, launches, command, seized, succeeded>>

EndSingle(r) ==
  /\ mode[r] \in {"single", "apply"} /\ JobsDone(r)
  /\ mode' = [mode EXCEPT ![r] = "off"]
  /\ UNCHANGED <<record, claim, alive, launches, job, command, troubles, historyVars>>

\* The runners that hold the lock of t, as far as they know.
AtWork(r, t) == job[r][t].step \in {"launch", "run", "release"}

\* The lock of t is taken away while a runner that made it, or a process of t, is
\* still at it.  A runner that removes its own lock is done.
Seized(r, t) ==
  LET holder == \E q \in Runner \ {r} : AtWork(q, t) /\ claim[t].by = q
      process == \E p \in alive : p.task = t
  IN seized' = IF holder \/ process THEN seized \cup {t} ELSE seized

Observed(r, rec, failed) ==
  IF mode[r] = "adaptive" THEN Job("observe", rec, failed) ELSE NoJob

\* A failed execution is queued again while the budget of retries lasts; a
\* single run is not.
AfterFailure(r, rec) ==
  IF Supervising(r) /\ rec.attempts <= MaxRetries THEN Job("requeue", rec, TRUE)
  ELSE Observed(r, rec, TRUE)

\* Mutant: the lock file is created whether there is one or not.
ClaimShared(r, t) ==
  /\ job[r][t].step = "claim"
  /\ claim' = [claim EXCEPT ![t] = [by |-> r, old |-> FALSE]]
  /\ job' = [job EXCEPT ![r][t].step = "launch"]
  /\ UNCHANGED <<record, alive, launches, mode, command, troubles, historyVars>>

\* claimTask: a fresh lock denies the run, an old one is to be removed.
ClaimTask(r, t) ==
  /\ job[r][t].step = "claim"
  /\ \/ /\ claim[t] = Free
        /\ claim' = [claim EXCEPT ![t] = [by |-> r, old |-> FALSE]]
        /\ job' = [job EXCEPT ![r][t].step = "launch"]
     \/ /\ claim[t].old
        /\ job' = [job EXCEPT ![r][t].step = "reap"]
        /\ UNCHANGED claim
     \/ /\ claim[t] # Free /\ ~claim[t].old
        /\ job' = [job EXCEPT ![r][t] = AfterFailure(r, job[r][t].rec)]
        /\ UNCHANGED claim
  /\ UNCHANGED <<record, alive, launches, mode, command, troubles, historyVars>>

\* It removes the lock that is there now.
ReapClaim(r, t) ==
  /\ job[r][t].step = "reap"
  /\ claim' = [claim EXCEPT ![t] = Free]
  /\ Seized(r, t)
  /\ job' = [job EXCEPT ![r][t].step = "claim"]
  /\ UNCHANGED <<record, alive, launches, mode, command, troubles, succeeded, closed>>

\* The process is started and the record says so.
Launch(r, t) ==
  LET rec == [job[r][t].rec EXCEPT !.status = "RUNNING", !.pid = launches + 1, !.attempts = @ + 1,
                                   !.cause = NoOne] IN
  /\ job[r][t].step = "launch"
  /\ launches < MaxLaunches
  /\ launches' = launches + 1
  /\ alive' = alive \cup {[pid |-> launches + 1, task |-> t, runner |-> r]}
  /\ record' = [record EXCEPT ![t] = rec]
  /\ job' = [job EXCEPT ![r][t] = Job("run", rec, FALSE)]
  /\ UNCHANGED <<claim, mode, command, troubles, historyVars>>

\* There is no agy, no log file, or no process: only the last is an attempt, and
\* without a log file nothing is saved.  When all processes are used up, the
\* last is what happens.
LaunchFails(r, t) ==
  LET rec == job[r][t].rec
      unstarted == [rec EXCEPT !.attempts = @ + 1] IN
  /\ job[r][t].step = "launch"
  /\ \/ /\ troubles < MaxTroubles
        /\ troubles' = troubles + 1
        /\ \/ /\ Save(t, rec, "FAILED", rec.pid)
              /\ job' = [job EXCEPT ![r][t] = Job("release", [rec EXCEPT !.status = "FAILED"], TRUE)]
           \/ /\ job' = [job EXCEPT ![r][t] = Job("release", rec, TRUE)]
              /\ UNCHANGED record
     \/ /\ \/ troubles < MaxTroubles /\ troubles' = troubles + 1
           \/ launches = MaxLaunches /\ UNCHANGED troubles
        /\ Save(t, unstarted, "FAILED", rec.pid)
        /\ job' = [job EXCEPT ![r][t] = Job("release", [unstarted EXCEPT !.status = "FAILED"], TRUE)]
  /\ UNCHANGED <<claim, alive, launches, mode, command, historyVars>>

\* The process has ended: by itself, by the watchdog, or killed.
Finish(r, t) ==
  LET rec == job[r][t].rec
      mine == [pid |-> rec.pid, task |-> t, runner |-> r] IN
  /\ job[r][t].step = "run"
  /\ alive' = alive \ {mine}
  /\ \/ /\ mine \in alive
        /\ Save(t, rec, "SUCCEEDED", 0)
        /\ job' = [job EXCEPT ![r][t] = Job("release", [rec EXCEPT !.pid = 0, !.status = "SUCCEEDED"], FALSE)]
        /\ succeeded' = succeeded \cup {t}
        /\ closed' = closed \cup {t}
     \/ /\ Save(t, rec, "FAILED", 0)
        /\ job' = [job EXCEPT ![r][t] = Job("release", [rec EXCEPT !.pid = 0, !.status = "FAILED"], TRUE)]
        /\ UNCHANGED <<succeeded, closed>>
  /\ UNCHANGED <<claim, launches, mode, command, troubles, seized>>

\* The deferred release removes the lock file, whoever made it.
Release(r, t) ==
  /\ job[r][t].step = "release"
  /\ claim' = [claim EXCEPT ![t] = Free]
  /\ Seized(r, t)
  /\ job' = [job EXCEPT ![r][t] = IF @.failed THEN AfterFailure(r, @.rec)
                                  ELSE Observed(r, @.rec, FALSE)]
  /\ UNCHANGED <<record, alive, launches, mode, command, troubles, succeeded, closed>>

\* The retry writes the record in memory, not the one on disk.
Requeue(r, t) ==
  /\ job[r][t].step = "requeue"
  /\ Save(t, job[r][t].rec, "QUEUED", 0)
  /\ job' = [job EXCEPT ![r][t] = NoJob]
  /\ UNCHANGED <<claim, alive, launches, mode, command, troubles, historyVars>>

RunnerStep(r) ==
  \/ ListBlocked(r) \/ ListBatch(r) \/ ListNothing(r) \/ EndSingle(r)
  \/ \E t \in Busy(r) :
       \/ BlockTask(r, t) \/ ClaimTask(r, t) \/ ReapClaim(r, t)
       \/ Launch(r, t) \/ LaunchFails(r, t)
       \/ Finish(r, t) \/ Release(r, t) \/ Requeue(r, t)

----------------------------------------------------------------------------
(* The world around the runners.                                           *)

\* A runner dies; its processes die with it or go on without it.
Crash(r) ==
  /\ mode[r] # "off"
  /\ troubles < MaxTroubles
  /\ troubles' = troubles + 1
  /\ mode' = [mode EXCEPT ![r] = "off"]
  /\ job' = [job EXCEPT ![r] = [t \in Task |-> NoJob]]
  /\ LET mine == {p \in alive : p.runner = r} IN
       \E orphans \in SUBSET mine :
         alive' = (alive \ mine) \cup {[p EXCEPT !.runner = NoOne] : p \in orphans}
  /\ UNCHANGED <<record, claim, launches, command, historyVars>>

OrphanEnds(p) ==
  /\ p \in alive
  /\ p.runner = NoOne
  /\ alive' = alive \ {p}
  /\ UNCHANGED <<record, claim, launches, mode, job, command, troubles, historyVars>>

\* Six hours pass over a lock file.  With the watchdog, and agy's own timeout,
\* nothing executes the task for that long.
ClaimGrowsOld(t) ==
  /\ claim[t] # Free /\ ~claim[t].old
  /\ Watchdog => /\ \A r \in Runner : ~AtWork(r, t)
                 /\ \A p \in alive : p.task # t
  /\ claim' = [claim EXCEPT ![t].old = TRUE]
  /\ UNCHANGED <<record, alive, launches, mode, job, command, troubles, historyVars>>

----------------------------------------------------------------------------
(* Commands of operators: the record is read first and acted on later.     *)

\* AddAdvanced: the next task depends on tasks that were added before it.
AddAdvanced(t) ==
  LET added == {u \in Task : StatusOf(u) # "ABSENT"} IN
  /\ t \notin added
  /\ t = SelectSeq(Order, LAMBDA u : u \notin added)[1]
  /\ \E deps \in SUBSET added, exclusive \in {FALSE, (t \in MayExclude)} :
       record' = [record EXCEPT ![t] = [@ EXCEPT !.status = "QUEUED", !.deps = deps,
                                                 !.exclusive = exclusive]]
  /\ UNCHANGED <<claim, alive, launches, mode, job, command, troubles, historyVars>>

Ignored(kind) ==
  CASE kind = "cancel" -> Missing \cup {"SUCCEEDED", "FAILED", "CANCELLED"}
    [] kind = "retry" -> Missing
    [] kind = "remove" -> Missing \cup {"RUNNING"}

LoadForCommand(kind, t) ==
  /\ command = NoCommand
  /\ troubles < MaxTroubles
  /\ StatusOf(t) \notin Ignored(kind)
  /\ troubles' = troubles + 1
  /\ command' = [kind |-> kind, task |-> t, rec |-> record[t]]
  /\ UNCHANGED <<record, claim, alive, launches, mode, job, historyVars>>

\* Cancel kills the process of the record it read.
KillProcess ==
  /\ command.kind = "cancel"
  /\ alive' = {p \in alive : p.pid # command.rec.pid}
  /\ command' = [command EXCEPT !.kind = "killed"]
  /\ UNCHANGED <<record, claim, launches, mode, job, troubles, historyVars>>

\* It removes the lock file and saves the record it read as cancelled.
Cancel ==
  LET t == command.task IN
  /\ command.kind = "killed"
  /\ claim' = [claim EXCEPT ![t] = Free]
  /\ Seized(NoOne, t)
  /\ Save(t, command.rec, "CANCELLED", command.rec.pid)
  /\ closed' = closed \cup {t}
  /\ command' = NoCommand
  /\ UNCHANGED <<alive, launches, mode, job, troubles, succeeded>>

Retry ==
  /\ command.kind = "retry"
  /\ Save(command.task, command.rec, "QUEUED", 0)
  /\ closed' = closed \ {command.task}
  /\ command' = NoCommand
  /\ UNCHANGED <<claim, alive, launches, mode, job, troubles, seized, succeeded>>

RemoveTask ==
  /\ command.kind = "remove"
  /\ record' = [record EXCEPT ![command.task] = [NoRecord EXCEPT !.status = "REMOVED"]]
  /\ command' = NoCommand
  /\ UNCHANGED <<claim, alive, launches, mode, job, troubles, historyVars>>

----------------------------------------------------------------------------
\* Any part of the bounds may be spent in advance.
TaskInit ==
  /\ record = [t \in Task |-> NoRecord]
  /\ claim = [t \in Task |-> Free]
  /\ alive = {}
  /\ launches \in 0..MaxLaunches
  /\ mode = [r \in Runner |-> "off"]
  /\ job = [r \in Runner |-> [t \in Task |-> NoJob]]
  /\ command = NoCommand
  /\ troubles \in 0..MaxTroubles
  /\ seized = {} /\ succeeded = {} /\ closed = {}

----------------------------------------------------------------------------
(* Safety.                                                                 *)

\* Unless a lock was taken from a runner at work, by a cancel or as abandoned,
\* a task is executed by one process at a time, however many supervisors run it
\* from listings of their own, and whoever executes it holds its lock.
OneProcess ==
  \A t \in Task \ seized :
    /\ Cardinality({p \in alive : p.task = t}) <= 1
    /\ \A r \in Runner : AtWork(r, t) => claim[t].by = r

EndsClean ==
  \A r \in Runner : Supervising(r) /\ mode'[r] \in {"off", "closing"} /\ troubles' = troubles =>
    Queued = {} \/ Executing # {} \/ \E t \in Queued : \E d \in Deps(t) : StatusOf(d) = "SUPERSEDED"

\* A run-pending that ends while nothing is RUNNING leaves nothing QUEUED: what
\* cannot run any more is BLOCKED, through any number of dependencies.  Only a
\* stale write can put a task back behind one that was superseded (see Replan).
NothingLeftQueued == [][EndsClean]_tvars

----------------------------------------------------------------------------
(* What the documentation says and the code does not do.                   *)

ExecutesOnce ==
  \A p \in alive' : p.pid > launches => p.task \notin closed \/ p.task \in seized

\* Lock files prevent concurrent supervisors from executing a task that has
\* been executed.
NoDuplicateExecution == [][ExecutesOnce]_tvars
=============================================================================
