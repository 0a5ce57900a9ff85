----------------------------- MODULE Completion -----------------------------
(***************************************************************************)
(* The completion gate of an autonomous turn (loop, hooks, engineering) and  *)
(* the repository it looks at.                                              *)
(*                                                                          *)
(* The state file of a conversation is read, judged and written by separate *)
(* processes without a lock: the hook before a turn's first model call,     *)
(* `agctl state complete' and `state block'.  `state complete' reads the     *)
(* plan of the working tree and then runs one git command after another,    *)
(* while agents edit, commit, check out and push.  The hook before Stop      *)
(* ends the turn on what the file says.                                     *)
(*                                                                          *)
(* A tree stands for all the files of a commit or of the working tree; what  *)
(* the gate reads of its MASTER_PLAN.md is whether it is there and accepts   *)
(* the evidence for the task (DONE, findings declared, latest checkpoint).   *)
(* Calls that are refused for their arguments alone (another task id, no      *)
(* summary, missing evidence, another branch) change nothing and are left   *)
(* out.                                                                     *)
(***************************************************************************)
EXTENDS Naturals

CONSTANTS
    Command,        \* processes of `agctl state'
    Commit,
    Ancestors,      \* [Commit -> the commits before it]
    Tree,
    TreeOf,         \* [Commit -> Tree]
    PlanIn,         \* [Tree -> "absent", "open" or "done"]
    Half,           \* the tree of a candidate of which some files are copied
    Budgets         \* bounds: turns, tasks, commands and changes of the
                    \* repository, the publications agents claim ([head,
                    \* base, tree]), and the published commit to start with

(* The history of a repository is transitive.  A publication names commits.  *)
Bounds == [turns : Nat, tasks : Nat, calls : Nat, moves : Nat, at : Commit,
           claims : SUBSET [head : Commit, base : Commit, tree : Tree]]

ASSUME CompletionAssumption ==
    /\ Ancestors \in [Commit -> SUBSET Commit]
    /\ \A c \in Commit : \A d \in Ancestors[c] : Ancestors[d] \subseteq Ancestors[c]
    /\ TreeOf \in [Commit -> Tree]
    /\ Budgets \subseteq Bounds

VARIABLES
    state,          \* the state file; task NoTask: there is none
    jobs,           \* [Command -> what it is doing]
    turn,           \* the user's turns; InitialNumSteps grows with them
    running,        \* the agent works on the turn
    hook,           \* loop-pre-invocation: "idle", "due" or "saving"
    told,           \* the task the turn's agent was told to complete
    tasks,          \* task ids given out
    head, work,     \* HEAD of main and the working tree
    remote,         \* main of the remote
    copying,        \* CommitCoordinator: the candidate being applied
    publishing,     \* Publisher: the check it has passed
    revived,        \* history: a command saved over the state of a later task
    budget          \* what is left of the bounds

repoVars == <<head, work, remote, copying, publishing>>
loopVars == <<state, turn, running, hook, told, tasks, revived>>
completionVars == <<repoVars, loopVars, jobs, budget>>

NoTask == 0
NoTree == "none"
NoEvidence == [managed |-> FALSE, head |-> 0, base |-> 0, tree |-> NoTree, plan |-> NoTree,
               disturbed |-> FALSE]
NoState == [task |-> NoTask, steps |-> 0, outcome |-> "open", savedIn |-> 0, evidence |-> NoEvidence]
IdleJob == [step |-> "idle", loaded |-> NoState, outcome |-> "open", clean |-> FALSE,
          claim |-> NoEvidence, seen |-> NoEvidence]

CompletionInit ==
    /\ state = NoState /\ jobs = [k \in Command |-> IdleJob]
    /\ turn = 0 /\ running = FALSE /\ hook = "idle" /\ told = NoTask /\ tasks = 0
    /\ budget \in Budgets
    /\ head = budget.at /\ work = TreeOf[head] /\ remote = head
    /\ copying = NoTree /\ publishing = "idle" /\ revived = FALSE

(***************************************************************************)
(* The turn: its hooks.                                                     *)
(***************************************************************************)
UserTurn ==
    /\ ~running /\ turn < budget.turns
    /\ turn' = turn + 1 /\ running' = TRUE /\ hook' = "due"
    /\ UNCHANGED <<state, told, tasks, revived, jobs, repoVars, budget>>

\* Mutant: a completed task is kept whatever the turn.
KeepsAll == state.task # NoTask /\ state.outcome # "blocked"

(* EnsureTaskState keeps what is still to be done, and what was completed in *)
(* this turn.                                                               *)
Keeps ==
    /\ state.task # NoTask
    /\ state.outcome = "open" \/ (state.outcome = "complete" /\ turn <= state.steps)

EnsureTaskState ==
    /\ hook = "due"
    /\ IF Keeps THEN hook' = "idle" /\ told' = state.task
                ELSE hook' = "saving" /\ UNCHANGED told
    /\ UNCHANGED <<state, turn, running, tasks, revived, jobs, repoVars, budget>>

SaveNewTask ==
    /\ hook = "saving" /\ tasks < budget.tasks
    /\ tasks' = tasks + 1 /\ told' = tasks' /\ hook' = "idle" /\ revived' = FALSE
    /\ state' = [NoState EXCEPT !.task = tasks', !.steps = turn]
    /\ UNCHANGED <<turn, running, jobs, repoVars, budget>>

(* The hook fails or is cut off: the model is called all the same.           *)
HookFails ==
    /\ hook # "idle" /\ hook' = "idle" /\ told' = NoTask
    /\ UNCHANGED <<state, turn, running, tasks, revived, jobs, repoVars, budget>>

Idle == \A k \in Command : jobs[k].step = "idle"
Satisfied == state.outcome = "blocked" \/ (state.outcome = "complete" /\ Idle)

(* HandleLoopStop; another execution has its own first model call.           *)
HandleLoopStop ==
    /\ running /\ hook = "idle"
    /\ running' = ~Satisfied /\ hook' = IF Satisfied THEN "idle" ELSE "due"
    /\ UNCHANGED <<state, turn, told, tasks, revived, jobs, repoVars, budget>>

(* The watchdog, a fatal error, the loop switched off, an unreadable state.  *)
StopAnyway ==
    /\ running /\ hook = "idle" /\ running' = FALSE
    /\ UNCHANGED <<state, turn, hook, told, tasks, revived, jobs, repoVars, budget>>

(***************************************************************************)
(* agctl state complete, block and reset.                                   *)
(***************************************************************************)
Step(k, job) == jobs' = [jobs EXCEPT ![k] = job]

Called == budget.calls > 0 /\ budget' = [budget EXCEPT !.calls = @ - 1]

(* The evidence of a completion, the claim of its push-main item.            *)
MarkComplete(k, p) ==
    /\ Called /\ jobs[k] = IdleJob /\ state.task # NoTask
    /\ Step(k, [IdleJob EXCEPT !.step = "plan", !.loaded = state, !.outcome = "complete",
           !.claim = [NoEvidence EXCEPT !.head = p.head, !.base = p.base, !.tree = p.tree]])
    /\ UNCHANGED <<loopVars, repoVars>>

MarkBlocker(k) ==
    /\ Called /\ jobs[k] = IdleJob /\ state.task # NoTask
    /\ Step(k, [IdleJob EXCEPT !.step = "save", !.loaded = state, !.outcome = "blocked"])
    /\ UNCHANGED <<loopVars, repoVars>>

Managed(t) == PlanIn[t] # "absent"
PlanAccepts(t) == PlanIn[t] = "done"
ParsePublicationProof(claim) == claim.base # claim.head

(* ValidateCompletionForWorkspaces: without a plan there is nothing to check. *)
ReadPlan(k) ==
    /\ jobs[k].step = "plan"
    /\ Step(k, IF ~Managed(work) THEN [jobs[k] EXCEPT !.step = "save"]
               ELSE IF ~(PlanAccepts(work) /\ ParsePublicationProof(jobs[k].claim)) THEN IdleJob
               ELSE [jobs[k] EXCEPT !.step = "head", !.seen = [@ EXCEPT !.managed = TRUE, !.plan = work]])
    /\ UNCHANGED <<loopVars, repoVars, budget>>

(* GitPublicationVerifier.Verify.                                           *)
ReadHead(k) ==
    /\ jobs[k].step = "head"
    /\ Step(k, [jobs[k] EXCEPT !.step = "tree", !.seen = [@ EXCEPT !.head = head]])
    /\ UNCHANGED <<loopVars, repoVars, budget>>

ReadTree(k) ==
    /\ jobs[k].step = "tree"
    /\ Step(k, [jobs[k] EXCEPT !.step = "status", !.seen = [@ EXCEPT !.tree = TreeOf[head]]])
    /\ UNCHANGED <<loopVars, repoVars, budget>>

Clean == work = TreeOf[head]

ReadStatus(k) ==
    /\ jobs[k].step = "status"
    /\ Step(k, [jobs[k] EXCEPT !.step = "remote", !.clean = Clean])
    /\ UNCHANGED <<loopVars, repoVars, budget>>

\* Mutant: a dirty worktree is let through.
ValidatesDirty(j, remoteHead) ==
    /\ j.seen.head = j.claim.head /\ j.seen.head = remoteHead
    /\ j.seen.tree = j.claim.tree
    /\ j.claim.base \in Ancestors[j.seen.head] \cup {j.seen.head}

(* ValidatePublicationSnapshot, with the parts of the proof it repeats.      *)
Validates(j, remoteHead) ==
    /\ j.seen.head = j.claim.head /\ j.seen.head = remoteHead
    /\ j.seen.tree = j.claim.tree
    /\ j.claim.base \in Ancestors[j.seen.head] \cup {j.seen.head}
    /\ j.clean

ReadRemote(k) ==
    /\ jobs[k].step = "remote"
    /\ Step(k, IF Validates(jobs[k], remote)
               THEN [jobs[k] EXCEPT !.step = "save", !.seen = [@ EXCEPT !.base = jobs[k].claim.base]]
               ELSE IdleJob)
    /\ UNCHANGED <<loopVars, repoVars, budget>>

(* SaveState writes what was loaded at the start, whatever is stored now.     *)
SaveState(k) ==
    /\ jobs[k].step = "save"
    /\ state' = [jobs[k].loaded EXCEPT !.outcome = jobs[k].outcome, !.savedIn = turn,
                       !.evidence = IF jobs[k].outcome = "complete" THEN jobs[k].seen ELSE @]
    /\ revived' = (revived \/ jobs[k].loaded.task # state.task)
    /\ Step(k, IdleJob)
    /\ UNCHANGED <<turn, running, hook, told, tasks, repoVars, budget>>

CommandDies(k) == /\ jobs[k] # IdleJob /\ Step(k, IdleJob) /\ UNCHANGED <<loopVars, repoVars, budget>>

ResetState ==
    /\ Called /\ state' = NoState
    /\ UNCHANGED <<turn, running, hook, told, tasks, revived, jobs, repoVars>>

(***************************************************************************)
(* The repository.  What changes HEAD or the working tree between the first  *)
(* and the last look of a verification disturbs it.                         *)
(***************************************************************************)
Disturb == jobs' = [k \in Command |->
    IF jobs[k].step \in {"head", "tree", "status"}
    THEN [jobs[k] EXCEPT !.seen = [@ EXCEPT !.disturbed = TRUE]] ELSE jobs[k]]

Moves == budget.moves > 0 /\ budget' = [budget EXCEPT !.moves = @ - 1]

EditFiles(t) ==
    /\ Moves /\ work' = t /\ Disturb
    /\ UNCHANGED <<loopVars, head, remote, copying, publishing>>

CommitWork(c) ==
    /\ Moves /\ Ancestors[c] = Ancestors[head] \cup {head} /\ TreeOf[c] = work
    /\ head' = c /\ Disturb
    /\ UNCHANGED <<loopVars, work, remote, copying, publishing>>

Checkout(c) ==
    /\ Moves /\ Clean /\ head' = c /\ work' = TreeOf[c] /\ Disturb
    /\ UNCHANGED <<loopVars, remote, copying, publishing>>

(* A push without force, of this clone or of another one.                    *)
Push(c) ==
    /\ Moves /\ remote \in Ancestors[c] /\ remote' = c
    /\ UNCHANGED <<loopVars, head, work, copying, publishing, jobs>>

(* CommitCoordinator.ApplyAndVerify copies the candidate's files one after   *)
(* the other, and stops where one fails.                                    *)
ApplyAndVerify(t) ==
    /\ Moves /\ copying = NoTree /\ copying' = t
    /\ UNCHANGED <<loopVars, head, work, remote, publishing, jobs>>

CopyFiles(t) ==
    /\ Moves /\ copying # NoTree /\ t \in {Half, copying}
    /\ work' = t /\ copying' = (IF t = copying THEN NoTree ELSE copying) /\ Disturb
    /\ UNCHANGED <<loopVars, head, remote, publishing>>

CopyFails ==
    /\ copying # NoTree /\ copying' = NoTree
    /\ UNCHANGED <<loopVars, head, work, remote, publishing, jobs, budget>>

(* Publisher.Publish: the tree, then HEAD, then the push of what HEAD is.    *)
Publish ==
    /\ Moves /\ publishing = "idle" /\ Clean /\ publishing' = "clean"
    /\ UNCHANGED <<loopVars, head, work, remote, copying, jobs>>

CheckHead ==
    /\ publishing = "clean" /\ publishing' \in {"checked", "idle"}
    /\ UNCHANGED <<loopVars, head, work, remote, copying, jobs, budget>>

PublisherPushes ==
    /\ publishing = "checked" /\ publishing' = "idle"
    /\ remote' = IF remote \in Ancestors[head] THEN head ELSE remote
    /\ UNCHANGED <<loopVars, head, work, copying, jobs, budget>>

CompletionNext ==
    \/ UserTurn \/ EnsureTaskState \/ SaveNewTask \/ HookFails \/ HandleLoopStop \/ StopAnyway
    \/ \E k \in Command : \E p \in budget.claims : MarkComplete(k, p)
    \/ \E k \in Command : MarkBlocker(k) \/ ReadPlan(k) \/ ReadHead(k) \/ ReadTree(k) \/ ReadStatus(k)
    \/ \E k \in Command : ReadRemote(k) \/ SaveState(k) \/ CommandDies(k)
    \/ ResetState
    \/ \E t \in Tree : EditFiles(t) \/ ApplyAndVerify(t) \/ CopyFiles(t)
    \/ \E c \in Commit : CommitWork(c) \/ Checkout(c) \/ Push(c)
    \/ CopyFails \/ Publish \/ CheckHead \/ PublisherPushes

(* A managed completion on file names a commit that has been main of the     *)
(* remote since it was checked, on top of the claimed base; and if HEAD and  *)
(* the working tree stood still between the first and the last look, its     *)
(* tree is the qualified one and the plan that was judged is the plan in it. *)
(* The observations are made one by one, the state file is older than they    *)
(* are, and other commands write it meanwhile.                              *)
CompletionEarned ==
    LET e == state.evidence IN
    state.outcome = "complete" /\ e.managed =>
        /\ e.head \in Ancestors[remote] \cup {remote}
        /\ e.base \in Ancestors[e.head]
        /\ e.disturbed \/ (TreeOf[e.head] = e.tree /\ e.plan = e.tree)

(* The completion a turn may end on was recorded in this turn and for the    *)
(* task its hook announced: never what an earlier turn left on file.  The     *)
(* exception is a command that loaded an earlier task and saves it over the  *)
(* present one.                                                             *)
TurnEndsOnItsOwn ==
    (running /\ hook = "idle" /\ told # NoTask /\ state.outcome = "complete")
    => (state.task = told /\ state.savedIn = turn) \/ revived
=============================================================================
