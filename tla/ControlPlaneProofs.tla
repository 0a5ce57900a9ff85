------------------------- MODULE ControlPlaneProofs -------------------------
(***************************************************************************)
(* Theorems about the completion gate of an autonomous turn, about the     *)
(* account switch beside the reconciler, and about the task supervisor     *)
(* with its observers, for every history of commits, every set of          *)
(* sessions, accounts, tasks and processes, and every bound of the runs.   *)
(***************************************************************************)
EXTENDS Completion, AccountSwitch, Replan, FiniteSetTheorems, TLAPS

----------------------------------------------------------------------------
(* The completion gate.                                                    *)
CompletionSpec == CompletionInit /\ [][CompletionNext]_completionVars

Evidences == [managed : BOOLEAN, head : Commit \cup {0}, base : Commit \cup {0},
              tree : Tree \cup {NoTree}, plan : Tree \cup {NoTree}, disturbed : BOOLEAN]
Outcomes == {"open", "complete", "blocked"}
Steps == {"idle", "plan", "head", "tree", "status", "remote", "save"}
States == [task : Nat, steps : Nat, outcome : Outcomes, savedIn : Nat, evidence : Evidences]
Jobs == [step : Steps, loaded : States, outcome : Outcomes, clean : BOOLEAN,
         claim : Evidences, seen : Evidences]

CompletionTypeOK ==
    /\ head \in Commit /\ remote \in Commit /\ work \in Tree
    /\ turn \in Nat /\ tasks \in Nat /\ told \in Nat
    /\ running \in BOOLEAN /\ revived \in BOOLEAN /\ hook \in {"idle", "due", "saving"}
    /\ budget \in Bounds
    /\ state \in States /\ jobs \in [Command -> Jobs]

(* What CompletionEarned says of the evidence on file.                      *)
Earned(e) ==
    /\ e.head \in Ancestors[remote] \cup {remote}
    /\ e.base \in Ancestors[e.head]
    /\ e.disturbed \/ (TreeOf[e.head] = e.tree /\ e.plan = e.tree)

(* What a verification has looked at so far, as long as nothing disturbed   *)
(* it, is still what is there.                                              *)
Undisturbed(j) ==
    /\ j.step \in {"head", "tree", "status"} => j.seen.plan = work
    /\ j.step \in {"tree", "status"} => j.seen.head = head
    /\ j.step = "status" => j.seen.tree = TreeOf[head]
    /\ j.step = "remote" => /\ j.seen.tree = TreeOf[j.seen.head]
                            /\ j.clean => j.seen.plan = j.seen.tree

Verified(j) ==
    /\ j.step = "plan" => ~j.seen.managed
    /\ j.step \in {"head", "tree", "status", "remote"} => j.claim.base # j.claim.head
    /\ j.step \in {"head", "tree", "status", "remote"} => j.seen.disturbed \/ Undisturbed(j)
    /\ j.step = "save" /\ j.outcome = "complete" /\ j.seen.managed => Earned(j.seen)

(* A command works for a task, and what it loaded is no younger than the turn.*)
Loaded(j) == j.step # "idle" => j.loaded.task # NoTask /\ j.loaded.steps <= turn

(* The task on file is the one the turn was told, or a reset removed it, or a *)
(* command brought back an older one.                                       *)
OnFile ==
    /\ state.task = NoTask => state.outcome = "open"
    /\ state.steps <= turn
    /\ state.outcome = "complete" => state.steps <= state.savedIn /\ state.savedIn <= turn
    /\ running /\ hook = "idle" /\ told # NoTask => state.task \in {told, NoTask} \/ revived

CompletionInv ==
    /\ CompletionTypeOK
    /\ \A k \in Command : Verified(jobs[k]) /\ Loaded(jobs[k])
    /\ CompletionEarned
    /\ OnFile /\ TurnEndsOnItsOwn

(* The parts of the invariant that a step does not write keep their truth.   *)
FilePart == CompletionEarned /\ OnFile /\ TurnEndsOnItsOwn
JobsPart == \A k \in Command : Verified(jobs[k]) /\ Loaded(jobs[k])

\* At the start there is no task and no command.
LEMMA CompletionStart == CompletionInit => CompletionInv
<1> SUFFICES ASSUME CompletionInit PROVE CompletionInv
  OBVIOUS
<1> USE CompletionAssumption DEF CompletionInit
<1>1. NoEvidence \in Evidences
  BY DEF NoEvidence, Evidences, NoTree
<1>2. NoState \in States
  BY <1>1 DEF NoState, States, NoTask, Outcomes
<1>3. IdleJob \in Jobs
  BY <1>1, <1>2 DEF IdleJob, Jobs, Steps, Outcomes
<1>4. budget.at \in Commit
  BY DEF Bounds
<1>5. CompletionTypeOK
  BY <1>2, <1>3, <1>4 DEF CompletionTypeOK, NoTask
<1>6. ASSUME NEW k \in Command PROVE Verified(jobs[k]) /\ Loaded(jobs[k])
  BY DEF Verified, Loaded, IdleJob
<1>7. CompletionEarned /\ OnFile /\ TurnEndsOnItsOwn
  BY DEF CompletionEarned, OnFile, TurnEndsOnItsOwn, NoState, NoTask
<1> QED
  BY <1>5, <1>6, <1>7 DEF CompletionInv

\* A command that goes on, or ends, leaves the others as they were.
LEMMA SetsJob ==
  ASSUME CompletionInv, UNCHANGED <<work, head, remote, turn>>,
         NEW k \in Command, NEW next \in Jobs, Step(k, next), Verified(next), Loaded(next)
  PROVE  jobs' \in [Command -> Jobs] /\ JobsPart'
<1>1. jobs \in [Command -> Jobs]
  BY DEF CompletionInv, CompletionTypeOK
<1>2. jobs' = [jobs EXCEPT ![k] = next]
  BY DEF Step
<1>3. jobs' \in [Command -> Jobs]
  BY <1>1, <1>2
<1>4. ASSUME NEW i \in Command PROVE (Verified(jobs[i]) /\ Loaded(jobs[i]))'
  <2>1. Verified(jobs[i]) /\ Loaded(jobs[i])
    BY DEF CompletionInv
  <2>2. CASE i = k
    <3>1. jobs'[i] = next
      BY <1>1, <1>2, <2>2
    <3> QED
      BY <3>1 DEF Verified, Undisturbed, Earned, Loaded
  <2>3. CASE i # k
    <3>1. jobs'[i] = jobs[i]
      BY <1>1, <1>2, <2>3
    <3> QED
      BY <3>1, <2>1 DEF Verified, Undisturbed, Earned, Loaded
  <2> QED
    BY <2>2, <2>3
<1> QED
  BY <1>3, <1>4 DEF JobsPart

\* What is on file keeps its truth while nothing but commands moves.
LEMMA FileRests ==
  ASSUME CompletionInv, UNCHANGED loopVars, UNCHANGED remote
  PROVE  FilePart'
BY DEF CompletionInv, FilePart, CompletionEarned, OnFile, TurnEndsOnItsOwn, loopVars

\* What was earned stays earned when main of the remote goes on.
LEMMA RemoteAdvances ==
  ASSUME CompletionInv, NEW e, Earned(e), remote' \in Commit, remote' = remote \/ remote \in Ancestors[remote']
  PROVE  Earned(e)'
BY CompletionAssumption DEF CompletionInv, CompletionTypeOK, Earned

\* The typed fields of what a command has seen.
LEMMA SeenFields ==
  ASSUME CompletionInv, NEW k \in Command
  PROVE  /\ jobs[k] \in Jobs /\ jobs[k].seen \in Evidences /\ jobs[k].claim \in Evidences
         /\ jobs[k].loaded \in States
         /\ Verified(jobs[k]) /\ Loaded(jobs[k])
BY DEF CompletionInv, CompletionTypeOK, Jobs

\* The idle job is a job of nothing.
LEMMA IdleJobFits == IdleJob \in Jobs /\ Verified(IdleJob) /\ Loaded(IdleJob)
<1>1. NoEvidence \in Evidences
  BY DEF NoEvidence, Evidences, NoTree
<1>2. NoState \in States
  BY <1>1 DEF NoState, States, NoTask, Outcomes
<1>3. IdleJob \in Jobs
  BY <1>1, <1>2 DEF IdleJob, Jobs, Steps, Outcomes
<1> QED
  BY <1>3 DEF Verified, Loaded, IdleJob

\* A step of one command that moves nothing else.
LEMMA CommandKeeps ==
  ASSUME CompletionInv, UNCHANGED <<loopVars, repoVars>>, budget' \in Bounds,
         NEW k \in Command, NEW next \in Jobs, Step(k, next), Verified(next), Loaded(next)
  PROVE  CompletionInv'
<1>1. UNCHANGED <<work, head, remote, turn>>
  BY DEF repoVars, loopVars
<1>2. jobs' \in [Command -> Jobs] /\ JobsPart'
  BY <1>1, SetsJob
<1>3. FilePart'
  BY <1>1, FileRests
<1>4. CompletionTypeOK'
  BY <1>2 DEF CompletionInv, CompletionTypeOK, loopVars, repoVars
<1> QED
  BY <1>2, <1>3, <1>4 DEF CompletionInv, FilePart, JobsPart

\* A command begins with what is on file.
LEMMA MarkKeeps ==
  ASSUME CompletionInv, NEW k \in Command,
         (\E p \in budget.claims : MarkComplete(k, p)) \/ MarkBlocker(k)
  PROVE  CompletionInv'
<1>1. state \in States /\ state.task # NoTask /\ state.steps <= turn
  BY DEF CompletionInv, CompletionTypeOK, OnFile, MarkComplete, MarkBlocker
<1>2. budget' \in Bounds
  <2>1. budget \in Bounds /\ budget.calls > 0 /\ budget' = [budget EXCEPT !.calls = @ - 1]
    BY DEF CompletionInv, CompletionTypeOK, MarkComplete, MarkBlocker, Called
  <2>2. budget.calls - 1 \in Nat
    BY <2>1 DEF Bounds
  <2> QED
    BY <2>1, <2>2 DEF Bounds
<1>3. UNCHANGED <<loopVars, repoVars>>
  BY DEF MarkComplete, MarkBlocker
<1>4. NoEvidence \in Evidences
  BY DEF NoEvidence, Evidences, NoTree
<1>5. ASSUME NEW p \in budget.claims, MarkComplete(k, p) PROVE CompletionInv'
  <2>1. p \in [head : Commit, base : Commit, tree : Tree]
    BY DEF CompletionInv, CompletionTypeOK, Bounds
  <2> DEFINE proof == [NoEvidence EXCEPT !.head = p.head, !.base = p.base, !.tree = p.tree]
  <2>2. proof \in Evidences
    BY <2>1 DEF NoEvidence, Evidences, NoTree
  <2> HIDE DEF proof
  <2> DEFINE next == [IdleJob EXCEPT !.step = "plan", !.loaded = state, !.outcome = "complete", !.claim = proof]
  <2>3. next \in Jobs /\ next.step = "plan" /\ next.loaded = state /\ ~next.seen.managed
    BY <1>1, <1>4, <2>2 DEF Jobs, IdleJob, Steps, Outcomes, NoEvidence
  <2>4. Step(k, next)
    BY <1>5 DEF MarkComplete, proof
  <2>5. Verified(next) /\ Loaded(next)
    BY <1>1, <2>3 DEF Verified, Loaded
  <2> QED
    BY <1>2, <1>3, <2>3, <2>4, <2>5, CommandKeeps
<1>6. CASE MarkBlocker(k)
  <2> DEFINE next == [IdleJob EXCEPT !.step = "save", !.loaded = state, !.outcome = "blocked"]
  <2>3. next \in Jobs /\ next.step = "save" /\ next.loaded = state /\ next.outcome = "blocked"
    BY <1>1, <1>4 DEF Jobs, IdleJob, Steps, Outcomes
  <2>4. Step(k, next)
    BY <1>6 DEF MarkBlocker
  <2>5. Verified(next) /\ Loaded(next)
    BY <1>1, <2>3 DEF Verified, Loaded
  <2> QED
    BY <1>2, <1>3, <2>3, <2>4, <2>5, CommandKeeps
<1> QED
  BY <1>5, <1>6

\* A command that is refused or dies leaves nothing.
LEMMA DiesKeeps ==
  ASSUME CompletionInv, NEW k \in Command, Step(k, IdleJob), UNCHANGED <<loopVars, repoVars, budget>>
  PROVE  CompletionInv'
<1>1. budget' \in Bounds
  BY DEF CompletionInv, CompletionTypeOK
<1> QED
  BY <1>1, IdleJobFits, CommandKeeps

\* One observation after another: plan, HEAD, its tree.
LEMMA ReadKeeps ==
  ASSUME CompletionInv, NEW k \in Command, ReadPlan(k) \/ ReadHead(k) \/ ReadTree(k)
  PROVE  CompletionInv'
<1>1. UNCHANGED <<loopVars, repoVars, budget>>
  BY DEF ReadPlan, ReadHead, ReadTree
<1>2. budget' \in Bounds /\ head \in Commit /\ work \in Tree /\ TreeOf[head] \in Tree
  BY <1>1, CompletionAssumption DEF CompletionInv, CompletionTypeOK
<1> DEFINE j == jobs[k]
<1>3. j \in Jobs /\ j.seen \in Evidences /\ Verified(j) /\ Loaded(j)
  BY SeenFields
<1> HIDE DEF j
<1>4. CASE ReadPlan(k)
  <2>1. j.step = "plan"
    BY <1>4 DEF ReadPlan, j
  <2>2. CASE ~Managed(work)
    <3> DEFINE new == [j EXCEPT !.step = "save"]
    <3>1. new \in Jobs /\ new.step = "save" /\ new.loaded = j.loaded /\ new.seen = j.seen
      BY <1>3 DEF Jobs, Steps
    <3>2. Step(k, new)
      BY <1>4, <2>2 DEF ReadPlan, j
    <3>3. Verified(new) /\ Loaded(new)
      BY <1>3, <2>1, <3>1 DEF Verified, Loaded
    <3> QED
      BY <1>1, <1>2, <3>1, <3>2, <3>3, CommandKeeps
  <2>3. CASE Managed(work) /\ ~(PlanAccepts(work) /\ ParsePublicationProof(j.claim))
    <3>1. Step(k, IdleJob)
      BY <1>4, <2>3 DEF ReadPlan, j
    <3> QED
      BY <1>1, <3>1, DiesKeeps
  <2>4. CASE Managed(work) /\ PlanAccepts(work) /\ ParsePublicationProof(j.claim)
    <3> DEFINE seen == [j.seen EXCEPT !.managed = TRUE, !.plan = work]
               new == [j EXCEPT !.step = "head", !.seen = seen]
    <3>1. seen \in Evidences /\ seen.plan = work
      BY <1>2, <1>3 DEF Evidences
    <3>2. Step(k, new)
      BY <1>4, <2>4 DEF ReadPlan, j
    <3> HIDE DEF seen
    <3>3. new \in Jobs /\ new.step = "head" /\ new.seen = seen /\ new.claim = j.claim /\ new.loaded = j.loaded
      BY <1>3, <3>1 DEF Jobs, Steps
    <3> HIDE DEF new
    <3>4. Verified(new) /\ Loaded(new)
      BY <1>3, <2>1, <2>4, <3>1, <3>3 DEF Verified, Undisturbed, Loaded, ParsePublicationProof
    <3> QED
      BY <1>1, <1>2, <3>2, <3>3, <3>4, CommandKeeps
  <2> QED
    BY <2>2, <2>3, <2>4
<1>5. CASE ReadHead(k)
  <2> DEFINE seen == [j.seen EXCEPT !.head = head]
             new == [j EXCEPT !.step = "tree", !.seen = seen]
  <2>1. j.step = "head" /\ Step(k, new)
    BY <1>5 DEF ReadHead, j
  <2>2. seen \in Evidences /\ seen.plan = j.seen.plan /\ seen.head = head /\ seen.disturbed = j.seen.disturbed
    BY <1>2, <1>3 DEF Evidences
  <2> HIDE DEF seen
  <2>3. new \in Jobs /\ new.step = "tree" /\ new.seen = seen /\ new.claim = j.claim /\ new.loaded = j.loaded
    BY <1>3, <2>2 DEF Jobs, Steps
  <2> HIDE DEF new
  <2>4. Verified(new) /\ Loaded(new)
    BY <1>3, <2>1, <2>2, <2>3 DEF Verified, Undisturbed, Loaded
  <2> QED
    BY <1>1, <1>2, <2>1, <2>3, <2>4, CommandKeeps
<1>6. CASE ReadTree(k)
  <2> DEFINE seen == [j.seen EXCEPT !.tree = TreeOf[head]]
             new == [j EXCEPT !.step = "status", !.seen = seen]
  <2>1. j.step = "tree" /\ Step(k, new)
    BY <1>6 DEF ReadTree, j
  <2>2. /\ seen \in Evidences /\ seen.plan = j.seen.plan /\ seen.head = j.seen.head
        /\ seen.disturbed = j.seen.disturbed /\ seen.tree = TreeOf[head]
    BY <1>2, <1>3 DEF Evidences
  <2> HIDE DEF seen
  <2>3. new \in Jobs /\ new.step = "status" /\ new.seen = seen /\ new.claim = j.claim /\ new.loaded = j.loaded
    BY <1>3, <2>2 DEF Jobs, Steps
  <2> HIDE DEF new
  <2>4. Verified(new) /\ Loaded(new)
    BY <1>3, <2>1, <2>2, <2>3 DEF Verified, Undisturbed, Loaded
  <2> QED
    BY <1>1, <1>2, <2>1, <2>3, <2>4, CommandKeeps
<1> QED
  BY <1>4, <1>5, <1>6

\* The last looks: the status of the working tree and main of the remote.
LEMMA LookKeeps ==
  ASSUME CompletionInv, NEW k \in Command, ReadStatus(k) \/ ReadRemote(k)
  PROVE  CompletionInv'
<1>1. UNCHANGED <<loopVars, repoVars, budget>>
  BY DEF ReadStatus, ReadRemote
<1>2. budget' \in Bounds /\ head \in Commit /\ remote \in Commit
  BY <1>1 DEF CompletionInv, CompletionTypeOK
<1> DEFINE j == jobs[k]
<1>3. j \in Jobs /\ j.seen \in Evidences /\ j.claim \in Evidences /\ Verified(j) /\ Loaded(j)
  BY SeenFields
<1> HIDE DEF j
<1>4. CASE ReadStatus(k)
  <2> DEFINE new == [j EXCEPT !.step = "remote", !.clean = Clean]
  <2>1. j.step = "status" /\ Step(k, new)
    BY <1>4 DEF ReadStatus, j
  <2>2. Clean \in BOOLEAN
    BY DEF Clean
  <2>3. new \in Jobs /\ new.step = "remote" /\ new.seen = j.seen /\ new.claim = j.claim /\ new.loaded = j.loaded
    BY <1>3, <2>2 DEF Jobs, Steps
  <2>4. new.clean => work = TreeOf[head]
    BY <1>3 DEF Jobs, Clean
  <2> HIDE DEF new
  <2>5. Verified(new) /\ Loaded(new)
    BY <1>3, <2>1, <2>3, <2>4 DEF Verified, Undisturbed, Loaded
  <2> QED
    BY <1>1, <1>2, <2>1, <2>3, <2>5, CommandKeeps
<1>5. CASE ReadRemote(k)
  <2>1. j.step = "remote"
    BY <1>5 DEF ReadRemote, j
  <2>2. CASE ~Validates(j, remote)
    <3>1. Step(k, IdleJob)
      BY <1>5, <2>2 DEF ReadRemote, j
    <3> QED
      BY <1>1, <3>1, DiesKeeps
  <2>3. CASE Validates(j, remote)
    <3> DEFINE seen == [j.seen EXCEPT !.base = j.claim.base]
               new == [j EXCEPT !.step = "save", !.seen = seen]
    <3>1. Step(k, new)
      BY <1>5, <2>3 DEF ReadRemote, j
    <3>2. j.claim.base \in Commit \cup {0}
      BY <1>3 DEF Evidences
    <3>3. /\ seen \in Evidences /\ seen.plan = j.seen.plan /\ seen.head = j.seen.head
          /\ seen.disturbed = j.seen.disturbed /\ seen.tree = j.seen.tree /\ seen.base = j.claim.base
      BY <1>3, <3>2 DEF Evidences
    <3> HIDE DEF seen
    <3>4. new \in Jobs /\ new.step = "save" /\ new.seen = seen /\ new.loaded = j.loaded
      BY <1>3, <3>3 DEF Jobs, Steps
    <3> HIDE DEF new
    <3>5. seen.head = remote /\ seen.base \in Ancestors[seen.head]
      BY <1>3, <2>1, <2>3, <3>3 DEF Validates, Verified
    <3>6. seen.disturbed \/ (TreeOf[seen.head] = seen.tree /\ seen.plan = seen.tree)
      BY <1>3, <2>1, <2>3, <3>3 DEF Validates, Verified, Undisturbed
    <3>7. Verified(new) /\ Loaded(new)
      BY <1>3, <2>1, <3>4, <3>5, <3>6 DEF Verified, Loaded, Earned
    <3> QED
      BY <1>1, <1>2, <3>1, <3>4, <3>7, CommandKeeps
  <2> QED
    BY <2>2, <2>3
<1> QED
  BY <1>4, <1>5

\* Whatever is on file by now, what is written was earned, and the task it is
\* for is the one that was there or marks the file as revived.
LEMMA SaveKeeps == ASSUME CompletionInv, NEW k \in Command, SaveState(k) PROVE CompletionInv'
<1> DEFINE j == jobs[k]
<1>1. j \in Jobs /\ j.seen \in Evidences /\ j.loaded \in States /\ Verified(j) /\ Loaded(j) /\ j.step = "save"
  BY SeenFields DEF SaveState
<1>2. Step(k, IdleJob) /\ UNCHANGED <<turn, running, hook, told, tasks, repoVars, budget>>
  BY DEF SaveState
<1>3. revived' = (revived \/ j.loaded.task # state.task)
  BY DEF SaveState
<1> DEFINE evidence == IF j.outcome = "complete" THEN j.seen ELSE j.loaded.evidence
<1>4. evidence \in Evidences
  BY <1>1 DEF States
<1>5. state' = [j.loaded EXCEPT !.outcome = j.outcome, !.savedIn = turn, !.evidence = evidence]
  BY <1>1 DEF SaveState, States
<1>6. j.outcome = "complete" => evidence = j.seen
  OBVIOUS
<1> HIDE DEF j, evidence
<1>7. turn \in Nat /\ turn' = turn /\ j.outcome \in Outcomes
  BY <1>1, <1>2 DEF CompletionInv, CompletionTypeOK, Jobs
<1>8. /\ state' \in States /\ state'.task = j.loaded.task /\ state'.steps = j.loaded.steps
      /\ state'.outcome = j.outcome /\ state'.savedIn = turn /\ state'.evidence = evidence
  BY <1>1, <1>4, <1>5, <1>7 DEF States
<1>9. UNCHANGED <<work, head, remote, turn>>
  BY <1>2 DEF repoVars
<1>10. jobs' \in [Command -> Jobs] /\ JobsPart'
  BY <1>2, <1>9, IdleJobFits, SetsJob
<1>11. revived' \in BOOLEAN
  BY <1>3 DEF CompletionInv, CompletionTypeOK
<1>12. CompletionTypeOK'
  BY <1>2, <1>8, <1>10, <1>11 DEF CompletionInv, CompletionTypeOK, repoVars
<1>13. CompletionEarned'
  BY <1>1, <1>6, <1>8, <1>9 DEF CompletionEarned, Verified, Earned
<1>14. state'.task # NoTask /\ state'.steps <= turn
  BY <1>1, <1>8 DEF Loaded
<1>15. revived' \/ state'.task = state.task
  BY <1>3, <1>8
<1>16. revived => revived'
  BY <1>3
<1>17. OnFile'
  BY <1>2, <1>7, <1>8, <1>14, <1>15, <1>16 DEF CompletionInv, OnFile
<1>18. TurnEndsOnItsOwn'
  BY <1>2, <1>7, <1>8, <1>14, <1>15, <1>16 DEF CompletionInv, OnFile, TurnEndsOnItsOwn
<1> QED
  BY <1>10, <1>12, <1>13, <1>17, <1>18 DEF CompletionInv, JobsPart

\* A reset leaves no completion behind.
LEMMA ResetKeeps == ASSUME CompletionInv, ResetState PROVE CompletionInv'
<1>1. state' = NoState /\ UNCHANGED <<turn, running, hook, told, tasks, revived, jobs, repoVars>>
  BY DEF ResetState
<1>2. budget' \in Bounds
  <2>1. budget \in Bounds /\ budget.calls > 0 /\ budget' = [budget EXCEPT !.calls = @ - 1]
    BY DEF CompletionInv, CompletionTypeOK, ResetState, Called
  <2>2. budget.calls - 1 \in Nat
    BY <2>1 DEF Bounds
  <2> QED
    BY <2>1, <2>2 DEF Bounds
<1>3. NoState \in States /\ NoState.task = NoTask /\ NoState.steps = 0 /\ NoState.outcome = "open"
  BY DEF NoState, States, NoTask, Outcomes, NoEvidence, Evidences, NoTree
<1>4. CompletionTypeOK'
  BY <1>1, <1>2, <1>3 DEF CompletionInv, CompletionTypeOK, repoVars
<1>5. JobsPart'
  BY <1>1 DEF CompletionInv, JobsPart, Verified, Undisturbed, Earned, Loaded, repoVars
<1>6. turn \in Nat /\ turn' = turn
  BY <1>1 DEF CompletionInv, CompletionTypeOK
<1>7. FilePart'
  BY <1>1, <1>3, <1>6 DEF FilePart, CompletionEarned, OnFile, TurnEndsOnItsOwn
<1> QED
  BY <1>4, <1>5, <1>7 DEF CompletionInv, JobsPart, FilePart

\* The hooks: a turn begins, is told its task, ends or goes on.
LEMMA TurnKeeps ==
  ASSUME CompletionInv,
         UserTurn \/ EnsureTaskState \/ SaveNewTask \/ HookFails \/ HandleLoopStop \/ StopAnyway
  PROVE  CompletionInv'
<1>1. UNCHANGED <<jobs, repoVars, budget>>
  BY DEF UserTurn, EnsureTaskState, SaveNewTask, HookFails, HandleLoopStop, StopAnyway
<1>2. turn \in Nat /\ turn' \in Nat /\ turn <= turn'
  BY DEF CompletionInv, CompletionTypeOK, UserTurn, EnsureTaskState, SaveNewTask, HookFails, HandleLoopStop,
         StopAnyway
<1>3. JobsPart'
  <2> SUFFICES ASSUME NEW k \in Command PROVE (Verified(jobs[k]) /\ Loaded(jobs[k]))'
    BY DEF JobsPart
  <2>1. Verified(jobs[k]) /\ Loaded(jobs[k]) /\ jobs[k].loaded \in States
    BY SeenFields
  <2>2. jobs[k].loaded.steps \in Nat
    BY <2>1 DEF States
  <2> QED
    BY <1>1, <1>2, <2>1, <2>2 DEF Verified, Undisturbed, Earned, Loaded, repoVars
<1>4. /\ state \in States /\ state.task \in Nat /\ state.steps \in Nat /\ state.savedIn \in Nat
      /\ tasks \in Nat /\ told \in Nat
  BY DEF CompletionInv, CompletionTypeOK, States
<1>5. CASE UserTurn
  <2>1. turn' = turn + 1 /\ running' = TRUE /\ hook' = "due" /\ UNCHANGED <<state, told, tasks, revived>>
    BY <1>5 DEF UserTurn
  <2>2. CompletionTypeOK'
    BY <1>1, <1>2, <2>1 DEF CompletionInv, CompletionTypeOK, repoVars
  <2>3. FilePart'
    BY <1>1, <1>2, <1>4, <2>1
    DEF CompletionInv, FilePart, CompletionEarned, OnFile, TurnEndsOnItsOwn, repoVars
  <2> QED
    BY <1>3, <2>2, <2>3 DEF CompletionInv, JobsPart, FilePart
<1>6. CASE EnsureTaskState
  <2>1. UNCHANGED <<state, turn, running, tasks, revived>>
    BY <1>6 DEF EnsureTaskState
  <2>2. CASE Keeps
    <3>1. hook' = "idle" /\ told' = state.task /\ state.task # NoTask
      BY <1>6, <2>2 DEF EnsureTaskState, Keeps
    <3>2. CompletionTypeOK'
      BY <1>1, <1>4, <2>1, <3>1 DEF CompletionInv, CompletionTypeOK, repoVars
    <3>3. state.outcome = "complete" => state.savedIn = turn
      BY <1>2, <1>4, <2>2 DEF CompletionInv, OnFile, Keeps
    <3>4. FilePart'
      BY <1>1, <2>1, <3>1, <3>3
      DEF CompletionInv, FilePart, CompletionEarned, OnFile, TurnEndsOnItsOwn, repoVars
    <3> QED
      BY <1>3, <3>2, <3>4 DEF CompletionInv, JobsPart, FilePart
  <2>3. CASE ~Keeps
    <3>1. hook' = "saving" /\ told' = told
      BY <1>6, <2>3 DEF EnsureTaskState
    <3>2. CompletionTypeOK'
      BY <1>1, <2>1, <3>1 DEF CompletionInv, CompletionTypeOK, repoVars
    <3>3. FilePart'
      BY <1>1, <2>1, <3>1
      DEF CompletionInv, FilePart, CompletionEarned, OnFile, TurnEndsOnItsOwn, repoVars
    <3> QED
      BY <1>3, <3>2, <3>3 DEF CompletionInv, JobsPart, FilePart
  <2> QED
    BY <2>2, <2>3
<1>7. CASE SaveNewTask
  <2>1. /\ tasks' = tasks + 1 /\ told' = tasks' /\ hook' = "idle" /\ revived' = FALSE
        /\ state' = [NoState EXCEPT !.task = tasks', !.steps = turn] /\ UNCHANGED <<turn, running>>
    BY <1>7 DEF SaveNewTask
  <2>2. NoState \in States /\ NoState.outcome = "open"
    BY DEF NoState, States, NoTask, Outcomes, NoEvidence, Evidences, NoTree
  <2>6. tasks' \in Nat /\ told' \in Nat
    BY <1>4, <2>1
  <2>3. state' \in States /\ state'.task = told' /\ state'.steps = turn /\ state'.outcome = "open"
    BY <1>2, <2>1, <2>2, <2>6 DEF States
  <2>4. CompletionTypeOK'
    BY <1>1, <2>1, <2>3, <2>6 DEF CompletionInv, CompletionTypeOK, repoVars
  <2>5. FilePart'
    BY <1>1, <1>2, <1>4, <2>1, <2>3
    DEF CompletionInv, FilePart, CompletionEarned, OnFile, TurnEndsOnItsOwn, repoVars, NoTask
  <2> QED
    BY <1>3, <2>4, <2>5 DEF CompletionInv, JobsPart, FilePart
<1>8. CASE HookFails
  <2>1. hook' = "idle" /\ told' = NoTask /\ UNCHANGED <<state, turn, running, tasks, revived>>
    BY <1>8 DEF HookFails
  <2>4. told' \in Nat
    BY <2>1 DEF NoTask
  <2>2. CompletionTypeOK'
    BY <1>1, <2>1, <2>4 DEF CompletionInv, CompletionTypeOK, repoVars
  <2>3. FilePart'
    BY <1>1, <2>1 DEF CompletionInv, FilePart, CompletionEarned, OnFile, TurnEndsOnItsOwn, repoVars
  <2> QED
    BY <1>3, <2>2, <2>3 DEF CompletionInv, JobsPart, FilePart
<1>9. CASE HandleLoopStop \/ StopAnyway
  <2>1. /\ UNCHANGED <<state, turn, told, tasks, revived>> /\ running' \in BOOLEAN
        /\ hook' \in {"idle", "due", "saving"}
    BY <1>9 DEF HandleLoopStop, StopAnyway, CompletionInv, CompletionTypeOK
  <2>4. running' => hook' = "due"
    BY <1>9 DEF HandleLoopStop, StopAnyway
  <2>2. CompletionTypeOK'
    BY <1>1, <2>1 DEF CompletionInv, CompletionTypeOK, repoVars
  <2>3. FilePart'
    BY <1>1, <2>1, <2>4 DEF CompletionInv, FilePart, CompletionEarned, OnFile, TurnEndsOnItsOwn, repoVars
  <2> QED
    BY <1>3, <2>2, <2>3 DEF CompletionInv, JobsPart, FilePart
<1> QED
  BY <1>5, <1>6, <1>7, <1>8, <1>9

\* What changes HEAD or the working tree marks every verification under way.
LEMMA DisturbKeeps ==
  ASSUME CompletionInv, Disturb, UNCHANGED <<loopVars, remote>>, budget' \in Bounds,
         head' \in Commit, work' \in Tree
  PROVE  CompletionInv'
<1>1. jobs \in [Command -> Jobs]
  BY DEF CompletionInv, CompletionTypeOK
<1>2. ASSUME NEW k \in Command PROVE jobs'[k] \in Jobs /\ (Verified(jobs[k]) /\ Loaded(jobs[k]))'
  <2> DEFINE j == jobs[k]
             seen == [j.seen EXCEPT !.disturbed = TRUE]
  <2>1. j \in Jobs /\ j.seen \in Evidences /\ Verified(j) /\ Loaded(j)
    BY SeenFields
  <2>2. turn' = turn /\ remote' = remote
    BY DEF loopVars
  <2>3. CASE j.step \in {"head", "tree", "status"}
    <3>1. jobs'[k] = [j EXCEPT !.seen = seen]
      BY <2>3 DEF Disturb
    <3>2. seen \in Evidences /\ seen.disturbed
      BY <2>1 DEF Evidences
    <3> HIDE DEF j, seen
    <3>3. /\ jobs'[k] \in Jobs /\ jobs'[k].step = j.step /\ jobs'[k].seen = seen /\ jobs'[k].claim = j.claim
          /\ jobs'[k].loaded = j.loaded
      BY <2>1, <3>1, <3>2 DEF Jobs
    <3> QED
      BY <2>1, <2>2, <2>3, <3>2, <3>3 DEF Verified, Loaded
  <2>4. CASE j.step \notin {"head", "tree", "status"}
    <3>1. jobs'[k] = j
      BY <2>4 DEF Disturb
    <3> HIDE DEF j
    <3> QED
      BY <2>1, <2>2, <2>4, <3>1 DEF Verified, Undisturbed, Earned, Loaded
  <2> QED
    BY <2>3, <2>4
<1>3. jobs' \in [Command -> Jobs]
  <2>1. jobs' = [k \in Command |-> jobs'[k]]
    BY DEF Disturb
  <2> QED
    BY <1>2, <2>1
<1>4. CompletionTypeOK'
  BY <1>3 DEF CompletionInv, CompletionTypeOK, loopVars
<1>5. FilePart'
  BY FileRests
<1> QED
  BY <1>2, <1>4, <1>5 DEF CompletionInv, FilePart

\* Main of the remote only goes on.
LEMMA RemoteKeeps ==
  ASSUME CompletionInv, UNCHANGED <<loopVars, head, work, jobs>>, budget' \in Bounds,
         remote' \in Commit, remote' = remote \/ remote \in Ancestors[remote']
  PROVE  CompletionInv'
<1>1. CompletionTypeOK'
  BY DEF CompletionInv, CompletionTypeOK, loopVars
<1>2. ASSUME NEW k \in Command PROVE (Verified(jobs[k]) /\ Loaded(jobs[k]))'
  <2>1. Verified(jobs[k]) /\ Loaded(jobs[k])
    BY SeenFields
  <2>2. UNCHANGED <<turn, head, work, jobs>>
    BY DEF loopVars
  <2>3. Earned(jobs[k].seen) => Earned(jobs[k].seen)'
    <3> DEFINE e == jobs[k].seen
    <3>1. ASSUME NEW x, Earned(x), x = e PROVE Earned(e)'
      <4>1. Earned(x)'
        BY <3>1, RemoteAdvances
      <4> QED
        BY <2>2, <3>1, <4>1 DEF Earned
    <3> QED
      BY <3>1
  <2> QED
    BY <2>1, <2>2, <2>3 DEF Verified, Undisturbed, Loaded
<1>3. CompletionEarned'
  <2>1. ASSUME NEW x, Earned(x), x = state.evidence PROVE Earned(state.evidence)'
    <3>1. Earned(x)'
      BY <2>1, RemoteAdvances
    <3> QED
      BY <2>1, <3>1 DEF Earned, loopVars
  <2> QED
    BY <2>1 DEF CompletionInv, CompletionEarned, Earned, loopVars
<1>4. OnFile' /\ TurnEndsOnItsOwn'
  BY DEF CompletionInv, OnFile, TurnEndsOnItsOwn, loopVars
<1> QED
  BY <1>1, <1>2, <1>3, <1>4 DEF CompletionInv

\* Agents, the coordinator and the publisher move the repository.
LEMMA RepositoryKeeps ==
  ASSUME CompletionInv,
         \/ \E t \in Tree : EditFiles(t) \/ ApplyAndVerify(t) \/ CopyFiles(t)
         \/ \E c \in Commit : CommitWork(c) \/ Checkout(c) \/ Push(c)
         \/ CopyFails \/ Publish \/ CheckHead \/ PublisherPushes
  PROVE  CompletionInv'
<1>1. budget \in Bounds /\ head \in Commit /\ work \in Tree /\ remote \in Commit
  BY DEF CompletionInv, CompletionTypeOK
<1>2. Moves => budget' \in Bounds
  <2> SUFFICES ASSUME Moves PROVE budget' \in Bounds
    OBVIOUS
  <2>1. budget.moves > 0 /\ budget' = [budget EXCEPT !.moves = @ - 1]
    BY DEF Moves
  <2>2. budget.moves - 1 \in Nat
    BY <1>1, <2>1 DEF Bounds
  <2> QED
    BY <1>1, <2>1, <2>2 DEF Bounds
<1>3. ASSUME NEW t \in Tree, EditFiles(t) \/ CopyFiles(t) PROVE CompletionInv'
  <2>1. Moves /\ Disturb /\ work' = t /\ UNCHANGED <<loopVars, head, remote>>
    BY <1>3 DEF EditFiles, CopyFiles
  <2> QED
    BY <1>1, <1>2, <2>1, DisturbKeeps
<1>4. ASSUME NEW c \in Commit, CommitWork(c) PROVE CompletionInv'
  <2>1. Moves /\ Disturb /\ head' = c /\ UNCHANGED <<loopVars, work, remote>>
    BY <1>4 DEF CommitWork
  <2> QED
    BY <1>1, <1>2, <2>1, DisturbKeeps
<1>5. ASSUME NEW c \in Commit, Checkout(c) PROVE CompletionInv'
  <2>1. Moves /\ Disturb /\ head' = c /\ work' = TreeOf[c] /\ UNCHANGED <<loopVars, remote>>
    BY <1>5 DEF Checkout
  <2>2. TreeOf[c] \in Tree
    BY CompletionAssumption
  <2> QED
    BY <1>1, <1>2, <2>1, <2>2, DisturbKeeps
<1>6. ASSUME NEW c \in Commit, Push(c) PROVE CompletionInv'
  <2>1. Moves /\ remote' = c /\ remote \in Ancestors[c] /\ UNCHANGED <<loopVars, head, work, jobs>>
    BY <1>6 DEF Push
  <2> QED
    BY <1>2, <2>1, RemoteKeeps
<1>7. ASSUME NEW t \in Tree, ApplyAndVerify(t) PROVE CompletionInv'
  <2>1. Moves /\ UNCHANGED <<loopVars, head, work, remote, jobs>>
    BY <1>7 DEF ApplyAndVerify
  <2> QED
    BY <1>1, <1>2, <2>1, RemoteKeeps
<1>8. CASE CopyFails \/ CheckHead
  <2>1. UNCHANGED <<loopVars, head, work, remote, jobs, budget>>
    BY <1>8 DEF CopyFails, CheckHead
  <2> QED
    BY <1>1, <2>1, RemoteKeeps
<1>9. CASE Publish
  <2>1. Moves /\ UNCHANGED <<loopVars, head, work, remote, jobs>>
    BY <1>9 DEF Publish
  <2> QED
    BY <1>1, <1>2, <2>1, RemoteKeeps
<1>10. CASE PublisherPushes
  <2>1. /\ remote' = IF remote \in Ancestors[head] THEN head ELSE remote
        /\ UNCHANGED <<loopVars, head, work, jobs, budget>>
    BY <1>10 DEF PublisherPushes
  <2>2. remote' \in Commit /\ (remote' = remote \/ remote \in Ancestors[remote'])
    BY <1>1, <2>1
  <2> QED
    BY <1>1, <2>1, <2>2, RemoteKeeps
<1> QED
  BY <1>3, <1>4, <1>5, <1>6, <1>7, <1>8, <1>9, <1>10

\* Every step keeps the invariant.
LEMMA CompletionStep == CompletionInv /\ [CompletionNext]_completionVars => CompletionInv'
<1> SUFFICES ASSUME CompletionInv, [CompletionNext]_completionVars PROVE CompletionInv'
  OBVIOUS
<1>1. CASE UserTurn \/ EnsureTaskState \/ SaveNewTask \/ HookFails \/ HandleLoopStop \/ StopAnyway
  BY <1>1, TurnKeeps
<1>2. ASSUME NEW k \in Command, \E p \in budget.claims : MarkComplete(k, p) PROVE CompletionInv'
  BY <1>2, MarkKeeps
<1>3. ASSUME NEW k \in Command, MarkBlocker(k) PROVE CompletionInv'
  BY <1>3, MarkKeeps
<1>4. ASSUME NEW k \in Command, ReadPlan(k) \/ ReadHead(k) \/ ReadTree(k) PROVE CompletionInv'
  BY <1>4, ReadKeeps
<1>5. ASSUME NEW k \in Command, ReadStatus(k) \/ ReadRemote(k) PROVE CompletionInv'
  BY <1>5, LookKeeps
<1>6. ASSUME NEW k \in Command, SaveState(k) PROVE CompletionInv'
  BY <1>6, SaveKeeps
<1>7. ASSUME NEW k \in Command, CommandDies(k) PROVE CompletionInv'
  BY <1>7, DiesKeeps DEF CommandDies
<1>8. CASE ResetState
  BY <1>8, ResetKeeps
<1>9. CASE \/ \E t \in Tree : EditFiles(t) \/ ApplyAndVerify(t) \/ CopyFiles(t)
           \/ \E c \in Commit : CommitWork(c) \/ Checkout(c) \/ Push(c)
           \/ CopyFails \/ Publish \/ CheckHead \/ PublisherPushes
  BY <1>9, RepositoryKeeps
<1>10. CASE UNCHANGED completionVars
  <2>1. UNCHANGED <<loopVars, head, work, remote, jobs, budget>> /\ budget \in Bounds /\ remote \in Commit
    BY <1>10 DEF completionVars, repoVars, CompletionInv, CompletionTypeOK
  <2> QED
    BY <2>1, RemoteKeeps
<1> QED
  BY <1>1, <1>2, <1>3, <1>4, <1>5, <1>6, <1>7, <1>8, <1>9, <1>10 DEF CompletionNext

\* A managed completion on file is earned: it names a commit that is on main of
\* the remote and, unless the repository moved under the verification, whose tree
\* is the qualified one with the plan that was judged (state.go, publication.go).
THEOREM CompletionIsEarned == CompletionSpec => []CompletionEarned
<1>1. CompletionInv => CompletionEarned
  BY DEF CompletionInv
<1> QED
  BY CompletionStart, CompletionStep, <1>1, PTL DEF CompletionSpec

\* A turn never ends on the completion an earlier turn left on file, unless a
\* command brought an earlier task back (loop hooks, state.go).
THEOREM EndsOnItsOwn == CompletionSpec => []TurnEndsOnItsOwn
<1>1. CompletionInv => TurnEndsOnItsOwn
  BY DEF CompletionInv
<1> QED
  BY CompletionStart, CompletionStep, <1>1, PTL DEF CompletionSpec

----------------------------------------------------------------------------
(* The account switch and the reconciler.                                  *)
SwitchSpec == SwitchInit /\ [][SwitchNext]_switchVars

AnyAccount == Account \cup {""}
Desired == {"READY", "PAUSED"}
Talks == Session \X Nat
SessionRows == [desired : Desired, account : AnyAccount, talk : Nat,
                observed : {"CLOSED", "READY", "RUNNING", "PAUSED", "DEGRADED", "NEEDS_ATTENTION"}]
CockpitRows == [account : AnyAccount, state : {"running", "stopped", "gone"}, start : Nat]
MirrorRows == [account : AnyAccount, desired : {"RUNNING", "STOPPED"},
               observed : {"READY", "STOPPED", "DEGRADED"}, start : Nat]
SavedRows == [id : Session, was : SessionRows]
Verdicts == {"", "EACH", "KEPT", "DEGRADED", "NEEDS_ATTENTION"}
Switches == [pc : {"idle", "checkpoint", "stopped", "bound", "starting", "started", "failing",
                   "continuing", "created", "sent", "recorded", "moved"},
             target : AnyAccount, ran : BOOLEAN, saved : SUBSET SavedRows, left : SUBSET Session,
             next : Talks \cup {<<>>}]
Passes == [pc : {"idle", "mirrors", "cockpit", "sessions", "writing"},
           mirror : SUBSET MirrorRows, actual : SUBSET CockpitRows,
           read : SUBSET [id : Session, desired : Desired], verdict : Verdicts,
           seen : [talks : SUBSET Talks, folders : SUBSET Session], left : SUBSET Session]

SwitchTypeOK ==
  /\ cockpit \in CockpitRows /\ mirror \in MirrorRows /\ session \in [Session -> SessionRows]
  /\ talks \subseteq Talks /\ carried \subseteq Talks /\ folders \subseteq Session /\ live \in Nat
  /\ switch \in Switches /\ pass \in Passes
  /\ calm \in BOOLEAN /\ reported \in BOOLEAN

(* A conversation is on record only after its checkpoint was sent to it.    *)
Carried == \A s \in Session : session[s].talk = 0 \/ Talk(s) \in carried

NextTalk ==
  /\ switch.pc \in {"created", "sent", "recorded", "moved"} => switch.next \in Talks
  /\ switch.pc = "sent" => switch.next \in carried

(* The sessions that are open stay so; past the checkpoints the switch has   *)
(* saved every one of them.                                                 *)
Ids(saved) == {r.id : r \in saved}

SavesAll ==
  /\ Ids(switch.saved) \subseteq Open
  /\ switch.pc = "checkpoint" => Open = Ids(switch.saved) \cup switch.left
  /\ switch.pc \notin {"idle", "checkpoint"} => Open \subseteq Ids(switch.saved)

(* An instance is meant to be stopped only if nobody has a session in it.   *)
StoppedIsUnused ==
  Open = {} \/ (mirror.desired = "RUNNING" /\ \A m \in pass.mirror : m.desired = "RUNNING")

(* What a pass has read is still so while nothing else moves.               *)
ShownAs(s) == session[s].observed \in {"READY", "RUNNING", "PAUSED"}
InstanceRuns ==
  /\ Reachable
  /\ mirror = [account |-> cockpit.account, desired |-> "RUNNING", observed |-> "READY", start |-> cockpit.start]
Runs(s) == InstanceRuns /\ Talk(s) \in talks /\ s \in folders

CalmPass ==
  /\ pass.pc \in {"mirrors", "cockpit", "sessions"} => pass.mirror = {mirror}
  /\ pass.pc \in {"cockpit", "sessions"} => pass.actual = {cockpit}
  /\ pass.pc = "sessions" => pass.left = Open
  /\ pass.pc = "writing" =>
       /\ \A s \in Open \ pass.left : ShownAs(s) => Runs(s)
       /\ pass.verdict = "EACH" => pass.seen = [talks |-> talks, folders |-> folders] /\ (Open = {} \/ InstanceRuns)

PassTells ==
  /\ pass.left \subseteq Open
  /\ pass.pc = "writing" => pass.verdict # "" /\ (pass.verdict = "KEPT" => pass.left = {})

SwitchInv ==
  /\ SwitchTypeOK
  /\ Carried /\ NextTalk
  /\ SavesAll /\ StoppedIsUnused
  /\ PassTells
  /\ calm => CalmPass
  /\ reported => pass.pc = "idle" /\ (\A s \in Open : ShownAs(s) => Runs(s))

\* The idle switch and the idle pass.
LEMMA NothingUnderWay == NoSwitch \in Switches /\ NoPass \in Passes
BY DEF NoSwitch, NoPass, Switches, Passes, Talks, AnyAccount, Verdicts

\* At the start the sessions run in their first conversations.
LEMMA SwitchStart == SwitchInit => SwitchInv
<1> SUFFICES ASSUME SwitchInit PROVE SwitchInv
  OBVIOUS
<1> DEFINE a == CHOOSE x \in Account : TRUE
<1>1. a \in Account
  BY SwitchAssumption
<1> HIDE DEF a
<1>2. PICK some \in {{}, Session} :
        /\ cockpit = [account |-> a, state |-> "running", start |-> 1]
        /\ mirror = [account |-> a, desired |-> "RUNNING", observed |-> "READY", start |-> 1]
        /\ session = [s \in Session |-> IF s \in some
                        THEN [NoSession EXCEPT !.observed = "READY", !.account = a] ELSE NoSession]
        /\ talks = some \X {0}
        /\ folders = some
  BY DEF SwitchInit, a
<1>3. carried = {} /\ live = 1 /\ switch = NoSwitch /\ pass = NoPass /\ calm = FALSE /\ reported = FALSE
  BY DEF SwitchInit
<1>4. session \in [Session -> SessionRows] /\ \A s \in Session : session[s].talk = 0
  BY <1>1, <1>2 DEF NoSession, SessionRows, Desired, AnyAccount
<1>5. cockpit \in CockpitRows /\ mirror \in MirrorRows /\ mirror.desired = "RUNNING"
  BY <1>1, <1>2 DEF CockpitRows, MirrorRows, AnyAccount
<1>6. talks \subseteq Talks /\ folders \subseteq Session
  BY <1>2 DEF Talks
<1>7. SwitchTypeOK
  BY <1>3, <1>4, <1>5, <1>6, NothingUnderWay DEF SwitchTypeOK
<1>8. Carried /\ NextTalk /\ SavesAll /\ StoppedIsUnused
  BY <1>3, <1>4, <1>5 DEF Carried, NextTalk, SavesAll, StoppedIsUnused, NoSwitch, NoPass, Ids
<1> QED
  BY <1>3, <1>7, <1>8 DEF SwitchInv, NoPass, PassTells

\* A write of the states of an open session opens and closes nothing, and moves
\* no session to another conversation.
LEMMA StatesWritten ==
  ASSUME SwitchInv, NEW s \in Open, NEW desired \in Desired,
         NEW observed \in {"READY", "RUNNING", "PAUSED", "DEGRADED", "NEEDS_ATTENTION"},
         UpdateSessionStates(s, desired, observed)
  PROVE  /\ session' \in [Session -> SessionRows] /\ Open' = Open
         /\ \A t \in Session : session'[t].talk = session[t].talk
         /\ \A t \in Session \ {s} : session'[t] = session[t]
         /\ session'[s].observed = observed
<1>1. session \in [Session -> SessionRows] /\ s \in Session /\ session[s].observed # "CLOSED"
  BY DEF SwitchInv, SwitchTypeOK, Open
<1>2. session' = [session EXCEPT ![s] = [session[s] EXCEPT !.desired = desired, !.observed = observed]]
  BY <1>1 DEF UpdateSessionStates
<1> DEFINE row == [session[s] EXCEPT !.desired = desired, !.observed = observed]
<1>3. row \in SessionRows /\ row.observed = observed /\ row.talk = session[s].talk
  BY <1>1 DEF SessionRows
<1> HIDE DEF row
<1>4. session' \in [Session -> SessionRows] /\ session'[s] = row /\ \A t \in Session \ {s} : session'[t] = session[t]
  BY <1>1, <1>2, <1>3 DEF row
<1>5. Open' = Open
  BY <1>1, <1>3, <1>4 DEF Open
<1> QED
  BY <1>3, <1>4, <1>5

\* Conversations on record keep their checkpoints.
LEMMA CarriedRests ==
  ASSUME SwitchInv, \A t \in Session : session'[t].talk = session[t].talk, carried \subseteq carried'
  PROVE  Carried'
BY DEF SwitchInv, Carried, Talk

\* A step of the switch that only the switch sees.
LEMMA SwitchMoves ==
  ASSUME SwitchInv, UNCHANGED <<cockpit, talks, folders, live, mirror, session, pass, calm, reported>>,
         carried \subseteq carried', carried' \subseteq Talks,
         switch' \in Switches, NextTalk', SavesAll'
  PROVE  SwitchInv'
<1>1. SwitchTypeOK'
  BY DEF SwitchInv, SwitchTypeOK
<1>2. Carried'
  BY CarriedRests
<1>3. StoppedIsUnused' /\ PassTells'
  BY DEF SwitchInv, StoppedIsUnused, Open, PassTells
<1>4. calm' => CalmPass'
  BY DEF SwitchInv, CalmPass, ShownAs, Runs, InstanceRuns, Reachable, Running, Talk, Open
<1>5. reported' => (pass.pc = "idle" /\ (\A s \in Open : ShownAs(s) => Runs(s)))'
  BY DEF SwitchInv, ShownAs, Runs, InstanceRuns, Reachable, Running, Talk, Open
<1> QED
  BY <1>1, <1>2, <1>3, <1>4, <1>5 DEF SwitchInv

\* A step that stirs: what a pass has read may be out of date.
LEMMA StirsKeeps ==
  ASSUME SwitchInv, Stirs, pass' = pass \/ pass' = NoPass, Open' = Open,
         SwitchTypeOK', Carried', NextTalk', SavesAll', StoppedIsUnused'
  PROVE  SwitchInv'
<1>1. PassTells'
  <2>1. CASE pass' = pass
    BY <2>1 DEF SwitchInv, PassTells
  <2>2. CASE pass' = NoPass
    <3>1. pass'.left = {} /\ pass'.pc = "idle"
      BY <2>2 DEF NoPass
    <3> QED
      BY <3>1 DEF PassTells
  <2> QED
    BY <2>1, <2>2
<1> QED
  BY <1>1 DEF SwitchInv, Stirs

\* What a step leaves of the invariant when it writes nothing of the sessions.
LEMMA SessionsRest ==
  ASSUME SwitchInv, session' = session, carried' = carried
  PROVE  Open' = Open /\ Carried'
BY DEF SwitchInv, Open, Carried, Talk

\* The fields of the switch.
LEMMA SwitchFields ==
  ASSUME SwitchInv
  PROVE  /\ switch \in Switches /\ switch.saved \subseteq SavedRows /\ switch.left \subseteq Session
         /\ switch.target \in AnyAccount
         /\ \A r \in switch.saved : r.id \in Session /\ r.id \in Open /\ r.was \in SessionRows
                                    /\ r.was.desired \in Desired
<1>1. switch \in Switches
  BY DEF SwitchInv, SwitchTypeOK
<1>2. switch.saved \subseteq SavedRows /\ switch.left \subseteq Session /\ switch.target \in AnyAccount
  BY <1>1 DEF Switches
<1>3. ASSUME NEW r \in switch.saved
      PROVE  r.id \in Session /\ r.id \in Open /\ r.was \in SessionRows /\ r.was.desired \in Desired
  <2>1. r \in SavedRows /\ r.id \in Ids(switch.saved)
    BY <1>2 DEF Ids
  <2> QED
    BY <2>1 DEF SwitchInv, SavesAll, SavedRows, SessionRows
<1> QED
  BY <1>1, <1>2, <1>3

\* A switch is planned, gives up or is over.
LEMMA PlanKeeps ==
  ASSUME SwitchInv, (\E a \in Account : PlanSwitch(a)) \/ SwitchFails \/ SwitchEnds
  PROVE  SwitchInv'
<1>1. CASE SwitchFails \/ SwitchEnds
  <2>1. switch' = NoSwitch /\ UNCHANGED <<ides, records, pass, calm, reported>>
    BY <1>1 DEF SwitchFails, SwitchEnds
  <2>2. NextTalk' /\ SavesAll'
    BY <2>1 DEF NextTalk, SavesAll, NoSwitch, Ids
  <2>3. carried' = carried /\ carried \subseteq Talks
    BY <2>1 DEF ides, SwitchInv, SwitchTypeOK
  <2> QED
    BY <2>1, <2>2, <2>3, NothingUnderWay, SwitchMoves DEF ides, records
<1>2. ASSUME NEW a \in Account, PlanSwitch(a) PROVE SwitchInv'
  <2> DEFINE new == [NoSwitch EXCEPT !.pc = "checkpoint", !.target = a, !.ran = Running, !.left = Open]
  <2>1. switch' = new /\ UNCHANGED <<ides, records, pass, calm, reported>>
    BY <1>2 DEF PlanSwitch
  <2>2. Running \in BOOLEAN /\ Open \subseteq Session /\ a \in AnyAccount
    BY DEF Running, Open, AnyAccount
  <2>3. new \in Switches /\ new.pc = "checkpoint" /\ new.left = Open /\ new.saved = {}
    BY <2>2, NothingUnderWay DEF Switches, NoSwitch
  <2> HIDE DEF new
  <2>4. Open' = Open
    BY <2>1 DEF Open, records
  <2>5. NextTalk' /\ SavesAll'
    BY <2>1, <2>3, <2>4 DEF NextTalk, SavesAll, Ids
  <2>6. carried' = carried /\ carried \subseteq Talks
    BY <2>1 DEF ides, SwitchInv, SwitchTypeOK
  <2> QED
    BY <2>1, <2>3, <2>5, <2>6, SwitchMoves DEF ides, records
<1> QED
  BY <1>1, <1>2

\* A session is saved as it is read.
LEMMA CheckpointKeeps == ASSUME SwitchInv, NEW s \in Session, Checkpoint(s) PROVE SwitchInv'
<1> DEFINE row == [id |-> s, was |-> session[s]]
           saved == switch.saved \cup {row}
           left == switch.left \ {s}
<1>1. /\ switch.pc = "checkpoint" /\ s \in switch.left /\ switch' = [switch EXCEPT !.saved = saved, !.left = left]
      /\ UNCHANGED <<ides, records, pass, calm, reported>>
  BY DEF Checkpoint
<1>2. row \in SavedRows /\ row.id = s
  BY DEF SwitchInv, SwitchTypeOK, SavedRows
<1>3. saved \subseteq SavedRows /\ left \subseteq Session
  BY <1>2, SwitchFields
<1>4. Ids(saved) = Ids(switch.saved) \cup {s}
  BY <1>2 DEF Ids
<1> HIDE DEF saved, left, row
<1>5. switch' \in Switches /\ switch'.pc = "checkpoint" /\ switch'.saved = saved /\ switch'.left = left
  BY <1>1, <1>3, SwitchFields DEF Switches
<1>6. Open' = Open
  BY <1>1 DEF Open, records
<1>7. Ids(switch.saved) \subseteq Open /\ Open = Ids(switch.saved) \cup switch.left
  BY <1>1 DEF SwitchInv, SavesAll
<1>9. s \in Open
  BY <1>1, <1>7
<1>8. NextTalk' /\ SavesAll'
  BY <1>1, <1>4, <1>5, <1>6, <1>7, <1>9 DEF NextTalk, SavesAll, left
<1>10. carried' = carried /\ carried \subseteq Talks
  BY <1>1 DEF ides, SwitchInv, SwitchTypeOK
<1> QED
  BY <1>1, <1>5, <1>8, <1>10, SwitchMoves DEF ides, records

\* The stop, the binding and the start of the IDE, and what the database is told.
LEMMA InstanceKeeps ==
  ASSUME SwitchInv, StopForSwitch \/ BindAccount \/ RecordBinding \/ StartAgain
  PROVE  SwitchInv'
<1>1. switch \in Switches /\ switch.target \in AnyAccount
  BY SwitchFields
<1>2. cockpit \in CockpitRows /\ mirror \in MirrorRows
  BY DEF SwitchInv, SwitchTypeOK
<1>3. UNCHANGED <<talks, carried, folders, session, pass>>
  BY DEF StopForSwitch, BindAccount, RecordBinding, StartAgain, ides, records
<1>4. Open' = Open /\ Carried'
  BY <1>3, SessionsRest
<1>5. CASE StopForSwitch
  <2>1. /\ switch.pc = "checkpoint" /\ switch.left = {} /\ switch' = [switch EXCEPT !.pc = "stopped"]
        /\ UNCHANGED mirror
    BY <1>5 DEF StopForSwitch, SwitchGoes, records
  <2>2. /\ switch' \in Switches /\ switch'.pc = "stopped" /\ switch'.saved = switch.saved
    BY <1>1, <2>1 DEF Switches
  <2>3. NextTalk' /\ SavesAll' /\ StoppedIsUnused'
    BY <1>3, <1>4, <2>1, <2>2 DEF SwitchInv, NextTalk, SavesAll, StoppedIsUnused
  <2>4. CASE switch.ran
    <3>1. cockpit' = [cockpit EXCEPT !.state = "stopped"] /\ live' = 0 /\ Stirs
      BY <1>5, <2>4 DEF StopForSwitch
    <3>2. cockpit' \in CockpitRows
      BY <1>2, <3>1 DEF CockpitRows
    <3>3. SwitchTypeOK'
      BY <1>3, <2>1, <2>2, <3>1, <3>2 DEF SwitchInv, SwitchTypeOK, Stirs
    <3> QED
      BY <1>3, <1>4, <2>3, <3>1, <3>3, StirsKeeps
  <2>5. CASE ~switch.ran
    <3>1. UNCHANGED <<cockpit, live, calm, reported>>
      BY <1>5, <2>5 DEF StopForSwitch
    <3>2. carried \subseteq Talks
      BY DEF SwitchInv, SwitchTypeOK
    <3> QED
      BY <1>3, <2>1, <2>2, <2>3, <3>1, <3>2, SwitchMoves
  <2> QED
    BY <2>4, <2>5
<1>6. CASE BindAccount
  <2>1. /\ switch.pc = "stopped" /\ switch' = [switch EXCEPT !.pc = "bound"] /\ Stirs
        /\ cockpit' = [cockpit EXCEPT !.account = switch.target] /\ UNCHANGED <<mirror, live>>
    BY <1>6 DEF BindAccount, SwitchGoes, records
  <2>2. /\ switch' \in Switches /\ switch'.pc = "bound" /\ switch'.saved = switch.saved
    BY <1>1, <2>1 DEF Switches
  <2>3. NextTalk' /\ SavesAll' /\ StoppedIsUnused'
    BY <1>3, <1>4, <2>1, <2>2 DEF SwitchInv, NextTalk, SavesAll, StoppedIsUnused
  <2>4. cockpit' \in CockpitRows
    BY <1>1, <1>2, <2>1 DEF CockpitRows
  <2>5. SwitchTypeOK'
    BY <1>3, <2>1, <2>2, <2>4 DEF SwitchInv, SwitchTypeOK, Stirs
  <2> QED
    BY <1>3, <1>4, <2>1, <2>3, <2>5, StirsKeeps
<1>7. CASE RecordBinding
  <2> DEFINE resumes == switch.ran \/ switch.saved # {}
             desired == IF resumes THEN "RUNNING" ELSE "STOPPED"
  <2>1. /\ switch.pc = "bound" /\ Stirs /\ UNCHANGED <<cockpit, live>>
        /\ switch' = IF resumes THEN [switch EXCEPT !.pc = "starting"] ELSE NoSwitch
        /\ mirror' = [mirror EXCEPT !.account = switch.target, !.start = 0, !.observed = "STOPPED",
                                    !.desired = desired]
    BY <1>7 DEF RecordBinding, ides
  <2>2. Open \subseteq Ids(switch.saved)
    BY <2>1 DEF SwitchInv, SavesAll
  <2>3. resumes \/ Open = {}
    BY <2>2 DEF Ids
  <2>4. desired \in {"RUNNING", "STOPPED"} /\ (resumes => desired = "RUNNING")
    OBVIOUS
  <2> HIDE DEF resumes, desired
  <2>5. mirror' \in MirrorRows /\ mirror'.desired = desired
    BY <1>1, <1>2, <2>1, <2>4 DEF MirrorRows
  <2>6. StoppedIsUnused'
    BY <1>3, <1>4, <2>3, <2>4, <2>5 DEF SwitchInv, StoppedIsUnused
  <2>7. switch' \in Switches /\ NextTalk' /\ SavesAll'
    <3>1. CASE resumes
      <4>1. switch' \in Switches /\ switch'.pc = "starting" /\ switch'.saved = switch.saved
        BY <1>1, <2>1, <3>1 DEF Switches
      <4> QED
        BY <1>4, <2>2, <4>1 DEF SwitchInv, NextTalk, SavesAll
    <3>2. CASE ~resumes
      <4>1. switch' = NoSwitch
        BY <2>1, <3>2
      <4> QED
        BY <4>1, NothingUnderWay DEF NextTalk, SavesAll, NoSwitch, Ids
    <3> QED
      BY <3>1, <3>2
  <2>8. SwitchTypeOK'
    BY <1>3, <2>1, <2>5, <2>7 DEF SwitchInv, SwitchTypeOK, Stirs
  <2> QED
    BY <1>3, <1>4, <2>1, <2>6, <2>7, <2>8, StirsKeeps
<1>8. CASE StartAgain
  <2>1. /\ switch.pc = "starting" /\ switch' = [switch EXCEPT !.pc = "started"] /\ Stirs
        /\ cockpit' = [cockpit EXCEPT !.state = "running", !.start = @ + 1] /\ live' = cockpit.start + 1
        /\ UNCHANGED mirror
    BY <1>8 DEF StartAgain, SwitchGoes, records
  <2>2. /\ switch' \in Switches /\ switch'.pc = "started" /\ switch'.saved = switch.saved
    BY <1>1, <2>1 DEF Switches
  <2>3. NextTalk' /\ SavesAll' /\ StoppedIsUnused'
    BY <1>3, <1>4, <2>1, <2>2 DEF SwitchInv, NextTalk, SavesAll, StoppedIsUnused
  <2>6. cockpit.start + 1 \in Nat
    BY <1>2 DEF CockpitRows
  <2>4. cockpit' \in CockpitRows /\ live' \in Nat
    BY <1>2, <2>1, <2>6 DEF CockpitRows
  <2>5. SwitchTypeOK'
    BY <1>3, <2>1, <2>2, <2>4 DEF SwitchInv, SwitchTypeOK, Stirs
  <2> QED
    BY <1>3, <1>4, <2>1, <2>3, <2>5, StirsKeeps
<1> QED
  BY <1>5, <1>6, <1>7, <1>8

\* A restart that fails, or whose IDE lacks a workspace, marks every session.
LEMMA ContextKeeps == ASSUME SwitchInv, RestartFails \/ CheckContext PROVE SwitchInv'
<1>1. switch \in Switches /\ switch.target \in AnyAccount
  BY SwitchFields
<1>2. cockpit \in CockpitRows /\ mirror \in MirrorRows /\ cockpit.start \in Nat
  BY DEF SwitchInv, SwitchTypeOK, CockpitRows
<1>3. UNCHANGED <<talks, carried, folders, session, pass>> /\ Stirs
  BY DEF RestartFails, CheckContext, ides, records
<1>4. Open' = Open /\ Carried'
  BY <1>3, SessionsRest
<1> DEFINE ids == {r.id : r \in switch.saved}
<1>5. ids \subseteq Session
  BY SwitchFields
<1> HIDE DEF ids
<1>6. switch.pc \in {"starting", "started"}
  BY DEF RestartFails, CheckContext
<1>7. \/ switch' = [switch EXCEPT !.pc = "failing", !.left = ids]
      \/ switch' = [switch EXCEPT !.pc = "continuing", !.left = ids]
  BY DEF RestartFails, CheckContext, NeedAttention, ids
<1>8. switch' \in Switches /\ switch'.pc \in {"failing", "continuing"} /\ switch'.saved = switch.saved
  BY <1>1, <1>5, <1>7 DEF Switches
<1>9. NextTalk' /\ SavesAll'
  BY <1>4, <1>6, <1>8 DEF SwitchInv, NextTalk, SavesAll
<1>10. CASE RestartFails
  <2>1. mirror' = [mirror EXCEPT !.account = switch.target, !.start = 0, !.observed = "DEGRADED",
                                !.desired = "RUNNING"]
    BY <1>10 DEF RestartFails
  <2>2. mirror' \in MirrorRows /\ mirror'.desired = "RUNNING"
    BY <1>1, <1>2, <2>1 DEF MirrorRows
  <2>3. \/ cockpit' = [cockpit EXCEPT !.state = "running", !.start = cockpit.start + 1] /\ live' = live
        \/ live' \in {0, live} /\ cockpit' = cockpit
    BY <1>10 DEF RestartFails
  <2>4. cockpit.start + 1 \in Nat
    BY <1>2
  <2>5. cockpit' \in CockpitRows
    BY <1>2, <2>3, <2>4 DEF CockpitRows
  <2>9. live \in Nat
    BY DEF SwitchInv, SwitchTypeOK
  <2>6. live' \in Nat
    BY <2>3, <2>9
  <2>7. SwitchTypeOK'
    BY <1>3, <1>8, <2>2, <2>5, <2>6 DEF SwitchInv, SwitchTypeOK, Stirs
  <2>8. StoppedIsUnused'
    BY <1>3, <1>4, <2>2 DEF SwitchInv, StoppedIsUnused
  <2> QED
    BY <1>3, <1>4, <1>9, <2>7, <2>8, StirsKeeps
<1>11. CASE CheckContext
  <2>1. \/ mirror' = mirror
        \/ mirror' = [account |-> switch.target, desired |-> "RUNNING", observed |-> "READY",
                      start |-> cockpit.start]
    BY <1>11 DEF CheckContext
  <2>2. mirror' \in MirrorRows /\ (mirror' = mirror \/ mirror'.desired = "RUNNING")
    BY <1>1, <1>2, <2>1 DEF MirrorRows
  <2>3. UNCHANGED <<cockpit, live>>
    BY <1>11 DEF CheckContext, ides
  <2>7. SwitchTypeOK'
    BY <1>3, <1>8, <2>2, <2>3 DEF SwitchInv, SwitchTypeOK, Stirs
  <2>8. StoppedIsUnused'
    BY <1>3, <1>4, <2>2 DEF SwitchInv, StoppedIsUnused
  <2> QED
    BY <1>3, <1>4, <1>9, <2>7, <2>8, StirsKeeps
<1> QED
  BY <1>10, <1>11

\* A write of a session's states by the switch.
LEMMA MarkSession ==
  ASSUME SwitchInv, NEW r \in switch.saved,
         NEW observed \in {"READY", "RUNNING", "PAUSED", "DEGRADED", "NEEDS_ATTENTION"},
         UpdateSessionStates(r.id, r.was.desired, observed),
         Stirs, UNCHANGED <<ides, mirror, pass>>, switch' \in Switches, NextTalk',
         switch'.saved \in {switch.saved, {}}, switch'.pc # "checkpoint", switch.pc \notin {"idle", "checkpoint"},
         switch'.saved = {} => switch' = NoSwitch \/ switch.saved = {}
  PROVE  SwitchInv'
<1>1. r.id \in Open /\ r.was.desired \in Desired
  BY SwitchFields
<1>2. session' \in [Session -> SessionRows] /\ Open' = Open /\ \A t \in Session : session'[t].talk = session[t].talk
  BY <1>1, StatesWritten
<1>3. carried' = carried
  BY DEF ides
<1>4. Carried'
  BY <1>2, <1>3, CarriedRests
<1>5. SwitchTypeOK'
  BY <1>2 DEF SwitchInv, SwitchTypeOK, Stirs, ides
<1>6. SavesAll'
  <2>1. CASE switch'.saved = switch.saved
    BY <1>2, <2>1 DEF SwitchInv, SavesAll
  <2>2. CASE switch' = NoSwitch
    BY <2>2 DEF SavesAll, NoSwitch, Ids
  <2> QED
    BY <2>1, <2>2
<1>7. StoppedIsUnused'
  BY <1>2 DEF SwitchInv, StoppedIsUnused
<1> QED
  BY <1>2, <1>4, <1>5, <1>6, <1>7, StirsKeeps

\* A session that could not be continued is marked, and the last mark of a
\* continuation says what the session did before.
LEMMA MarksKeep ==
  ASSUME SwitchInv, NEW r \in switch.saved, MarkNeedsAttention(r) \/ ContinuationFails(r) \/ SaveStates(r)
  PROVE  SwitchInv'
<1> DEFINE left == switch.left \ {r.id}
<1>1. switch \in Switches /\ left \subseteq Session
  BY SwitchFields
<1> HIDE DEF left
<1>2. Stirs /\ UNCHANGED <<ides, mirror, pass>>
  BY DEF MarkNeedsAttention, ContinuationFails, SaveStates
<1>3. CASE MarkNeedsAttention(r)
  <2>1. /\ switch.pc = "failing" /\ switch' = [switch EXCEPT !.left = left]
        /\ UpdateSessionStates(r.id, r.was.desired, "NEEDS_ATTENTION")
    BY <1>3 DEF MarkNeedsAttention, left
  <2>2. switch' \in Switches /\ switch'.pc = "failing" /\ switch'.saved = switch.saved
    BY <1>1, <2>1 DEF Switches
  <2>3. NextTalk'
    BY <2>2 DEF NextTalk
  <2> QED
    BY <1>2, <2>1, <2>2, <2>3, MarkSession
<1>4. CASE ContinuationFails(r)
  <2>1. /\ switch.pc \in {"continuing", "created"} /\ switch' = NoSwitch
        /\ UpdateSessionStates(r.id, r.was.desired, "NEEDS_ATTENTION")
    BY <1>4 DEF ContinuationFails
  <2>2. switch' \in Switches /\ switch'.pc = "idle" /\ switch'.saved = {}
    BY <2>1, NothingUnderWay DEF NoSwitch
  <2>3. NextTalk'
    BY <2>2 DEF NextTalk
  <2> QED
    BY <1>2, <2>1, <2>2, <2>3, MarkSession
<1>5. CASE SaveStates(r)
  <2>1. /\ switch.pc = "moved" /\ switch' = [switch EXCEPT !.pc = "continuing", !.left = left, !.next = <<>>]
        /\ UpdateSessionStates(r.id, r.was.desired, IF r.was.observed = "RUNNING" THEN "RUNNING" ELSE "READY")
    BY <1>5 DEF SaveStates, left
  <2>2. switch' \in Switches /\ switch'.pc = "continuing" /\ switch'.saved = switch.saved
    BY <1>1, <2>1 DEF Switches
  <2>3. NextTalk'
    BY <2>2 DEF NextTalk
  <2> DEFINE observed == IF r.was.observed = "RUNNING" THEN "RUNNING" ELSE "READY"
  <2>4. observed \in {"READY", "RUNNING", "PAUSED", "DEGRADED", "NEEDS_ATTENTION"}
    OBVIOUS
  <2>5. UpdateSessionStates(r.id, r.was.desired, observed)
    BY <2>1
  <2> HIDE DEF observed
  <2> QED
    BY <1>2, <2>1, <2>2, <2>3, <2>4, <2>5, MarkSession
<1> QED
  BY <1>3, <1>4, <1>5

\* A row written without opening or closing its session.
LEMMA RowWritten ==
  ASSUME SwitchInv, NEW s \in Session, NEW row \in SessionRows, session' = [session EXCEPT ![s] = row],
         row.observed = "CLOSED" <=> session[s].observed = "CLOSED"
  PROVE  /\ session' \in [Session -> SessionRows] /\ Open' = Open /\ session'[s] = row
         /\ \A t \in Session \ {s} : session'[t] = session[t]
<1>1. session \in [Session -> SessionRows]
  BY DEF SwitchInv, SwitchTypeOK
<1>2. session' \in [Session -> SessionRows] /\ session'[s] = row /\ \A t \in Session \ {s} : session'[t] = session[t]
  BY <1>1
<1>3. Open' = Open
  BY <1>2 DEF Open
<1> QED
  BY <1>2, <1>3

\* A session that is paused is moved to the account; another one gets a new
\* conversation, which is sent the checkpoint before the database names it.
LEMMA ContinueKeeps ==
  ASSUME SwitchInv,
         \/ \E r \in switch.saved : MovePaused(r) \/ CreateConversation(r)
         \/ SendBootstrap \/ SaveConversation \/ SaveAccount
  PROVE  SwitchInv'
<1>1. switch \in Switches /\ switch.target \in AnyAccount
  BY SwitchFields
<1>2. session \in [Session -> SessionRows] /\ carried \subseteq Talks /\ talks \subseteq Talks
  BY DEF SwitchInv, SwitchTypeOK
<1>3. switch.next \in Talks => switch.next[1] \in Session /\ switch.next[2] \in Nat
                               /\ switch.next = <<switch.next[1], switch.next[2]>>
  BY DEF Talks
<1>4. ASSUME NEW r \in switch.saved, MovePaused(r) PROVE SwitchInv'
  <2> DEFINE left == switch.left \ {r.id}
             row == [session[r.id] EXCEPT !.account = switch.target, !.desired = "PAUSED",
                                          !.observed = "NEEDS_ATTENTION"]
  <2>1. r.id \in Open /\ r.id \in Session /\ left \subseteq Session
    BY SwitchFields
  <2>2. /\ switch.pc = "continuing" /\ switch' = [switch EXCEPT !.left = left]
        /\ Stirs /\ UNCHANGED <<ides, mirror, pass>>
    BY <1>4 DEF MovePaused, Continuing
  <2>3. session' = [session EXCEPT ![r.id] = row]
    BY <1>2, <1>4, <2>1 DEF MovePaused
  <2>4. row \in SessionRows /\ row.talk = session[r.id].talk /\ row.observed = "NEEDS_ATTENTION"
    BY <1>1, <1>2, <2>1 DEF SessionRows, Desired
  <2> HIDE DEF row, left
  <2>5. session' \in [Session -> SessionRows] /\ Open' = Open /\ \A t \in Session : session'[t].talk = session[t].talk
    BY <2>1, <2>3, <2>4, RowWritten DEF Open
  <2>6. switch' \in Switches /\ switch'.pc = "continuing" /\ switch'.saved = switch.saved
    BY <1>1, <2>1, <2>2 DEF Switches
  <2>7. NextTalk' /\ SavesAll' /\ StoppedIsUnused'
    BY <2>2, <2>5, <2>6 DEF SwitchInv, NextTalk, SavesAll, StoppedIsUnused
  <2>8. SwitchTypeOK'
    BY <2>2, <2>5, <2>6 DEF SwitchInv, SwitchTypeOK, Stirs, ides
  <2>9. Carried'
    BY <2>2, <2>5, CarriedRests DEF ides
  <2> QED
    BY <2>2, <2>5, <2>7, <2>8, <2>9, StirsKeeps
<1>5. ASSUME NEW r \in switch.saved, CreateConversation(r) PROVE SwitchInv'
  <2>1. PICK k \in 1..MaxTalks :
          /\ talks' = talks \cup {<<r.id, k>>}
          /\ switch' = [switch EXCEPT !.pc = "created", !.next = <<r.id, k>>]
    BY <1>5 DEF CreateConversation
  <2>2. /\ switch.pc = "continuing" /\ Stirs
        /\ UNCHANGED <<cockpit, carried, folders, live, mirror, session, pass>>
    BY <1>5 DEF CreateConversation, Continuing, records
  <2>3. <<r.id, k>> \in Talks
    BY SwitchFields, SwitchAssumption DEF Talks
  <2>4. switch' \in Switches /\ switch'.pc = "created" /\ switch'.saved = switch.saved /\ switch'.next \in Talks
    BY <1>1, <2>1, <2>3 DEF Switches
  <2>5. Open' = Open /\ Carried'
    BY <2>2, SessionsRest
  <2>6. NextTalk' /\ SavesAll' /\ StoppedIsUnused'
    BY <2>2, <2>4, <2>5 DEF SwitchInv, NextTalk, SavesAll, StoppedIsUnused
  <2>7. SwitchTypeOK'
    BY <1>2, <2>1, <2>2, <2>3, <2>4 DEF SwitchInv, SwitchTypeOK, Stirs
  <2> QED
    BY <2>2, <2>5, <2>6, <2>7, StirsKeeps
<1>6. CASE SendBootstrap
  <2>1. /\ switch.pc = "created" /\ switch' = [switch EXCEPT !.pc = "sent"] /\ carried' = carried \cup {switch.next}
        /\ UNCHANGED <<cockpit, talks, folders, live, mirror, session, pass, calm, reported>>
    BY <1>6 DEF SendBootstrap, SwitchGoes, records
  <2>2. switch.next \in Talks
    BY <2>1 DEF SwitchInv, NextTalk
  <2>3. /\ switch' \in Switches /\ switch'.pc = "sent" /\ switch'.saved = switch.saved
        /\ switch'.next = switch.next
    BY <1>1, <2>1 DEF Switches
  <2>4. Open' = Open
    BY <2>1 DEF Open
  <2>5. switch'.next \in Talks /\ switch'.next \in carried'
    BY <2>1, <2>2, <2>3
  <2>6. NextTalk'
    BY <2>3, <2>5 DEF NextTalk
  <2>7. SavesAll'
    BY <2>1, <2>3, <2>4 DEF SwitchInv, SavesAll
  <2>8. carried \subseteq carried' /\ carried' \subseteq Talks
    BY <1>2, <2>1, <2>2
  <2> QED
    BY <2>1, <2>3, <2>6, <2>7, <2>8, SwitchMoves
<1>7. CASE SaveConversation
  <2> DEFINE s == switch.next[1]
             row == [session[s] EXCEPT !.talk = switch.next[2]]
  <2>1. /\ switch.pc = "sent" /\ switch' = [switch EXCEPT !.pc = "recorded"] /\ Stirs
        /\ UNCHANGED <<ides, mirror, pass>>
    BY <1>7 DEF SaveConversation, SwitchGoes
  <2>2. switch.next \in Talks /\ switch.next \in carried /\ s \in Session /\ switch.next[2] \in Nat
        /\ switch.next = <<s, switch.next[2]>>
    BY <1>3, <2>1 DEF SwitchInv, NextTalk
  <2>3. session' = [session EXCEPT ![s] = row]
    BY <1>2, <1>7, <2>2 DEF SaveConversation
  <2>4. row \in SessionRows /\ row.talk = switch.next[2] /\ row.observed = session[s].observed
    BY <1>2, <2>2 DEF SessionRows
  <2> HIDE DEF s, row
  <2>5. /\ session' \in [Session -> SessionRows] /\ Open' = Open /\ session'[s] = row
        /\ \A t \in Session \ {s} : session'[t] = session[t]
    BY <2>2, <2>3, <2>4, RowWritten
  <2>6. switch' \in Switches /\ switch'.pc = "recorded" /\ switch'.saved = switch.saved /\ switch'.next = switch.next
    BY <1>1, <2>1 DEF Switches
  <2>7. NextTalk' /\ SavesAll' /\ StoppedIsUnused'
    BY <2>1, <2>2, <2>5, <2>6 DEF SwitchInv, NextTalk, SavesAll, StoppedIsUnused
  <2>8. SwitchTypeOK'
    BY <2>1, <2>5, <2>6 DEF SwitchInv, SwitchTypeOK, Stirs, ides
  <2>9. Carried'
    BY <2>1, <2>2, <2>4, <2>5 DEF SwitchInv, Carried, Talk, ides
  <2> QED
    BY <2>1, <2>5, <2>7, <2>8, <2>9, StirsKeeps
<1>8. CASE SaveAccount
  <2> DEFINE s == switch.next[1]
             row == [session[s] EXCEPT !.account = switch.target]
  <2>1. /\ switch.pc = "recorded" /\ switch' = [switch EXCEPT !.pc = "moved"] /\ Stirs
        /\ UNCHANGED <<ides, mirror, pass>>
    BY <1>8 DEF SaveAccount, SwitchGoes
  <2>2. switch.next \in Talks /\ s \in Session
    BY <1>3, <2>1 DEF SwitchInv, NextTalk
  <2>3. session' = [session EXCEPT ![s] = row]
    BY <1>2, <1>8, <2>2 DEF SaveAccount
  <2>4. row \in SessionRows /\ row.talk = session[s].talk /\ row.observed = session[s].observed
    BY <1>1, <1>2, <2>2 DEF SessionRows
  <2> HIDE DEF s, row
  <2>5. session' \in [Session -> SessionRows] /\ Open' = Open /\ \A t \in Session : session'[t].talk = session[t].talk
    BY <2>2, <2>3, <2>4, RowWritten
  <2>6. switch' \in Switches /\ switch'.pc = "moved" /\ switch'.saved = switch.saved /\ switch'.next = switch.next
    BY <1>1, <2>1 DEF Switches
  <2>7. NextTalk' /\ SavesAll' /\ StoppedIsUnused'
    BY <2>1, <2>2, <2>5, <2>6 DEF SwitchInv, NextTalk, SavesAll, StoppedIsUnused
  <2>8. SwitchTypeOK'
    BY <2>1, <2>5, <2>6 DEF SwitchInv, SwitchTypeOK, Stirs, ides
  <2>9. Carried'
    BY <2>1, <2>5, CarriedRests DEF ides
  <2> QED
    BY <2>1, <2>5, <2>7, <2>8, <2>9, StirsKeeps
<1> QED
  BY <1>4, <1>5, <1>6, <1>7, <1>8

\* What a step of the pass leaves of the invariant when the switch and the
\* conversations rest.
LEMMA PassRests ==
  ASSUME SwitchInv, UNCHANGED <<ides, switch>>, Open' = Open,
         \A t \in Session : session'[t].talk = session[t].talk
  PROVE  Carried' /\ NextTalk' /\ SavesAll'
<1>1. Carried'
  BY CarriedRests DEF ides
<1> QED
  BY <1>1 DEF SwitchInv, NextTalk, SavesAll, ides

\* A pass that begins, ends or gives up.
LEMMA PassTurns == ASSUME SwitchInv, BeginPass \/ EndPass \/ PassFails PROVE SwitchInv'
<1>1. UNCHANGED <<ides, records, switch>>
  BY DEF BeginPass, EndPass, PassFails
<1>2. Open' = Open /\ session' = session /\ mirror' = mirror
  BY <1>1 DEF Open, records
<1>3. Carried' /\ NextTalk' /\ SavesAll'
  BY <1>1, <1>2, PassRests
<1>4. CASE BeginPass
  <2> DEFINE new == [NoPass EXCEPT !.pc = "mirrors", !.mirror = {mirror}]
  <2>1. pass' = new /\ calm' = TRUE /\ reported' = FALSE
    BY <1>4 DEF BeginPass
  <2>2. mirror \in MirrorRows
    BY DEF SwitchInv, SwitchTypeOK
  <2>3. new \in Passes /\ new.pc = "mirrors" /\ new.mirror = {mirror} /\ new.left = {}
    BY <2>2, NothingUnderWay DEF Passes, NoPass
  <2> HIDE DEF new
  <2>4. SwitchTypeOK'
    BY <1>1, <2>1, <2>3 DEF SwitchInv, SwitchTypeOK, ides, records
  <2>5. StoppedIsUnused'
    BY <1>2, <2>1, <2>3 DEF SwitchInv, StoppedIsUnused
  <2>6. CalmPass'
    BY <1>2, <2>1, <2>3 DEF CalmPass
  <2>7. PassTells'
    BY <2>1, <2>3 DEF PassTells
  <2> QED
    BY <1>3, <2>1, <2>4, <2>5, <2>6, <2>7 DEF SwitchInv
<1>5. CASE EndPass \/ PassFails
  <2>1. pass' = NoPass /\ calm' = calm
    BY <1>5 DEF EndPass, PassFails
  <2>2. pass'.pc = "idle" /\ pass'.left = {} /\ pass'.mirror = {}
    BY <2>1 DEF NoPass
  <2>3. calm \in BOOLEAN /\ reported' \in BOOLEAN
    BY <1>5 DEF SwitchInv, SwitchTypeOK, EndPass, PassFails
  <2>4. SwitchTypeOK'
    BY <1>1, <2>1, <2>3, NothingUnderWay DEF SwitchInv, SwitchTypeOK, ides, records
  <2>5. StoppedIsUnused'
    BY <1>2, <2>2 DEF SwitchInv, StoppedIsUnused
  <2>6. CalmPass'
    BY <2>2 DEF CalmPass
  <2>7. reported' => \A s \in Open : ShownAs(s) => Runs(s)
    <3>1. CASE EndPass
      <4>1. pass.pc = "writing" /\ pass.left = {} /\ reported' = calm
        BY <3>1 DEF EndPass
      <4> QED
        BY <4>1 DEF SwitchInv, CalmPass
    <3>2. CASE PassFails
      BY <3>2 DEF PassFails, SwitchInv
    <3> QED
      BY <1>5, <3>1, <3>2
  <2>8. reported' => (\A s \in Open : ShownAs(s) => Runs(s))'
    BY <1>1, <1>2, <2>7 DEF ShownAs, Runs, InstanceRuns, Reachable, Running, Talk, ides
  <2>9. PassTells'
    BY <2>2 DEF PassTells
  <2> QED
    BY <1>3, <2>2, <2>4, <2>5, <2>6, <2>8, <2>9 DEF SwitchInv
<1> QED
  BY <1>4, <1>5

\* A pass that reads what Cockpit and the database show.
LEMMA PassReads == ASSUME SwitchInv, ListCockpit \/ ListSessions PROVE SwitchInv'
<1>1. UNCHANGED <<ides, records, switch, calm, reported>>
  BY DEF ListCockpit, ListSessions
<1>2. Open' = Open /\ session' = session /\ mirror' = mirror /\ cockpit' = cockpit
  BY <1>1 DEF Open, records, ides
<1>3. Carried' /\ NextTalk' /\ SavesAll'
  BY <1>1, <1>2, PassRests
<1>4. pass \in Passes /\ cockpit \in CockpitRows /\ session \in [Session -> SessionRows] /\ Open \subseteq Session
  BY DEF SwitchInv, SwitchTypeOK, Open
<1> DEFINE read == {[id |-> s, desired |-> session[s].desired] : s \in Open}
<1>5. read \subseteq [id : Session, desired : Desired]
  BY <1>4 DEF SessionRows
<1> HIDE DEF read
<1>6. pass.pc \in {"mirrors", "cockpit"} /\ pass'.pc \in {"cockpit", "sessions"} /\ pass' \in Passes
      /\ pass'.mirror = pass.mirror /\ pass'.left \subseteq Open
      /\ (pass'.pc = "sessions" => pass.pc = "cockpit" /\ pass'.left = Open /\ pass'.actual = pass.actual)
      /\ (pass'.pc = "cockpit" => pass.pc = "mirrors" /\ pass'.actual = {cockpit})
  <2>1. CASE ListCockpit
    <3>1. pass.pc = "mirrors" /\ pass' = [pass EXCEPT !.pc = "cockpit", !.actual = {cockpit}]
      BY <2>1 DEF ListCockpit
    <3>2. pass' \in Passes /\ pass'.pc = "cockpit" /\ pass'.actual = {cockpit} /\ pass'.mirror = pass.mirror
          /\ pass'.left = pass.left
      BY <1>4, <3>1 DEF Passes
    <3> QED
      BY <3>1, <3>2 DEF SwitchInv, PassTells
  <2>2. CASE ListSessions
    <3>1. pass.pc = "cockpit" /\ pass' = [pass EXCEPT !.pc = "sessions", !.read = read, !.left = Open]
      BY <2>2 DEF ListSessions, read
    <3>2. pass' \in Passes /\ pass'.pc = "sessions" /\ pass'.actual = pass.actual /\ pass'.mirror = pass.mirror
          /\ pass'.left = Open
      BY <1>4, <1>5, <3>1 DEF Passes
    <3> QED
      BY <3>1, <3>2
  <2> QED
    BY <2>1, <2>2
<1>7. SwitchTypeOK'
  BY <1>1, <1>6 DEF SwitchInv, SwitchTypeOK, ides, records
<1>8. StoppedIsUnused'
  BY <1>2, <1>6 DEF SwitchInv, StoppedIsUnused
<1>9. calm' => CalmPass'
  BY <1>1, <1>2, <1>6 DEF SwitchInv, CalmPass
<1>10. ~reported'
  BY <1>1, <1>6 DEF SwitchInv
<1>11. PassTells'
  BY <1>2, <1>6 DEF PassTells
<1> QED
  BY <1>3, <1>7, <1>8, <1>9, <1>10, <1>11 DEF SwitchInv

\* What the reconciler makes of an instance.
LEMMA VerdictSays ==
  ASSUME NEW m \in MirrorRows, NEW a \in CockpitRows, NEW answers \in BOOLEAN
  PROVE  /\ Verdict(m, a, answers).instance \in {"READY", "STOPPED", "DEGRADED"}
         /\ Verdict(m, a, answers).sessions \in {"EACH", "KEPT", "DEGRADED", "NEEDS_ATTENTION"}
         /\ Verdict(m, a, answers).sessions = "KEPT" => m.desired # "RUNNING"
         /\ Verdict(m, a, answers).sessions = "EACH" =>
              answers /\ a.state = "running" /\ a.account = m.account /\ Verdict(m, a, answers).instance = "READY"
BY DEF Verdict, CockpitRows

\* The verdict over the instance, and the row of the mirror with it.
LEMMA InstanceJudged == ASSUME SwitchInv, ReconcileInstance PROVE SwitchInv'
<1>1. PICK m \in pass.mirror, a \in pass.actual, answers \in {FALSE, Reachable} :
        /\ pass.pc = "sessions"
        /\ mirror' = [m EXCEPT !.observed = Verdict(m, a, answers).instance,
                               !.start = IF Verdict(m, a, answers).instance = "STOPPED" THEN 0 ELSE a.start]
        /\ pass' = [pass EXCEPT !.pc = "writing", !.verdict = Verdict(m, a, answers).sessions,
                                !.seen = [talks |-> talks, folders |-> folders],
                                !.left = IF Verdict(m, a, answers).sessions = "KEPT" THEN {} ELSE pass.left]
        /\ UNCHANGED <<ides, session, switch, calm, reported, events>>
  BY DEF ReconcileInstance
<1> DEFINE instance == Verdict(m, a, answers).instance
           sessions == Verdict(m, a, answers).sessions
           start == IF instance = "STOPPED" THEN 0 ELSE a.start
           seen == [talks |-> talks, folders |-> folders]
           left == IF sessions = "KEPT" THEN {} ELSE pass.left
<1>2. pass \in Passes /\ m \in MirrorRows /\ a \in CockpitRows
  BY DEF SwitchInv, SwitchTypeOK, Passes
<1>3. answers \in BOOLEAN
  BY DEF Reachable, Running
<1>4. /\ instance \in {"READY", "STOPPED", "DEGRADED"}
      /\ sessions \in {"EACH", "KEPT", "DEGRADED", "NEEDS_ATTENTION"}
      /\ sessions = "KEPT" => m.desired # "RUNNING"
      /\ sessions = "EACH" => answers /\ a.state = "running" /\ a.account = m.account /\ instance = "READY"
  BY <1>2, <1>3, VerdictSays
<1>5. start \in Nat /\ (instance = "READY" => start = a.start)
  BY <1>2 DEF CockpitRows
<1>6. /\ mirror' = [m EXCEPT !.observed = instance, !.start = start]
      /\ pass' = [pass EXCEPT !.pc = "writing", !.verdict = sessions, !.seen = seen, !.left = left]
  BY <1>1
<1>7. left \subseteq pass.left /\ (sessions = "KEPT" => left = {}) /\ (sessions # "KEPT" => left = pass.left)
  OBVIOUS
<1>8. seen \in [talks : SUBSET Talks, folders : SUBSET Session]
  BY DEF SwitchInv, SwitchTypeOK
<1>9. pass.left \subseteq Open /\ pass.left \subseteq Session /\ Open \subseteq Session
  BY <1>2 DEF SwitchInv, PassTells, Passes, Open
<1>10. UNCHANGED <<ides, session, switch, calm, reported>>
  BY <1>1
<1> HIDE DEF instance, sessions, start, left
<1>11. /\ mirror' \in MirrorRows /\ mirror'.desired = m.desired
       /\ mirror' = [account |-> m.account, desired |-> m.desired, observed |-> instance, start |-> start]
  BY <1>2, <1>4, <1>5, <1>6 DEF MirrorRows
<1>12. /\ pass'.pc = "writing" /\ pass'.verdict = sessions /\ pass'.seen = seen /\ pass'.left = left
       /\ pass'.mirror = pass.mirror
  BY <1>2, <1>6 DEF Passes
<1>13. sessions \in Verdicts /\ left \in SUBSET Session
  BY <1>4, <1>7, <1>9 DEF Verdicts
<1>14. pass' \in Passes
  BY <1>2, <1>6, <1>8, <1>13 DEF Passes
<1>15. Open' = Open
  BY <1>10 DEF Open
<1>16. Carried' /\ NextTalk' /\ SavesAll'
  BY <1>10, <1>15, PassRests
<1>17. SwitchTypeOK'
  BY <1>10, <1>11, <1>14 DEF SwitchInv, SwitchTypeOK, ides
<1>18. Open = {} \/ (m.desired = "RUNNING" /\ \A x \in pass.mirror : x.desired = "RUNNING")
  BY DEF SwitchInv, StoppedIsUnused
<1>19. StoppedIsUnused'
  BY <1>11, <1>12, <1>15, <1>18 DEF StoppedIsUnused
<1>20. PassTells'
  BY <1>4, <1>7, <1>9, <1>12, <1>15 DEF PassTells
<1>21. ~reported'
  BY <1>1 DEF SwitchInv
<1>22. ASSUME calm' PROVE CalmPass'
  <2>1. a = cockpit /\ pass.left = Open
    BY <1>1, <1>10, <1>22 DEF SwitchInv, CalmPass
  <2>2. Open = left \/ Open = {}
    BY <1>4, <1>7, <1>18, <2>1
  <2>3. ASSUME sessions = "EACH", Open # {} PROVE InstanceRuns'
    <3>1. m.desired = "RUNNING" /\ answers /\ cockpit.account = m.account /\ instance = "READY"
          /\ start = cockpit.start
      BY <1>4, <1>5, <1>18, <2>1, <2>3
    <3>2. Reachable
      BY <3>1
    <3> QED
      BY <1>10, <1>11, <3>1, <3>2 DEF InstanceRuns, Reachable, Running, ides
  <2>4. pass'.seen = [talks |-> talks', folders |-> folders']
    BY <1>10, <1>12 DEF ides
  <2> QED
    BY <1>12, <1>15, <2>2, <2>3, <2>4 DEF CalmPass
<1> QED
  BY <1>16, <1>17, <1>19, <1>20, <1>21, <1>22 DEF SwitchInv

\* A session is written what the pass found of it.
LEMMA SessionJudged == ASSUME SwitchInv, NEW r \in pass.read, ReconcileSession(r) PROVE SwitchInv'
<1> DEFINE left == pass.left \ {r.id}
           states == IF pass.verdict = "EACH" THEN StatesSeen(r) ELSE {pass.verdict}
<1>1. /\ pass.pc = "writing" /\ r.id \in pass.left
      /\ pass' = [pass EXCEPT !.left = left]
      /\ UNCHANGED <<ides, mirror, switch, calm, reported>>
  BY DEF ReconcileSession
<1>2. PICK observed \in states : UpdateSessionStates(r.id, r.desired, observed)
  BY DEF ReconcileSession
<1>3. pass \in Passes /\ r.desired \in Desired /\ r.id \in Session
  BY DEF SwitchInv, SwitchTypeOK, Passes
<1>4. pass.left \subseteq Open /\ pass.verdict \in {"EACH", "DEGRADED", "NEEDS_ATTENTION"}
  BY <1>1, <1>3 DEF SwitchInv, PassTells, Passes, Verdicts
<1>5. r.id \in Open /\ left \subseteq Session
  BY <1>1, <1>3, <1>4 DEF Passes
<1>6. observed \in {"READY", "RUNNING", "PAUSED", "DEGRADED", "NEEDS_ATTENTION"}
  BY <1>4 DEF StatesSeen
<1>7. observed \in {"READY", "RUNNING", "PAUSED"} =>
        pass.verdict = "EACH" /\ r.id \in pass.seen.folders /\ Talk(r.id) \in pass.seen.talks
  BY <1>4 DEF StatesSeen
<1> HIDE DEF left, states
<1>8. /\ session' \in [Session -> SessionRows] /\ Open' = Open
      /\ \A t \in Session : session'[t].talk = session[t].talk
      /\ \A t \in Session \ {r.id} : session'[t] = session[t]
      /\ session'[r.id].observed = observed
  BY <1>2, <1>3, <1>5, <1>6, StatesWritten
<1>9. /\ pass' \in Passes /\ pass'.pc = "writing" /\ pass'.verdict = pass.verdict /\ pass'.seen = pass.seen
      /\ pass'.left = left /\ pass'.mirror = pass.mirror
  BY <1>1, <1>3, <1>5 DEF Passes
<1>10. Carried' /\ NextTalk' /\ SavesAll'
  BY <1>1, <1>8, PassRests
<1>11. SwitchTypeOK'
  BY <1>1, <1>8, <1>9 DEF SwitchInv, SwitchTypeOK, ides
<1>12. StoppedIsUnused'
  BY <1>1, <1>8, <1>9 DEF SwitchInv, StoppedIsUnused
<1>13. PassTells'
  BY <1>1, <1>4, <1>8, <1>9 DEF SwitchInv, PassTells, left
<1>14. ~reported'
  BY <1>1 DEF SwitchInv
<1>15. ASSUME calm' PROVE CalmPass'
  <2>1. /\ \A s \in Open \ pass.left : ShownAs(s) => Runs(s)
        /\ pass.verdict = "EACH" => pass.seen = [talks |-> talks, folders |-> folders] /\ (Open = {} \/ InstanceRuns)
    BY <1>1, <1>15 DEF SwitchInv, CalmPass
  <2>2. InstanceRuns' <=> InstanceRuns
    BY <1>1 DEF InstanceRuns, Reachable, Running, ides
  <2>3. ASSUME NEW s \in Open, s \notin left, ShownAs(s)' PROVE Runs(s)'
    <3>1. s \in Session /\ Talk(s)' = Talk(s)
      BY <1>8 DEF Open, Talk
    <3>2. Runs(s)
      <4>1. CASE s = r.id
        BY <1>5, <1>7, <1>8, <2>1, <2>3, <4>1 DEF ShownAs, Runs
      <4>2. CASE s # r.id
        BY <1>8, <2>1, <2>3, <3>1, <4>2 DEF ShownAs, left
      <4> QED
        BY <4>1, <4>2
    <3> QED
      BY <1>1, <2>2, <3>1, <3>2 DEF Runs, ides
  <2>4. pass.verdict = "EACH" => pass'.seen = [talks |-> talks', folders |-> folders'] /\ (Open' = {} \/ InstanceRuns')
    BY <1>1, <1>8, <1>9, <2>1, <2>2 DEF ides
  <2> QED
    BY <1>8, <1>9, <2>3, <2>4 DEF CalmPass
<1> QED
  BY <1>10, <1>11, <1>12, <1>13, <1>14, <1>15 DEF SwitchInv

\* What users, callers of the store and a death do: a session may be paused, and
\* the instance and the IDE moved under the feet of both.
LEMMA OthersKeep ==
  ASSUME SwitchInv, ControlDies \/ UserMovesInstance \/ UserMovesIDE \/ \E s \in Session : PauseSession(s)
  PROVE  SwitchInv'
<1>1. Stirs /\ mirror' = mirror /\ carried' = carried /\ pass' \in {pass, NoPass} /\ switch' \in {switch, NoSwitch}
  BY DEF ControlDies, UserMovesInstance, UserMovesIDE, PauseSession, records, ides
<1>2. cockpit \in CockpitRows /\ cockpit.start \in Nat /\ live \in Nat /\ talks \subseteq Talks /\ folders \subseteq Session
  BY DEF SwitchInv, SwitchTypeOK, CockpitRows
<1>3. /\ session' \in [Session -> SessionRows] /\ Open' = Open
      /\ \A t \in Session : session'[t].talk = session[t].talk
  <2>1. CASE session' = session
    BY <2>1 DEF SwitchInv, SwitchTypeOK, Open
  <2>2. ASSUME NEW s \in Session, PauseSession(s)
        PROVE  /\ session' \in [Session -> SessionRows] /\ Open' = Open
               /\ \A t \in Session : session'[t].talk = session[t].talk
    <3>1. s \in Open /\ UpdateSessionStates(s, "PAUSED", "PAUSED") /\ "PAUSED" \in Desired
      BY <2>2 DEF PauseSession, Desired
    <3> QED
      BY <3>1, StatesWritten
  <2> QED
    BY <2>1, <2>2 DEF ControlDies, UserMovesInstance, UserMovesIDE, records
<1>4. cockpit' \in CockpitRows
  <2>1. CASE cockpit' = cockpit
    BY <1>2, <2>1
  <2>2. CASE UserMovesInstance
    <3>1. cockpit.start + 1 \in Nat
      BY <1>2
    <3>2. CASE cockpit' = [cockpit EXCEPT !.state = "stopped"] \/ cockpit' = [cockpit EXCEPT !.state = "gone"]
      BY <1>2, <3>2 DEF CockpitRows
    <3>3. CASE cockpit' = [cockpit EXCEPT !.state = "running", !.start = cockpit.start + 1]
      BY <1>2, <3>1, <3>3 DEF CockpitRows
    <3>4. ASSUME NEW a \in Account, cockpit' = [cockpit EXCEPT !.account = a] PROVE cockpit' \in CockpitRows
      BY <1>2, <3>4 DEF CockpitRows, AnyAccount
    <3> QED
      BY <2>2, <3>2, <3>3, <3>4 DEF UserMovesInstance
  <2> QED
    BY <2>1, <2>2 DEF ControlDies, UserMovesIDE, PauseSession, ides
<1>5. live' \in Nat /\ talks' \subseteq Talks /\ folders' \subseteq Session
  <2>1. live' \in {0, live} /\ talks' \subseteq talks
    BY DEF ControlDies, UserMovesInstance, UserMovesIDE, PauseSession, ides
  <2>2. folders' \subseteq Session
    <3>1. CASE folders' = folders
      BY <1>2, <3>1
    <3>2. ASSUME NEW s \in Open, folders' = (folders \ {s}) \cup ({s} \ folders) PROVE folders' \subseteq Session
      BY <1>2, <3>2 DEF Open
    <3> QED
      BY <3>1, <3>2 DEF ControlDies, UserMovesInstance, UserMovesIDE, PauseSession, ides
  <2> QED
    BY <1>2, <2>1, <2>2
<1>6. switch' \in Switches /\ pass' \in Passes
  BY <1>1, NothingUnderWay DEF SwitchInv, SwitchTypeOK
<1>7. SwitchTypeOK'
  BY <1>1, <1>3, <1>4, <1>5, <1>6 DEF SwitchInv, SwitchTypeOK, Stirs
<1>8. NextTalk' /\ SavesAll'
  <2>1. CASE switch' = switch
    BY <1>1, <1>3, <2>1 DEF SwitchInv, NextTalk, SavesAll
  <2>2. CASE switch' = NoSwitch
    BY <2>2 DEF NextTalk, SavesAll, NoSwitch, Ids
  <2> QED
    BY <1>1, <2>1, <2>2
<1>11. pass'.mirror \subseteq pass.mirror
  <2>1. NoPass.mirror = {}
    BY DEF NoPass
  <2>2. CASE pass' = pass
    BY <2>2
  <2>3. CASE pass' = NoPass
    BY <2>1, <2>3
  <2> QED
    BY <1>1, <2>2, <2>3
<1>9. StoppedIsUnused'
  BY <1>1, <1>3, <1>11 DEF SwitchInv, StoppedIsUnused
<1>10. Carried'
  BY <1>1, <1>3, CarriedRests
<1> QED
  BY <1>1, <1>3, <1>7, <1>8, <1>9, <1>10, StirsKeeps

\* Every step keeps the invariant.
LEMMA SwitchStep == SwitchInv /\ [SwitchNext]_switchVars => SwitchInv'
<1> SUFFICES ASSUME SwitchInv, [SwitchNext]_switchVars PROVE SwitchInv'
  OBVIOUS
<1>1. CASE UNCHANGED switchVars
  <2>1. UNCHANGED <<cockpit, talks, carried, folders, live, mirror, session, switch, pass, calm, reported>>
    BY <1>1 DEF switchVars
  <2>2. switch \in Switches /\ carried \subseteq Talks
    BY DEF SwitchInv, SwitchTypeOK
  <2>3. Open' = Open
    BY <2>1 DEF Open
  <2>4. NextTalk' /\ SavesAll'
    BY <2>1, <2>3 DEF SwitchInv, NextTalk, SavesAll
  <2> QED
    BY <2>1, <2>2, <2>4, SwitchMoves
<1>2. CASE (\E a \in Account : PlanSwitch(a)) \/ SwitchFails \/ SwitchEnds
  BY <1>2, PlanKeeps
<1>3. CASE StopForSwitch \/ BindAccount \/ RecordBinding \/ StartAgain
  BY <1>3, InstanceKeeps
<1>4. CASE RestartFails \/ CheckContext
  BY <1>4, ContextKeeps
<1>5. CASE SendBootstrap \/ SaveConversation \/ SaveAccount
  BY <1>5, ContinueKeeps
<1>6. CASE BeginPass \/ EndPass \/ PassFails
  BY <1>6, PassTurns
<1>7. CASE ListCockpit \/ ListSessions
  BY <1>7, PassReads
<1>8. CASE ReconcileInstance
  BY <1>8, InstanceJudged
<1>9. CASE ControlDies \/ UserMovesInstance \/ UserMovesIDE
  BY <1>9, OthersKeep
<1>10. ASSUME NEW s \in Session, Checkpoint(s) \/ PauseSession(s) PROVE SwitchInv'
  BY <1>10, CheckpointKeeps, OthersKeep
<1>11. ASSUME NEW r \in pass.read, ReconcileSession(r) PROVE SwitchInv'
  BY <1>11, SessionJudged
<1>12. ASSUME NEW r \in switch.saved, MarkNeedsAttention(r) \/ ContinuationFails(r) \/ SaveStates(r) PROVE SwitchInv'
  BY <1>12, MarksKeep
<1>13. ASSUME NEW r \in switch.saved, MovePaused(r) \/ CreateConversation(r) PROVE SwitchInv'
  BY <1>13, ContinueKeeps
<1> QED
  BY <1>1, <1>2, <1>3, <1>4, <1>5, <1>6, <1>7, <1>8, <1>9, <1>10, <1>11, <1>12, <1>13 DEF SwitchNext

\* The invariant of the switch and the reconciler.
LEMMA SwitchHolds == SwitchSpec => []SwitchInv
BY SwitchStart, SwitchStep, PTL DEF SwitchSpec

\* Whatever fails, dies or is written late, the database leads a session to the
\* conversation it had or to one that was sent its checkpoint (switch.go,
\* continuation.go).
THEOREM CheckpointIsCarried == SwitchSpec => []CheckpointCarried
<1>1. SwitchInv => CheckpointCarried
  BY DEF SwitchInv, Carried, CheckpointCarried, Open
<1> QED
  BY <1>1, SwitchHolds, PTL

\* A pass during which nothing moved says of a session that it is READY, RUNNING or
\* PAUSED only if it is (reconcile.go).
THEOREM PassTellsTheTruth == SwitchSpec => []ReportsWhatRuns
<1>1. SwitchInv => ReportsWhatRuns
  BY DEF SwitchInv, ReportsWhatRuns, ShownAs, Runs, InstanceRuns
<1> QED
  BY <1>1, SwitchHolds, PTL

----------------------------------------------------------------------------
(* The task supervisor and its observers.                                  *)

Processes == [pid : Nat, task : Task, runner : Runner \cup {NoOne}]
Locks == [by : Runner \cup {NoOne}, old : BOOLEAN]

\* What the steps of a goroutine need of it: the records it carries are anything.
JobsShaped ==
  /\ DOMAIN job = Runner
  /\ \A r \in Runner : DOMAIN job[r] = Task
  /\ \A r \in Runner, t \in Task : DOMAIN job[r][t] = {"step", "rec", "failed"}

SupervisorTypeOK ==
  /\ JobsShaped
  /\ claim \in [Task -> Locks]
  /\ alive \subseteq Processes
  /\ launches \in Nat

(* Who executes a task, or is about to, holds its lock; a process, also one *)
(* whose runner died, leaves the lock where it is; and a runner launches    *)
(* only what nothing executes.                                              *)
Guarded(t) ==
  /\ \A r \in Runner : AtWork(r, t) => claim[t].by = r
  /\ \A p \in alive : p.task = t => claim[t].by # NoOne
  /\ \A p, q \in alive : p.task = t /\ q.task = t => p = q
  /\ \A r \in Runner : job[r][t].step = "launch" => \A p \in alive : p.task # t

SupervisorInv == SupervisorTypeOK /\ \A t \in Task \ seized : Guarded(t)

\* Nobody is at work in the next state who was not before.
NoNewWork ==
  \A r \in Runner, t \in Task :
    /\ AtWork(r, t)' => AtWork(r, t)
    /\ job'[r][t].step = "launch" => job[r][t].step = "launch"

----------------------------------------------------------------------------
\* A job is written with its three fields.
LEMMA JobFields ==
  ASSUME NEW step, NEW rec, NEW failed
  PROVE  /\ DOMAIN Job(step, rec, failed) = {"step", "rec", "failed"}
         /\ Job(step, rec, failed).step = step
BY DEF Job

\* After a failure nobody works on the task: it is queued again, or given to the
\* observer, or done with.
LEMMA AfterFailureRests ==
  ASSUME NEW r, NEW rec
  PROVE  /\ DOMAIN AfterFailure(r, rec) = {"step", "rec", "failed"}
         /\ AfterFailure(r, rec).step \notin {"launch", "run", "release"}
BY DEF AfterFailure, Observed, Job, NoJob

\* Nor after a success.
LEMMA ObservedRests ==
  ASSUME NEW r, NEW rec, NEW failed
  PROVE  /\ DOMAIN Observed(r, rec, failed) = {"step", "rec", "failed"}
         /\ Observed(r, rec, failed).step \notin {"launch", "run", "release"}
BY DEF Observed, Job, NoJob

\* One job is written and nobody is at work on its account.
LEMMA OneJob ==
  ASSUME JobsShaped, NEW r \in Runner, NEW t, NEW j,
         job' = [job EXCEPT ![r][t] = j],
         DOMAIN j = {"step", "rec", "failed"},
         t \in Task => \/ j.step \notin {"launch", "run", "release"}
                       \/ j.step \in {"run", "release"} /\ AtWork(r, t)
  PROVE  JobsShaped' /\ NoNewWork
<1>1. /\ DOMAIN job' = Runner
      /\ \A q \in Runner : DOMAIN job'[q] = Task
  BY DEF JobsShaped
<1>2. \A q \in Runner, u \in Task : job'[q][u] = IF q = r /\ u = t THEN j ELSE job[q][u]
  BY DEF JobsShaped
<1>3. JobsShaped'
  BY <1>1, <1>2 DEF JobsShaped
<1>4. NoNewWork
  BY <1>2 DEF NoNewWork, AtWork
<1> QED
  BY <1>3, <1>4

\* All jobs of a runner are written and none of them is at work.
LEMMA AllJobs ==
  ASSUME JobsShaped, NEW r \in Runner, NEW f,
         job' = [job EXCEPT ![r] = f],
         DOMAIN f = Task,
         \A t \in Task : /\ DOMAIN f[t] = {"step", "rec", "failed"}
                         /\ f[t].step \notin {"launch", "run", "release"}
  PROVE  JobsShaped' /\ NoNewWork
<1>1. \A q \in Runner : job'[q] = IF q = r THEN f ELSE job[q]
  BY DEF JobsShaped
<1>2. JobsShaped'
  BY <1>1 DEF JobsShaped
<1>3. NoNewWork
  BY <1>1 DEF NoNewWork, AtWork
<1> QED
  BY <1>2, <1>3

\* No job is written.
LEMMA SameJobs == JobsShaped /\ UNCHANGED job => JobsShaped' /\ NoNewWork
BY DEF JobsShaped, NoNewWork, AtWork

\* A step that starts nothing and takes nobody's lock.
LEMMA CalmStep ==
  ASSUME SupervisorInv, JobsShaped', NoNewWork, claim' \in [Task -> Locks],
         \A t \in Task : claim'[t].by = claim[t].by,
         alive' \subseteq alive, launches' \in Nat, seized \subseteq seized'
  PROVE  SupervisorInv'
<1>1. SupervisorTypeOK'
  BY DEF SupervisorInv, SupervisorTypeOK
<1>2. ASSUME NEW t \in Task \ seized' PROVE Guarded(t)'
  <2>1. Guarded(t)
    BY <1>2 DEF SupervisorInv
  <2>2. \A r \in Runner : AtWork(r, t)' => claim'[t].by = r
    BY <1>2, <2>1 DEF Guarded, NoNewWork
  <2>3. /\ \A p \in alive' : p.task = t => claim'[t].by # NoOne
        /\ \A p, q \in alive' : p.task = t /\ q.task = t => p = q
    BY <1>2, <2>1 DEF Guarded
  <2>4. \A r \in Runner : job'[r][t].step = "launch" => \A p \in alive' : p.task # t
    BY <1>2, <2>1 DEF Guarded, NoNewWork
  <2> QED
    BY <2>2, <2>3, <2>4 DEF Guarded
<1> QED
  BY <1>1, <1>2 DEF SupervisorInv

\* A lock is removed: from nobody, or the task counts as seized.
LEMMA LockRemoved ==
  ASSUME SupervisorInv, JobsShaped', NoNewWork, NEW r, NEW t,
         claim' = [claim EXCEPT ![t] = Free], Seized(r, t),
         r \in Runner /\ t \in Task => ~AtWork(r, t)',
         UNCHANGED <<alive, launches>>
  PROVE  SupervisorInv'
<1>1. SupervisorTypeOK'
  BY DEF SupervisorInv, SupervisorTypeOK, Locks, Free
<1>2. ASSUME NEW u \in Task \ seized' PROVE Guarded(u)'
  <2>1. u \notin seized /\ Guarded(u)
    BY <1>2 DEF SupervisorInv, Seized
  <2>2. CASE u = t
    <3>1. \A p \in alive : p.task # t
      BY <1>2, <2>2 DEF Seized
    <3>2. \A q \in Runner \ {r} : ~AtWork(q, t)
      BY <1>2, <2>1, <2>2 DEF Seized, Guarded
    <3>3. \A q \in Runner : ~AtWork(q, t)'
      BY <1>2, <2>2, <3>2 DEF NoNewWork
    <3> QED
      BY <2>2, <3>1, <3>3 DEF Guarded
  <2>3. CASE u # t
    <3>1. claim'[u] = claim[u]
      BY <1>2, <2>3 DEF SupervisorInv, SupervisorTypeOK
    <3> QED
      BY <1>2, <2>1, <3>1 DEF Guarded, NoNewWork
  <2> QED
    BY <2>2, <2>3
<1> QED
  BY <1>1, <1>2 DEF SupervisorInv

----------------------------------------------------------------------------
\* Listing gives each task a goroutine that is not at work yet.
LEMMA AssignRests ==
  ASSUME JobsShaped, NEW r \in Runner, NEW S, NEW step \in {"claim", "observe"}, Assign(r, S, step)
  PROVE  JobsShaped' /\ NoNewWork
<1> DEFINE f == [t \in Task |-> IF t \in S THEN Job(step, record[t], FALSE) ELSE NoJob]
<1>1. job' = [job EXCEPT ![r] = f]
  BY DEF Assign
<1>2. DOMAIN f = Task /\ \A t \in Task : DOMAIN f[t] = {"step", "rec", "failed"}
                                       /\ f[t].step \notin {"launch", "run", "release"}
  BY JobFields DEF Job, NoJob
<1> HIDE DEF f
<1> QED
  BY <1>1, <1>2, AllJobs

\* The loop of a supervisor, and of a single run.
LEMMA ListingKeeps ==
  ASSUME SupervisorInv, NEW r \in Runner,
         ListBlocked(r) \/ ListBatch(r) \/ ListNothing(r) \/ EndSingle(r) \/ StartPending(r)
         \/ \E t \in Task : RunSingle(r, t)
  PROVE  SupervisorInv'
<1> USE DEF historyVars
<1>1. JobsShaped /\ claim \in [Task -> Locks] /\ launches \in Nat
  BY DEF SupervisorInv, SupervisorTypeOK
<1>2. CASE ListBlocked(r)
  <2>1. PICK cause : job' = [job EXCEPT ![r] = [t \in Task |->
             IF t \in Blockable THEN Job("block", [record[t] EXCEPT !.cause = cause[t]], FALSE)
             ELSE NoJob]]
    BY <1>2 DEF ListBlocked
  <2> DEFINE f == [t \in Task |->
             IF t \in Blockable THEN Job("block", [record[t] EXCEPT !.cause = cause[t]], FALSE)
             ELSE NoJob]
  <2>2. DOMAIN f = Task /\ \A t \in Task : DOMAIN f[t] = {"step", "rec", "failed"}
                                         /\ f[t].step \notin {"launch", "run", "release"}
    BY DEF Job, NoJob
  <2>3. job' = [job EXCEPT ![r] = f]
    BY <2>1
  <2> HIDE DEF f
  <2>4. JobsShaped' /\ NoNewWork
    BY <1>1, <2>2, <2>3, AllJobs
  <2>5. UNCHANGED <<claim, alive, launches, seized>>
    BY <1>2 DEF ListBlocked
  <2> QED
    BY <1>1, <2>4, <2>5, CalmStep
<1>3. CASE ListBatch(r)
  <2>1. Assign(r, Batch, "claim") /\ UNCHANGED <<claim, alive, launches, seized>>
    BY <1>3 DEF ListBatch
  <2>2. JobsShaped' /\ NoNewWork
    BY <1>1, <2>1, AssignRests
  <2> QED
    BY <1>1, <2>1, <2>2, CalmStep
<1>4. CASE ListNothing(r) \/ EndSingle(r) \/ StartPending(r)
  <2>1. UNCHANGED <<job, claim, alive, launches, seized>>
    BY <1>4 DEF ListNothing, EndSingle, StartPending
  <2> QED
    BY <1>1, <2>1, SameJobs, CalmStep
<1>5. ASSUME NEW t \in Task, RunSingle(r, t) PROVE SupervisorInv'
  <2>1. Assign(r, {t}, "claim") /\ UNCHANGED <<claim, alive, launches, seized>>
    BY <1>5 DEF RunSingle
  <2>2. JobsShaped' /\ NoNewWork
    BY <1>1, <2>1, AssignRests
  <2> QED
    BY <1>1, <2>1, <2>2, CalmStep
<1> QED
  BY <1>2, <1>3, <1>4, <1>5

\* A lock is made where there is none, and then no process of the task is left.
LEMMA ClaimKeeps ==
  ASSUME SupervisorInv, NEW r \in Runner, NEW t \in Task, ClaimTask(r, t)
  PROVE  SupervisorInv'
<1> USE DEF historyVars
<1>1. /\ JobsShaped /\ claim \in [Task -> Locks] /\ launches \in Nat /\ alive \subseteq Processes
      /\ job[r][t].step = "claim" /\ UNCHANGED <<alive, launches, seized>>
  BY DEF SupervisorInv, SupervisorTypeOK, ClaimTask
<1>2. CASE /\ claim[t] = Free
           /\ claim' = [claim EXCEPT ![t] = [by |-> r, old |-> FALSE]]
           /\ job' = [job EXCEPT ![r][t].step = "launch"]
  <2>1. /\ DOMAIN job' = Runner
        /\ \A q \in Runner : DOMAIN job'[q] = Task
        /\ \A q \in Runner, u \in Task : q # r \/ u # t => job'[q][u] = job[q][u]
        /\ job'[r][t] = [job[r][t] EXCEPT !.step = "launch"]
    BY <1>1, <1>2 DEF JobsShaped
  <2>2. JobsShaped'
    BY <1>1, <2>1 DEF JobsShaped
  <2>3. claim' \in [Task -> Locks] /\ claim'[t].by = r /\ \A u \in Task \ {t} : claim'[u] = claim[u]
    BY <1>1, <1>2 DEF Locks
  <2>4. SupervisorTypeOK'
    BY <1>1, <2>2, <2>3 DEF SupervisorTypeOK
  <2>5. ASSUME NEW u \in Task \ seized' PROVE Guarded(u)'
    <3>1. Guarded(u)
      BY <1>1, <2>5 DEF SupervisorInv
    <3>2. CASE u = t
      <4>1. claim[t].by = NoOne /\ NoOne \notin Runner
        BY <1>2, TaskAssumption DEF Free
      <4>2. \A p \in alive : p.task # t
        BY <3>1, <3>2, <4>1 DEF Guarded
      <4>3. \A q \in Runner : q # r => ~AtWork(q, t)'
        BY <2>1, <3>1, <3>2, <4>1 DEF Guarded, AtWork
      <4> QED
        BY <1>1, <2>3, <3>2, <4>2, <4>3 DEF Guarded
    <3>3. CASE u # t
      <4>1. claim'[u] = claim[u] /\ \A q \in Runner : job'[q][u] = job[q][u]
        BY <2>1, <2>3, <2>5, <3>3
      <4> QED
        BY <1>1, <3>1, <4>1 DEF Guarded, AtWork
    <3> QED
      BY <3>2, <3>3
  <2> QED
    BY <2>4, <2>5 DEF SupervisorInv
<1>3. CASE claim[t].old /\ job' = [job EXCEPT ![r][t].step = "reap"] /\ UNCHANGED claim
  <2> DEFINE j == [job[r][t] EXCEPT !.step = "reap"]
  <2>1. DOMAIN j = {"step", "rec", "failed"} /\ j.step \notin {"launch", "run", "release"}
    BY <1>1 DEF JobsShaped
  <2>2. job' = [job EXCEPT ![r][t] = j]
    BY <1>1, <1>3 DEF JobsShaped
  <2> HIDE DEF j
  <2>3. JobsShaped' /\ NoNewWork
    BY <1>1, <2>1, <2>2, OneJob
  <2> QED
    BY <1>1, <1>3, <2>3, CalmStep
<1>4. CASE /\ job' = [job EXCEPT ![r][t] = AfterFailure(r, job[r][t].rec)]
           /\ UNCHANGED claim
  <2>1. JobsShaped' /\ NoNewWork
    BY <1>1, <1>4, AfterFailureRests, OneJob
  <2> QED
    BY <1>1, <1>4, <2>1, CalmStep
<1> QED
  BY <1>2, <1>3, <1>4 DEF ClaimTask

\* The one process of a task is that of the runner that holds its lock.
LEMMA LaunchKeeps ==
  ASSUME SupervisorInv, NEW r \in Runner, NEW t \in Task, Launch(r, t)
  PROVE  SupervisorInv'
<1> USE DEF historyVars
<1> DEFINE new == [pid |-> launches + 1, task |-> t, runner |-> r]
           rec == [job[r][t].rec EXCEPT !.status = "RUNNING", !.pid = launches + 1,
                                        !.attempts = @ + 1, !.cause = NoOne]
<1>1. /\ JobsShaped /\ claim \in [Task -> Locks] /\ launches \in Nat /\ alive \subseteq Processes
      /\ job[r][t].step = "launch" /\ UNCHANGED <<claim, seized>>
      /\ launches' = launches + 1 /\ alive' = alive \cup {new}
      /\ job' = [job EXCEPT ![r][t] = Job("run", rec, FALSE)]
  BY DEF SupervisorInv, SupervisorTypeOK, Launch
<1>2. new \in Processes /\ new.task = t
  BY <1>1 DEF Processes
<1> HIDE DEF new, rec
<1>3. JobsShaped' /\ NoNewWork
  <2> DEFINE j == Job("run", rec, FALSE)
  <2>1. DOMAIN j = {"step", "rec", "failed"} /\ j.step = "run"
    BY JobFields
  <2>2. AtWork(r, t)
    BY <1>1 DEF AtWork
  <2>3. job' = [job EXCEPT ![r][t] = j]
    BY <1>1
  <2> HIDE DEF j
  <2> QED
    BY <1>1, <2>1, <2>2, <2>3, OneJob
<1>4. SupervisorTypeOK'
  BY <1>1, <1>2, <1>3 DEF SupervisorTypeOK
<1>5. job'[r][t].step = "run"
  BY <1>1, JobFields DEF JobsShaped
<1>6. ASSUME NEW u \in Task \ seized' PROVE Guarded(u)'
  <2>1. Guarded(u)
    BY <1>1, <1>6 DEF SupervisorInv
  <2>2. \A q \in Runner : AtWork(q, u)' => claim'[u].by = q
    BY <1>1, <1>3, <1>6, <2>1 DEF NoNewWork, Guarded
  <2>3. CASE u # t
    <3>1. \A p \in alive' : p.task = u => p \in alive
      BY <1>1, <1>2, <2>3
    <3> QED
      BY <1>1, <1>3, <1>6, <2>1, <2>2, <3>1 DEF Guarded, NoNewWork
  <2>4. CASE u = t
    <3>1. claim[t].by = r /\ NoOne \notin Runner /\ \A p \in alive : p.task # t
      BY <1>1, <2>1, <2>4, TaskAssumption DEF Guarded, AtWork
    <3>2. \A p \in alive' : p.task = t => p = new
      BY <1>1, <3>1
    <3>3. \A q \in Runner : job'[q][t].step # "launch"
      BY <1>1, <1>3, <1>5, <2>1, <2>4, <3>1 DEF NoNewWork, Guarded, AtWork
    <3> QED
      BY <1>1, <2>2, <2>4, <3>1, <3>2, <3>3 DEF Guarded
  <2> QED
    BY <2>3, <2>4
<1> QED
  BY <1>4, <1>6 DEF SupervisorInv

\* A job is written that is not at work, or goes on with the work.
LEMMA WorkKeeps ==
  ASSUME SupervisorInv, NEW r \in Runner, NEW t \in Task,
         BlockTask(r, t) \/ Requeue(r, t) \/ LaunchFails(r, t) \/ Finish(r, t)
  PROVE  SupervisorInv'
<1> USE DEF historyVars
<1>1. JobsShaped /\ claim \in [Task -> Locks] /\ launches \in Nat
  BY DEF SupervisorInv, SupervisorTypeOK
<1>2. CASE BlockTask(r, t) \/ Requeue(r, t)
  <2>1. job' = [job EXCEPT ![r][t] = NoJob] /\ UNCHANGED <<claim, alive, launches, seized>>
    BY <1>2 DEF BlockTask, Requeue
  <2>2. DOMAIN NoJob = {"step", "rec", "failed"} /\ NoJob.step = "none"
    BY DEF NoJob
  <2>3. JobsShaped' /\ NoNewWork
    BY <1>1, <2>1, <2>2, OneJob
  <2> QED
    BY <1>1, <2>1, <2>3, CalmStep
<1>3. ASSUME NEW rec, NEW failed, AtWork(r, t), job' = [job EXCEPT ![r][t] = Job("release", rec, failed)]
      PROVE  JobsShaped' /\ NoNewWork
  <2> DEFINE j == Job("release", rec, failed)
  <2>1. DOMAIN j = {"step", "rec", "failed"} /\ j.step = "release"
    BY JobFields
  <2>2. job' = [job EXCEPT ![r][t] = j]
    BY <1>3
  <2> HIDE DEF j
  <2> QED
    BY <1>1, <1>3, <2>1, <2>2, OneJob
<1>4. CASE LaunchFails(r, t)
  <2>1. AtWork(r, t) /\ UNCHANGED <<claim, alive, launches, seized>>
    BY <1>4 DEF LaunchFails, AtWork
  <2>2. \E rec, failed : job' = [job EXCEPT ![r][t] = Job("release", rec, failed)]
    BY <1>4 DEF LaunchFails
  <2>3. JobsShaped' /\ NoNewWork
    BY <1>3, <2>1, <2>2
  <2> QED
    BY <1>1, <2>1, <2>3, CalmStep
<1>5. CASE Finish(r, t)
  <2>1. AtWork(r, t) /\ alive' \subseteq alive /\ UNCHANGED <<claim, launches, seized>>
    BY <1>5 DEF Finish, AtWork
  <2>2. \E rec, failed : job' = [job EXCEPT ![r][t] = Job("release", rec, failed)]
    BY <1>5 DEF Finish
  <2>3. JobsShaped' /\ NoNewWork
    BY <1>3, <2>1, <2>2
  <2> QED
    BY <1>1, <2>1, <2>3, CalmStep
<1> QED
  BY <1>2, <1>4, <1>5

\* Whoever removes a lock, its own, an old one or one of a cancelled task, leaves
\* nobody at work on the task, or has seized it.
LEMMA RemovalKeeps ==
  ASSUME SupervisorInv, (\E r \in Runner, t \in Task : ReapClaim(r, t) \/ Release(r, t)) \/ Cancel
  PROVE  SupervisorInv'
<1> USE DEF historyVars
<1>1. JobsShaped
  BY DEF SupervisorInv, SupervisorTypeOK
<1>2. ASSUME NEW r \in Runner, NEW t \in Task, NEW j, job' = [job EXCEPT ![r][t] = j],
             DOMAIN j = {"step", "rec", "failed"}, j.step \notin {"launch", "run", "release"},
             claim' = [claim EXCEPT ![t] = Free], Seized(r, t), UNCHANGED <<alive, launches>>
      PROVE  SupervisorInv'
  <2>1. JobsShaped' /\ NoNewWork
    BY <1>1, <1>2, OneJob
  <2>2. job'[r][t] = j
    BY <1>1, <1>2 DEF JobsShaped
  <2>3. ~AtWork(r, t)'
    BY <1>2, <2>2 DEF AtWork
  <2> QED
    BY <1>2, <2>1, <2>3, LockRemoved
<1>3. ASSUME NEW r \in Runner, NEW t \in Task, ReapClaim(r, t) PROVE SupervisorInv'
  <2> DEFINE j == [job[r][t] EXCEPT !.step = "claim"]
  <2>1. DOMAIN j = {"step", "rec", "failed"} /\ j.step = "claim"
    BY <1>1 DEF JobsShaped
  <2>2. job' = [job EXCEPT ![r][t] = j]
    BY <1>1, <1>3 DEF ReapClaim, JobsShaped
  <2>3. claim' = [claim EXCEPT ![t] = Free] /\ Seized(r, t) /\ UNCHANGED <<alive, launches>>
    BY <1>3 DEF ReapClaim
  <2> HIDE DEF j
  <2> QED
    BY <1>2, <2>1, <2>2, <2>3
<1>4. ASSUME NEW r \in Runner, NEW t \in Task, Release(r, t) PROVE SupervisorInv'
  <2> DEFINE j == IF job[r][t].failed THEN AfterFailure(r, job[r][t].rec)
                  ELSE Observed(r, job[r][t].rec, FALSE)
  <2>1. DOMAIN j = {"step", "rec", "failed"} /\ j.step \notin {"launch", "run", "release"}
    BY AfterFailureRests, ObservedRests
  <2>2. job' = [job EXCEPT ![r][t] = j]
    BY <1>1, <1>4 DEF Release, JobsShaped
  <2>3. claim' = [claim EXCEPT ![t] = Free] /\ Seized(r, t) /\ UNCHANGED <<alive, launches>>
    BY <1>4 DEF Release
  <2> HIDE DEF j
  <2> QED
    BY <1>2, <2>1, <2>2, <2>3
<1>5. CASE Cancel
  <2>1. /\ claim' = [claim EXCEPT ![command.task] = Free] /\ Seized(NoOne, command.task)
        /\ UNCHANGED <<job, alive, launches>>
    BY <1>5 DEF Cancel
  <2>2. JobsShaped' /\ NoNewWork
    BY <1>1, <2>1, SameJobs
  <2>3. NoOne \notin Runner
    BY TaskAssumption
  <2> QED
    BY <2>1, <2>2, <2>3, LockRemoved
<1> QED
  BY <1>3, <1>4, <1>5

\* The processes that outlive their runner are the ones there were.
LEMMA CrashKeeps ==
  ASSUME SupervisorInv, NEW r \in Runner, Crash(r)
  PROVE  SupervisorInv'
<1> USE DEF historyVars
<1> DEFINE mine == {p \in alive : p.runner = r}
           f == [t \in Task |-> NoJob]
<1>1. /\ JobsShaped /\ claim \in [Task -> Locks] /\ launches \in Nat /\ alive \subseteq Processes
      /\ job' = [job EXCEPT ![r] = f] /\ UNCHANGED <<claim, launches, seized>>
  BY DEF SupervisorInv, SupervisorTypeOK, Crash
<1>2. PICK orphans \in SUBSET mine :
        alive' = (alive \ mine) \cup {[p EXCEPT !.runner = NoOne] : p \in orphans}
  BY DEF Crash
<1>3. JobsShaped' /\ NoNewWork
  <2>1. DOMAIN f = Task /\ \A t \in Task : DOMAIN f[t] = {"step", "rec", "failed"}
                                         /\ f[t].step \notin {"launch", "run", "release"}
    BY DEF NoJob
  <2> HIDE DEF f
  <2> QED
    BY <1>1, <2>1, AllJobs
<1>4. \A p \in alive : /\ [p EXCEPT !.runner = NoOne] \in Processes
                       /\ [p EXCEPT !.runner = NoOne].task = p.task
  BY <1>1 DEF Processes
<1>5. alive' \subseteq Processes
  BY <1>1, <1>2, <1>4
<1>6. \A p \in alive' : \E q \in alive : p.task = q.task /\ p = IF q \in mine THEN [q EXCEPT !.runner = NoOne] ELSE q
  BY <1>2, <1>4
<1> HIDE DEF mine, f
<1>7. SupervisorTypeOK'
  BY <1>1, <1>3, <1>5 DEF SupervisorTypeOK
<1>8. ASSUME NEW u \in Task \ seized' PROVE Guarded(u)'
  <2>1. Guarded(u)
    BY <1>1, <1>8 DEF SupervisorInv
  <2>2. \A q \in Runner : AtWork(q, u)' => claim'[u].by = q
    BY <1>1, <1>3, <1>8, <2>1 DEF Guarded, NoNewWork
  <2>3. \A p \in alive' : p.task = u => claim'[u].by # NoOne
    BY <1>1, <1>6, <2>1 DEF Guarded
  <2>4. ASSUME NEW p \in alive', NEW q \in alive', p.task = u, q.task = u PROVE p = q
    <3>1. PICK p0 \in alive : p.task = p0.task /\ p = IF p0 \in mine THEN [p0 EXCEPT !.runner = NoOne] ELSE p0
      BY <1>6
    <3>2. PICK q0 \in alive : q.task = q0.task /\ q = IF q0 \in mine THEN [q0 EXCEPT !.runner = NoOne] ELSE q0
      BY <1>6
    <3>3. p0 = q0
      BY <2>1, <2>4, <3>1, <3>2 DEF Guarded
    <3> QED
      BY <3>1, <3>2, <3>3
  <2>5. \A q \in Runner : job'[q][u].step = "launch" => \A p \in alive' : p.task # u
    BY <1>3, <1>6, <1>8, <2>1 DEF Guarded, NoNewWork
  <2> QED
    BY <2>2, <2>3, <2>4, <2>5 DEF Guarded
<1> QED
  BY <1>7, <1>8 DEF SupervisorInv

\* Nothing else in the world starts a process or takes a lock.
LEMMA WorldKeeps ==
  ASSUME SupervisorInv,
         \/ \E p \in alive : OrphanEnds(p)
         \/ \E t \in Task : ClaimGrowsOld(t) \/ AddAdvanced(t)
         \/ \E kind : \E t \in Task : LoadForCommand(kind, t)
         \/ KillProcess \/ Retry \/ RemoveTask
  PROVE  SupervisorInv'
<1> USE DEF historyVars
<1>1. JobsShaped /\ claim \in [Task -> Locks] /\ launches \in Nat
  BY DEF SupervisorInv, SupervisorTypeOK
<1>2. UNCHANGED job /\ alive' \subseteq alive /\ UNCHANGED <<launches, seized>>
  BY DEF OrphanEnds, ClaimGrowsOld, AddAdvanced, LoadForCommand, KillProcess, Retry, RemoveTask
<1>3. claim' \in [Task -> Locks] /\ \A t \in Task : claim'[t].by = claim[t].by
  <2>1. CASE UNCHANGED claim
    BY <1>1, <2>1
  <2>2. ASSUME NEW u \in Task, claim' = [claim EXCEPT ![u].old = TRUE]
        PROVE  claim' \in [Task -> Locks] /\ \A t \in Task : claim'[t].by = claim[t].by
    <3>1. claim' = [claim EXCEPT ![u] = [claim[u] EXCEPT !.old = TRUE]]
      BY <1>1, <2>2
    <3>2. [claim[u] EXCEPT !.old = TRUE] \in Locks /\ [claim[u] EXCEPT !.old = TRUE].by = claim[u].by
      BY <1>1 DEF Locks
    <3> QED
      BY <1>1, <3>1, <3>2
  <2> QED
    BY <2>1, <2>2 DEF OrphanEnds, ClaimGrowsOld, AddAdvanced, LoadForCommand, KillProcess, Retry, RemoveTask
<1> QED
  BY <1>1, <1>2, <1>3, SameJobs, CalmStep

\* An observer changes tasks and plans; of the goroutines only what it observes ends.
LEMMA ObserverKeeps ==
  ASSUME SupervisorInv, NEW r \in Runner, Observer(r)
  PROVE  SupervisorInv'
<1> USE DEF historyVars
<1>1. JobsShaped /\ claim \in [Task -> Locks] /\ launches \in Nat
  BY DEF SupervisorInv, SupervisorTypeOK
<1>2. UNCHANGED <<claim, alive, launches, seized>>
  BY DEF Observer, AddNext, ListDependents, RewireNext, SavePlan, EndRevision, FinalizePlans, Elsewhere,
         NotApplicable, RecoverFailure, RejectProposal, ProposalOverBudget, ProposalInvalid, ApplyProposal
<1>3. JobsShaped' /\ NoNewWork
  <2>1. UNCHANGED job \/ \E t : job' = [job EXCEPT ![r][t] = NoJob]
    BY DEF Observer, AddNext, ListDependents, RewireNext, SavePlan, EndRevision, FinalizePlans, Finished,
           NotApplicable, RecoverFailure, RejectProposal, ProposalOverBudget, ProposalInvalid, ApplyProposal
  <2>2. DOMAIN NoJob = {"step", "rec", "failed"} /\ NoJob.step = "none"
    BY DEF NoJob
  <2> QED
    BY <1>1, <2>1, <2>2, SameJobs, OneJob
<1> QED
  BY <1>1, <1>2, <1>3, CalmStep

\* A plan is enqueued, an agent leaves a proposal, a process is started for a plan.
LEMMA PlansKeep ==
  ASSUME SupervisorInv,
         \/ EnqueueNext
         \/ \E t \in Task : EmitProposal(t)
         \/ \E r \in Runner : StartAdaptive(r) \/ \E t \in Task : ApplyTask(r, t)
  PROVE  SupervisorInv'
<1> USE DEF historyVars, tvars
<1>1. JobsShaped /\ claim \in [Task -> Locks] /\ launches \in Nat
  BY DEF SupervisorInv, SupervisorTypeOK
<1>2. UNCHANGED <<claim, alive, launches, seized>>
  BY DEF EnqueueNext, EmitProposal, StartAdaptive, ApplyTask
<1>3. UNCHANGED job \/ \E r \in Runner, t \in Task : Assign(r, {t}, "observe")
  BY DEF EnqueueNext, EmitProposal, StartAdaptive, ApplyTask
<1>4. JobsShaped' /\ NoNewWork
  BY <1>1, <1>3, SameJobs, AssignRests
<1> QED
  BY <1>1, <1>2, <1>4, CalmStep

----------------------------------------------------------------------------
\* Nothing is executed to begin with.
LEMMA SupervisorStart == Init => SupervisorInv
<1> SUFFICES ASSUME Init PROVE SupervisorInv
  OBVIOUS
<1>1. /\ job = [r \in Runner |-> [t \in Task |-> NoJob]]
      /\ claim = [t \in Task |-> Free] /\ alive = {} /\ launches \in Nat
  BY DEF Init, TaskInit
<1>2. DOMAIN NoJob = {"step", "rec", "failed"} /\ NoJob.step = "none"
  BY DEF NoJob
<1>3. JobsShaped /\ \A r \in Runner, t \in Task : job[r][t] = NoJob
  BY <1>1, <1>2 DEF JobsShaped
<1>4. SupervisorTypeOK
  BY <1>1, <1>3 DEF SupervisorTypeOK, Locks, Free
<1>5. \A t \in Task : Guarded(t)
  BY <1>1, <1>2, <1>3 DEF Guarded, AtWork
<1> QED
  BY <1>4, <1>5 DEF SupervisorInv

\* Each step keeps the invariant.
LEMMA SupervisorStep == SupervisorInv /\ [Next]_vars => SupervisorInv'
<1> SUFFICES ASSUME SupervisorInv, [Next]_vars PROVE SupervisorInv'
  OBVIOUS
<1>1. CASE UNCHANGED vars
  <2>1. UNCHANGED <<job, claim, alive, launches, seized>>
    BY <1>1 DEF vars, tvars
  <2>2. JobsShaped /\ claim \in [Task -> Locks] /\ launches \in Nat
    BY DEF SupervisorInv, SupervisorTypeOK
  <2> QED
    BY <2>1, <2>2, SameJobs, CalmStep
<1>2. CASE TaskSide
  <2>1. ASSUME NEW r \in Runner, RunnerStep(r) PROVE SupervisorInv'
    <3>1. Busy(r) \subseteq Task
      BY DEF Busy
    <3> QED
      BY <2>1, <3>1, ListingKeeps, ClaimKeeps, LaunchKeeps, WorkKeeps, RemovalKeeps DEF RunnerStep
  <2> QED
    BY <1>2, <2>1, ListingKeeps, RemovalKeeps, WorldKeeps DEF TaskSide
<1>3. ASSUME NEW r \in Runner, CrashObserver(r) PROVE SupervisorInv'
  BY <1>3, CrashKeeps DEF CrashObserver
<1>4. ASSUME NEW t \in Task, AddPlain(t) PROVE SupervisorInv'
  BY <1>4, WorldKeeps DEF AddPlain
<1>5. CASE Next
  BY <1>2, <1>3, <1>4, <1>5, ObserverKeeps, PlansKeep DEF Next
<1> QED
  BY <1>1, <1>5

\* The invariant of the supervisor, whatever its observers do.
LEMMA SupervisorHolds == Spec => []SupervisorInv
BY SupervisorStart, SupervisorStep, PTL DEF Spec

\* A task is executed by one process at a time, and whoever executes it holds its
\* lock, however many supervisors, single runs and observers are at work and
\* whoever dies, unless the lock was taken from one at work, by a cancel or as
\* abandoned (claimTask and executeTask of tasks.go).
THEOREM OneProcessAtATime == Spec => []OneProcess
<1>1. SupervisorInv => OneProcess
  <2> SUFFICES ASSUME SupervisorInv, NEW t \in Task \ seized
               PROVE  /\ Cardinality({p \in alive : p.task = t}) <= 1
                      /\ \A r \in Runner : AtWork(r, t) => claim[t].by = r
    BY DEF OneProcess
  <2> DEFINE its == {p \in alive : p.task = t}
  <2>1. Guarded(t)
    BY DEF SupervisorInv
  <2>2. its = {} \/ \E p \in its : its = {p}
    BY <2>1 DEF Guarded
  <2> HIDE DEF its
  <2>3. Cardinality(its) <= 1
    BY <2>2, FS_EmptySet, FS_Singleton
  <2> QED
    BY <2>1, <2>3 DEF Guarded, its
<1> QED
  BY <1>1, SupervisorHolds, PTL
=============================================================================
