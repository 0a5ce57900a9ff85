------------------------------- MODULE Replan -------------------------------
(***************************************************************************)
(* Adaptive replanning (internal/replan) on top of the task supervisor: a   *)
(* plan is a file of its own next to the task files, and the observer of an *)
(* adaptive run-pending changes both when a task of the plan ends.          *)
(*                                                                          *)
(* A final failure gets a diagnosis, a repair and a verification; whatever  *)
(* waited for the failed task then waits for the verification, and the      *)
(* failed task is SUPERSEDED.  A success may have left a proposal of more   *)
(* actions, whose last ones take its place in the same way.                 *)
(*                                                                          *)
(* The observers of one process take turns; nothing orders two processes.   *)
(* Every task and every plan that is written is a step, with the record the *)
(* observer read before.  A node is named <<revision, role, parent node>>.  *)
(***************************************************************************)
EXTENDS TaskSupervisor, Planner

CONSTANTS
    Signatures,       \* failure signatures
    Setups,           \* situations to begin with
    MaxRevisions, MaxDynamicNodes, MaxRepairDepth, MaxSameFailure,
    NoNode

VARIABLES
    plan,     \* the plan file
    meta,     \* [Task -> node, parent and depth of its record]
    inbox,    \* [Task -> the proposal its agent left, or NoNode]
    obs,      \* [Runner -> the observer at work in that process]
    handed,   \* history: [Task -> sets of tasks, each of which took its place]
    origin,   \* history: [Task -> dependencies it was added with]
    setup     \* the situation, never changed: what is asked for, who works on it, and
              \* what is left of the bounds

rvars == <<plan, meta, inbox, obs, handed, origin>>
vars == <<tvars, rvars, setup>>

PlanNode(name) == <<0, name>>
NoMeta == [node |-> NoNode, parent |-> NoOne, depth |-> 0]
NoPlan == [revision |-> 0, dynamic |-> 0, status |-> "planned", nodes |-> <<>>,
           failures |-> [s \in Signatures |-> 0]]
NoObs == [stage |-> "none", task |-> NoOne, rec |-> NoRecord, plan |-> NoPlan, specs |-> <<>>,
          made |-> <<>>, gates |-> {}, todo |-> <<>>]

Absent == SelectSeq(Order, LAMBDA t : StatusOf(t) = "ABSENT")
Planned == {t \in Task : meta[t].node # NoNode}

(* tasks.AddAdvanced for a node of the plan.                                 *)
AddTask(deps, exclusive, priority, about) ==
    LET t == Head(Absent)
    IN  /\ Absent # <<>>
        /\ record' = [record EXCEPT ![t] = [NoRecord EXCEPT !.status = "QUEUED", !.deps = deps,
                                                            !.exclusive = exclusive,
                                                            !.priority = priority]]
        /\ meta' = [meta EXCEPT ![t] = about]
        /\ origin' = [origin EXCEPT ![t] = deps]

(* planner.Enqueue: one task after another, in topological order.            *)
Graph == BuildNodes(Facets(setup.signs))
TaskAt(node) == CHOOSE t \in Planned : meta[t].node = node
ToEnqueue == {n \in DOMAIN Graph : \A t \in Planned : meta[t].node # PlanNode(n)}

(* In a solo situation one process works at a time.                          *)
MayStart == setup.solo => ToEnqueue = {} /\ \A r \in Runner : mode[r] = "off"

EnqueueNext ==
    LET n == Head(SelectSeq(Topo(Graph, NodeNames), LAMBDA x : x \in ToEnqueue))
    IN  /\ setup.plain = 0 /\ ToEnqueue # {}
        /\ AddTask({TaskAt(PlanNode(d)) : d \in Graph[n]}, Writes(n), 0,
                   [NoMeta EXCEPT !.node = PlanNode(n)])
        /\ UNCHANGED <<claim, alive, launches, mode, job, command, troubles, historyVars,
                       plan, inbox, obs, handed>>

(* The agent of a task writes its proposal while the process runs.           *)
EmitProposal(t) ==
    /\ t \in Planned /\ \E p \in alive : p.task = t
    /\ \A u \in Task : inbox[u] = NoNode /\ handed[u] = {}
    /\ \E q \in setup.proposes : inbox' = [inbox EXCEPT ![t] = q]
    /\ UNCHANGED <<tvars, plan, meta, obs, handed, origin>>

(***************************************************************************)
(* ProcessRecord.                                                           *)
(***************************************************************************)
StartAdaptive(r) ==
    /\ mode[r] = "off" /\ setup.plain = 0 /\ MayStart
    /\ mode' = [mode EXCEPT ![r] = "adaptive"]
    /\ UNCHANGED <<record, claim, alive, launches, job, command, troubles, historyVars, rvars>>

(* `agctl replan apply`, with the record as it is on disk.                    *)
ApplyTask(r, t) ==
    /\ mode[r] = "off" /\ t \in Planned /\ MayStart
    /\ troubles < MaxTroubles /\ troubles' = troubles + 1
    /\ mode' = [mode EXCEPT ![r] = "apply"]
    /\ Assign(r, {t}, "observe")
    /\ UNCHANGED <<record, claim, alive, launches, command, historyVars, rvars>>

InBudget(growth) == plan.revision < MaxRevisions /\ plan.dynamic + growth <= MaxDynamicNodes

(* One observer at a time in a process (observerMu).                         *)
Observing(r, t) == job[r][t].step = "observe" /\ obs[r] = NoObs
Finished(r, t) == /\ job' = [job EXCEPT ![r][t] = NoJob]
                  /\ obs' = [obs EXCEPT ![r] = NoObs]
Elsewhere == UNCHANGED <<claim, alive, launches, mode, command, troubles, historyVars>>

NotApplicable(r, t) ==
    LET status == job[r][t].rec.status
    IN  /\ Observing(r, t)
        /\ \/ t \notin Planned
           \/ status \notin {"FAILED", "SUCCEEDED"}
           \/ status = "SUCCEEDED" /\ inbox[t] = NoNode
        /\ job' = [job EXCEPT ![r][t] = NoJob]
        /\ Elsewhere /\ UNCHANGED <<record, rvars>>

Blocked(failures) == [plan EXCEPT !.status = "blocked", !.failures = failures]
Counted(sig) == [plan.failures EXCEPT ![sig] = @ + 1]

NoProgress(t, sig) == meta[t].depth >= MaxRepairDepth \/ plan.failures[sig] >= MaxSameFailure

Start(r, t, rec, stage, newPlan, specs, gates) ==
    obs' = [obs EXCEPT ![r] = [NoObs EXCEPT !.stage = stage, !.task = t, !.rec = rec,
                                            !.plan = newPlan, !.specs = specs, !.gates = gates]]

(* A spec names tasks there are and, by number, specs before it.             *)
Spec1(node, tasks, after, exclusive) ==
    [node |-> node, tasks |-> tasks, after |-> after, exclusive |-> exclusive]

(* What waited for a node waits for the nodes that take its place; the nodes *)
(* that are new are added as they are (rewirePlanNodes).                     *)
Rewired(old, gates, new) ==
    [n \in DOMAIN plan.nodes \cup DOMAIN new |->
        IF n \in DOMAIN new THEN new[n]
        ELSE IF old \in plan.nodes[n] THEN (plan.nodes[n] \ {old}) \cup gates
        ELSE plan.nodes[n]]

RecoverFailure(r, t) ==
    LET rec == [job[r][t].rec EXCEPT !.status = "FAILED"]
        node == meta[t].node
        rev == plan.revision + 1
        chain == [k \in 1..3 |-> <<rev, <<"diagnose", "repair", "reverify">>[k], node>>]
        needs == IF node \in DOMAIN plan.nodes THEN plan.nodes[node] ELSE {}
        new == chain[1] :> needs @@ chain[2] :> {chain[1]} @@ chain[3] :> {chain[2]}
    IN  /\ Observing(r, t) /\ t \in Planned /\ job[r][t].rec.status = "FAILED"
        /\ record' = [record EXCEPT ![t] = rec]
        /\ \E sig \in Signatures :
             IF NoProgress(t, sig) \/ ~InBudget(3)
             THEN Start(r, t, rec, "save", Blocked(Counted(sig)), <<>>, {})
             ELSE Start(r, t, rec, "add",
                    [plan EXCEPT !.revision = rev, !.status = "recovering", !.dynamic = @ + 3,
                                 !.failures = Counted(sig), !.nodes = Rewired(node, {chain[3]}, new)],
                    <<Spec1(chain[1], rec.deps, {}, FALSE), Spec1(chain[2], {}, {1}, TRUE),
                      Spec1(chain[3], {}, {2}, FALSE)>>,
                    {3})
        /\ Elsewhere /\ UNCHANGED <<job, plan, meta, inbox, handed, origin>>

ReadOnly(t) == ~record[t].exclusive
Parallel(q) == {a \in DOMAIN q.actions : a \in q.parallel /\ q.actions[a] = {}}
Integrates(t, q) == ReadOnly(t) /\ Cardinality(Parallel(q)) >= 2
Growth(t, q) == Cardinality(DOMAIN q.actions) + (IF Integrates(t, q) THEN 1 ELSE 0)
Acceptable(q) == q.sound /\ q.actions # <<>>

(* The proposal is rejected and archived.                                    *)
RejectProposal(r, t) ==
    /\ Observing(r, t) /\ job[r][t].rec.status = "SUCCEEDED" /\ inbox[t] # NoNode
    /\ ~Acceptable(inbox[t]) \/ (InBudget(Growth(t, inbox[t])) /\ inbox[t].risky)
    /\ inbox' = [inbox EXCEPT ![t] = NoNode]
    /\ job' = [job EXCEPT ![r][t] = NoJob]
    /\ Elsewhere /\ UNCHANGED <<record, plan, meta, obs, handed, origin>>

(* It stays where it is when the plan is blocked, or on an error.            *)
ProposalOverBudget(r, t) ==
    /\ Observing(r, t) /\ job[r][t].rec.status = "SUCCEEDED" /\ inbox[t] # NoNode
    /\ Acceptable(inbox[t]) /\ ~InBudget(Growth(t, inbox[t]))
    /\ Start(r, t, job[r][t].rec, "save", Blocked(plan.failures), <<>>, {})
    /\ Elsewhere /\ UNCHANGED <<record, job, plan, meta, inbox, handed, origin>>

Proposable(r, t) == /\ Observing(r, t) /\ job[r][t].rec.status = "SUCCEEDED" /\ inbox[t] # NoNode
                    /\ Acceptable(inbox[t]) /\ InBudget(Growth(t, inbox[t])) /\ ~inbox[t].risky

ProposalInvalid(r, t) ==
    /\ Proposable(r, t) /\ ~Valid(inbox[t].actions, inbox[t].order)
    /\ job' = [job EXCEPT ![r][t] = NoJob]
    /\ Elsewhere /\ UNCHANGED <<record, rvars>>

TopoActions(q) == Topo(q.actions, q.order)

(* Actions in topological order, those with no dependency after the parent;  *)
(* two branches or more are integrated by a node of their own.               *)
ApplyProposal(r, t) ==
    LET q == inbox[t]
        rev == plan.revision + 1
        order == TopoActions(q)
        Name(a) == <<rev, a, meta[t].node>>
        Nr(a) == CHOOSE k \in DOMAIN order : order[k] = a
        spec(a) == Spec1(Name(a), IF q.actions[a] = {} THEN {t} ELSE {},
                         {Nr(d) : d \in q.actions[a]}, FALSE)
        needs(a) == IF q.actions[a] = {} THEN {meta[t].node} ELSE {Name(d) : d \in q.actions[a]}
        leaves == Leaves(q.actions)
        join == <<rev, "integrate", meta[t].node>>
        made == [a \in DOMAIN q.actions |-> spec(a)]
        new == [n \in {Name(a) : a \in DOMAIN q.actions} |-> needs(n[2])]
        grown(k, nodes, gates) ==
            [plan EXCEPT !.revision = rev, !.status = "active", !.dynamic = @ + k,
                         !.nodes = Rewired(meta[t].node, gates, nodes)]
        specs == [k \in DOMAIN order |-> made[order[k]]]
    IN  /\ Proposable(r, t) /\ Valid(q.actions, q.order)
        /\ \E branches \in SUBSET (IF Integrates(t, q) THEN Parallel(q) ELSE {}) :
             IF Cardinality(branches) >= 2
             THEN Start(r, t, job[r][t].rec, "add",
                    grown(Len(order) + 1, new @@ join :> {Name(a) : a \in leaves}, {join}),
                    Append(specs, Spec1(join, {}, {Nr(a) : a \in leaves}, TRUE)),
                    {Len(order) + 1})
             ELSE Start(r, t, job[r][t].rec, "add",
                    grown(Len(order), new, {Name(a) : a \in leaves}),
                    specs, {Nr(a) : a \in leaves})
        /\ Elsewhere /\ UNCHANGED <<record, job, plan, meta, inbox, handed, origin>>

(***************************************************************************)
(* Carrying a revision out.                                                 *)
(***************************************************************************)
At(r, stage) == obs[r].stage = stage
Made(r, S) == {obs[r].made[k] : k \in S}

AddNext(r) ==
    LET o == obs[r]
        spec == o.specs[Len(o.made) + 1]
    IN  /\ At(r, "add") /\ Len(o.made) < Len(o.specs)
        /\ AddTask(spec.tasks \cup Made(r, spec.after), spec.exclusive,
                   o.rec.priority + (IF o.rec.status = "FAILED" THEN 2 ELSE 1),
                   [node |-> spec.node, parent |-> o.task, depth |-> meta[o.task].depth + 1])
        /\ obs' = [obs EXCEPT ![r].made = Append(@, Head(Absent))]
        /\ Elsewhere /\ UNCHANGED <<job, plan, inbox, handed>>

MayRewire(t, u) == StatusOf(u) \in {"QUEUED", "BLOCKED"} /\ t \in Deps(u) /\ meta[u].parent # t

(* tasks.ReplaceDependency: the records are listed once and written later.   *)
ListDependents(r) ==
    LET o == obs[r]
    IN  /\ At(r, "add") /\ Len(o.made) = Len(o.specs)
        /\ obs' = [obs EXCEPT ![r].stage = "rewire", ![r].todo =
              LET us == SelectSeq(Order, LAMBDA u : u \in Planned /\ MayRewire(o.task, u))
              IN  [k \in DOMAIN us |-> [task |-> us[k], rec |-> record[us[k]]]]]
        /\ handed' = [handed EXCEPT ![o.task] = @ \cup {Made(r, o.gates)}]
        /\ Elsewhere /\ UNCHANGED <<record, job, plan, meta, inbox, origin>>

(* The error of a blocked task names the one dependency it was blocked for;   *)
(* only a task blocked for the replaced one is queued again.                 *)
RewireNext(r) ==
    LET o == obs[r]
        u == Head(o.todo).task
        old == Head(o.todo).rec
        deps == (old.deps \ {o.task}) \cup Made(r, o.gates)
    IN  /\ At(r, "rewire") /\ o.todo # <<>>
        /\ record' = [record EXCEPT ![u] = [old EXCEPT !.deps = deps,
              !.status = IF old.cause = o.task THEN "QUEUED" ELSE @,
              !.cause = IF old.cause = o.task THEN NoOne ELSE @]]
        /\ obs' = [obs EXCEPT ![r].todo = Tail(@)]
        /\ Elsewhere /\ UNCHANGED <<job, plan, meta, inbox, handed, origin>>

SavePlan(r) ==
    /\ \/ At(r, "rewire") /\ obs[r].todo = <<>>
       \/ At(r, "save")
    /\ plan' = obs[r].plan
    /\ obs' = [obs EXCEPT ![r].stage = "saved"]
    /\ Elsewhere /\ UNCHANGED <<record, job, meta, inbox, handed, origin>>

(* The proposal is archived, or the failed task superseded, last of all.     *)
EndRevision(r) ==
    LET o == obs[r]
    IN  /\ At(r, "saved") /\ o.task # NoOne
        /\ IF o.specs = <<>> THEN UNCHANGED <<record, inbox>>
           ELSE IF o.rec.status = "SUCCEEDED"
           THEN inbox' = [inbox EXCEPT ![o.task] = NoNode] /\ UNCHANGED record
           ELSE Save(o.task, o.rec, "SUPERSEDED", o.rec.pid) /\ UNCHANGED inbox
        /\ Finished(r, o.task)
        /\ Elsewhere /\ UNCHANGED <<plan, meta, handed, origin>>

(* Mutant: a cancelled task does not keep a plan from being completed.       *)
FinalStatusCancelled ==
    LET all == {StatusOf(t) : t \in Planned} \ Missing
    IN  IF all = {} THEN plan.status
        ELSE IF all \subseteq {"SUCCEEDED", "SUPERSEDED", "CANCELLED"} THEN "completed"
        ELSE IF all \cap {"FAILED", "BLOCKED"} # {} /\ plan.status # "recovering"
        THEN "blocked" ELSE plan.status

(* finalizePlans, when the supervisor has nothing left to run.               *)
FinalStatus ==
    LET all == {StatusOf(t) : t \in Planned} \ Missing
    IN  IF all = {} THEN plan.status
        ELSE IF all \subseteq {"SUCCEEDED", "SUPERSEDED"} THEN "completed"
        ELSE IF all \cap {"FAILED", "BLOCKED", "CANCELLED"} # {} /\ plan.status # "recovering"
        THEN "blocked" ELSE plan.status

FinalizePlans(r) ==
    /\ mode[r] = "closing"
    /\ \/ /\ At(r, "none")
          /\ obs' = [obs EXCEPT ![r].stage = "final", ![r].plan = [plan EXCEPT !.status = FinalStatus]]
          /\ UNCHANGED <<plan, mode>>
       \/ /\ At(r, "final")
          /\ plan' = IF obs[r].plan.status # plan.status THEN obs[r].plan ELSE plan
          /\ obs' = [obs EXCEPT ![r] = NoObs]
          /\ mode' = [mode EXCEPT ![r] = "off"]
    /\ UNCHANGED <<record, claim, alive, launches, job, command, troubles, historyVars,
                   meta, inbox, handed, origin>>

Observer(r) ==
    \/ AddNext(r) \/ ListDependents(r) \/ RewireNext(r) \/ SavePlan(r) \/ EndRevision(r)
    \/ FinalizePlans(r)
    \/ \E t \in Busy(r) : \/ NotApplicable(r, t) \/ RecoverFailure(r, t) \/ RejectProposal(r, t)
                          \/ ProposalOverBudget(r, t) \/ ProposalInvalid(r, t) \/ ApplyProposal(r, t)

(***************************************************************************)
(* A process that dies leaves the revision it was at as it is.              *)
(***************************************************************************)
CrashObserver(r) ==
    /\ Crash(r)
    /\ obs' = [obs EXCEPT ![r] = NoObs]
    /\ UNCHANGED <<plan, meta, inbox, handed, origin>>

(* Tasks of a plain situation belong to no plan.                             *)
AddPlain(t) ==
    /\ Cardinality({u \in Task : StatusOf(u) # "ABSENT"}) < setup.plain
    /\ AddAdvanced(t) /\ UNCHANGED rvars

TaskSide ==
    /\ \/ \E r \in Runner : \/ StartPending(r) /\ MayStart
                           \/ RunnerStep(r)
                           \/ \E t \in Task : RunSingle(r, t) /\ MayStart
       \/ \E t \in Task : \/ ClaimGrowsOld(t)
                         \/ \E kind \in setup.commands : LoadForCommand(kind, t)
       \/ \E p \in alive : OrphanEnds(p)
       \/ KillProcess \/ Cancel \/ Retry \/ RemoveTask
    /\ UNCHANGED rvars

Init ==
    /\ setup \in Setups
    /\ TaskInit
    /\ launches = MaxLaunches - setup.launches /\ troubles = MaxTroubles - setup.troubles
    /\ plan = [NoPlan EXCEPT !.nodes =
                 [n \in {PlanNode(x) : x \in DOMAIN Graph} |-> {PlanNode(d) : d \in Graph[n[2]]}]]
    /\ meta = [t \in Task |-> NoMeta]
    /\ inbox = [t \in Task |-> NoNode]
    /\ obs = [r \in Runner |-> NoObs]
    /\ handed = [t \in Task |-> {}]
    /\ origin = [t \in Task |-> {}]

Next ==
    /\ \/ TaskSide \/ EnqueueNext
       \/ \E r \in Runner : StartAdaptive(r) \/ CrashObserver(r) \/ Observer(r)
       \/ \E t \in Task : AddPlain(t) \/ EmitProposal(t)
       \/ \E r \in Runner, t \in Task : ApplyTask(r, t)
    /\ UNCHANGED setup

Spec == Init /\ [][Next]_vars

----------------------------------------------------------------------------
(* Safety.                                                                  *)

(* What settles a task: its own success, or its successors'.  A proposal     *)
(* counts once it is archived.  What an operator removed is waived.          *)
Settled(waived) ==
    LET s[t \in Task] ==
          IF t \in waived THEN TRUE
          ELSE IF handed[t] = {} \/ (inbox[t] # NoNode /\ t \in succeeded) THEN t \in succeeded
          ELSE \E gates \in handed[t] : \A u \in gates : s[u]
    IN  {t \in Task : s[t]}

Quiet == \A r \in Runner : obs[r] = NoObs

StartsSettled ==
    (setup.solo /\ setup.plain = 0) => \A p \in alive' \ alive : p.pid > launches =>
        LET t == p.task
        IN  Supervising(p.runner) =>
              origin[t] \subseteq Settled({}) \cup (IF meta[t].parent = NoOne THEN {} ELSE succeeded)

(* With one process at work, and whenever it died before, a task of the plan *)
(* is executed only after each task it was added behind has succeeded or has *)
(* been replaced by tasks that have; what a revision adds needs no more than *)
(* the success of the task it was added for.                                *)
DependentsWait == [][StartsSettled]_vars

CompletesSettled ==
    \A r \in Runner :
        (ToEnqueue = {} /\ plan.status # "completed" /\ obs[r] = NoObs /\ obs'[r].stage = "final" /\ obs'[r].plan.status = "completed")
        => Planned \subseteq Settled({t \in Task : StatusOf(t) = "REMOVED"})

(* A supervisor finds a plan completed only when every task of it that is    *)
(* still there has succeeded or has been replaced by tasks that have.        *)
CompletedIsSettled == [][CompletesSettled]_vars

----------------------------------------------------------------------------
(* What the documentation says and the code does not do.                    *)

BlockedBehindFailure ==
    (Quiet /\ (\A r \in Runner : mode[r] = "off") /\ \E t \in Planned : StatusOf(t) = "BLOCKED")
    => \E t \in Planned : StatusOf(t) \in Missing \cup {"FAILED", "CANCELLED"}

(* A recovery puts back everything downstream of the failure, so that the    *)
(* plan can be completed: also when the failure is recovered later.         *)
RecoveredPlanCompletes == (\E t \in Planned : StatusOf(t) = "SUPERSEDED") => BlockedBehindFailure
=============================================================================
