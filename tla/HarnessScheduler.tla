------------------------- MODULE HarnessScheduler -------------------------
(***************************************************************************)
(* The durable scheduler: which READY node runs next (scheduler.Scheduler   *)
(* over ready_queue and workflow_schedule_state).                           *)
(*                                                                          *)
(* A decision is one write transaction; it is not a claim.  The engine puts *)
(* rows in, a dispatcher asks and claims what it was offered, operators     *)
(* pause runs and change weights, and the scheduler may be started again    *)
(* with another capacity while the rows keep the verdicts of the last one.  *)
(***************************************************************************)
EXTENDS Integers, FiniteSets, FiniteSetsExt, Functions

CONSTANTS
    Run, Node,          \* identifiers, ordered as numbers
    RunOf, Parents,     \* the graph: [Node -> Run], [Node -> SUBSET Node]
    Priority,
    Needs,              \* [Node -> the amount of the scarce resource it requires]
    Capacities, Weights,
    LaneLimit, CandidateLimit, Batches,
    MaxEnqueues,        \* bound on rows ever put in
    MaxCommands         \* bound on what operators do

VARIABLES
    rows,       \* [Node -> its row of ready_queue]
    lanes,      \* [Run -> its row of workflow_schedule_state, and whether it runs]
    dispatcher, \* whether it "asks" or holds an "answer"
    offered,    \* the node of the answer, or 0 when there is none
    capacity,   \* of the scheduler that is running
    enqueues, selections, orders    \* counters: rows put in, nodes selected, commands

schedulerVars == <<rows, lanes, dispatcher, offered, capacity, enqueues, selections, orders>>

NoRow == [queued |-> FALSE, due |-> FALSE, at |-> 0, wait |-> 0]
Unclassified == 0

SchedulerInit ==
    /\ rows = [n \in Node |-> NoRow]
    /\ lanes = [r \in Run |-> [weight |-> 1, served |-> 0, last |-> 0, running |-> TRUE]]
    /\ dispatcher = "asks" /\ offered = 0 /\ capacity \in Capacities
    /\ enqueues = 0 /\ selections = 0 /\ orders = 0

(* effectivePriorities: a node is as urgent as the most urgent node that      *)
(* waits for it.                                                            *)
Effective ==
    CHOOSE level \in [Node -> Range(Priority)] :
      \A n \in Node : level[n] = Max({Priority[n]} \cup {level[m] : m \in {k \in Node : n \in Parents[k]}})

Fits(n) == Needs[n] <= capacity

(* Why a READY node does not run (ExplainNode).                              *)
ExplainNode(n) ==
    CASE ~rows[n].queued -> "NOT_READY"
      [] rows[n].queued /\ ~rows[n].due -> "NOT_BEFORE"
      [] rows[n].queued /\ rows[n].due /\ (rows[n].wait # Unclassified \/ ~Fits(n)) -> "RESOURCE"
      [] OTHER -> "FAIRNESS"

Precedes(a, b) == \E i \in DOMAIN a : a[i] < b[i] /\ \A j \in 1..(i - 1) : a[j] = b[j]
First(S, Before(_, _)) == CHOOSE x \in S : \A y \in S \ {x} : Before(x, y)
FirstOnes(S, n, Before(_, _)) == {x \in S : Cardinality({y \in S : Before(y, x)}) < n}

(* Lanes in the order of the service they had for their weight.             *)
LaneBefore(a, b) ==
    LET Service(r, o) == <<lanes[r].served * lanes[o].weight,
                           IF lanes[r].last = 0 THEN 0 ELSE 1, lanes[r].last, r>>
    IN  Precedes(Service(a, b), Service(b, a))

Due(r, table) == {n \in Node : RunOf[n] = r /\ table[n].queued /\ table[n].due}
ReadyLanes == FirstOnes({r \in Run : lanes[r].running /\ Due(r, rows) # {}}, LaneLimit, LaneBefore)

\* Mutant: rows by priority only, whatever is known about them.
PriorityKey(n, row) == <<0, -Effective[n], -Priority[n], row.at, n>>

(* Rows nothing is known about come first.                                  *)
RowKey(n, row) ==
    <<IF row.wait = Unclassified THEN 0 ELSE 1, -Effective[n], -Priority[n], row.at, n>>

RowBefore(table, a, b) == Precedes(RowKey(a, table[a]), RowKey(b, table[b]))
ReadyNodes(r, table) == FirstOnes(Due(r, table), CandidateLimit, LAMBDA a, b : RowBefore(table, a, b))

Classify(table, set, verdict) ==
    [n \in Node |-> IF n \in set THEN [table[n] EXCEPT !.wait = verdict] ELSE table[n]]

(* The batches of one lane.  A node that does not fit is marked with the      *)
(* capacity it was compared with; the first that fits is the decision.  A    *)
(* batch that marks nothing new ends the search.                            *)
RECURSIVE SearchLane(_, _, _)
SearchLane(r, table, batches) ==
    LET batch == ReadyNodes(r, table)
        fitting == {n \in batch : Fits(n)}
        best == First(fitting, LAMBDA a, b : RowBefore(table, a, b))
        passed == {n \in batch : ~Fits(n) /\ (fitting = {} \/ RowBefore(table, n, best))}
        marked == Classify(table, passed, capacity)
    IN  IF batches = 0 THEN [chosen |-> 0, table |-> table]
        ELSE IF fitting # {} THEN [chosen |-> best, table |-> Classify(marked, {best}, Unclassified)]
        ELSE IF marked = table THEN [chosen |-> 0, table |-> table]
        ELSE SearchLane(r, marked, batches - 1)

RECURSIVE Decide(_, _)
Decide(pending, table) ==
    IF pending = {} THEN [chosen |-> 0, table |-> table]
    ELSE LET lane == First(pending, LaneBefore)
             found == SearchLane(lane, table, Batches)
         IN  IF found.chosen # 0 THEN found ELSE Decide(pending \ {lane}, found.table)

(* Scheduler.Next.                                                          *)
SelectNext ==
    /\ dispatcher = "asks" /\ dispatcher' = "answer"
    /\ LET decision == Decide(ReadyLanes, rows)
       IN  rows' = decision.table /\ offered' = decision.chosen
    /\ IF offered' = 0 THEN UNCHANGED <<lanes, selections>>
       ELSE /\ selections' = selections + 1
            /\ lanes' = [lanes EXCEPT ![RunOf[offered']].served = @ + 1,
                                      ![RunOf[offered']].last = selections + 1]
    /\ UNCHANGED <<capacity, enqueues, orders>>

(* The dispatcher claims the node, unless its run was stopped meanwhile, and   *)
(* asks again.                                                              *)
ClaimOffered ==
    /\ dispatcher = "answer" /\ dispatcher' = "asks"
    /\ offered' = 0
    /\ rows' = IF offered # 0 /\ lanes[RunOf[offered]].running
               THEN [rows EXCEPT ![offered] = NoRow] ELSE rows
    /\ UNCHANGED <<lanes, capacity, enqueues, selections, orders>>

(* The engine makes a node ready, at once or for later (a retry's backoff).   *)
EnqueueReadyNode(n, due) ==
    /\ enqueues < MaxEnqueues /\ ~rows[n].queued
    /\ \A p \in Parents[n] : ~rows[p].queued
    /\ rows' = [rows EXCEPT ![n] = [queued |-> TRUE, due |-> due, at |-> enqueues, wait |-> Unclassified]]
    /\ enqueues' = enqueues + 1
    /\ UNCHANGED <<lanes, dispatcher, offered, capacity, selections, orders>>

NotBeforePasses(n) ==
    /\ rows[n].queued /\ ~rows[n].due
    /\ rows' = [rows EXCEPT ![n].due = TRUE]
    /\ UNCHANGED <<lanes, dispatcher, offered, capacity, enqueues, selections, orders>>

Order == /\ orders < MaxCommands /\ orders' = orders + 1
         /\ UNCHANGED <<rows, dispatcher, offered, enqueues, selections>>

SetWorkflowWeight(r, w) ==
    Order /\ lanes' = [lanes EXCEPT ![r].weight = w] /\ UNCHANGED capacity
PauseOrResume(r) ==
    Order /\ lanes' = [lanes EXCEPT ![r].running = ~@] /\ UNCHANGED capacity
RestartWith(c) == Order /\ capacity' = c /\ UNCHANGED lanes

SchedulerNext ==
    \/ SelectNext \/ ClaimOffered
    \/ \E n \in Node : NotBeforePasses(n) \/ \E due \in BOOLEAN : EnqueueReadyNode(n, due)
    \/ \E r \in Run : PauseOrResume(r) \/ \E w \in Weights : SetWorkflowWeight(r, w)
    \/ \E c \in Capacities : RestartWith(c)

(* The dispatcher goes on asking and claiming.                              *)
Dispatches == dispatcher' \in {"asks", "answer"} \ {dispatcher}

(* A row that is due and fits the capacity the scheduler has now.            *)
Feasible(n) == n \in Due(RunOf[n], rows) /\ Fits(n) /\ lanes[RunOf[n]].running

(* A feasible node of a lane that is looked at, and that is said to wait for  *)
(* its turn only, gets it: nodes ahead of it that do not fit, whatever their *)
(* priority, are marked and make room for it (scheduler.go:92-131).  The      *)
(* dispatcher asks again and claims what it is offered.  Two kinds of node    *)
(* are excepted: one whose row still has the verdict of an earlier, smaller   *)
(* capacity, which is reported as RESOURCE and which FeasibleWorkRuns is      *)
(* about, and one whose lane stays beyond the first LaneLimit.               *)
FairWaitEnds ==
    \A n \in Node :
      ~<>[](Feasible(n) /\ ExplainNode(n) = "FAIRNESS" /\ RunOf[n] \in ReadyLanes)

(* What scheduler.go:76-77 says of the search: infeasible nodes of a higher   *)
(* priority do not hide feasible work below them for good.                   *)
FeasibleWorkRuns ==
    \A n \in Node : ~<>[](Feasible(n) /\ RunOf[n] \in ReadyLanes)
=============================================================================
