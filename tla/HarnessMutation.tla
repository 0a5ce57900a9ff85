-------------------------- MODULE HarnessMutation --------------------------
(***************************************************************************)
(* Changes of a running graph (internal/harness/engine/mutation.go) and the *)
(* replanner that asks for them (internal/replan/harness_replan.go).        *)
(*                                                                          *)
(* A client reads the run in a transaction of its own, works out a mutation *)
(* for the revision it saw and applies it in another; it may apply the same *)
(* one again, and others do the same meanwhile.                             *)
(*                                                                          *)
(* A node a proposal adds is named <<revision, action>>.  Bounds: the names *)
(* in Node, MaxNodes nodes, MaxRevision, MaxOffers mutations worked out.    *)
(***************************************************************************)
EXTENDS HarnessEngine, Sequences
Plan == INSTANCE Planner

CONSTANTS
  Proposals,  \* [actions: names and what they depend on, order: their order]
  Repairs,    \* graph mutations a client writes itself
  MaxNodes, MaxRevision, MaxOffers

ASSUME MutationAssumption ==
  /\ \A p \in Proposals : p.order \in Seq(DOMAIN p.actions)
  /\ \A m \in Repairs : m.adds \in Seq([id : Node, needs : SUBSET Node])

VARIABLES
  revision,   \* workflow_runs.current_graph_revision
  offers,     \* mutations worked out, each with the revision it was worked out from
  missed,     \* history: <<n, m>> when n was added behind m after m had succeeded
  touched     \* history: the nodes superseded, or given another dependency

mutationVars == <<revision, offers, missed, touched>>

Existing == {n \in Node : node[n] # "ABSENT"}

Added(id, needs) == [id |-> id, needs |-> needs]
Mutation(adds, replaces, supersedes) ==
  [adds |-> adds, replaces |-> replaces, supersedes |-> supersedes]

----------------------------------------------------------------------------
\* Actions that depend on no other come after the node that triggered them.
BuildHarnessMutation(proposal, trigger, nextRev) ==
  LET Id(a) == <<nextRev, a>>
      Needs(a) == IF proposal.actions[a] = {} THEN {trigger}
                  ELSE {Id(b) : b \in proposal.actions[a]}
  IN Mutation([k \in DOMAIN proposal.order |->
                 Added(Id(proposal.order[k]), Needs(proposal.order[k]))], <<>>, {})

Offer(mutation) == [mutation |-> mutation, expected |-> revision]

Propose(mutation) ==
  /\ wf # "ABSENT"
  /\ Cardinality(offers) < MaxOffers
  /\ Cardinality(Existing) + Len(mutation.adds) <= MaxNodes
  /\ offers' = offers \cup {Offer(mutation)}
  /\ UNCHANGED <<vars, revision, missed, touched>>

ProposeActions(proposal, trigger) ==
  /\ trigger \in Existing
  /\ Plan!Valid(proposal.actions, proposal.order)
  /\ Propose(BuildHarnessMutation(proposal, trigger, revision + 1))

----------------------------------------------------------------------------
ExpectedRevision(o) == o.expected = revision

Ids(m) == {m.adds[k].id : k \in DOMAIN m.adds}
Needs(m, n) == UNION {m.adds[k].needs : k \in {j \in DOMAIN m.adds : m.adds[j].id = n}}

\* Foreign keys: a node may depend on the nodes there are and on those added
\* before it; a second run of a node is refused.
Addable(adds) ==
  \A k \in DOMAIN adds :
    /\ adds[k].id \in Node \ Existing
    /\ adds[k].needs \subseteq Existing \cup {adds[j].id : j \in 1..(k - 1)}
    /\ \A j \in 1..(k - 1) : adds[j].id # adds[k].id

Replaceable(m) ==
  \A k \in DOMAIN m.replaces :
    /\ {m.replaces[k].node, m.replaces[k].new} \subseteq Existing \cup Ids(m)
    /\ m.replaces[k].node # m.replaces[k].new

\* A replacement takes one dependency of its node away and then adds another,
\* whether the old one was there or not.
Removes(rep, n, d) == rep.node = n /\ rep.old = d /\ rep.new # d
Adds(rep, n, d) == rep.node = n /\ rep.new = d

\* The dependencies afterwards: those there were, those of added nodes and those
\* replacements brought, but for what a later replacement took away.
Mutated(graph, m) ==
  LET RemovedAfter(j, n, d) == \E k \in DOMAIN m.replaces : k > j /\ Removes(m.replaces[k], n, d) IN
  [n \in Node |-> {d \in Node :
     \/ d \in graph[n] \cup Needs(m, n) /\ ~RemovedAfter(0, n, d)
     \/ \E j \in DOMAIN m.replaces : Adds(m.replaces[j], n, d) /\ ~RemovedAfter(j, n, d)}]

\* Mutant: a node behind others is ready at once.
InitialStateReady(needs) == "READY"

InitialState(needs) == IF needs = {} THEN "READY" ELSE "PENDING_DEPENDENCIES"

\* Mutant: one dependency too few is waited for.
InitialRemainingShort(needs) == IF needs = {} THEN 0 ELSE Cardinality(needs) - 1

\* What an added node waits for is counted as if none of it had happened yet.
InitialRemaining(needs) == Cardinality(needs)

\* Superseding is for nodes that are not at work; nothing counts them as terminal.
\* No node is WAITING here, as timers, signals and approvals are in HarnessWaits:
\* what a WAITING node waits for is left open in the code.
Superseded(m) == {n \in m.supersedes : node[n] \in {"PENDING_DEPENDENCIES", "READY", "WAITING"}}

\* Replacing a dependency leaves the counter and the state of its node alone.
ApplyGraphMutation(o) ==
  LET m == o.mutation
      roots == {n \in Ids(m) : InitialState(Needs(m, n)) = "READY"}
  IN
  /\ wf \notin TerminalWorkflow \cup {"ABSENT"}
  /\ ExpectedRevision(o)
  /\ revision < MaxRevision /\ Cardinality(Existing) + Len(m.adds) <= MaxNodes
  /\ Addable(m.adds) /\ Replaceable(m) /\ m.supersedes \subseteq Existing
  /\ revision' = revision + 1
  /\ deps' = Mutated(deps, m)
  /\ node' = [n \in Node |-> IF n \in Ids(m) THEN InitialState(Needs(m, n))
                             ELSE IF n \in Superseded(m) THEN "CANCELLED" ELSE node[n]]
  /\ remaining' = [n \in Node |-> IF n \in Ids(m) THEN InitialRemaining(Needs(m, n))
                                  ELSE remaining[n]]
  /\ ready' = (ready \ Superseded(m)) \cup roots
  /\ progress' = [progress EXCEPT !.total = @ + Len(m.adds)]
  /\ missed' = missed \cup {e \in Ids(m) \X Existing :
                              e[2] \in Needs(m, e[1]) /\ node[e[2]] = "SUCCEEDED"}
  /\ touched' = touched \cup Superseded(m) \cup {m.replaces[k].node : k \in DOMAIN m.replaces}
  /\ UNCHANGED <<wf, attempt, lease, worker, outcome, offers>>

----------------------------------------------------------------------------
MutationInit == Init /\ revision = 1 /\ offers = {} /\ missed = {} /\ touched = {}

MutationNext ==
  \/ Next /\ UNCHANGED mutationVars
  \/ \E p \in Proposals, n \in Node : ProposeActions(p, n)
  \/ \E m \in Repairs : Propose(m)
  \/ \E o \in offers : ApplyGraphMutation(o)

MutationSpec == MutationInit /\ [][MutationNext]_<<vars, mutationVars>>

----------------------------------------------------------------------------
(* Safety.                                                                 *)

Undecided == wf \in {"RUNNING", "PAUSING", "PAUSED"}

\* A node leaves PENDING_DEPENDENCIES only once everything it depends on has
\* SUCCEEDED, however its graph has grown; while the run is undecided the
\* stored counter of a pending node is the number of dependencies still to
\* succeed, and of those that had succeeded before the node was added.  Nodes
\* whose dependencies a mutation replaced are excepted: nothing counts again.
DependencyGate ==
  \A n \in Node \ touched :
    /\ node[n] \notin {"ABSENT", "PENDING_DEPENDENCIES", "CANCELLED"} =>
         \A m \in deps[n] : node[m] = "SUCCEEDED"
    /\ node[n] = "PENDING_DEPENDENCIES" /\ Undecided =>
         LET open == {m \in deps[n] : node[m] # "SUCCEEDED"}
             never == {m \in deps[n] : <<n, m>> \in missed}
         IN remaining[n] = Cardinality(open) + Cardinality(never) /\ remaining[n] > 0

\* A success is never refused because of what else happened to the graph, unless
\* a dependent was superseded or rewired: whoever executes a node of an undecided
\* run finds each of its other dependents waiting.
CompletionAccepted ==
  Undecided => \A a \in Attempt : attempt[a].state = "RUNNING" =>
    \A c \in Dependents(NodeOf(a)) \ touched :
      node[c] = "PENDING_DEPENDENCIES" /\ remaining[c] > 0

\* An undecided run has a node a client can still act on, unless some node was
\* added behind one that had succeeded, superseded or rewired.
OnlyMissedStrand == missed = {} /\ touched = {} => NothingStranded

=============================================================================
