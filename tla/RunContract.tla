---------------------------- MODULE RunContract ----------------------------
(***************************************************************************)
(* What the engine promises about one workflow run: nodes run only after   *)
(* everything they depend on succeeded and only while the run is open; a   *)
(* pause closes the gate first and holds the run in the step in which the  *)
(* last running node ends; the first failure decides the run; the run      *)
(* succeeds in the step in which its last node does; cancellation stops    *)
(* all nodes in one step; a decided run is never reopened.                 *)
(***************************************************************************)
EXTENDS FiniteSets

CONSTANTS Node, Definitions

VARIABLES
  phase,    \* ABSENT, OPEN, DRAINING, HELD, SUCCEEDED, FAILED or CANCELLED
  nodes,    \* the nodes of the run
  needs,    \* needs[n]: the nodes n depends on
  running,  \* the nodes being executed
  done,     \* the nodes that succeeded
  failed    \* the nodes that failed for good

vars == <<phase, nodes, needs, running, done, failed>>

Init ==
  /\ phase = "ABSENT"
  /\ nodes = {}
  /\ needs = [n \in Node |-> {}]
  /\ running = {}
  /\ done = {}
  /\ failed = {}

Start(d) ==
  /\ phase = "ABSENT"
  /\ phase' = "OPEN"
  /\ nodes' = d.nodes
  /\ needs' = d.deps
  /\ UNCHANGED <<running, done, failed>>

Begin(n) ==
  /\ phase = "OPEN"
  /\ n \in nodes \ (running \cup done \cup failed)
  /\ needs[n] \subseteq done
  /\ running' = running \cup {n}
  /\ UNCHANGED <<phase, nodes, needs, done, failed>>

\* The phase that follows an open or draining one once `active` nodes run.
Settle(active, finished) ==
  IF finished = nodes THEN "SUCCEEDED"
  ELSE IF phase = "DRAINING" /\ active = {} THEN "HELD"
  ELSE phase

Finish(n) ==
  /\ n \in running
  /\ running' = running \ {n}
  /\ done' = done \cup {n}
  /\ phase' = IF phase \in {"OPEN", "DRAINING"} THEN Settle(running', done') ELSE phase
  /\ UNCHANGED <<nodes, needs, failed>>

Fail(n) ==
  /\ n \in running
  /\ running' = running \ {n}
  /\ failed' = failed \cup {n}
  /\ phase' = IF phase \in {"OPEN", "DRAINING"} THEN "FAILED" ELSE phase
  /\ UNCHANGED <<nodes, needs, done>>

\* The node is refused before it begins, in a held run too.
Refuse(n) ==
  /\ n \in nodes \ (running \cup done \cup failed)
  /\ needs[n] \subseteq done
  /\ failed' = failed \cup {n}
  /\ phase' = IF phase \in {"OPEN", "DRAINING", "HELD"} THEN "FAILED" ELSE phase
  /\ UNCHANGED <<nodes, needs, running, done>>

\* The node is given up for now: it may begin again, or be decided, later.
Suspend(n) ==
  /\ n \in running
  /\ running' = running \ {n}
  /\ phase' = IF phase \in {"OPEN", "DRAINING"} THEN Settle(running', done) ELSE phase
  /\ UNCHANGED <<nodes, needs, done, failed>>

Pause ==
  /\ phase \in {"OPEN", "DRAINING"}
  /\ phase' = IF running = {} THEN "HELD" ELSE "DRAINING"
  /\ UNCHANGED <<nodes, needs, running, done, failed>>

Resume ==
  /\ phase = "HELD"
  /\ phase' = "OPEN"
  /\ UNCHANGED <<nodes, needs, running, done, failed>>

Cancel ==
  /\ phase \in {"OPEN", "DRAINING", "HELD"}
  /\ phase' = "CANCELLED"
  /\ running' = {}
  /\ UNCHANGED <<nodes, needs, done, failed>>

Next ==
  \/ \E d \in Definitions : Start(d)
  \/ \E n \in Node : Begin(n) \/ Finish(n) \/ Fail(n) \/ Refuse(n) \/ Suspend(n)
  \/ Pause \/ Resume \/ Cancel

Spec == Init /\ [][Next]_vars
=============================================================================
