------------------------------ MODULE Planner ------------------------------
(***************************************************************************)
(* Plans (internal/planner) and the graphs adaptive replanning adds to      *)
(* them: which nodes a plan gets, and the order in which tasks are made of  *)
(* nodes.  A graph is a function from names to the names it depends on.     *)
(***************************************************************************)
EXTENDS Naturals, SequencesExt

(***************************************************************************)
(* buildNodes.  What classify reads off the prompt and the project: facets  *)
(* is a subset of {"complex", "research", "security", "write"}.             *)
(***************************************************************************)
Facets(signs) ==
    signs \cup (IF signs \cap {"research", "security"} # {} THEN {"complex"} ELSE {})

NodeNames == <<"implement", "inspect", "research", "review", "security", "verify">>

BuildNodes(facets) ==
    LET context == (IF "complex" \in facets THEN {"inspect"} ELSE {})
                   \cup (facets \cap {"research"})
        source == IF "write" \in facets THEN {"implement"} ELSE context
        audit == facets \cap {"security"}
        names == context \cup source \cup audit \cup {"verify", "review"}
        needs == [inspect |-> {}, research |-> {}, implement |-> context,
                  verify |-> source, security |-> source, review |-> {"verify"} \cup audit]
    IN  [n \in names |-> needs[n]]

Writes(n) == n = "implement"

(***************************************************************************)
(* validate, topo and topoActions.  Of the names whose dependencies are out *)
(* already, the first in the order of names comes next.                     *)
(***************************************************************************)
Topo(graph, order) ==
    LET Next(out) == SelectSeq(order, LAMBDA n :
                       /\ n \in DOMAIN graph \ Range(out)
                       /\ graph[n] \subseteq Range(out))
        add(out, step) == IF Next(out) = <<>> THEN out ELSE Append(out, Head(Next(out)))
    IN  FoldLeft(add, <<>>, order)

Known(graph) == \A n \in DOMAIN graph : graph[n] \subseteq DOMAIN graph
Acyclic(graph, order) == Len(Topo(graph, order)) = Cardinality(DOMAIN graph)
Valid(graph, order) == Known(graph) /\ Acyclic(graph, order)

(* leafActionIDs: the names nothing depends on.                              *)
Leaves(graph) == DOMAIN graph \ UNION Range(graph)
=============================================================================
