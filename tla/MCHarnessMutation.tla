------------------------- MODULE MCHarnessMutation -------------------------
(* Instances of HarnessMutation for TLC. *)
EXTENDS HarnessMutation, TLC

CONSTANTS n1, n2, n3, w1, w2

\* Three nodes and no room to grow, or two and room for the nodes of a proposal.
Static == {n1, n2, n3}
GrowingNodes == Static \cup {<<2, "x">>, <<2, "y">>, <<3, "x">>}

Graph(nodes, second, third) ==
  [nodes |-> nodes, deps |-> [n \in Node |-> IF n = n2 THEN second
                                             ELSE IF n = n3 THEN third ELSE {}]]
Join == Graph(Static, {}, {n1, n2})
Triangle == Graph(Static, {n1}, {n1, n2})
Pair == Graph({n1, n2}, {n1}, {})
Single == Graph({n1}, {}, {})

Growing == {Join, Triangle, Single, Pair}

\* A step, two in a row, and two that wait for each other.
One == [actions |-> [x |-> {}], order |-> <<"x">>]
Row == [actions |-> [x |-> {}, y |-> {"x"}], order |-> <<"x", "y">>]
Cycle == [actions |-> [x |-> {"y"}, y |-> {"x"}], order |-> <<"x", "y">>]
SomeProposals == {One, Row, Cycle}

\* The second of three nodes is given up, the third waits for the first instead.
Bypass == {Mutation(<<>>, <<[node |-> n3, old |-> n2, new |-> n1]>>, {n2})}

TwoWorkers == {w1, w2}
WorkerSymmetry == Permutations(Worker)
ActiveOnly == {"ACTIVE"}
=============================================================================
