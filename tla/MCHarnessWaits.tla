--------------------------- MODULE MCHarnessWaits ---------------------------
(* Instances of HarnessWaits for TLC. *)
EXTENDS HarnessWaits

CONSTANTS n1, n2, w1, s1, s2

Chain == [nodes |-> {n1, n2}, deps |-> [n \in Node |-> IF n = n2 THEN {n1} ELSE {}]]
Apart == [nodes |-> {n1, n2}, deps |-> [n \in Node |-> {}]]

TwoNodes == {n1, n2}
Shapes == {Chain, Apart}
OneWorker == {w1}
NoState == {}
ActiveOnly == {"ACTIVE"}

TwoSignals == {s1, s2}
\* Two messages of one signal.
OneName == [s \in Signal |-> "go"]
=============================================================================
