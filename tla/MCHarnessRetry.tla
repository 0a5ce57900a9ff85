--------------------------- MODULE MCHarnessRetry ---------------------------
(* Instances of HarnessRetry for TLC. *)
EXTENDS HarnessRetry

CONSTANTS n1, n2, w1, r1, r2

Chain == [nodes |-> {n1, n2}, deps |-> [n \in Node |-> IF n = n2 THEN {n1} ELSE {}]]
TwoNodes == {n1, n2}
OneWorker == {w1}
JustChain == {Chain}
Permitted == {TRUE}
ActiveOnly == {"ACTIVE"}

TwoReleasers == {r1, r2}

Limits(w, s) == [scope \in Scope |-> IF scope = "workflow" THEN w ELSE s]
Retrying(max, w, s) == [max |-> max, limits |-> Limits(w, s)]

\* Three attempts of n1 and two of n2, paid from both budgets; the nodes do not
\* agree on the shape of the workflow's.
MixedPolicy == [n \in Node |-> IF n = n1 THEN Retrying(3, 2, 1) ELSE Retrying(2, 1, 1)]
=============================================================================
