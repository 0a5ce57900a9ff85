--------------------------- MODULE MCHarnessEffects ---------------------------
(* Instances of HarnessEffects for TLC. *)
EXTENDS HarnessEffects

CONSTANTS n1, n2, w1, w2, r1, x1, x2

Chain == [nodes |-> {n1, n2}, deps |-> [n \in Node |-> IF n = n2 THEN {n1} ELSE {}]]

Single == [nodes |-> {n1}, deps |-> [n \in Node |-> {}]]

TwoNodes == {n1, n2}
OneNode == {n1}
JustChain == {Chain}
JustSingle == {Single}
OneWorker == {w1}
TwoWorkers == {w1, w2}
ActiveOnly == {"ACTIVE"}
OneReleaser == {r1}
Always == {TRUE}

\* n1 may be attempted twice, the others once; there are no budgets.
TwicePolicy == [n \in Node |-> [max |-> IF n = n1 THEN 2 ELSE 1, limits |-> [s \in Scope |-> 0]]]

OneEffect == {x1}
AtFirstNode == [e \in Effect |-> n1]
Charge == [e \in Effect |-> "NON_IDEMPOTENT_UNKNOWN"]
Writes == [e \in Effect |-> "write"]
=============================================================================
