------------------------- MODULE MCProviderRouting -------------------------
(* Instances of ProviderRouting for TLC. *)
EXTENDS ProviderRouting

CONSTANTS a1, a2, m1, m2, w1, w2, w3, s1, q1, q2, c1, c2

TwoAccounts == {a1, a2}
TwoModels == {m1, m2}
OneSession == {s1}
ThreeWindows == {w1, w2, w3}
TwoAttempts == {q1, q2}
TwoCallers == {c1, c2}

\* a1 has one window of the whole account; a2 one for its model and one besides.
Pick1(x, y) == [v \in {a1, a2} |-> IF v = a1 THEN x ELSE y]
ByModel(x, y) == [m \in {m1, m2} |-> IF m = m1 THEN x ELSE y]
ByWindow(x, y, z) == [w \in {w1, w2, w3} |-> IF w = w1 THEN x ELSE IF w = w2 THEN y ELSE z]
OfSession(x) == [s \in {s1} |-> x]

McAccountOf == ByModel(a1, a2)
McKind == Pick1("ANTIGRAVITY", "CODEX")
McRank == ByModel(1, 2)
McCaps == ByModel({"code"}, {"code"})
McContext == ByModel(0, 2)
McEnabled == ByModel(TRUE, TRUE)
McSessionModel == OfSession(m2)
McSessionLimit == OfSession(4)
McSessionSpace == OfSession("repo")
McSessionRank == OfSession(1)
McWindowAccount == ByWindow(a1, a2, a2)
McWindowModel == ByWindow(None, m2, None)
McWindowMetric == ByWindow("TOKENS", "TOKENS", "TOKENS")
McWindowLimit == ByWindow(2, 2, 2)
McWindowReset == ByWindow(None, None, 1)
McWindowRank == ByWindow(1, 2, 3)
McConfidence == ByWindow(1, 1, 1)

Left(a, n) == [w \in WindowsOf(a) |-> n]
McObservations == [a \in {a1, a2} |->
  {[health |-> "HEALTHY", left |-> Left(a, 2)]}
  \cup (IF a = a1 THEN {[health |-> "EXHAUSTED", left |-> Left(a, 0)]} ELSE {})]
McAccountStates == {"DRAINING"}
McSessionStates == {}
McFaults == {{"TRANSIENT"}, {"AUTHENTICATION"}}
McAttemptOf == [c \in {c1, c2} |-> IF c = c1 THEN q1 ELSE q2]
McRequest == [t \in {q1, q2} |->
  [caps |-> {"code"}, tokens |-> 1, space |-> "repo", kind |-> None, model |-> None,
   mode |-> IF t = q1 THEN "READ_ONLY" ELSE "ISOLATED_WRITE"]]
McEffectful == {q1}
McRepeaters == {c2}
McDemands == {1}
McDemandMetric == ByModel("TOKENS", "TOKENS")
=============================================================================
