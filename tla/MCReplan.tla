------------------------------ MODULE MCReplan ------------------------------
(* Instances of Replan for TLC. *)
EXTENDS Replan

CONSTANTS t1, t2, t3, t4, t5, t6, t7, t8, t9, r1, r2, shop, crash, timeout

InOrder == <<t1, t2, t3, t4, t5, t6, t7, t8, t9>>
NineTasks == Range(InOrder)
TwoRunners == {r1, r2}
RunnerSymmetry == Permutations(Runner)

\* The second task fits next to the first unless it wants the workspace alone.
Slots == {"cpu", "build"}
Budget == [k \in Resource |-> IF k = "cpu" THEN 2 ELSE 1]
OneBuilder == [t \in Task |-> [k \in Resource |-> IF k = "cpu" \/ t = t1 THEN 1 ELSE 0]]
OneShop == [t \in Task |-> shop]
SecondTask == {t2}

TwoFailures == {crash, timeout}

\* A fork of two branches, a chain that is too risky, one with a cycle, one
\* that is no proposal at all, and one larger than a plan may grow.
Proposal(sound, risky, actions, order, parallel) ==
  [sound |-> sound, risky |-> risky, actions |-> actions, order |-> order, parallel |-> parallel]
Fork == Proposal(TRUE, FALSE, [x |-> {}, y |-> {}], <<"x", "y">>, {"x", "y"})
Chain == Proposal(TRUE, FALSE, [x |-> {}, y |-> {"x"}], <<"x", "y">>, {})
Risky == [Chain EXCEPT !.risky = TRUE]
Cycle == [Chain EXCEPT !.actions = [x |-> {"y"}, y |-> {"x"}]]
Unsound == [Chain EXCEPT !.sound = FALSE]
Large == Proposal(TRUE, FALSE, [a \in {"u", "v", "w", "x", "y", "z"} |-> {}], <<"u", "v", "w", "x", "y", "z">>, {})
SomeProposals == {Fork, Chain, Risky, Cycle, Unsound, Large}

\* Two supervisors on tasks without a plan, or one of them at a time on a plan.
\* What a situation does not use of a bound is spent before it begins.
Situation == [plain |-> 0, solo |-> TRUE, proposes |-> {}, signs |-> {"write"},
              commands |-> {"cancel", "retry", "remove"}, launches |-> MaxLaunches, troubles |-> 0]
Situations == {
  [Situation EXCEPT !.plain = 2, !.solo = FALSE, !.launches = 3],
  [Situation EXCEPT !.plain = 1, !.solo = FALSE, !.launches = 3, !.troubles = 1],
  Situation,
  [Situation EXCEPT !.signs = {}, !.troubles = 1],
  [Situation EXCEPT !.signs = {"complex"}, !.proposes = SomeProposals],
  [Situation EXCEPT !.signs = {}, !.proposes = {Chain}, !.troubles = 1, !.commands = {}]}
Twice == {[Situation EXCEPT !.plain = 1, !.solo = FALSE, !.launches = 3]}
Later == {[Situation EXCEPT !.commands = {}, !.troubles = 1]}
=============================================================================
