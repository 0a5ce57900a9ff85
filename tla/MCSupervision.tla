--------------------------- MODULE MCSupervision ---------------------------
(***************************************************************************)
(* Two components that share no state, checked in one run: "part" chooses    *)
(* the one that moves, the task supervisor with its plans or the choice of   *)
(* providers; the other rests in one initial state.                         *)
(***************************************************************************)
EXTENDS MCReplan, MCProviderRouting
VARIABLE part

partVars == <<vars, routingVars, part>>

PartInit ==
    /\ part \in {"tasks", "routing"}
    /\ Init /\ RoutingInit
    /\ part = "tasks" \/ setup = CHOOSE s \in Setups : TRUE
    /\ part = "routing" \/ capacity = [a \in Accounts |-> CHOOSE o \in Observable(a) : TRUE]

PartNext ==
    /\ \/ part = "tasks" /\ Next /\ UNCHANGED routingVars
       \/ part = "routing" /\ RoutingNext /\ UNCHANGED vars
    /\ UNCHANGED part

PartSpec == PartInit /\ [][PartNext]_partVars
=============================================================================
