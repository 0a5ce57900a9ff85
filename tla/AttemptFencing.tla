--------------------------- MODULE AttemptFencing ---------------------------
(***************************************************************************)
(* What the lease protocol promises about attempts, without leases, clocks *)
(* or worker registration.  An attempt is granted to one owner at a time;  *)
(* each grant carries a token one higher than the grant before it, so a    *)
(* new grant makes every earlier one stale.  The attempt is closed once,   *)
(* by the holder of its latest token, or withdrawn, and is then never      *)
(* granted or closed again.                                                *)
(***************************************************************************)
EXTENDS Integers

CONSTANTS Attempt, Worker, NoWorker

VARIABLES
  holder,   \* the owner of the latest grant
  token,    \* the number of grants so far
  verdict,  \* UNUSED, OPEN, CLOSED or WITHDRAWN
  closedBy  \* the grant the attempt was closed with

vars == <<holder, token, verdict, closedBy>>

NoGrant == [worker |-> NoWorker, epoch |-> -1]

Init ==
  /\ holder = [a \in Attempt |-> NoWorker]
  /\ token = [a \in Attempt |-> 0]
  /\ verdict = [a \in Attempt |-> "UNUSED"]
  /\ closedBy = [a \in Attempt |-> NoGrant]

\* An attempt without an owner: only calls that carry no token may close it.
OpenUnowned(a) ==
  /\ verdict[a] = "UNUSED"
  /\ verdict' = [verdict EXCEPT ![a] = "OPEN"]
  /\ UNCHANGED <<holder, token, closedBy>>

\* The first grant of a new attempt.
Claim(a, w) ==
  /\ verdict[a] = "UNUSED"
  /\ verdict' = [verdict EXCEPT ![a] = "OPEN"]
  /\ holder' = [holder EXCEPT ![a] = w]
  /\ token' = [token EXCEPT ![a] = 1]
  /\ UNCHANGED closedBy

\* A later grant: only an attempt that has an owner changes owner.
Regrant(a, w) ==
  /\ verdict[a] = "OPEN"
  /\ token[a] > 0
  /\ holder' = [holder EXCEPT ![a] = w]
  /\ token' = [token EXCEPT ![a] = @ + 1]
  /\ UNCHANGED <<verdict, closedBy>>

Close(a) ==
  /\ verdict[a] = "OPEN"
  /\ verdict' = [verdict EXCEPT ![a] = "CLOSED"]
  /\ closedBy' = [closedBy EXCEPT ![a] = [worker |-> holder[a], epoch |-> token[a]]]
  /\ UNCHANGED <<holder, token>>

\* The engine takes back every open attempt at once.
WithdrawAll ==
  /\ verdict' = [a \in Attempt |-> IF verdict[a] = "OPEN" THEN "WITHDRAWN" ELSE verdict[a]]
  /\ UNCHANGED <<holder, token, closedBy>>

Next ==
  \/ \E a \in Attempt : OpenUnowned(a) \/ Close(a)
  \/ \E a \in Attempt, w \in Worker : Claim(a, w) \/ Regrant(a, w)
  \/ WithdrawAll

Spec == Init /\ [][Next]_vars
=============================================================================
