--------------------------- MODULE CircuitBreaker ---------------------------
(***************************************************************************)
(* The durable circuit breaker of one service (retry.CircuitCoordinator).   *)
(*                                                                          *)
(* Several processes ask it for admission and report later how the admitted *)
(* call went, each holding the ticket it was given.  The store runs one     *)
(* write transaction at a time, so an Acquire or a Record is one step; what *)
(* interleaves is the calls between them.  A process may die with a call.   *)
(***************************************************************************)
EXTENDS Integers, FiniteSets

CONSTANTS
    Call,           \* callers; each makes one call at a time
    Threshold,      \* [Call -> the failure threshold its process is configured with]
    Cooldown,
    MaxTime,        \* bound on the clock
    MaxRevision     \* bound on the breaker's revisions

ASSUME BreakerAssumption == Threshold \in [Call -> Int] /\ Cooldown \in Int

VARIABLES
    breaker,        \* the stored row; revision 0: not stored yet
    ticket,         \* [Call -> the ticket of the call in flight, or NoTicket]
    clock,
    disowned        \* a probe's caller died, or its ticket was outdated, in this half-open period

breakerVars == <<breaker, ticket, clock, disowned>>

NoTicket == [revision |-> 0, probe |-> FALSE]
InFlight(c) == ticket[c] # NoTicket

NewBreaker(threshold) ==
    [revision |-> 1, state |-> "CLOSED", failures |-> 0, threshold |-> threshold,
     probeAt |-> 0, probing |-> FALSE]

BreakerInit ==
    /\ breaker = [NewBreaker(1) EXCEPT !.revision = 0]
    /\ ticket = [c \in Call |-> NoTicket]
    /\ clock = 0 /\ disowned = FALSE

(* Allow: a closed breaker admits everybody, an open one a single probe once *)
(* its deadline has passed.                                                 *)
MayProbe ==
    \/ breaker.state = "OPEN" /\ clock >= breaker.probeAt
    \/ breaker.state = "HALF_OPEN" /\ ~breaker.probing

Allow ==
    IF MayProbe THEN [breaker EXCEPT !.state = "HALF_OPEN", !.probing = TRUE] ELSE breaker

(* Acquire also stores the caller's threshold, whether it admits or not.    *)
Admission(c) ==
    LET next == [Allow EXCEPT !.threshold = Threshold[c]]
    IN  IF breaker.revision = 0 THEN NewBreaker(Threshold[c])
        ELSE IF next = breaker THEN breaker
        ELSE [next EXCEPT !.revision = breaker.revision + 1]

Acquire(c) ==
    /\ ~InFlight(c) /\ breaker.revision < MaxRevision
    /\ breaker' = Admission(c)
    /\ ticket' = [ticket EXCEPT ![c] =
          IF breaker.state = "CLOSED" \/ MayProbe
          THEN [revision |-> breaker'.revision, probe |-> MayProbe] ELSE NoTicket]
    /\ disowned' = (disowned \/ (breaker.state = "HALF_OPEN" /\ breaker' # breaker))
    /\ UNCHANGED clock

\* Mutant: only a probe has to be current.
AcceptsLateResults(c) == ~ticket[c].probe \/ ticket[c].revision = breaker.revision

(* Who may still report: a probe only on the revision it was admitted under, *)
(* anybody else only while the breaker is closed.                           *)
Accepts(c) ==
    IF ticket[c].probe
    THEN ticket[c].revision = breaker.revision /\ breaker.state = "HALF_OPEN" /\ breaker.probing
    ELSE breaker.state = "CLOSED"

Recorded(c, next) ==
    /\ InFlight(c) /\ breaker.revision < MaxRevision
    /\ ticket' = [ticket EXCEPT ![c] = NoTicket]
    /\ breaker' = IF Accepts(c) THEN [next EXCEPT !.revision = breaker.revision + 1] ELSE breaker
    /\ disowned' = (disowned /\ breaker'.state = "HALF_OPEN")
    /\ UNCHANGED clock

RecordSuccess(c) ==
    Recorded(c, [breaker EXCEPT !.state = "CLOSED", !.failures = 0, !.threshold = Threshold[c],
                                !.probeAt = 0, !.probing = FALSE])

Trips(c) == breaker.state # "CLOSED" \/ breaker.failures + 1 >= Threshold[c]

RecordFailure(c) ==
    Recorded(c, [breaker EXCEPT !.failures = @ + 1, !.threshold = Threshold[c], !.probing = FALSE,
                                !.state = IF Trips(c) THEN "OPEN" ELSE @,
                                !.probeAt = IF Trips(c) THEN clock + Cooldown ELSE @])

(* A process dies: nobody reports its call.                                 *)
LoseCall(c) ==
    /\ InFlight(c)
    /\ ticket' = [ticket EXCEPT ![c] = NoTicket]
    /\ disowned' = (disowned \/ (ticket[c].probe /\ Accepts(c)))
    /\ UNCHANGED <<breaker, clock>>

ClockTicks == /\ clock < MaxTime /\ clock' = clock + 1
              /\ UNCHANGED <<breaker, ticket, disowned>>

BreakerNext ==
    \/ \E c \in Call : Acquire(c) \/ RecordSuccess(c) \/ RecordFailure(c) \/ LoseCall(c)
    \/ ClockTicks

(* The half-open breaker waits for exactly one probe, in flight, whose        *)
(* result it will take: results of calls admitted before it opened, of two   *)
(* processes, in any order, can neither end the trial nor outdate the        *)
(* probe's ticket.  Only the death of the prober and a caller configured     *)
(* with another threshold can.                                               *)
ProbeCanSettle ==
    breaker.state = "HALF_OPEN" =>
        /\ Cardinality({c \in Call : InFlight(c) /\ ticket[c].probe}) <= 1
        /\ disowned \/ \E c \in Call : ticket[c].probe /\ Accepts(c)
=============================================================================
