--------------------------- MODULE ProviderRouting ---------------------------
(***************************************************************************)
(* The durable ledger of provider assignments and claims, and the three     *)
(* parties that write it without talking to each other:                     *)
(*                                                                          *)
(*   - callers of provider/router.Router, which select a provider in one    *)
(*     transaction, commit the assignment in a second, run the task outside *)
(*     any, and settle in a third;                                          *)
(*   - provider/reservation.Service, which claims every quota window of a   *)
(*     model in one transaction;                                            *)
(*   - provider/handoff.HandoffManager, which moves an attempt to another   *)
(*     account in one transaction.                                          *)
(*                                                                          *)
(* Store.Update runs on the single writer connection, so each of these      *)
(* transactions is one step; everything between them interleaves.           *)
(***************************************************************************)
EXTENDS ProviderSelection, Sequences, FiniteSetsExt

CONSTANTS
    Attempts, Callers,
    Effectful,       \* attempts whose executor performs a non-idempotent effect
    Repeaters,       \* callers that may execute one route twice
    AttemptOf,       \* [Callers -> Attempts]
    Request,         \* [Attempts -> selector request with .mode and .tokens]
    Demands,         \* amounts the reservation service is asked for
    DemandMetric,    \* [Models -> metric of that demand]
    Measured,        \* accounts with a capacity snapshot from an earlier run
    Observations,    \* [Accounts -> set of [health, left]] providers report
    AccountStates, SessionStates,   \* values operators and providers set
    FaultSigns,      \* sets of signs an execution error can carry
    RouteAmount,     \* claim of a route on a FRACTION window, units of 1/Unit
    ClaimTTL,        \* ticks a claim counts
    MaxAssignments,  \* bound on assignments ever created
    MaxReports       \* bound on ticks and reports

ASSUME RoutingAssumption ==
    /\ AttemptOf \in [Callers -> Attempts]
    /\ Rank \in [Models -> Nat]

VARIABLES
    account, capacity, session, circuit,  \* what providers and executions reported
    asn,     \* the assignments ever created, with the ACTIVE claims of each
    effect,  \* [Attempts -> state of its one non-idempotent effect]
    call,    \* what each caller of the router is doing
    ended,   \* callers whose execution returned, in the order of their clocks
    reports  \* ticks and reports so far, at most MaxReports

routingVars == <<account, capacity, session, circuit, asn, effect, call, ended, reports>>

Ended == {"COMPLETED", "RELEASED", "SUPERSEDED"}
Unsafe == {"DISPATCHED", "IN_DOUBT"}

Active(t) == {i \in DOMAIN asn : asn[i].attempt = t /\ asn[i].state = "ACTIVE"}

Assignment(t, m, s, claims, key) ==
    [attempt |-> t, model |-> m, session |-> s, claims |-> claims, key |-> key,
     state |-> "ACTIVE", samples |-> 0]

Claim(w, m, amount, left) == [window |-> w, model |-> m, amount |-> amount, left |-> left]

ValidClaim(k) ==
    /\ WindowMetric[k.window] # "OPAQUE"
    /\ k.amount > 0 /\ (WindowMetric[k.window] = "FRACTION" => k.amount <= Unit)

(* A claim is on the account of its assignment and on its model, if on any. *)
CanClaim(a, k) ==
    /\ a.state = "ACTIVE" /\ ValidClaim(k)
    /\ WindowAccount[k.window] = AccountOf[a.model]
    /\ k.model \in {None, a.model}

(* One ACTIVE assignment per attempt is a unique index of the ledger.       *)
CanCreate(a) == Active(a.attempt) = {} /\ \A k \in a.claims : CanClaim(a, k)

CreateAssignment(a) ==
    /\ Len(asn) < MaxAssignments
    /\ CanCreate(a)
    /\ asn' = Append(asn, a)

\* Mutants.
CanEndWithClaims(i, claims) == asn[i].state = "ACTIVE"
(* A terminal state is refused while a claim is still ACTIVE, and a settled *)
(* revision is never written again.                                         *)
CanEnd(i, claims) == asn[i].state = "ACTIVE" /\ claims = {}

(* Only an ACTIVE claim is released.                                        *)
CanRelease(i, w) == w = None \/ \E k \in asn[i].claims : k.window = w

(* A token count is no valid amount on a FRACTION window.                   *)
WithUsageSample(n, w) == IF w # None /\ WindowMetric[w] = "TOKENS" THEN n + 1 ELSE n

Idle == [phase |-> "idle", model |-> None, session |-> None, window |-> None,
         asn |-> 0, fault |-> None, late |-> FALSE, again |-> FALSE]

Observable(a) == {[health |-> o.health, age |-> 0, left |-> o.left] : o \in Observations[a]}

RoutingInit ==
    /\ account = [a \in Accounts |-> "ACTIVE"]
    /\ capacity \in [Accounts -> {None} \cup UNION {Observable(a) : a \in Accounts}]
    /\ \A a \in Accounts : capacity[a] \in (IF a \in Measured THEN Observable(a) ELSE {None})
    /\ session = [s \in Sessions |-> [state |-> "ACTIVE", used |-> 0]]
    /\ circuit = [m \in Models |-> [state |-> "CLOSED", failures |-> 0]]
    /\ asn = <<>>
    /\ effect = [t \in Attempts |-> "NONE"]
    /\ call = [c \in Callers |-> Idle]
    /\ ended = <<>>
    /\ reports = 0

-----------------------------------------------------------------------------
(* What providers and operators report.                                     *)

ClaimsAgeing(i) == {[c EXCEPT !.left = IF @ > 0 THEN @ - 1 ELSE 0] : c \in asn[i].claims}

Tick ==
    /\ capacity' = [a \in Accounts |->
          IF capacity[a] = None THEN None
          ELSE [capacity[a] EXCEPT !.age = IF @ < ExpireAfter THEN @ + 1 ELSE @]]
    /\ asn' = [i \in DOMAIN asn |-> [asn[i] EXCEPT !.claims = ClaimsAgeing(i)]]
    /\ <<capacity, asn>>' # <<capacity, asn>>
    /\ UNCHANGED <<account, session, circuit, effect, call, ended>>

AppendProviderCapacity(a) ==
    /\ \E o \in Observable(a) : ValidCapacity(a, o) /\ capacity' = [capacity EXCEPT ![a] = o]
    /\ UNCHANGED <<account, session, circuit, asn, effect, call, ended>>

UpsertProviderAccount(a) ==
    /\ \E s \in AccountStates \cap AccountState : account' = [account EXCEPT ![a] = s]
    /\ UNCHANGED <<capacity, session, circuit, asn, effect, call, ended>>

UpsertProviderSession(s) ==
    /\ \E v \in SessionStates : ValidSession(s, v) /\ session' = [session EXCEPT ![s] = v]
    /\ UNCHANGED <<account, capacity, circuit, asn, effect, call, ended>>

-----------------------------------------------------------------------------
(* The router.                                                              *)

Candidates ==
    {[model |-> m, account |-> account[AccountOf[m]], capacity |-> capacity[AccountOf[m]],
      sessions |-> session, circuit |-> circuit[m].state] : m \in Models}

(* The decision is taken on a snapshot; the commit does not look at it again.*)
SelectProvider(c) ==
    LET r == Request[AttemptOf[c]]
        winner == Evaluate(Candidates, r)
    IN  /\ call[c].phase = "idle"
        /\ winner # None
        /\ call' = [call EXCEPT ![c] =
             [Idle EXCEPT !.phase = "selected", !.model = winner.model,
                          !.session = SessionDecision(winner, r).session,
                          !.window = IF r.tokens > 0 THEN ClaimWindow(winner) ELSE None]]
        /\ UNCHANGED <<account, capacity, session, circuit, asn, effect, ended, reports>>

Route(c) == Request[AttemptOf[c]].mode = "READ_ONLY" /\ SelectProvider(c)
RouteIsolatedWrite(c) == Request[AttemptOf[c]].mode = "ISOLATED_WRITE" /\ SelectProvider(c)

(* The one claim of a route carries the model even on a window of the whole *)
(* account, and is not compared with the claims already there.              *)
RouteClaim(m, w, tokens) ==
    IF w = None THEN {}
    ELSE {Claim(w, m, IF WindowMetric[w] = "FRACTION" THEN RouteAmount ELSE tokens, ClaimTTL)}

CommitRoute(c) ==
    LET t == AttemptOf[c]
        new == Assignment(t, call[c].model, call[c].session,
                          RouteClaim(call[c].model, call[c].window, Request[t].tokens), None)
    IN  /\ call[c].phase = "selected"
        /\ \/ /\ CreateAssignment(new)
              /\ call' = [call EXCEPT ![c].phase = "routed", ![c].asn = Len(asn) + 1]
           \/ /\ ~CanCreate(new)
              /\ call' = [call EXCEPT ![c] = Idle]
              /\ UNCHANGED asn
        /\ UNCHANGED <<account, capacity, session, circuit, effect, ended, reports>>

(* The executor runs outside any transaction and may leave an effect behind.*)
DispatchEffect(c) ==
    /\ call[c].phase = "routed" /\ AttemptOf[c] \in Effectful
    /\ effect[AttemptOf[c]] = "NONE"
    /\ effect' = [effect EXCEPT ![AttemptOf[c]] = "DISPATCHED"]
    /\ UNCHANGED <<account, capacity, session, circuit, asn, call, ended, reports>>

ResolveEffect(t) ==
    /\ effect[t] = "DISPATCHED"
    /\ \E s \in {"CONFIRMED", "FAILED", "IN_DOUBT"} : effect' = [effect EXCEPT ![t] = s]
    /\ UNCHANGED <<account, capacity, session, circuit, asn, call, ended, reports>>

(* Execute checks only the route value it was given, so one route may be    *)
(* executed again after it settled.                                         *)
ExecuteAgain(c) ==
    /\ call[c].phase = "settled"
    /\ call' = [call EXCEPT ![c].phase = "routed", ![c].again = TRUE,
                            ![c].fault = None, ![c].late = FALSE]
    /\ UNCHANGED <<account, capacity, session, circuit, asn, effect, ended, reports>>

ExecutorReturns(c) ==
    /\ call[c].phase = "routed"
    /\ \/ call' = [call EXCEPT ![c].phase = "decided"]
       \/ \E signs \in FaultSigns :
            call' = [call EXCEPT ![c].phase = "failed", ![c].fault = Classify(signs)]
    /\ ended' = Append(ended, c)
    /\ UNCHANGED <<account, capacity, session, circuit, asn, effect, reports>>

(* The retry decision reads the circuit in a transaction of its own.  Every *)
(* execution of the router counts as the first attempt.                     *)
DecideFault(c) ==
    LET trips == Decide(call[c].fault, 1, 1, circuit[call[c].model]) = "TRIP_AND_FAILOVER"
    IN  /\ call[c].phase = "failed"
        /\ call' = [call EXCEPT ![c].phase = IF trips THEN "decided" ELSE "recorded"]
        /\ ended' = IF trips THEN ended ELSE SelectSeq(ended, LAMBDA d : d # c)
        /\ UNCHANGED <<account, capacity, session, circuit, asn, effect, reports>>

(* The failure count is capped at the threshold, past which it says nothing.*)
RecordSuccess(k) == [state |-> "CLOSED", failures |-> 0]

RecordFailure(k) ==
    [failures |-> IF k.failures < Threshold THEN k.failures + 1 ELSE k.failures,
     state |-> IF k.failures + 1 >= Threshold \/ k.state # "CLOSED" THEN "OPEN" ELSE k.state]

(* Of several executions of one model, the circuit takes only reports that  *)
(* are not older than the last one it took.                                 *)
Overtaken(c) ==
    LET pos == CHOOSE i \in DOMAIN ended : ended[i] = c
    IN  {d \in {ended[i] : i \in 1..(pos - 1)} : call[d].model = call[c].model}

RecordOutcome(c) ==
    LET m == call[c].model
        new == IF call[c].fault = None THEN RecordSuccess(circuit[m]) ELSE RecordFailure(circuit[m])
        writes == ~call[c].late /\ (call[c].fault # None \/ circuit[m] # new)
    IN  /\ call[c].phase = "decided"
        /\ circuit' = IF writes THEN [circuit EXCEPT ![m] = new] ELSE circuit
        /\ call' = [d \in Callers |->
             IF d = c THEN [call[c] EXCEPT !.phase = "recorded", !.late = FALSE]
             ELSE IF writes /\ d \in Overtaken(c) THEN [call[d] EXCEPT !.late = TRUE]
             ELSE call[d]]
        /\ ended' = SelectSeq(ended, LAMBDA d : d # c)
        /\ UNCHANGED <<account, capacity, session, asn, effect, reports>>

(* Reservation first, then the assignment, both by compare-and-swap on the  *)
(* revision the route was committed with; the sample only if both succeed.  *)
Settle(c) ==
    LET i == call[c].asn
        kept == {k \in asn[i].claims : k.window # call[c].window}
        verdict == IF call[c].fault = None THEN "COMPLETED" ELSE "RELEASED"
    IN  /\ call[c].phase = "recorded"
        /\ asn' = IF CanRelease(i, call[c].window) /\ CanEnd(i, kept)
                  THEN [asn EXCEPT ![i].claims = kept, ![i].state = verdict,
                          ![i].samples = WithUsageSample(@, call[c].window)]
                  ELSE asn
        /\ call' = [call EXCEPT ![c] = IF c \in Repeaters /\ ~call[c].again
                                       THEN [call[c] EXCEPT !.phase = "settled"] ELSE Idle]
        /\ UNCHANGED <<account, capacity, session, circuit, effect, ended, reports>>

(* A route lives only in the memory of its caller.                          *)
CallerStops(c) ==
    /\ call[c].phase # "idle"
    /\ call' = [call EXCEPT ![c] = Idle]
    /\ ended' = SelectSeq(ended, LAMBDA d : d # c)
    /\ UNCHANGED <<account, capacity, session, circuit, asn, effect, reports>>

-----------------------------------------------------------------------------
(* The reservation service.                                                 *)

(* Live claims of every assignment on a window, whatever made them.         *)
LiveClaims(w) ==
    UNION {{[k |-> k, i |-> i] : k \in {x \in asn[i].claims : x.window = w /\ x.left > 0}} :
              i \in DOMAIN asn}
Claimed(w) == MapThenSumSet(LAMBDA x : x.k.amount, LiveClaims(w))

ApplicableWindows(m) ==
    {w \in WindowsOf(AccountOf[m]) :
        WindowMetric[w] = DemandMetric[m] /\ WindowModel[w] \in {None, m}}

(* A live claim that names another model contradicts the window.            *)
ClaimFits(w, amount, snap) ==
    /\ \A x \in LiveClaims(w) : x.k.model = WindowModel[w]
    /\ (Claimed(w) + amount) * Full <= Headroom(w, snap)

LeastOf(S) == CHOOSE x \in S : \A y \in S : x <= y

(* A claim lasts no longer than its evidence, nor past the window's reset.  *)
ClaimExpiry(w, snap) ==
    LeastOf({ClaimTTL, ExpireAfter - snap.age}
            \cup (IF WindowReset[w] = None THEN {} ELSE {WindowReset[w] - snap.age}))

(* A repeated request whose assignment is still ACTIVE is answered from the *)
(* ledger and changes nothing; one whose assignment has ended is refused.   *)
Reserve(t, m) ==
    LET a == AccountOf[m]
        snap == capacity[a]
        windows == ApplicableWindows(m)
    IN  /\ account[a] = "ACTIVE" /\ Enabled[m]
        /\ snap # None
        /\ \A i \in DOMAIN asn : asn[i].key # t
        /\ Len(asn) < MaxAssignments
        /\ Evidence(a, snap) \notin {"UNAVAILABLE", "EXHAUSTED", "STALE"}
        /\ windows # {}
        /\ \A w \in windows : ~Expired(w, snap) /\ snap.left[w] # None
        /\ \E amount \in Demands :
             /\ \A w \in windows : ClaimFits(w, amount, snap)
             /\ CreateAssignment(Assignment(t, m, None,
                  IF amount = 0 THEN {}
                  ELSE {Claim(w, WindowModel[w], amount, ClaimExpiry(w, snap)) : w \in windows}, t))
        /\ UNCHANGED <<account, capacity, session, circuit, effect, call, ended, reports>>

-----------------------------------------------------------------------------
(* The handoff.                                                             *)

\* Mutant: only effects still on their way are reconciled.
CheckDispatchedOnly(t) ==
    IF effect[t] = "DISPATCHED" THEN {"CONFIRMED", "FAILED"} ELSE {effect[t]}

(* A DISPATCHED or IN_DOUBT effect must be reconciled first.  The reconciler*)
(* answers CONFIRMED, ABSENT, FAILED or UNKNOWN; UNKNOWN, like an error or a *)
(* missing reconciler, stops the handoff.                                   *)
CheckEffectSafety(t) ==
    IF effect[t] \in Unsafe THEN {"CONFIRMED", "FAILED"} ELSE {effect[t]}

(* The replacement is the first candidate that no filter eliminates, in the *)
(* order they are listed, on an account other than the one left.            *)
Replacement(i) ==
    LET left == AccountOf[asn[i].model]
        fit == {c \in Candidates : Viable(c, Request[asn[i].attempt]) /\ AccountOf[c.model] # left}
    IN  IF fit = {} THEN None ELSE CHOOSE c \in fit : \A d \in fit : Rank[c.model] <= Rank[d.model]

(* Only the first ACTIVE claim of the assignment is released before it ends.*)
ReleaseFirst(claims) ==
    IF claims = {} THEN {}
    ELSE claims \ {CHOOSE k \in claims : \A l \in claims : WindowRank[k.window] <= WindowRank[l.window]}

Handoff(i) ==
    LET t == asn[i].attempt
        c == Replacement(i)
        window == IF Request[t].tokens > 0 THEN ClaimWindow(c) ELSE None
        claims == RouteClaim(c.model, window, Request[t].tokens)
        new == Assignment(t, c.model, SessionDecision(c, Request[t]).session, claims, None)
        kept == ReleaseFirst(asn[i].claims)
    IN  /\ Len(asn) < MaxAssignments
        /\ CanEnd(i, kept)
        /\ c # None
        /\ \A k \in claims : CanClaim(new, k)
        /\ \E e \in CheckEffectSafety(t) : effect' = [effect EXCEPT ![t] = e]
        /\ asn' = Append([asn EXCEPT ![i].claims = kept, ![i].state = "SUPERSEDED"], new)
        /\ UNCHANGED <<account, capacity, session, circuit, call, ended, reports>>

-----------------------------------------------------------------------------
Router(c) ==
    \/ Route(c) \/ RouteIsolatedWrite(c) \/ CommitRoute(c)
    \/ DispatchEffect(c) \/ ExecutorReturns(c) \/ ExecuteAgain(c)
    \/ DecideFault(c) \/ RecordOutcome(c) \/ Settle(c)
    \/ CallerStops(c)

Reports ==
    /\ reports < MaxReports
    /\ reports' = reports + 1
    /\ \/ Tick
       \/ \E a \in Accounts : AppendProviderCapacity(a) \/ UpsertProviderAccount(a)
       \/ \E s \in Sessions : UpsertProviderSession(s)

RoutingNext ==
    \/ Reports
    \/ \E c \in Callers : Router(c)
    \/ \E t \in Attempts : ResolveEffect(t)
    \/ \E t \in Attempts, m \in Models : Reserve(t, m)
    \/ \E i \in DOMAIN asn : Handoff(i)

RoutingSpec == RoutingInit /\ [][RoutingNext]_routingVars

-----------------------------------------------------------------------------
(* Properties.                                                              *)

\* One ledger, three writers: whatever the router, the reservation service and
\* handoffs do to one attempt in whatever order, at most one assignment of it is
\* ACTIVE, an assignment that has ended holds no claim, and a claim is on the
\* account the assignment was given (router.go, service.go and handoff.go; the
\* rows of provider_runtime_store.go).
OneProvider ==
    /\ \A t \in Attempts : Cardinality(Active(t)) <= 1
    /\ \A i \in DOMAIN asn :
         /\ asn[i].state \in Ended => asn[i].claims = {}
         /\ \A k \in asn[i].claims : WindowAccount[k.window] = AccountOf[asn[i].model]

\* Work leaves an account only when nothing it did is in doubt: a handoff never
\* supersedes an assignment while the effect of its attempt is DISPATCHED or
\* IN_DOUBT, and the replacement is on an account it had not (handoff.go).
NoDoubtHandedOver ==
    [][\A i \in DOMAIN asn :
         asn[i].state = "ACTIVE" /\ asn'[i].state = "SUPERSEDED" =>
           /\ effect'[asn[i].attempt] \notin Unsafe
           /\ \E j \in DOMAIN asn' :
                /\ asn'[j].attempt = asn[i].attempt /\ asn'[j].state = "ACTIVE"
                /\ AccountOf[asn'[j].model] # AccountOf[asn[i].model]]_routingVars
=============================================================================
