-------------------------- MODULE ProviderSelection --------------------------
(***************************************************************************)
(* How a provider and a session are chosen for a task: the pure functions   *)
(* of internal/harness/provider/{selector,session,capacity,fault}.          *)
(*                                                                          *)
(* A candidate is a model of an account, with the state of the account, its *)
(* latest capacity snapshot, its sessions and the circuit of the model.     *)
(* The catalog (which model belongs to which account, what it can do, the   *)
(* shape of quota windows) is constant; what providers report changes.      *)
(*                                                                          *)
(* Time is counted in ticks since an observation.  Fractions are integers   *)
(* in units of 1/Unit and freshness is in units of 1/Span, so every         *)
(* comparison the code makes on floats is made here on integers.            *)
(***************************************************************************)
EXTENDS Integers, FiniteSets

CONSTANTS
    Accounts, Models, Sessions, Windows,
    None,
    AccountOf,       \* [Models -> Accounts]
    Kind,            \* [Accounts -> provider kinds]
    Rank,            \* [Models -> Nat]: order by provider, account id, model id
    Caps,            \* [Models -> SUBSET capabilities]
    ContextLimit,    \* [Models -> Nat], 0 when the provider does not say
    Enabled,         \* [Models -> BOOLEAN]
    SessionModel,    \* [Sessions -> Models]
    SessionLimit,    \* [Sessions -> Nat]: context limit of the session
    SessionSpace,    \* [Sessions -> workspace fingerprints]
    SessionRank,     \* [Sessions -> Nat]: most recently used first, then by id
    WindowAccount,   \* [Windows -> Accounts]
    WindowModel,     \* [Windows -> Models \cup {None}], None for the whole account
    WindowMetric,    \* [Windows -> {"TOKENS", "REQUESTS", "COST", "FRACTION", "OPAQUE"}]
    WindowLimit,     \* [Windows -> Nat], Unit for a FRACTION window
    WindowReset,     \* [Windows -> Nat \cup {None}]: ticks after the observation
    WindowRank,      \* [Windows -> Nat]: order of window ids
    Confidence,      \* [Windows -> 0..Unit]
    Unit,
    FreshFor, ExpireAfter,      \* capacity policy, in ticks
    AcquireHeadroom,            \* session policy, in units of 1/Unit
    MaxTotal, MaxSame, Threshold    \* fault policy

ASSUME SelectionAssumption ==
    /\ AccountOf \in [Models -> Accounts]
    /\ FreshFor \in Nat /\ ExpireAfter \in Nat /\ FreshFor < ExpireAfter
    /\ Unit \in Nat \ {0}

AccountState == {"ACTIVE", "DRAINING", "DISABLED"}
Health == {"HEALTHY", "DEGRADED", "UNKNOWN", "EXHAUSTED", "UNAVAILABLE"}
CircuitState == {"CLOSED", "OPEN", "HALF_OPEN"}
SessionState == {"ACTIVE", "DRAINING", "EXHAUSTED", "CLOSED"}

WindowsOf(a) == {w \in Windows : WindowAccount[w] = a}
Least(S, rank) == CHOOSE x \in S : \A y \in S : rank[x] <= rank[y]

(* What the ledger accepts of a report on a window, an account, a session.  *)
ValidWindow(w, left) ==
    /\ Confidence[w] \in 0..Unit /\ WindowLimit[w] \in Nat
    /\ left # None => left \in Nat /\ (WindowMetric[w] = "FRACTION" => left <= Unit)

ValidCapacity(a, snap) ==
    snap.health \in Health /\ \A w \in WindowsOf(a) : ValidWindow(w, snap.left[w])

ValidSession(s, v) ==
    /\ v.state \in SessionState /\ v.used \in Nat
    /\ SessionLimit[s] > 0 => v.used <= SessionLimit[s]

-----------------------------------------------------------------------------
(* Capacity: what an observation is still worth.  A snapshot is            *)
(* [health, age, left], left[w] being None when the provider gave no number.*)

Span == ExpireAfter - FreshFor
Full == Unit * Span

Freshness(age) ==
    IF age <= FreshFor THEN Span
    ELSE IF age >= ExpireAfter THEN 0 ELSE Span - (age - FreshFor)

(* A window is stale when its observation is, or once the provider reset it.*)
WindowFreshness(w, snap) ==
    IF WindowReset[w] # None /\ snap.age >= WindowReset[w] THEN 0 ELSE Freshness(snap.age)

Expired(w, snap) == WindowFreshness(w, snap) = 0

(* What may still be claimed, in units of 1/Full.                           *)
Headroom(w, snap) == snap.left[w] * Confidence[w] * WindowFreshness(w, snap)

RawFraction(w, snap) == (snap.left[w] * Unit) \div WindowLimit[w]

FractionLeft(w, snap) == RawFraction(w, snap) * Confidence[w] * WindowFreshness(w, snap)

Quantified(a, snap) == {w \in WindowsOf(a) : snap.left[w] # None}

Evidence(a, snap) ==
    LET known   == Quantified(a, snap)
        expired == {w \in WindowsOf(a) : Expired(w, snap)}
        stale   == Freshness(snap.age) = 0 \/ (WindowsOf(a) # {} /\ expired = WindowsOf(a))
        doubted == {w \in WindowsOf(a) :
                      Confidence[w] * WindowFreshness(w, snap) < Full}
    IN  CASE snap.health \in {"UNAVAILABLE", "EXHAUSTED"} -> snap.health
          [] snap.health \notin {"UNAVAILABLE", "EXHAUSTED"} /\ stale -> "STALE"
          [] snap.health \notin {"UNAVAILABLE", "EXHAUSTED"} /\ ~stale /\ known = {} -> "UNKNOWN"
          [] OTHER -> IF doubted \cup (WindowsOf(a) \ known) # {} \/ Freshness(snap.age) < Span
                      THEN "PARTIAL" ELSE "QUANTIFIED"

(* The bottleneck over every window of the account, scaled to Unit * Full;  *)
(* None when no window is quantified.                                       *)
HeadroomFraction(a, snap) ==
    LET left == {FractionLeft(w, snap) : w \in Quantified(a, snap)}
    IN  IF left = {} THEN None ELSE CHOOSE f \in left : \A g \in left : f <= g

(* Ticks until the earliest reset that is still ahead, None if there is none.*)
ResetIn(a, snap) ==
    LET ahead == {WindowReset[w] - snap.age : w \in {v \in WindowsOf(a) :
                     WindowReset[v] # None /\ WindowReset[v] > snap.age}}
    IN  IF ahead = {} THEN None ELSE CHOOSE t \in ahead : \A u \in ahead : t <= u

-----------------------------------------------------------------------------
(* The session broker: reuse a session, open one, or rotate.  A request is  *)
(* [caps, tokens, space, kind, model]; the router never names a session.    *)

ModelFits(m, r) ==
    /\ Enabled[m]
    /\ r.caps \subseteq Caps[m]
    /\ ContextLimit[m] = 0 \/ r.tokens <= ContextLimit[m]

Related(m, r, sessions) ==
    {s \in Sessions : /\ SessionModel[s] = m /\ sessions[s].state # "CLOSED"
                      /\ r.space # None => SessionSpace[s] = r.space}

RoomIn(s, sessions) == SessionLimit[s] - sessions[s].used

Reusable(m, r, sessions) ==
    {s \in Related(m, r, sessions) :
        /\ sessions[s].state = "ACTIVE" /\ SessionLimit[s] > 0
        /\ RoomIn(s, sessions) >= r.tokens
        /\ RoomIn(s, sessions) * Unit >= AcquireHeadroom * SessionLimit[s]}

MoreRoom(s, t, sessions) ==
    LET left == RoomIn(s, sessions) * SessionLimit[t]
        right == RoomIn(t, sessions) * SessionLimit[s]
    IN  \/ left > right
        \/ /\ left = right
           /\ \/ RoomIn(s, sessions) > RoomIn(t, sessions)
              \/ /\ RoomIn(s, sessions) = RoomIn(t, sessions)
                 /\ SessionRank[s] < SessionRank[t]

SessionDecision(c, r) ==
    LET usable == Reusable(c.model, r, c.sessions)
        health == IF c.capacity = None THEN "UNKNOWN" ELSE c.capacity.health
        best   == CHOOSE s \in usable : \A t \in usable \ {s} : MoreRoom(s, t, c.sessions)
        plain(action) == [action |-> action, session |-> None]
    IN  IF \/ c.account = "DISABLED" \/ health \in {"UNAVAILABLE", "EXHAUSTED"}
           \/ ~ModelFits(c.model, r)
        THEN plain("UNAVAILABLE")
        ELSE IF usable # {} THEN [action |-> "REUSE", session |-> best]
        ELSE IF c.account = "DRAINING" THEN plain("UNAVAILABLE")
        ELSE IF Related(c.model, r, c.sessions) # {} THEN plain("CHECKPOINT_AND_NEW")
        ELSE plain("NEW")

-----------------------------------------------------------------------------
(* The selector: hard filters, then a weighted score, then a total order.   *)

(* A candidate no filter eliminates.  The broker has already refused        *)
(* disabled accounts, unhealthy providers and models that do not fit.       *)
Viable(c, r) ==
    LET action == SessionDecision(c, r).action
    IN  /\ c.circuit # "OPEN"
        /\ action # "UNAVAILABLE"
        /\ c.account = "DRAINING" => action = "REUSE"
        /\ c.capacity # None =>
             Evidence(AccountOf[c.model], c.capacity) \notin {"UNAVAILABLE", "EXHAUSTED"}

(* Components are in units of 1/60 and a tick is the twelve hours of the    *)
(* reset horizon; weights are those of DefaultPolicy in hundredths.  The    *)
(* composite is scaled by 2 * 60 * 85, 85 being the sum of the weights.     *)
Score(c, r) ==
    LET a == AccountOf[c.model]
        fraction == IF c.capacity = None THEN None ELSE HeadroomFraction(a, c.capacity)
        headroom == IF fraction = None THEN 30 ELSE (60 * fraction) \div (Unit * Full)
        reset == IF c.capacity = None THEN None ELSE ResetIn(a, c.capacity)
        horizon == IF reset = None THEN 30 ELSE 60 \div (1 + reset)
        reuse == IF SessionDecision(c, r).action = "REUSE" THEN 60 ELSE 0
        health == IF c.capacity = None THEN "UNKNOWN" ELSE c.capacity.health
        steady == CASE health = "HEALTHY" -> 60 [] health = "DEGRADED" -> 36 [] OTHER -> 24
        reliability == IF c.circuit = "HALF_OPEN" THEN steady \div 2 ELSE steady
        switches == (IF r.kind \notin {None, Kind[a]} THEN 1 ELSE 0)
                    + (IF r.model \notin {None, c.model} THEN 1 ELSE 0)
        unsure == c.capacity = None \/ Evidence(a, c.capacity) \in {"UNKNOWN", "STALE"}
        raw == 2 * (35 * headroom + 15 * horizon + 20 * reuse + 15 * reliability)
               - 510 * switches - (IF unsure THEN 255 ELSE 0)
    IN  IF raw < 0 THEN 0 ELSE IF raw > 10200 THEN 10200 ELSE raw

Priority(action) ==
    CASE action = "REUSE" -> 3 [] action = "NEW" -> 2 [] action = "CHECKPOINT_AND_NEW" -> 1
      [] OTHER -> 0

RankingHeadroom(c) ==
    IF c.capacity = None \/ HeadroomFraction(AccountOf[c.model], c.capacity) = None THEN 0
    ELSE HeadroomFraction(AccountOf[c.model], c.capacity)

Better(c, d, r) ==
    LET prefer(x, y, else) == x > y \/ (x = y /\ else)
        action(x) == Priority(SessionDecision(x, r).action)
    IN  prefer(Score(c, r), Score(d, r),
          prefer(action(c), action(d),
            prefer(RankingHeadroom(c), RankingHeadroom(d), Rank[c.model] < Rank[d.model])))

(* The winner among the viable candidates, None if there is none.           *)
Evaluate(candidates, r) ==
    LET eligible == {c \in candidates : Viable(c, r)}
    IN  IF eligible = {} THEN None
        ELSE CHOOSE c \in eligible : \A d \in eligible \ {c} : Better(c, d, r)

(* The window a route claims against: the first one it can count.           *)
ClaimWindow(c) ==
    LET countable == {w \in WindowsOf(AccountOf[c.model]) : WindowMetric[w] \in {"TOKENS", "FRACTION"}}
    IN  IF c.capacity = None \/ countable = {} THEN None ELSE Least(countable, WindowRank)

-----------------------------------------------------------------------------
(* Faults: what an error means and what to do about it.                     *)

(* Classify looks for the signs of each kind in this order: a message that  *)
(* mentions both a rate limit and max_tokens is a context limit.            *)
FaultOrder == <<"CONTENT_FILTER", "AUTHENTICATION", "MODEL_UNAVAILABLE", "CONTEXT_LIMIT",
                "RATE_LIMITED", "OVERLOADED", "TRANSIENT">>

Classify(signs) ==
    LET found == {i \in DOMAIN FaultOrder : FaultOrder[i] \in signs}
    IN  IF found = {} THEN "UNKNOWN"
        ELSE FaultOrder[CHOOSE i \in found : \A j \in found : i <= j]

Retryable == {"RATE_LIMITED", "OVERLOADED", "TRANSIENT"}

(* What to do after the total-th attempt, the same-th on this provider,     *)
(* given the circuit [state, failures] of the model that failed.            *)
Decide(fault, total, same, c) ==
    CASE fault = "CONTENT_FILTER" \/ total >= MaxTotal -> "TERMINAL_FAIL"
      [] fault # "CONTENT_FILTER" /\ total < MaxTotal ->
           IF fault \in {"AUTHENTICATION", "MODEL_UNAVAILABLE"} THEN "TRIP_AND_FAILOVER"
           ELSE IF fault = "CONTEXT_LIMIT" \/ same >= MaxSame THEN "FAILOVER"
           ELSE IF c.state = "HALF_OPEN" \/ c.failures + 1 >= Threshold THEN "TRIP_AND_FAILOVER"
           ELSE IF fault \in Retryable THEN "RETRY_SAME" ELSE "FAILOVER"
=============================================================================
