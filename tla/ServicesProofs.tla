--------------------------- MODULE ServicesProofs ---------------------------
(***************************************************************************)
(* Theorems about the services the harness leans on: the circuit breaker, the *)
(* artifact store and the workspaces, for every set of callers, puts and   *)
(* sessions, every threshold, cooldown and lease length.                   *)
(***************************************************************************)
EXTENDS CircuitBreaker, ArtifactStore, Workspaces, FiniteSetTheorems, TLAPS

----------------------------------------------------------------------------
(* The circuit breaker.                                                    *)
BreakerSpec == BreakerInit /\ [][BreakerNext]_breakerVars

Probes(c) == ticket[c].probe

Rows == [revision : Nat, state : {"CLOSED", "OPEN", "HALF_OPEN"}, failures : Int,
         threshold : Int, probeAt : Int, probing : BOOLEAN]

Tickets == [revision : Nat, probe : BOOLEAN]

(***************************************************************************)
(* The invariant.  A breaker leaves HALF_OPEN only by the report of the     *)
(* probe itself, so no probe is in flight in any other state and at most    *)
(* one is in flight in this one; its ticket is outdated only in the step    *)
(* that sets "disowned".                                                    *)
(***************************************************************************)
BreakerTypeOK ==
    /\ breaker \in Rows
    /\ ticket \in [Call -> Tickets]
    /\ clock \in Nat
    /\ disowned \in BOOLEAN
    /\ breaker.revision = 0 => breaker.state = "CLOSED"

OneProbe ==
    /\ breaker.state # "HALF_OPEN" => \A c \in Call : ~Probes(c)
    /\ \A c, d \in Call : Probes(c) /\ Probes(d) => c = d

ProbeIsCurrent ==
    breaker.state = "HALF_OPEN" =>
        /\ breaker.probing
        /\ disowned \/ \E c \in Call : Probes(c) /\ ticket[c].revision = breaker.revision

BreakerInv == BreakerTypeOK /\ OneProbe /\ ProbeIsCurrent

-----------------------------------------------------------------------------
\* An update of the row's revision leaves its state and probe flag.
LEMMA SetsRevision ==
  ASSUME NEW b \in Rows, NEW n \in Nat, NEW r, r = [b EXCEPT !.revision = n]
  PROVE  r \in Rows /\ r.revision = n /\ r.state = b.state /\ r.probing = b.probing
<1>1. r \in Rows /\ r.revision = n /\ r.state = b.state
  BY DEF Rows
<1>2. r.probing = b.probing
  BY DEF Rows
<1> QED
  BY <1>1, <1>2

\* The same of an update of the state.
LEMMA SetsState ==
  ASSUME NEW b \in Rows, NEW s \in {"CLOSED", "OPEN", "HALF_OPEN"}, NEW r,
         r = [b EXCEPT !.state = s]
  PROVE  r \in Rows /\ r.state = s /\ r.revision = b.revision
BY DEF Rows

\* The same of an update of a number.
LEMMA SetsCounts ==
  ASSUME NEW b \in Rows, NEW i \in Int, NEW r,
         \/ r = [b EXCEPT !.failures = i]
         \/ r = [b EXCEPT !.threshold = i]
         \/ r = [b EXCEPT !.probeAt = i]
  PROVE  r \in Rows /\ r.state = b.state /\ r.revision = b.revision /\ r.probing = b.probing
<1>1. r \in Rows /\ r.state = b.state /\ r.revision = b.revision
  BY DEF Rows
<1>2. r.probing = b.probing
  BY DEF Rows
<1> QED
  BY <1>1, <1>2

\* The same of an update of the probe flag.
LEMMA SetsProbing ==
  ASSUME NEW b \in Rows, NEW p \in BOOLEAN, NEW r, r = [b EXCEPT !.probing = p]
  PROVE  r \in Rows /\ r.state = b.state /\ r.revision = b.revision /\ r.probing = p
<1>1. r \in Rows
  BY DEF Rows
<1>2. r.state = b.state /\ r.revision = b.revision
  BY DEF Rows
<1>3. r.probing = p
  BY DEF Rows
<1> QED
  BY <1>1, <1>2, <1>3

\* The breaker of a service nobody called satisfies the invariant.
LEMMA BreakerStart == BreakerInit => BreakerInv
<1> SUFFICES ASSUME BreakerInit PROVE BreakerInv
  OBVIOUS
<1> DEFINE b == NewBreaker(1)
<1>1. b \in Rows /\ b.state = "CLOSED"
  BY DEF NewBreaker, Rows
<1>2. breaker \in Rows /\ breaker.state = "CLOSED"
  <2> HIDE DEF b
  <2>1. breaker = [b EXCEPT !.revision = 0]
    BY DEF BreakerInit, b
  <2> QED
    BY <1>1, <2>1, SetsRevision
<1>3. NoTicket \in Tickets /\ ~NoTicket.probe
  BY DEF NoTicket, Tickets
<1>4. ticket \in [Call -> Tickets] /\ \A c \in Call : ticket[c] = NoTicket
  BY <1>3 DEF BreakerInit
<1>5. \A c \in Call : ~Probes(c)
  BY <1>3, <1>4, Zenon DEF Probes
<1> QED
  BY <1>2, <1>4, <1>5 DEF BreakerInit, BreakerInv, BreakerTypeOK, OneProbe, ProbeIsCurrent

\* What a step does to the tickets when it changes only the caller's own.
LEMMA OwnTicket ==
  ASSUME BreakerInv, NEW c \in Call, NEW t \in Tickets, ticket' = [ticket EXCEPT ![c] = t]
  PROVE  /\ ticket' \in [Call -> Tickets]
         /\ \A d \in Call \ {c} : ticket'[d] = ticket[d] /\ (Probes(d)' <=> Probes(d))
         /\ ticket'[c] = t /\ (Probes(c)' <=> t.probe)
<1>1. ticket \in [Call -> Tickets]
  BY DEF BreakerInv, BreakerTypeOK
<1>2. ticket' \in [Call -> Tickets] /\ ticket'[c] = t
  BY <1>1
<1>3. \A d \in Call \ {c} : ticket'[d] = ticket[d]
  BY <1>1
<1> QED
  BY <1>2, <1>3, Zenon DEF Probes

\* Admission keeps the invariant: a refusal or an ordinary admission leaves the
\* state and hands out no probe, and the probe is handed out when none is in flight.
LEMMA AcquireKeeps == ASSUME BreakerInv, NEW c \in Call, Acquire(c) PROVE BreakerInv'
<1>1. Threshold[c] \in Int /\ breaker \in Rows /\ clock' \in Nat
  BY BreakerAssumption DEF BreakerInv, BreakerTypeOK, Acquire
<1>2. NoTicket \in Tickets /\ ~NoTicket.probe
  BY DEF NoTicket, Tickets
<1>3. ~Probes(c)
  <2>1. ticket[c] = NoTicket
    BY DEF Acquire, InFlight
  <2> QED
    BY <1>2, <2>1, Zenon DEF Probes
<1>4. disowned' \in BOOLEAN
  BY DEF Acquire
<1>5. CASE ~MayProbe
  <2> DEFINE t == [breaker EXCEPT !.threshold = Threshold[c]]
             r == [t EXCEPT !.revision = breaker.revision + 1]
             new == NewBreaker(Threshold[c])
  <2>1. /\ new \in Rows /\ new.state = "CLOSED" /\ new.revision = 1
    BY <1>1 DEF NewBreaker, Rows
  <2>2. breaker.revision \in Nat
    BY <1>1 DEF Rows
  <2>3. t \in Rows /\ t.state = breaker.state /\ t.probing = breaker.probing
    <3> HIDE DEF t
    <3> QED  BY <1>1, SetsCounts DEF t
  <2>4. /\ r \in Rows /\ r.state = breaker.state /\ r.probing = breaker.probing
        /\ r.revision = breaker.revision + 1
    <3> HIDE DEF t, r
    <3> QED  BY <2>2, <2>3, SetsRevision DEF r
  <2>5. breaker' = IF breaker.revision = 0 THEN new ELSE IF t = breaker THEN breaker ELSE r
    BY <1>5, Zenon DEF Acquire, Admission, Allow
  <2> HIDE DEF t, r, new
  <2>6. /\ breaker' \in Rows /\ breaker'.state = breaker.state
        /\ breaker'.revision = 0 => breaker'.state = "CLOSED"
    BY <1>1, <2>1, <2>2, <2>4, <2>5 DEF BreakerInv, BreakerTypeOK
  <2>7. breaker.state = "HALF_OPEN" =>
          /\ breaker'.probing = breaker.probing
          /\ disowned' \/ (breaker' = breaker /\ (disowned <=> disowned'))
    BY <2>4, <2>5 DEF BreakerInv, BreakerTypeOK, Acquire
  <2>8. PICK k \in Tickets : ticket' = [ticket EXCEPT ![c] = k] /\ ~k.probe
    <3>1. CASE breaker.state = "CLOSED"
      <4> DEFINE k == [revision |-> breaker'.revision, probe |-> FALSE]
      <4>1. k \in Tickets /\ ~k.probe
        BY <2>6 DEF Tickets, Rows
      <4>2. ticket' = [ticket EXCEPT ![c] = k]
        <5>1. MayProbe = FALSE
          BY <1>5 DEF MayProbe
        <5> QED  BY <3>1, <5>1, Zenon DEF Acquire
      <4> QED  BY <4>1, <4>2
    <3>2. CASE breaker.state # "CLOSED"
      <4>1. ticket' = [ticket EXCEPT ![c] = NoTicket]
        BY <1>5, <3>2 DEF Acquire
      <4> QED  BY <1>2, <4>1
    <3> QED  BY <3>1, <3>2
  <2>9. /\ ticket' \in [Call -> Tickets]
        /\ \A d \in Call \ {c} : ticket'[d] = ticket[d] /\ (Probes(d)' <=> Probes(d))
        /\ ~Probes(c)'
    BY <2>8, OwnTicket
  <2>10. OneProbe'
    BY <1>3, <2>6, <2>9 DEF BreakerInv, OneProbe
  <2>11. ProbeIsCurrent'
    BY <1>3, <2>6, <2>7, <2>9 DEF BreakerInv, ProbeIsCurrent
  <2> QED
    BY <1>1, <1>4, <2>6, <2>9, <2>10, <2>11 DEF BreakerInv, BreakerTypeOK
<1>6. CASE MayProbe
  <2>1. breaker.state = "OPEN" /\ breaker.revision # 0
    BY <1>6 DEF MayProbe, BreakerInv, BreakerTypeOK, ProbeIsCurrent
  <2>2. breaker.revision \in Nat
    BY <1>1 DEF Rows
  <2> DEFINE h == [breaker EXCEPT !.state = "HALF_OPEN"]
             g == [h EXCEPT !.probing = TRUE]
             t == [g EXCEPT !.threshold = Threshold[c]]
             r == [t EXCEPT !.revision = breaker.revision + 1]
             k == [revision |-> breaker'.revision, probe |-> TRUE]
  <2>3. h \in Rows /\ h.state = "HALF_OPEN"
    <3> HIDE DEF h
    <3> QED  BY <1>1, SetsState DEF h
  <2>4. g \in Rows /\ g.state = "HALF_OPEN" /\ g.probing = TRUE
    <3> HIDE DEF h, g
    <3> QED  BY <2>3, SetsProbing DEF g
  <2>5. t \in Rows /\ t.state = "HALF_OPEN" /\ t.probing = TRUE
    <3> HIDE DEF g, t
    <3> QED  BY <1>1, <2>4, SetsCounts DEF t
  <2>6. r \in Rows /\ r.state = "HALF_OPEN" /\ r.probing = TRUE /\ r.revision = breaker.revision + 1
    <3> HIDE DEF t, r
    <3>1. /\ r \in Rows /\ r.state = t.state /\ r.probing = t.probing
          /\ r.revision = breaker.revision + 1
      <4>1. t \in Rows /\ breaker.revision + 1 \in Nat
        BY <2>2, <2>5
      <4> QED  BY <4>1, SetsRevision DEF r
    <3> QED  BY <2>5, <3>1
  <2>7. breaker' = r
    <3>1. t.state # breaker.state
      BY <2>1, <2>5
    <3>2. t # breaker
      BY <3>1
    <3>3. Allow = g
      BY <1>6 DEF Allow
    <3>4. Admission(c) = IF t = breaker THEN breaker ELSE r
      <4> HIDE DEF g
      <4> QED  BY <2>1, <3>3, Zenon DEF Admission
    <3> QED  BY <3>2, <3>4, Zenon DEF Acquire
  <2> HIDE DEF r
  <2>8. k \in Tickets /\ k.probe /\ k.revision = breaker'.revision
    BY <2>6, <2>7 DEF Tickets, Rows
  <2>9. ticket' = [ticket EXCEPT ![c] = k]
    BY <1>6 DEF Acquire
  <2>10. /\ ticket' \in [Call -> Tickets]
         /\ \A d \in Call \ {c} : Probes(d)' <=> Probes(d)
         /\ ticket'[c] = k /\ Probes(c)'
    <3> HIDE DEF k
    <3> QED  BY <2>8, <2>9, OwnTicket
  <2> HIDE DEF k
  <2>11. OneProbe'
    BY <2>1, <2>6, <2>7, <2>10 DEF BreakerInv, OneProbe
  <2>12. ProbeIsCurrent'
    BY <2>6, <2>7, <2>8, <2>10 DEF ProbeIsCurrent
  <2> QED
    BY <1>1, <1>4, <2>2, <2>6, <2>7, <2>10, <2>11, <2>12 DEF BreakerInv, BreakerTypeOK
<1> QED
  BY <1>5, <1>6

\* A report keeps the invariant: only the probe's own result is taken while the
\* breaker is half open, and taking it leaves that state.
LEMMA RecordKeeps ==
  ASSUME BreakerInv, NEW c \in Call, NEW next \in Rows, Recorded(c, next),
         next.state # "HALF_OPEN"
  PROVE  BreakerInv'
<1>1. breaker \in Rows /\ breaker.revision \in Nat /\ clock' \in Nat /\ disowned' \in BOOLEAN
  BY DEF BreakerInv, BreakerTypeOK, Rows, Recorded
<1>2. NoTicket \in Tickets /\ ~NoTicket.probe
  BY DEF NoTicket, Tickets
<1>3. ticket' = [ticket EXCEPT ![c] = NoTicket]
  BY DEF Recorded
<1>4. /\ ticket' \in [Call -> Tickets]
      /\ \A d \in Call \ {c} : ticket'[d] = ticket[d] /\ (Probes(d)' <=> Probes(d))
      /\ ~Probes(c)'
  BY <1>2, <1>3, OwnTicket
<1>5. CASE Accepts(c)
  <2> DEFINE r == [next EXCEPT !.revision = breaker.revision + 1]
  <2>1. r \in Rows /\ r.state = next.state /\ r.revision = breaker.revision + 1
    <3> HIDE DEF r
    <3>1. breaker.revision + 1 \in Nat
      BY <1>1
    <3> QED  BY <3>1, SetsRevision DEF r
  <2>2. breaker' = r
    BY <1>5 DEF Recorded
  <2> HIDE DEF r
  <2>3. breaker' \in Rows /\ breaker'.state # "HALF_OPEN" /\ breaker'.revision # 0
    BY <1>1, <1>5, <2>1, <2>2
  <2>4. \A d \in Call : ~Probes(d)'
    <3>1. \/ breaker.state # "HALF_OPEN"
          \/ Probes(c)
      BY <1>5 DEF Accepts, Probes
    <3> QED
      BY <1>4, <3>1 DEF BreakerInv, OneProbe
  <2> QED
    BY <1>1, <1>4, <2>3, <2>4 DEF BreakerInv, BreakerTypeOK, OneProbe, ProbeIsCurrent
<1>6. CASE ~Accepts(c)
  <2>1. breaker' = breaker
    BY <1>6 DEF Recorded
  <2>2. breaker.state = "HALF_OPEN" => (disowned <=> disowned')
    BY <2>1 DEF Recorded, BreakerInv, BreakerTypeOK
  <2>3. breaker.state = "HALF_OPEN" /\ Probes(c) => ticket[c].revision # breaker.revision
    BY <1>6 DEF Accepts, Probes, BreakerInv, ProbeIsCurrent
  <2>4. OneProbe'
    BY <1>4, <2>1 DEF BreakerInv, OneProbe
  <2>5. ProbeIsCurrent'
    BY <1>4, <2>1, <2>2, <2>3 DEF BreakerInv, ProbeIsCurrent
  <2> QED
    BY <1>1, <1>4, <2>1, <2>4, <2>5 DEF BreakerInv, BreakerTypeOK
<1> QED
  BY <1>5, <1>6

\* The death of a caller keeps the invariant: only the prober's is remembered.
LEMMA LossKeeps == ASSUME BreakerInv, NEW c \in Call, LoseCall(c) PROVE BreakerInv'
<1>1. NoTicket \in Tickets /\ ~NoTicket.probe
  BY DEF NoTicket, Tickets
<1>2. ticket' = [ticket EXCEPT ![c] = NoTicket]
  BY DEF LoseCall
<1>3. /\ ticket' \in [Call -> Tickets]
      /\ \A d \in Call \ {c} : ticket'[d] = ticket[d] /\ (Probes(d)' <=> Probes(d))
      /\ ~Probes(c)'
  BY <1>1, <1>2, OwnTicket
<1>4. breaker' = breaker /\ clock' = clock /\ disowned' \in BOOLEAN
  BY DEF LoseCall
<1>5. breaker.state = "HALF_OPEN" /\ ~disowned' =>
        ~disowned /\ ~(Probes(c) /\ ticket[c].revision = breaker.revision)
  BY DEF LoseCall, Accepts, Probes, BreakerInv, ProbeIsCurrent
<1>6. OneProbe'
  BY <1>3, <1>4 DEF BreakerInv, OneProbe
<1>7. ProbeIsCurrent'
  BY <1>3, <1>4, <1>5 DEF BreakerInv, ProbeIsCurrent
<1> QED
  BY <1>3, <1>4, <1>6, <1>7 DEF BreakerInv, BreakerTypeOK

\* Every step keeps the invariant.
LEMMA BreakerStep == BreakerInv /\ [BreakerNext]_breakerVars => BreakerInv'
<1> SUFFICES ASSUME BreakerInv, [BreakerNext]_breakerVars PROVE BreakerInv'
  OBVIOUS
<1>1. ASSUME NEW c \in Call, Acquire(c) PROVE BreakerInv'
  BY <1>1, AcquireKeeps
<1>2. breaker \in Rows /\ breaker.failures + 1 \in Int /\ clock + Cooldown \in Int
      /\ breaker.probeAt \in Int /\ \A c \in Call : Threshold[c] \in Int
  BY BreakerAssumption DEF BreakerInv, BreakerTypeOK, Rows
<1>3. ASSUME NEW c \in Call, RecordSuccess(c) PROVE BreakerInv'
  <2> DEFINE a == [breaker EXCEPT !.state = "CLOSED"]
             b == [a EXCEPT !.failures = 0]
             d == [b EXCEPT !.threshold = Threshold[c]]
             e == [d EXCEPT !.probeAt = 0]
             f == [e EXCEPT !.probing = FALSE]
  <2>1. Recorded(c, f)
    BY <1>3, Zenon DEF RecordSuccess
  <2> HIDE DEF a, b, d, e, f
  <2>2. a \in Rows /\ a.state = "CLOSED"
    BY <1>2, SetsState DEF a
  <2>3. b \in Rows /\ b.state = "CLOSED"
    BY <2>2, SetsCounts DEF b
  <2>4. d \in Rows /\ d.state = "CLOSED"
    BY <1>2, <2>3, SetsCounts DEF d
  <2>5. e \in Rows /\ e.state = "CLOSED"
    BY <2>4, SetsCounts DEF e
  <2>6. f \in Rows /\ f.state = "CLOSED"
    BY <2>5, SetsProbing DEF f
  <2> QED
    BY <2>1, <2>6, RecordKeeps
<1>4. ASSUME NEW c \in Call, RecordFailure(c) PROVE BreakerInv'
  <2> DEFINE state == IF Trips(c) THEN "OPEN" ELSE breaker.state
             at == IF Trips(c) THEN clock + Cooldown ELSE breaker.probeAt
             a == [breaker EXCEPT !.failures = breaker.failures + 1]
             b == [a EXCEPT !.threshold = Threshold[c]]
             d == [b EXCEPT !.probing = FALSE]
             e == [d EXCEPT !.state = state]
             f == [e EXCEPT !.probeAt = at]
  <2>1. Recorded(c, f)
    BY <1>4, Zenon DEF RecordFailure
  <2>2. state \in {"CLOSED", "OPEN"} /\ at \in Int
    BY <1>2 DEF Trips
  <2> HIDE DEF state, at, a, b, d, e, f
  <2>3. a \in Rows
    BY <1>2, SetsCounts DEF a
  <2>4. b \in Rows
    BY <1>2, <2>3, SetsCounts DEF b
  <2>5. d \in Rows
    BY <2>4, SetsProbing DEF d
  <2>6. e \in Rows /\ e.state # "HALF_OPEN"
    BY <2>2, <2>5, SetsState DEF e
  <2>7. f \in Rows /\ f.state # "HALF_OPEN"
    BY <2>2, <2>6, SetsCounts DEF f
  <2> QED
    BY <2>1, <2>7, RecordKeeps
<1>5. ASSUME NEW c \in Call, LoseCall(c) PROVE BreakerInv'
  BY <1>5, LossKeeps
<1>6. CASE ClockTicks
  <2>1. breaker' = breaker /\ ticket' = ticket /\ disowned' = disowned /\ clock' \in Nat
    BY <1>6 DEF ClockTicks, BreakerInv, BreakerTypeOK
  <2> QED
    BY <2>1 DEF BreakerInv, BreakerTypeOK, OneProbe, ProbeIsCurrent, Probes
<1>7. CASE UNCHANGED breakerVars
  BY <1>7 DEF breakerVars, BreakerInv, BreakerTypeOK, OneProbe, ProbeIsCurrent, Probes
<1> QED
  BY <1>1, <1>3, <1>4, <1>5, <1>6, <1>7 DEF BreakerNext

-----------------------------------------------------------------------------
\* A half-open breaker (CircuitCoordinator.Acquire, Record) waits for at most one
\* probe, and for one whose result it will take unless its prober died or another
\* threshold was stored meanwhile.
THEOREM ProbesSettle == BreakerSpec => []ProbeCanSettle
<1>1. BreakerInv => ProbeCanSettle
  <2> SUFFICES ASSUME BreakerInv, breaker.state = "HALF_OPEN"
               PROVE  /\ Cardinality({c \in Call : InFlight(c) /\ ticket[c].probe}) <= 1
                      /\ disowned \/ \E c \in Call : ticket[c].probe /\ Accepts(c)
    BY DEF ProbeCanSettle
  <2> DEFINE P == {c \in Call : InFlight(c) /\ ticket[c].probe}
  <2>1. P = {} \/ \E c \in Call : P = {c}
    BY DEF BreakerInv, OneProbe, Probes
  <2>2. Cardinality(P) <= 1
    <3> HIDE DEF P
    <3>1. CASE P = {}
      BY <3>1, FS_EmptySet
    <3>2. ASSUME NEW c \in Call, P = {c} PROVE Cardinality(P) <= 1
      <4>1. Cardinality({c}) = 1
        BY FS_Singleton
      <4> QED  BY <3>2, <4>1
    <3> QED
      BY <2>1, <3>1, <3>2
  <2>3. disowned \/ \E c \in Call : ticket[c].probe /\ Accepts(c)
    BY DEF BreakerInv, ProbeIsCurrent, Probes, Accepts
  <2> QED
    BY <2>2, <2>3
<1> QED
  BY BreakerStart, BreakerStep, <1>1, PTL DEF BreakerSpec

----------------------------------------------------------------------------
(* The artifact store.                                                     *)
ArtifactSpec == ArtifactInit /\ [][ArtifactNext]_artifactVars

Live(p) == puts[p] \in {"stored", "committed"}

(***************************************************************************)
(* The invariant, over the puts no collection has overtaken.  What a Put has *)
(* written stays recent until its row is there; a collection under way finds *)
(* the content of a Put either referred to when it began or recent, also     *)
(* when the Put only found the file; so what it has judged belongs to no Put *)
(* but the overtaken ones, and the content of the others stays.             *)
(***************************************************************************)
ArtifactTypeOK ==
    /\ puts \in [Put -> {"idle", "stored", "committed", "failed", "deleted"}]
    /\ files \in [Digest -> {"none", "recent", "old"}]
    /\ raced \subseteq Put /\ kept \subseteq Put
    /\ \/ gc \in [phase : {"resting", "scanning"}, reachable : SUBSET Digest, unseen : SUBSET Digest]
       \/ gc \in [phase : {"removing"}, reachable : SUBSET Digest, unseen : SUBSET Digest,
                  digest : Digest]

StoredIsRecent ==
    \A p \in Put : puts[p] = "stored" /\ p \notin kept /\ p \notin raced =>
        files[DigestOf[p]] = "recent"

ReachableOrRecent ==
    gc.phase # "resting" => \A p \in Put : Live(p) /\ p \notin raced =>
        DigestOf[p] \in gc.reachable \/ files[DigestOf[p]] = "recent"

JudgedUnused ==
    gc.phase = "removing" => \A p \in Put : Live(p) /\ DigestOf[p] = gc.digest => p \in raced

Kept == \A p \in Put : Live(p) /\ p \notin raced => files[DigestOf[p]] # "none"

ArtifactInv == ArtifactTypeOK /\ StoredIsRecent /\ ReachableOrRecent /\ JudgedUnused /\ Kept

-----------------------------------------------------------------------------
\* An empty store satisfies the invariant.
LEMMA ArtifactStart == ArtifactInit => ArtifactInv
  BY ArtifactAssumption
  DEF ArtifactInit, ArtifactInv, ArtifactTypeOK, StoredIsRecent, ReachableOrRecent, JudgedUnused,
      Kept, Resting, Live

\* A Put that renames its file keeps it: the file is recent.
LEMMA RenameKeeps ==
  ASSUME ArtifactInv, NEW p \in Put, WriteContent(p), Rename(p) PROVE ArtifactInv'
<1> USE ArtifactAssumption
<1>1. /\ puts' = [puts EXCEPT ![p] = "stored"]
      /\ files' = [files EXCEPT ![DigestOf[p]] = "recent"]
      /\ gc' = gc /\ kept' = kept
      /\ raced \subseteq raced' /\ raced' \subseteq Put
      /\ Judged(DigestOf[p]) => p \in raced'
  BY DEF WriteContent, Rename, ArtifactInv, ArtifactTypeOK
<1>2. ArtifactTypeOK'
  BY <1>1 DEF ArtifactInv, ArtifactTypeOK
<1>3. \A q \in Put : q # p => (Live(q)' <=> Live(q)) /\ puts'[q] = puts[q]
  BY <1>1 DEF Live, ArtifactInv, ArtifactTypeOK
<1>4. \A d \in Digest : files[d] # "none" => files'[d] # "none"
  BY <1>1 DEF ArtifactInv, ArtifactTypeOK
<1>5. \A d \in Digest : files[d] = "recent" => files'[d] = "recent"
  BY <1>1 DEF ArtifactInv, ArtifactTypeOK
<1>6. files'[DigestOf[p]] = "recent" /\ DigestOf[p] \in Digest
  BY <1>1 DEF ArtifactInv, ArtifactTypeOK
<1>7. StoredIsRecent'
  BY <1>1, <1>3, <1>5, <1>6 DEF ArtifactInv, StoredIsRecent
<1>8. ReachableOrRecent'
  BY <1>1, <1>3, <1>5, <1>6 DEF ArtifactInv, ReachableOrRecent
<1>9. JudgedUnused'
  BY <1>1, <1>3 DEF ArtifactInv, JudgedUnused, Judged
<1>10. Kept'
  BY <1>1, <1>3, <1>4, <1>6 DEF ArtifactInv, Kept
<1> QED
  BY <1>2, <1>7, <1>8, <1>9, <1>10 DEF ArtifactInv

\* A Put that finds the file there keeps it: a collection under way has the
\* content among the reachable ones, or finds it recent, or overtakes the Put.
LEMMA FoundKeeps ==
  ASSUME ArtifactInv, NEW p \in Put, WriteContent(p), KeepFile(p) PROVE ArtifactInv'
<1> USE ArtifactAssumption
<1>1. /\ puts' = [puts EXCEPT ![p] = "stored"] /\ files' = files /\ gc' = gc
      /\ files[DigestOf[p]] # "none" /\ kept' = kept \cup {p}
      /\ raced \subseteq raced' /\ raced' \subseteq Put
      /\ Judged(DigestOf[p]) => p \in raced'
      /\ gc.phase # "resting" /\ Collectible(DigestOf[p]) => p \in raced'
  BY DEF WriteContent, KeepFile, ArtifactInv, ArtifactTypeOK
<1>2. ArtifactTypeOK'
  BY <1>1 DEF ArtifactInv, ArtifactTypeOK
<1>3. \A q \in Put : q # p => (Live(q)' <=> Live(q)) /\ puts'[q] = puts[q]
  BY <1>1 DEF Live, ArtifactInv, ArtifactTypeOK
<1>4. /\ gc.phase # "resting" /\ p \notin raced'
           => DigestOf[p] \in gc.reachable \/ files[DigestOf[p]] = "recent"
      /\ p \in kept'
  BY <1>1 DEF Collectible, ArtifactInv, ArtifactTypeOK
<1>5. StoredIsRecent'
  BY <1>1, <1>3, <1>4 DEF ArtifactInv, StoredIsRecent
<1>6. ReachableOrRecent'
  BY <1>1, <1>3, <1>4 DEF ArtifactInv, ReachableOrRecent
<1>7. JudgedUnused'
  BY <1>1, <1>3 DEF ArtifactInv, JudgedUnused, Judged
<1>8. Kept'
  BY <1>1, <1>3 DEF ArtifactInv, Kept
<1> QED
  BY <1>2, <1>5, <1>6, <1>7, <1>8 DEF ArtifactInv

\* The transactions that touch rows and no file.
LEMMA RowKeeps ==
  ASSUME ArtifactInv, NEW p \in Put, CommitMetadata(p) \/ PutFails(p) \/ DeleteArtifact(p)
  PROVE  ArtifactInv'
<1> USE ArtifactAssumption
<1>1. /\ \/ puts[p] = "stored" /\ puts' = [puts EXCEPT ![p] = "committed"] /\ raced' = raced
         \/ puts' = [puts EXCEPT ![p] = "failed"] /\ raced' = raced \ {p}
         \/ puts' = [puts EXCEPT ![p] = "deleted"] /\ raced' = raced \ {p}
      /\ files' = files /\ gc' = gc /\ kept' \in {kept, kept \ {p}}
  BY DEF CommitMetadata, PutFails, DeleteArtifact
<1>2. \A q \in Put :
        /\ Live(q)' => Live(q) /\ (q \in raced <=> q \in raced')
        /\ puts'[q] = "stored" => puts[q] = "stored" /\ (q \in kept <=> q \in kept')
  BY <1>1 DEF Live, ArtifactInv, ArtifactTypeOK
<1>3. ArtifactTypeOK'
  BY <1>1 DEF ArtifactInv, ArtifactTypeOK
<1>4. StoredIsRecent'
  BY <1>1, <1>2 DEF ArtifactInv, StoredIsRecent, Live
<1>5. ReachableOrRecent' /\ Kept'
  BY <1>1, <1>2 DEF ArtifactInv, ReachableOrRecent, Kept
<1>6. JudgedUnused'
  BY <1>1, <1>2 DEF ArtifactInv, JudgedUnused
<1> QED
  BY <1>3, <1>4, <1>5, <1>6 DEF ArtifactInv

\* A file ages past the grace period only when no Put that wrote it is under way.
LEMMA AgeKeeps == ASSUME ArtifactInv, NEW d \in Digest, ContentAges(d) PROVE ArtifactInv'
<1> USE ArtifactAssumption
<1>1. /\ files[d] = "recent" /\ gc.phase = "resting"
      /\ \A p \in Put \ kept : DigestOf[p] = d => puts[p] # "stored"
      /\ files' = [files EXCEPT ![d] = "old"]
      /\ puts' = puts /\ gc' = gc /\ raced' = raced /\ kept' = kept
  BY DEF ContentAges
<1>2. \A q \in Put : Live(q)' <=> Live(q)
  BY <1>1 DEF Live
<1> QED
  BY <1>1, <1>2
  DEF ArtifactInv, ArtifactTypeOK, StoredIsRecent, ReachableOrRecent, JudgedUnused, Kept

\* Every step of the collector keeps it.
LEMMA BeginKeeps == ASSUME ArtifactInv, BeginGC PROVE ArtifactInv'
<1> USE ArtifactAssumption
<1>1. /\ gc' = [phase |-> "scanning", reachable |-> ListAllArtifactDigests, unseen |-> Digest]
      /\ puts' = puts /\ files' = files /\ kept' = kept /\ raced' = raced \cup Overtaken
  BY DEF BeginGC
<1>2. ListAllArtifactDigests \in SUBSET Digest /\ Overtaken \subseteq Put
  BY DEF ListAllArtifactDigests, Committed, Overtaken, ArtifactInv, ArtifactTypeOK
<1>3. \A q \in Put : (Live(q)' <=> Live(q)) /\ (q \notin raced' => q \notin raced)
  BY <1>1 DEF Live
<1>4. ASSUME NEW q \in Put, Live(q), q \notin raced'
      PROVE  DigestOf[q] \in gc'.reachable \/ files'[DigestOf[q]] = "recent"
  <2>1. CASE puts[q] = "committed"
    BY <1>1, <2>1 DEF ListAllArtifactDigests, Committed
  <2>2. CASE puts[q] = "stored" /\ q \notin kept
    BY <1>1, <1>3, <1>4, <2>2 DEF ArtifactInv, StoredIsRecent
  <2>3. CASE puts[q] = "stored" /\ q \in kept
    <3>1. files[DigestOf[q]] # "none"
      BY <1>3, <1>4 DEF ArtifactInv, Kept
    <3> QED
      BY <1>1, <1>4, <2>3, <3>1 DEF Overtaken, ArtifactInv, ArtifactTypeOK
  <2> QED
    BY <1>4, <2>1, <2>2, <2>3 DEF Live
<1>5. ArtifactTypeOK'
  BY <1>1, <1>2 DEF ArtifactInv, ArtifactTypeOK
<1>6. ReachableOrRecent' /\ JudgedUnused'
  BY <1>1, <1>3, <1>4 DEF ReachableOrRecent, JudgedUnused
<1>7. StoredIsRecent' /\ Kept'
  BY <1>1, <1>3 DEF ArtifactInv, StoredIsRecent, Kept
<1> QED
  BY <1>5, <1>6, <1>7 DEF ArtifactInv

\* The collector looks at one file.
LEMMA JudgeKeeps == ASSUME ArtifactInv, NEW d \in Digest, JudgeFile(d) PROVE ArtifactInv'
<1> USE ArtifactAssumption
<1>1. gc.phase = "scanning" /\ puts' = puts /\ files' = files /\ raced' = raced /\ kept' = kept
  BY DEF JudgeFile
<1>2. gc \in [phase : {"resting", "scanning"}, reachable : SUBSET Digest, unseen : SUBSET Digest]
  BY <1>1 DEF ArtifactInv, ArtifactTypeOK
<1>3. \A q \in Put : Live(q)' <=> Live(q)
  BY <1>1 DEF Live
<1>4. CASE Collectible(d)
  <2>1. gc' = [phase |-> "removing", reachable |-> gc.reachable, unseen |-> gc.unseen \ {d},
               digest |-> d]
    BY <1>4 DEF JudgeFile
  <2>2. ArtifactTypeOK'
    BY <1>1, <1>2, <2>1 DEF ArtifactInv, ArtifactTypeOK
  <2>3. \A p \in Put : Live(p) /\ DigestOf[p] = d => p \in raced
    BY <1>1, <1>4 DEF Collectible, ArtifactInv, ReachableOrRecent
  <2> QED
    BY <1>1, <1>3, <2>1, <2>2, <2>3
    DEF ArtifactInv, StoredIsRecent, ReachableOrRecent, JudgedUnused, Kept
<1>5. CASE ~Collectible(d)
  <2>1. gc' = [gc EXCEPT !.unseen = gc.unseen \ {d}]
    BY <1>5 DEF JudgeFile
  <2>2. /\ gc' \in [phase : {"resting", "scanning"}, reachable : SUBSET Digest,
                    unseen : SUBSET Digest]
        /\ gc'.phase = "scanning" /\ gc'.reachable = gc.reachable
    BY <1>1, <1>2, <2>1
  <2>3. ArtifactTypeOK'
    BY <1>1, <2>2 DEF ArtifactInv, ArtifactTypeOK
  <2> QED
    BY <1>1, <1>3, <2>2, <2>3
    DEF ArtifactInv, StoredIsRecent, ReachableOrRecent, JudgedUnused, Kept
<1> QED
  BY <1>4, <1>5

\* The collector removes the file it found unused and old.
LEMMA RemoveKeeps == ASSUME ArtifactInv, RemoveFile PROVE ArtifactInv'
<1> USE ArtifactAssumption
<1>1. /\ gc.phase = "removing" /\ puts' = puts /\ raced' = raced /\ kept' = kept
      /\ files' = [files EXCEPT ![gc.digest] = "none"]
      /\ gc' = [phase |-> "scanning", reachable |-> gc.reachable, unseen |-> gc.unseen]
  BY DEF RemoveFile
<1>2. /\ gc.digest \in Digest /\ gc.reachable \in SUBSET Digest /\ gc.unseen \in SUBSET Digest
  BY <1>1 DEF ArtifactInv, ArtifactTypeOK
<1>3. \A q \in Put : Live(q)' <=> Live(q)
  BY <1>1 DEF Live
<1>4. ArtifactTypeOK'
  BY <1>1, <1>2 DEF ArtifactInv, ArtifactTypeOK
<1>5. \A p \in Put : Live(p) /\ p \notin raced => files'[DigestOf[p]] = files[DigestOf[p]]
  BY <1>1, <1>2 DEF ArtifactInv, ArtifactTypeOK, JudgedUnused
<1>6. StoredIsRecent' /\ Kept'
  BY <1>1, <1>3, <1>5 DEF ArtifactInv, StoredIsRecent, Kept, Live
<1>7. ReachableOrRecent' /\ JudgedUnused'
  BY <1>1, <1>3, <1>5 DEF ArtifactInv, ReachableOrRecent, JudgedUnused
<1> QED
  BY <1>4, <1>6, <1>7 DEF ArtifactInv

\* Every step keeps the invariant.
LEMMA ArtifactStep == ArtifactInv /\ [ArtifactNext]_artifactVars => ArtifactInv'
<1> SUFFICES ASSUME ArtifactInv, [ArtifactNext]_artifactVars PROVE ArtifactInv'
  OBVIOUS
<1>1. ASSUME puts' = puts, files' = files, gc' = gc, raced' = raced, kept' = kept
      PROVE  ArtifactInv'
  BY <1>1 DEF ArtifactInv, ArtifactTypeOK, StoredIsRecent, ReachableOrRecent, JudgedUnused, Kept,
              Live
<1>2. CASE EndGC
  <2>1. gc' = Resting /\ puts' = puts /\ files' = files /\ raced' = raced /\ kept' = kept
    BY <1>2 DEF EndGC
  <2> QED
    BY <2>1 DEF ArtifactInv, ArtifactTypeOK, StoredIsRecent, ReachableOrRecent, JudgedUnused, Kept,
                Live, Resting
<1>3. ASSUME NEW p \in Put,
             WriteContent(p) \/ CommitMetadata(p) \/ PutFails(p) \/ DeleteArtifact(p)
      PROVE  ArtifactInv'
  <2>1. WriteContent(p) => Rename(p) \/ KeepFile(p)
    BY DEF WriteContent
  <2> QED
    BY <1>3, <2>1, RenameKeeps, FoundKeeps, RowKeeps
<1>4. ASSUME NEW d \in Digest, JudgeFile(d) \/ ContentAges(d) PROVE ArtifactInv'
  BY <1>4, JudgeKeeps, AgeKeeps
<1>5. ASSUME NEW k \in Key, NEW p \in Put, PutEntry(k, p) \/ Lookup(k, p) PROVE ArtifactInv'
  BY <1>1, <1>5 DEF PutEntry, Lookup
<1>6. ASSUME NEW k \in Key, Evict(k) PROVE ArtifactInv'
  BY <1>1, <1>6 DEF Evict
<1>7. CASE CheckOutputs \/ EvictMissing \/ TouchHit \/ UNCHANGED artifactVars
  BY <1>1, <1>7 DEF CheckOutputs, EvictMissing, TouchHit, artifactVars
<1> QED
  BY <1>2, <1>3, <1>4, <1>5, <1>6, <1>7, BeginKeeps, RemoveKeeps DEF ArtifactNext

-----------------------------------------------------------------------------
\* The collector never removes content that a committed artifact refers to
\* (artifact.Store.Put and GC, cas.CAS.GC), but for a Put that replaced the file
\* between its look and its removal, or that kept an old orphaned file a
\* collection met before the row was there.
THEOREM ContentSurvives == ArtifactSpec => []ContentKept
<1>1. ArtifactInv => ContentKept
  BY DEF ArtifactInv, Kept, ContentKept, Committed, Live
<1> QED
  BY ArtifactStart, ArtifactStep, <1>1, PTL DEF ArtifactSpec

----------------------------------------------------------------------------
(* The workspaces.                                                         *)
WorkspacesSpec == WorkspacesInit /\ [][WorkspacesNext]_workspaceVars

RowStates == {"ABSENT", "ACTIVE", "RELEASED", "CORRUPTED", "DELETED"}
Places == {"idle", "inspected", "recorded", "working", "removed", "dead"}

(***************************************************************************)
(* The invariant.  Rows beyond a session's last one do not exist yet; two   *)
(* sessions never hold the lock together; a session at work, or about to be, *)
(* has an ACTIVE row or was dispossessed; and what GC has listed is still over unless it was  *)
(* given up meanwhile.                                                      *)
(***************************************************************************)
WorkspaceTypeOK ==
    /\ mode \in [Holder -> {"SHARED_READ", "EXCLUSIVE_WRITE", "WORKTREE"}]
    /\ workspace \in [Workspace -> [state : RowStates, expires : Int]]
    /\ holder \in [Holder -> [pc : Places, n : 0..Tries]]
    /\ hour \in Int
    /\ \A h \in Holder : AtPoint(h, "inspected") => holder[h].n < Tries
    /\ \A h \in Holder : holder[h].pc \in {"recorded", "working", "removed"} => holder[h].n > 0

RowsInOrder ==
    \A h \in Holder, k \in 1..Tries : k > holder[h].n => workspace[<<h, k>>].state = "ABSENT"

OneLock ==
    \A w, v \in Workspace :
        workspace[w].state = "ACTIVE" /\ workspace[v].state = "ACTIVE"
          /\ Exclusive(w[1]) /\ Exclusive(v[1]) => w[1] = v[1]

Holds(h) == workspace[Mine(h)].state = "ACTIVE" \/ Dispossessed(h)

AtWork(h) == holder[h].pc \in {"recorded", "working"}

WorkersHold == \A h \in Holder : AtWork(h) => Holds(h)

ListedAreOver ==
    sweeper.job = "gc" => \A w \in sweeper.left \cap Workspace :
        /\ workspace[w].state # "ABSENT"
        /\ workspace[w].state = "ACTIVE" => workspace[w].expires < hour - GracePeriod

HaveDirectories == \A h \in Holder : mode[h] = "WORKTREE" /\ AtPoint(h, "working") => h \in worktree

WorkspaceInv ==
    WorkspaceTypeOK /\ RowsInOrder /\ OneLock /\ WorkersHold /\ ListedAreOver /\ HaveDirectories

-----------------------------------------------------------------------------
\* A repository without sessions satisfies the invariant.
LEMMA WorkspacesStart == WorkspacesInit => WorkspaceInv
<1> SUFFICES ASSUME WorkspacesInit PROVE WorkspaceInv
  OBVIOUS
<1>1. WorkspaceTypeOK
  BY WorkspaceAssumption
  DEF WorkspacesInit, WorkspaceTypeOK, NoWorkspace, AtPoint, RowStates, Places
<1> QED
  BY <1>1 DEF WorkspacesInit, WorkspaceInv, RowsInOrder, OneLock, WorkersHold, ListedAreOver,
              HaveDirectories, NoWorkspace, NoSweep, AtPoint, AtWork, Workspace

\* The row of a session that has one is its own.
LEMMA MineIsMine ==
  ASSUME WorkspaceTypeOK, NEW h \in Holder, holder[h].pc \in {"recorded", "working", "removed"}
  PROVE  Mine(h) \in Workspace /\ Mine(h)[1] = h
BY DEF WorkspaceTypeOK, Mine, Workspace

\* A session that moves without touching a row, a directory or its number.
LEMMA MoveKeeps ==
  ASSUME WorkspaceInv, NEW h \in Holder, NEW pc \in Places, Goes(h, pc),
         pc \notin {"recorded", "working"}, pc = "removed" => holder[h].n > 0,
         pc = "inspected" => holder[h].n < Tries,
         UNCHANGED <<mode, workspace, missed, sweeper, hour>>,
         worktree' = worktree \/ (pc = "removed" /\ worktree' = worktree \ {h})
  PROVE  WorkspaceInv'
<1>1. /\ holder' = [holder EXCEPT ![h] = [holder[h] EXCEPT !.pc = pc]]
      /\ \A i \in Holder : holder'[i].n = holder[i].n
      /\ \A i \in Holder \ {h} : holder'[i] = holder[i]
      /\ holder'[h].pc = pc
  BY DEF Goes, WorkspaceInv, WorkspaceTypeOK
<1>2. WorkspaceTypeOK'
  BY <1>1 DEF WorkspaceInv, WorkspaceTypeOK, AtPoint
<1>3. RowsInOrder' /\ OneLock' /\ ListedAreOver'
  BY <1>1 DEF WorkspaceInv, RowsInOrder, OneLock, ListedAreOver, Exclusive
<1>4. WorkersHold'
  BY <1>1 DEF WorkspaceInv, WorkersHold, Holds, Dispossessed, Mine, AtWork
<1>5. HaveDirectories'
  BY <1>1 DEF WorkspaceInv, HaveDirectories, AtPoint
<1> QED
  BY <1>2, <1>3, <1>4, <1>5 DEF WorkspaceInv

\* A row that stops being ACTIVE, or is never in use, only loosens the locks.
LEMMA ClosedRow ==
  ASSUME WorkspaceInv, NEW w \in Workspace, NEW s \in {"RELEASED", "CORRUPTED"},
         UpdateWorkspaceState(w, s)
  PROVE  /\ workspace' \in [Workspace -> [state : RowStates, expires : Int]]
         /\ \A v \in Workspace \ {w} : workspace'[v] = workspace[v]
         /\ workspace'[w].state # "ACTIVE"
         /\ workspace'[w].state = "ABSENT" <=> workspace[w].state = "ABSENT"
BY DEF WorkspaceInv, WorkspaceTypeOK, UpdateWorkspaceState, RowStates

\* A session that gives its row up and rests; the directories may only grow.
LEMMA ReleaseKeeps ==
  ASSUME WorkspaceInv, NEW h \in Holder, holder[h].pc \in {"recorded", "working", "removed"},
         UpdateWorkspaceState(Mine(h), "RELEASED"), Goes(h, "idle"),
         UNCHANGED <<mode, missed, sweeper, hour>>, worktree \subseteq worktree'
  PROVE  WorkspaceInv'
<1>m. Mine(h) \in Workspace /\ Mine(h)[1] = h
  BY MineIsMine DEF WorkspaceInv
<1>1. /\ \A i \in Holder : holder'[i].n = holder[i].n
      /\ \A i \in Holder \ {h} : holder'[i] = holder[i]
      /\ holder'[h].pc = "idle"
      /\ holder' \in [Holder -> [pc : Places, n : 0..Tries]]
  BY DEF Goes, WorkspaceInv, WorkspaceTypeOK, Places
<1>2. /\ workspace' \in [Workspace -> [state : RowStates, expires : Int]]
      /\ \A v \in Workspace \ {Mine(h)} : workspace'[v] = workspace[v]
      /\ workspace'[Mine(h)].state # "ACTIVE"
      /\ workspace'[Mine(h)].state = "ABSENT" <=> workspace[Mine(h)].state = "ABSENT"
  BY <1>m, ClosedRow
<1>3. WorkspaceTypeOK'
  BY <1>1, <1>2 DEF WorkspaceInv, WorkspaceTypeOK, AtPoint
<1>4. RowsInOrder'
  <2> SUFFICES ASSUME NEW i \in Holder, NEW k \in 1..Tries, k > holder'[i].n
               PROVE  workspace'[<<i, k>>].state = "ABSENT"
    BY DEF RowsInOrder
  <2>1. <<i, k>> \in Workspace
    BY DEF Workspace
  <2>2. workspace[<<i, k>>].state = "ABSENT"
    BY <1>1 DEF WorkspaceInv, RowsInOrder
  <2> QED
    BY <2>1, <2>2, <1>2
<1>5. OneLock'
  BY <1>2 DEF WorkspaceInv, OneLock, Exclusive
<1>6. WorkersHold'
  <2> SUFFICES ASSUME NEW i \in Holder, AtWork(i)' PROVE Holds(i)'
    BY DEF WorkersHold
  <2>1. i # h /\ AtWork(i) /\ holder'[i] = holder[i]
    BY <1>1 DEF AtWork
  <2>2. Mine(i)' = Mine(i) /\ Mine(i) \in Workspace /\ Mine(i) # Mine(h)
    BY <2>1, <1>m, MineIsMine DEF Mine, WorkspaceInv, AtWork
  <2>3. workspace'[Mine(i)] = workspace[Mine(i)]
    BY <2>2, <1>2
  <2>4. Holds(i)
    BY <2>1 DEF WorkspaceInv, WorkersHold
  <2> QED
    BY <2>2, <2>3, <2>4 DEF Holds, Dispossessed
<1>7. ListedAreOver'
  BY <1>m, <1>2 DEF WorkspaceInv, ListedAreOver
<1>8. HaveDirectories'
  BY <1>1 DEF WorkspaceInv, HaveDirectories, AtPoint
<1> QED
  BY <1>3, <1>4, <1>5, <1>6, <1>7, <1>8 DEF WorkspaceInv

\* The transaction of Manager.Allocate that inserts a row.
LEMMA GrantKeeps ==
  ASSUME WorkspaceInv, NEW h \in Holder, AtPoint(h, "inspected"),
         Exclusive(h) => Locks(h) = {},
         CreateWorkspace(<<h, holder[h].n + 1>>),
         holder' = [holder EXCEPT ![h] = [n |-> @.n + 1,
                      pc |-> IF mode[h] = "WORKTREE" THEN "recorded" ELSE "working"]],
         UNCHANGED <<mode, worktree, missed, sweeper, hour>>
  PROVE  WorkspaceInv'
<1> DEFINE w == <<h, holder[h].n + 1>>
<1>n. holder[h].n \in 0..Tries /\ holder[h].n < Tries /\ Tries \in Nat
  BY WorkspaceAssumption DEF WorkspaceInv, WorkspaceTypeOK, AtPoint
<1>w. w \in Workspace /\ w[1] = h
  BY <1>n DEF Workspace
<1>a. workspace[w].state = "ABSENT"
  BY <1>n DEF WorkspaceInv, RowsInOrder
<1>1. /\ holder' \in [Holder -> [pc : Places, n : 0..Tries]]
      /\ \A i \in Holder \ {h} : holder'[i] = holder[i]
      /\ holder'[h].n = holder[h].n + 1
      /\ holder'[h].pc = IF mode[h] = "WORKTREE" THEN "recorded" ELSE "working"
  <2>1. [n |-> holder[h].n + 1, pc |-> IF mode[h] = "WORKTREE" THEN "recorded" ELSE "working"]
          \in [pc : Places, n : 0..Tries]
    BY <1>n DEF Places
  <2> QED
    BY <2>1 DEF WorkspaceInv, WorkspaceTypeOK
<1>2. /\ workspace' \in [Workspace -> [state : RowStates, expires : Int]]
      /\ \A v \in Workspace \ {w} : workspace'[v] = workspace[v]
      /\ workspace'[w].state = "ACTIVE"
  <2>1. [state |-> "ACTIVE", expires |-> hour + TTL] \in [state : RowStates, expires : Int]
    BY WorkspaceAssumption DEF WorkspaceInv, WorkspaceTypeOK, RowStates
  <2> QED
    BY <2>1, <1>w DEF CreateWorkspace, WorkspaceInv, WorkspaceTypeOK
<1> HIDE DEF w
<1>3. WorkspaceTypeOK'
  BY <1>1, <1>2, <1>n DEF WorkspaceInv, WorkspaceTypeOK, AtPoint
<1>4. RowsInOrder'
  <2> SUFFICES ASSUME NEW i \in Holder, NEW k \in 1..Tries, k > holder'[i].n
               PROVE  workspace'[<<i, k>>].state = "ABSENT"
    BY DEF RowsInOrder
  <2>1. <<i, k>> \in Workspace
    BY DEF Workspace
  <2>2. k > holder[i].n /\ <<i, k>> # w
    BY <1>1, <1>n DEF w
  <2> QED
    BY <2>1, <2>2, <1>2 DEF WorkspaceInv, RowsInOrder
<1>5. OneLock'
  <2>1. Exclusive(h) => \A v \in Workspace :
          workspace[v].state = "ACTIVE" /\ Exclusive(v[1]) => v[1] = h
    BY DEF Locks, ListActiveWorkspaces
  <2> QED
    BY <2>1, <1>2, <1>w DEF WorkspaceInv, OneLock, Exclusive
<1>6. WorkersHold'
  <2> SUFFICES ASSUME NEW i \in Holder, AtWork(i)' PROVE Holds(i)'
    BY DEF WorkersHold
  <2>1. CASE i = h
    <3>1. Mine(i)' = w
      BY <2>1, <1>1 DEF Mine, w
    <3> QED
      BY <3>1, <1>2 DEF Holds
  <2>2. CASE i # h
    <3>1. AtWork(i) /\ holder'[i] = holder[i]
      BY <2>2, <1>1 DEF AtWork
    <3>2. Mine(i)' = Mine(i) /\ Mine(i) \in Workspace /\ Mine(i) # w
      BY <2>2, <3>1, <1>w, MineIsMine DEF Mine, WorkspaceInv, AtWork
    <3>3. workspace'[Mine(i)] = workspace[Mine(i)]
      BY <3>2, <1>2
    <3>4. Holds(i)
      BY <3>1 DEF WorkspaceInv, WorkersHold
    <3> QED
      BY <3>2, <3>3, <3>4 DEF Holds, Dispossessed
  <2> QED
    BY <2>1, <2>2
<1>7. ListedAreOver'
  <2>1. sweeper.job = "gc" => w \notin sweeper.left
    BY <1>w, <1>a DEF WorkspaceInv, ListedAreOver
  <2> QED
    BY <2>1, <1>2 DEF WorkspaceInv, ListedAreOver
<1>8. HaveDirectories'
  BY <1>1 DEF WorkspaceInv, HaveDirectories, AtPoint
<1> QED
  BY <1>3, <1>4, <1>5, <1>6, <1>7, <1>8 DEF WorkspaceInv

\* git worktree add succeeds: the directory is there before the session works.
LEMMA WorktreeKeeps ==
  ASSUME WorkspaceInv, NEW h \in Holder, CreateGitWorktree(h)
  PROVE  WorkspaceInv'
<1>1. /\ \A i \in Holder : holder'[i].n = holder[i].n
      /\ \A i \in Holder \ {h} : holder'[i] = holder[i]
      /\ holder'[h].pc = "working"
      /\ holder' \in [Holder -> [pc : Places, n : 0..Tries]]
      /\ holder[h].pc = "recorded"
  BY DEF CreateGitWorktree, AtPoint, Goes, WorkspaceInv, WorkspaceTypeOK, Places
<1>2. UNCHANGED <<mode, workspace, missed, sweeper, hour>> /\ worktree' = worktree \cup {h}
  BY DEF CreateGitWorktree
<1>3. WorkspaceTypeOK'
  BY <1>1, <1>2 DEF WorkspaceInv, WorkspaceTypeOK, AtPoint
<1>4. RowsInOrder' /\ OneLock' /\ ListedAreOver'
  BY <1>1, <1>2 DEF WorkspaceInv, RowsInOrder, OneLock, ListedAreOver, Exclusive
<1>5. WorkersHold'
  BY <1>1, <1>2 DEF WorkspaceInv, WorkersHold, Holds, Dispossessed, Mine, AtWork
<1>6. HaveDirectories'
  BY <1>1, <1>2 DEF WorkspaceInv, HaveDirectories, AtPoint
<1> QED
  BY <1>3, <1>4, <1>5, <1>6 DEF WorkspaceInv

\* Reconcile does not find a directory.
LEMMA ReconcileKeeps ==
  ASSUME WorkspaceInv, NEW w \in Workspace, ReconcileWorkspace(w)
  PROVE  WorkspaceInv'
<1>1. UNCHANGED <<mode, worktree, holder, hour>> /\ sweeper'.job # "gc"
  BY DEF ReconcileWorkspace, Sweeping, NoSweep
<1>2. CASE UNCHANGED <<workspace, missed>>
  BY <1>1, <1>2 DEF WorkspaceInv, WorkspaceTypeOK, RowsInOrder, OneLock, WorkersHold, Holds,
     Dispossessed, ListedAreOver, HaveDirectories, Mine, AtPoint, AtWork, Exclusive
<1>3. CASE UpdateWorkspaceState(w, "CORRUPTED") /\ missed' = missed \cup {w}
  <2>1. /\ workspace' \in [Workspace -> [state : RowStates, expires : Int]]
        /\ \A v \in Workspace \ {w} : workspace'[v] = workspace[v]
        /\ workspace'[w].state # "ACTIVE"
        /\ workspace'[w].state = "ABSENT" <=> workspace[w].state = "ABSENT"
    BY <1>3, ClosedRow
  <2>2. WorkspaceTypeOK'
    BY <1>1, <2>1 DEF WorkspaceInv, WorkspaceTypeOK, AtPoint
  <2>3. RowsInOrder'
    <3> SUFFICES ASSUME NEW i \in Holder, NEW k \in 1..Tries, k > holder'[i].n
                 PROVE  workspace'[<<i, k>>].state = "ABSENT"
      BY DEF RowsInOrder
    <3>1. <<i, k>> \in Workspace /\ workspace[<<i, k>>].state = "ABSENT"
      BY <1>1 DEF WorkspaceInv, RowsInOrder, Workspace
    <3> QED
      BY <3>1, <2>1
  <2>4. OneLock'
    BY <1>1, <2>1 DEF WorkspaceInv, OneLock, Exclusive
  <2>5. WorkersHold'
    <3> SUFFICES ASSUME NEW i \in Holder, AtWork(i)' PROVE Holds(i)'
      BY DEF WorkersHold
    <3>1. Mine(i)' = Mine(i) /\ Mine(i) \in Workspace /\ Holds(i)
      BY <1>1, MineIsMine DEF Mine, WorkspaceInv, WorkersHold, AtWork
    <3>2. CASE Mine(i) = w
      BY <3>1, <3>2, <1>3 DEF Holds, Dispossessed
    <3>3. CASE Mine(i) # w
      BY <3>1, <3>3, <2>1, <1>1, <1>3 DEF Holds, Dispossessed
    <3> QED
      BY <3>2, <3>3
  <2>6. ListedAreOver' /\ HaveDirectories'
    BY <1>1 DEF WorkspaceInv, ListedAreOver, HaveDirectories, AtPoint
  <2> QED
    BY <2>2, <2>3, <2>4, <2>5, <2>6 DEF WorkspaceInv
<1> QED
  BY <1>2, <1>3 DEF ReconcileWorkspace

\* GC deletes a row it has listed: it is still over, or was given up.
LEMMA GCKeeps ==
  ASSUME WorkspaceInv, NEW w \in Workspace, GCWorkspace(w)
  PROVE  WorkspaceInv'
<1>1. /\ UNCHANGED <<mode, worktree, missed, holder, hour>>
      /\ sweeper.job = "gc" /\ w \in sweeper.left
      /\ sweeper'.job = "gc" => sweeper'.left = sweeper.left \ {w}
  BY DEF GCWorkspace, Sweeping, NoSweep
<1>2. /\ workspace[w].state # "ABSENT"
      /\ workspace[w].state = "ACTIVE" => workspace[w].expires < hour - GracePeriod
  BY <1>1 DEF WorkspaceInv, ListedAreOver
<1>3. /\ workspace' \in [Workspace -> [state : RowStates, expires : Int]]
      /\ \A v \in Workspace \ {w} : workspace'[v] = workspace[v]
      /\ workspace'[w].state = "DELETED"
      /\ workspace'[w].expires = workspace[w].expires
  BY <1>2 DEF GCWorkspace, DeleteWorkspace, WorkspaceInv, WorkspaceTypeOK, RowStates
<1>4. WorkspaceTypeOK'
  BY <1>1, <1>3 DEF WorkspaceInv, WorkspaceTypeOK, AtPoint
<1>5. RowsInOrder'
  <2> SUFFICES ASSUME NEW i \in Holder, NEW k \in 1..Tries, k > holder'[i].n
               PROVE  workspace'[<<i, k>>].state = "ABSENT"
    BY DEF RowsInOrder
  <2>1. <<i, k>> \in Workspace /\ workspace[<<i, k>>].state = "ABSENT"
    BY <1>1 DEF WorkspaceInv, RowsInOrder, Workspace
  <2> QED
    BY <2>1, <1>2, <1>3
<1>6. OneLock'
  BY <1>1, <1>3 DEF WorkspaceInv, OneLock, Exclusive
<1>7. WorkersHold'
  <2> SUFFICES ASSUME NEW i \in Holder, AtWork(i)' PROVE Holds(i)'
    BY DEF WorkersHold
  <2>1. Mine(i)' = Mine(i) /\ Mine(i) \in Workspace /\ Holds(i)
    BY <1>1, MineIsMine DEF Mine, WorkspaceInv, WorkersHold, AtWork
  <2>2. CASE Mine(i) = w
    BY <2>1, <2>2, <1>1, <1>2, <1>3 DEF Holds, Dispossessed
  <2>3. CASE Mine(i) # w
    BY <2>1, <2>3, <1>1, <1>3 DEF Holds, Dispossessed
  <2> QED
    BY <2>2, <2>3
<1>8. ListedAreOver'
  BY <1>1, <1>3 DEF WorkspaceInv, ListedAreOver
<1>9. HaveDirectories'
  BY <1>1 DEF WorkspaceInv, HaveDirectories, AtPoint
<1> QED
  BY <1>4, <1>5, <1>6, <1>7, <1>8, <1>9 DEF WorkspaceInv

\* The steps of the sweeper, the repository and the time that touch no row.
LEMMA OutsideKeeps ==
  ASSUME WorkspaceInv, UNCHANGED <<mode, workspace, worktree, missed, holder>>,
         \/ BeginReconcile \/ BeginWorkspaceGC \/ SweeperDies \/ RepositoryMoves \/ HourPasses
         \/ UNCHANGED workspaceVars
  PROVE  WorkspaceInv'
<1>1. hour' \in Int /\ hour' >= hour
  BY DEF BeginReconcile, BeginWorkspaceGC, SweeperDies, RepositoryMoves, HourPasses,
         workspaceVars, WorkspaceInv, WorkspaceTypeOK
<1>2. WorkspaceTypeOK' /\ RowsInOrder' /\ OneLock' /\ HaveDirectories'
  BY <1>1 DEF WorkspaceInv, WorkspaceTypeOK, RowsInOrder, OneLock, HaveDirectories, AtPoint, Exclusive
<1>3. WorkersHold'
  <2> SUFFICES ASSUME NEW i \in Holder, AtWork(i)' PROVE Holds(i)'
    BY DEF WorkersHold
  <2>1. Mine(i)' = Mine(i) /\ Mine(i) \in Workspace /\ Holds(i)
    BY MineIsMine DEF Mine, WorkspaceInv, WorkersHold, AtWork
  <2>2. workspace[Mine(i)].expires \in Int /\ hour \in Int /\ GracePeriod \in Int
    BY <2>1, WorkspaceAssumption DEF WorkspaceInv, WorkspaceTypeOK
  <2> QED
    BY <1>1, <2>1, <2>2 DEF Holds, Dispossessed
<1>4. ListedAreOver'
  <2>1. \A w \in Workspace : workspace[w].expires \in Int
    BY DEF WorkspaceInv, WorkspaceTypeOK
  <2>2. CASE sweeper' = sweeper
    BY <1>1, <2>1, <2>2, WorkspaceAssumption
       DEF ListedAreOver, WorkspaceInv, WorkspaceTypeOK
  <2>3. CASE BeginReconcile \/ SweeperDies
    BY <2>3 DEF BeginReconcile, SweeperDies, Sweeping, NoSweep, ListedAreOver
  <2>4. CASE BeginWorkspaceGC
    BY <2>4 DEF BeginWorkspaceGC, Sweeping, NoSweep, ListedAreOver, ListActiveWorkspaces
  <2> QED
    BY <2>2, <2>3, <2>4 DEF RepositoryMoves, HourPasses, workspaceVars
<1> QED
  BY <1>2, <1>3, <1>4 DEF WorkspaceInv

-----------------------------------------------------------------------------
\* Every step of a session, of a sweep, of the repository and of the time.
LEMMA WorkspacesStep == WorkspaceInv /\ [WorkspacesNext]_workspaceVars => WorkspaceInv'
<1> SUFFICES ASSUME WorkspaceInv, [WorkspacesNext]_workspaceVars PROVE WorkspaceInv'
  OBVIOUS
<1>1. ASSUME NEW h \in Holder, InspectRepository(h) PROVE WorkspaceInv'
  BY <1>1, MoveKeeps DEF InspectRepository, Places
<1>2. ASSUME NEW h \in Holder, Allocate(h) PROVE WorkspaceInv'
  <2>1. CASE Goes(h, "idle") /\ UNCHANGED workspace
    BY <1>2, <2>1, MoveKeeps DEF Allocate, Places
  <2>2. CASE /\ Exclusive(h) => Locks(h) = {}
             /\ CreateWorkspace(<<h, holder[h].n + 1>>)
             /\ holder' = [holder EXCEPT ![h] = [n |-> @.n + 1,
                             pc |-> IF mode[h] = "WORKTREE" THEN "recorded" ELSE "working"]]
    BY <1>2, <2>2, GrantKeeps DEF Allocate
  <2> QED
    BY <1>2, <2>1, <2>2 DEF Allocate
<1>3. ASSUME NEW h \in Holder, CreateGitWorktree(h) PROVE WorkspaceInv'
  BY <1>3, WorktreeKeeps
<1>4. ASSUME NEW h \in Holder, CreateWorktreeFails(h) PROVE WorkspaceInv'
  BY <1>4, ReleaseKeeps DEF CreateWorktreeFails, AtPoint
<1>5. ASSUME NEW h \in Holder, RemoveGitWorktree(h) PROVE WorkspaceInv'
  <2>1. holder[h].n > 0
    BY <1>5 DEF RemoveGitWorktree, AtPoint, WorkspaceInv, WorkspaceTypeOK
  <2> QED
    BY <1>5, <2>1, MoveKeeps DEF RemoveGitWorktree, Places
<1>6. ASSUME NEW h \in Holder, Release(h) PROVE WorkspaceInv'
  BY <1>6, ReleaseKeeps DEF Release, AtPoint
<1>7. ASSUME NEW h \in Holder, HolderDies(h) PROVE WorkspaceInv'
  BY <1>7, MoveKeeps DEF HolderDies, Places
<1>8. ASSUME NEW w \in Workspace, ReconcileWorkspace(w) PROVE WorkspaceInv'
  BY <1>8, ReconcileKeeps
<1>9. ASSUME NEW w \in Workspace, GCWorkspace(w) PROVE WorkspaceInv'
  BY <1>9, GCKeeps
<1>10. CASE BeginReconcile \/ BeginWorkspaceGC \/ SweeperDies \/ RepositoryMoves \/ HourPasses
              \/ UNCHANGED workspaceVars
  BY <1>10, OutsideKeeps
     DEF BeginReconcile, BeginWorkspaceGC, SweeperDies, RepositoryMoves, HourPasses, workspaceVars
<1> QED
  BY <1>1, <1>2, <1>3, <1>4, <1>5, <1>6, <1>7, <1>8, <1>9, <1>10 DEF WorkspacesNext

\* One writer (Manager.Allocate): of two sessions at work in the repository
\* itself one has lost its lease for longer than the grace period or its
\* directory, and a session at work in a worktree has its directory.
THEOREM SingleWriter == WorkspacesSpec => []OneWriter
<1>1. WorkspaceInv => OneWriter
  <2> SUFFICES ASSUME WorkspaceInv PROVE OneWriter
    OBVIOUS
  <2>1. ASSUME NEW h \in Holder, NEW i \in Holder, h # i, Exclusive(h), Exclusive(i),
               AtPoint(h, "working"), AtPoint(i, "working"),
               ~Dispossessed(h), ~Dispossessed(i)
        PROVE  FALSE
    <3>1. /\ Mine(h) \in Workspace /\ Mine(h)[1] = h
          /\ Mine(i) \in Workspace /\ Mine(i)[1] = i
      BY <2>1, MineIsMine DEF WorkspaceInv, AtPoint
    <3>2. workspace[Mine(h)].state = "ACTIVE" /\ workspace[Mine(i)].state = "ACTIVE"
      BY <2>1 DEF WorkspaceInv, WorkersHold, AtWork, AtPoint, Holds
    <3> QED
      BY <2>1, <3>1, <3>2 DEF WorkspaceInv, OneLock
  <2> QED
    BY <2>1 DEF OneWriter, WorkspaceInv, HaveDirectories
<1> QED
  BY <1>1, WorkspacesStart, WorkspacesStep, PTL DEF WorkspacesSpec
=============================================================================
