------------------------ MODULE ProviderRoutingProofs ------------------------
(***************************************************************************)
(* Theorems about ProviderRouting, for every catalog of accounts, models   *)
(* and windows, every set of attempts and callers and every policy: an     *)
(* attempt is with one provider at a time, and is handed over without a    *)
(* doubt.                                                                  *)
(***************************************************************************)
EXTENDS ProviderRouting, SequenceTheorems, FiniteSetTheorems, WellFoundedInduction, TLAPS

----------------------------------------------------------------------------
(***************************************************************************)
(* The ledger.  Callers remember rows by their index for as long as they   *)
(* like, so what is said here is said of the rows alone and of no caller.  *)
(***************************************************************************)
RowFields == {"attempt", "model", "session", "claims", "key", "state", "samples"}
ClaimFields == {"window", "model", "amount", "left"}

\* A list of anything: the values of most fields do not matter here.
Listed(q) == Len(q) \in Nat /\ q = [n \in 1..Len(q) |-> q[n]]

\* The claims of a row are on its account.
ClaimsFit(row) ==
  \A k \in row.claims : DOMAIN k = ClaimFields /\ WindowAccount[k.window] = AccountOf[row.model]

\* A row is ACTIVE, or has ended and claims nothing.
RowOK(row) ==
  /\ DOMAIN row = RowFields /\ row.attempt \in Attempts
  /\ row.state \in {"ACTIVE"} \cup Ended
  /\ row.state \in Ended => row.claims = {}
  /\ ClaimsFit(row)

\* No two ACTIVE rows are of one attempt.
OneActive(q) ==
  \A i, j \in DOMAIN q :
    q[i].attempt = q[j].attempt /\ q[i].state = "ACTIVE" /\ q[j].state = "ACTIVE" => i = j

LedgerOK(q) == Listed(q) /\ OneActive(q) /\ \A i \in DOMAIN q : RowOK(q[i])

RoutingInv == LedgerOK(asn) /\ DOMAIN effect = Attempts

\* What a row may become: it may end, and nothing that has ended becomes ACTIVE.
RowAfter(old, new) ==
  /\ RowOK(new) /\ new.attempt = old.attempt
  /\ new.state = "ACTIVE" => old.state = "ACTIVE"

LedgerAfter(old, new) ==
  /\ Listed(new) /\ DOMAIN new = DOMAIN old
  /\ \A i \in DOMAIN old : RowAfter(old[i], new[i])

\* Rows that only end leave the ledger in order.
LEMMA RowsKept ==
  ASSUME NEW old, NEW new, LedgerOK(old), LedgerAfter(old, new)
  PROVE  LedgerOK(new)
<1>1. OneActive(new)
  BY DEF LedgerOK, LedgerAfter, RowAfter, OneActive
<1>2. \A i \in DOMAIN new : RowOK(new[i])
  BY DEF LedgerAfter, RowAfter
<1> QED  BY <1>1, <1>2 DEF LedgerOK, LedgerAfter

\* A list and one element more is a list.
LEMMA AppendListed ==
  ASSUME NEW q, NEW e, Listed(q)
  PROVE  /\ Listed(Append(q, e)) /\ DOMAIN q = 1..Len(q) /\ Len(q) \in Nat
         /\ DOMAIN Append(q, e) = 1..(Len(q) + 1)
         /\ \A n \in DOMAIN q : Append(q, e)[n] = q[n]
         /\ Append(q, e)[Len(q) + 1] = e
<1> DEFINE S == {q[n] : n \in 1..Len(q)} \cup {e}
           f == [n \in 1..Len(q) |-> q[n]]
<1>1. Len(q) \in Nat /\ q = f /\ DOMAIN q = 1..Len(q)
  BY DEF Listed
<1>2. f \in [1..Len(q) -> S]
  OBVIOUS
<1>3. q \in Seq(S)
  BY <1>1, <1>2
<1>4. e \in S
  OBVIOUS
<1> HIDE DEF S, f
<1> DEFINE a == Append(q, e)
<1>5. /\ a \in Seq(S) /\ Len(a) = Len(q) + 1
      /\ \A n \in 1..Len(q) : a[n] = q[n]
      /\ a[Len(q) + 1] = e
  BY <1>3, <1>4, AppendProperties
<1>6. Len(a) \in Nat /\ a \in [1..Len(a) -> S] /\ DOMAIN a = 1..Len(a)
  BY <1>5, LenProperties
<1> HIDE DEF a
<1>7. Listed(a)
  BY <1>6 DEF Listed
<1> QED  BY <1>1, <1>5, <1>6, <1>7 DEF a

\* An ACTIVE row is added for an attempt that has none.
LEMMA RowAdded ==
  ASSUME NEW q, NEW row, LedgerOK(q), RowOK(row),
         \A i \in DOMAIN q : q[i].attempt = row.attempt => q[i].state # "ACTIVE"
  PROVE  LedgerOK(Append(q, row))
<1> DEFINE a == Append(q, row)
           k == Len(q) + 1
<1>1. Listed(q)
  BY DEF LedgerOK
<1>2. /\ Listed(a) /\ DOMAIN q = 1..Len(q) /\ Len(q) \in Nat /\ DOMAIN a = 1..k
      /\ \A n \in DOMAIN q : a[n] = q[n]
      /\ a[k] = row
  BY <1>1, AppendListed
<1>3. DOMAIN a = DOMAIN q \cup {k} /\ k \notin DOMAIN q
  BY <1>2
<1> HIDE DEF a, k
<1>4. \A i \in DOMAIN a : RowOK(a[i])
  BY <1>2, <1>3 DEF LedgerOK
<1>5. OneActive(a)
  BY <1>2, <1>3 DEF LedgerOK, OneActive
<1>6. LedgerOK(a)
  BY <1>2, <1>4, <1>5 DEF LedgerOK
<1> QED  BY <1>6 DEF a

\* One row of a list replaced.
LEMMA RowReplaced ==
  ASSUME NEW q, LedgerOK(q), NEW i \in DOMAIN q, NEW row, RowAfter(q[i], row)
  PROVE  /\ LedgerAfter(q, [q EXCEPT ![i] = row])
         /\ \A j \in DOMAIN q : j # i => [q EXCEPT ![i] = row][j] = q[j]
         /\ [q EXCEPT ![i] = row][i] = row
<1> DEFINE r == [q EXCEPT ![i] = row]
<1>1. Len(q) \in Nat /\ DOMAIN q = 1..Len(q)
  BY DEF LedgerOK, Listed
<1>2. DOMAIN r = DOMAIN q /\ \A j \in DOMAIN q : r[j] = IF j = i THEN row ELSE q[j]
  OBVIOUS
<1>3. r = [n \in 1..Len(q) |-> r[n]]
  BY <1>1
<1>4. Len(r) = Len(q)
  BY <1>1, <1>3
<1>5. Listed(r)
  BY <1>1, <1>3, <1>4 DEF Listed
<1> HIDE DEF r
<1>6. \A j \in DOMAIN q : RowAfter(q[j], r[j])
  BY <1>2 DEF LedgerOK, RowAfter
<1>7. LedgerAfter(q, r)
  BY <1>2, <1>5, <1>6 DEF LedgerAfter
<1> QED  BY <1>2, <1>7 DEF r

----------------------------------------------------------------------------
(***************************************************************************)
(* The operations.                                                         *)
(***************************************************************************)
\* The clock: claims grow older where they are.
LEMMA TickKeeps ==
  ASSUME LedgerOK(asn), Tick
  PROVE  LedgerAfter(asn, asn') /\ \A i \in DOMAIN asn : asn'[i].state = asn[i].state
<1>1. Len(asn) \in Nat /\ DOMAIN asn = 1..Len(asn)
  BY DEF LedgerOK, Listed
<1>2. asn' = [i \in DOMAIN asn |-> [asn[i] EXCEPT !.claims = ClaimsAgeing(i)]]
  BY DEF Tick
<1>3. ASSUME NEW i \in DOMAIN asn
      PROVE  RowAfter(asn[i], asn'[i]) /\ asn'[i].state = asn[i].state
  <2> DEFINE new == [asn[i] EXCEPT !.claims = ClaimsAgeing(i)]
  <2>1. RowOK(asn[i])
    BY DEF LedgerOK
  <2>2. /\ DOMAIN new = RowFields /\ new.attempt = asn[i].attempt /\ new.model = asn[i].model
        /\ new.state = asn[i].state /\ new.claims = ClaimsAgeing(i)
    BY <2>1 DEF RowOK, RowFields
  <2>3. asn'[i] = new
    BY <1>2
  <2> HIDE DEF new
  <2>4. new.state \in Ended => new.claims = {}
    BY <2>1, <2>2 DEF RowOK, ClaimsAgeing
  <2>5. ASSUME NEW k \in new.claims
        PROVE  DOMAIN k = ClaimFields /\ WindowAccount[k.window] = AccountOf[new.model]
    <3>1. PICK c \in asn[i].claims : k = [c EXCEPT !.left = IF @ > 0 THEN @ - 1 ELSE 0]
      BY <2>2 DEF ClaimsAgeing
    <3>2. DOMAIN c = ClaimFields /\ WindowAccount[c.window] = AccountOf[asn[i].model]
      BY <2>1 DEF RowOK, ClaimsFit
    <3>3. DOMAIN k = ClaimFields /\ k.window = c.window
      BY <3>1, <3>2 DEF ClaimFields
    <3> QED  BY <2>2, <3>2, <3>3
  <2>6. RowOK(new)
    BY <2>1, <2>2, <2>4, <2>5 DEF RowOK, ClaimsFit
  <2> QED  BY <2>2, <2>3, <2>6 DEF RowAfter
<1>4. DOMAIN asn' = DOMAIN asn
  BY <1>2
<1>5. asn' = [n \in 1..Len(asn) |-> asn'[n]]
  BY <1>1, <1>2
<1>6. Len(asn') = Len(asn)
  BY <1>1, <1>5
<1>7. Listed(asn')
  BY <1>1, <1>5, <1>6 DEF Listed
<1> QED  BY <1>3, <1>4, <1>7 DEF LedgerAfter

\* A new row has the fields of a row, and its claims those of a claim.
LEMMA NewRow ==
  ASSUME NEW t \in Attempts, NEW m, NEW s, NEW claims, NEW key,
         \A k \in claims : DOMAIN k = ClaimFields /\ WindowAccount[k.window] = AccountOf[m]
  PROVE  RowOK(Assignment(t, m, s, claims, key))
BY DEF Assignment, RowOK, RowFields, ClaimsFit, Ended

\* An assignment is created where the attempt has no ACTIVE one.
LEMMA CreateKeeps ==
  ASSUME LedgerOK(asn), NEW t \in Attempts, NEW m, NEW s, NEW claims, NEW key,
         \A k \in claims : DOMAIN k = ClaimFields,
         CreateAssignment(Assignment(t, m, s, claims, key))
  PROVE  LedgerOK(asn') /\ \A i \in DOMAIN asn : asn'[i] = asn[i]
<1> DEFINE row == Assignment(t, m, s, claims, key)
<1>1. row.attempt = t /\ row.claims = claims /\ row.model = m
  BY DEF Assignment
<1>2. asn' = Append(asn, row) /\ CanCreate(row)
  BY DEF CreateAssignment
<1> HIDE DEF row
<1>3. Active(t) = {} /\ \A k \in claims : CanClaim(row, k)
  BY <1>1, <1>2 DEF CanCreate
<1>4. \A k \in claims : WindowAccount[k.window] = AccountOf[m]
  BY <1>1, <1>3 DEF CanClaim
<1>5. RowOK(row)
  BY <1>4, NewRow DEF row
<1>6. \A i \in DOMAIN asn : asn[i].attempt = row.attempt => asn[i].state # "ACTIVE"
  BY <1>1, <1>3 DEF Active
<1>7. LedgerOK(asn')
  BY <1>2, <1>5, <1>6, RowAdded
<1>8. \A i \in DOMAIN asn : asn'[i] = asn[i]
  BY <1>2, AppendListed DEF LedgerOK
<1> QED  BY <1>7, <1>8

\* A route is committed with at most one claim, a reservation with one per window.
LEMMA CommitKeeps ==
  ASSUME LedgerOK(asn), NEW c \in Callers, CommitRoute(c)
  PROVE  LedgerOK(asn') /\ \A i \in DOMAIN asn : asn'[i] = asn[i]
<1> DEFINE t == AttemptOf[c]
           claims == RouteClaim(call[c].model, call[c].window, Request[t].tokens)
<1>1. t \in Attempts
  BY RoutingAssumption
<1>2. \A k \in claims : DOMAIN k = ClaimFields
  BY DEF RouteClaim, Claim, ClaimFields
<1>3. \/ CreateAssignment(Assignment(t, call[c].model, call[c].session, claims, None))
      \/ UNCHANGED asn
  BY DEF CommitRoute
<1> HIDE DEF t, claims
<1> QED  BY <1>1, <1>2, <1>3, CreateKeeps

\* The reservation service claims every window at once.
LEMMA ReserveKeeps ==
  ASSUME LedgerOK(asn), NEW t \in Attempts, NEW m \in Models, Reserve(t, m)
  PROVE  LedgerOK(asn') /\ \A i \in DOMAIN asn : asn'[i] = asn[i]
<1> DEFINE snap == capacity[AccountOf[m]]
           windows == ApplicableWindows(m)
<1>1. PICK amount \in Demands :
        CreateAssignment(Assignment(t, m, None,
          IF amount = 0 THEN {}
          ELSE {Claim(w, WindowModel[w], amount, ClaimExpiry(w, snap)) : w \in windows}, t))
  BY DEF Reserve
<1> DEFINE claims == IF amount = 0 THEN {}
                     ELSE {Claim(w, WindowModel[w], amount, ClaimExpiry(w, snap)) : w \in windows}
<1>2. \A k \in claims : DOMAIN k = ClaimFields
  BY DEF Claim, ClaimFields
<1>3. CreateAssignment(Assignment(t, m, None, claims, t))
  BY <1>1
<1> HIDE DEF claims
<1> QED  BY <1>2, <1>3, CreateKeeps

\* A row that ends holds no claim.
LEMMA SettleKeeps ==
  ASSUME LedgerOK(asn), NEW c \in Callers, Settle(c)
  PROVE  /\ LedgerAfter(asn, asn')
         /\ \A i \in DOMAIN asn : asn[i].state = "ACTIVE" => asn'[i].state # "SUPERSEDED"
<1> DEFINE i == call[c].asn
           kept == {k \in asn[i].claims : k.window # call[c].window}
           verdict == IF call[c].fault = None THEN "COMPLETED" ELSE "RELEASED"
           sampled == WithUsageSample(asn[i].samples, call[c].window)
           row == [asn[i] EXCEPT !.claims = kept, !.state = verdict, !.samples = sampled]
<1>1. LedgerAfter(asn, asn)
  BY DEF LedgerOK, LedgerAfter, RowAfter
<1>2. verdict \in {"COMPLETED", "RELEASED"}
  OBVIOUS
<1>3. \/ asn' = asn
      \/ asn[i].state = "ACTIVE" /\ kept = {} /\ asn' = [asn EXCEPT ![i] = row]
  BY DEF Settle, CanEnd
<1>4. CASE asn' = asn \/ i \notin DOMAIN asn
  <2>1. asn' = asn
    BY <1>3, <1>4 DEF LedgerOK, Listed
  <2>2. \A j \in DOMAIN asn : asn[j].state = "ACTIVE" => asn'[j].state # "SUPERSEDED"
    BY <2>1
  <2> QED  BY <1>1, <2>1, <2>2
<1>5. CASE asn' # asn /\ i \in DOMAIN asn
  <2>1. RowOK(asn[i]) /\ asn[i].state = "ACTIVE"
    BY <1>3, <1>5 DEF LedgerOK
  <2>2. kept = {} /\ asn' = [asn EXCEPT ![i] = row]
    BY <1>3, <1>5
  <2> HIDE DEF kept, verdict, sampled
  <2>3. /\ DOMAIN row = RowFields /\ row.attempt = asn[i].attempt /\ row.state = verdict
        /\ row.claims = kept
    BY <2>1 DEF RowOK, RowFields
  <2> HIDE DEF i, row
  <2>4. RowAfter(asn[i], row)
    BY <1>2, <2>1, <2>2, <2>3 DEF RowAfter, RowOK, ClaimsFit, Ended
  <2>5. /\ LedgerAfter(asn, asn') /\ asn'[i] = row
        /\ \A j \in DOMAIN asn : j # i => asn'[j] = asn[j]
    BY <1>5, <2>2, <2>4, RowReplaced
  <2>6. \A j \in DOMAIN asn : asn[j].state = "ACTIVE" => asn'[j].state # "SUPERSEDED"
    BY <1>2, <2>3, <2>5
  <2> QED  BY <2>5, <2>6
<1> QED  BY <1>4, <1>5

\* A set of numbers that is not empty has a least one.
LEMMA LeastNumber ==
  ASSUME NEW T \in SUBSET Nat, T # {}
  PROVE  \E x \in T : \A y \in T : x <= y
<1> PICK K \in T : TRUE
  OBVIOUS
<1> DEFINE Below(x) == 0..(x - 1)
           V == {x \in T : x <= K}
           U == {Below(x) : x \in V}
           R == StrictSubsetOrdering(0..K)
           F == FiniteSubsetsOf(0..K)
<1>1. \A x \in V : x \in Nat /\ x <= K /\ Below(x) \subseteq 0..K
  OBVIOUS
<1>2. \A x \in V : IsFiniteSet(Below(x))
  BY FS_Interval
<1>3. U \subseteq F /\ U # {}
  BY <1>1, <1>2 DEF FiniteSubsetsOf
<1>4. IsWellFoundedOn(R, F)
  BY FS_StrictSubsetOrderingWellFounded
<1>5. PICK X \in U : \A Y \in U : ~(<<Y, X>> \in R)
  <2> HIDE DEF U, R, F
  <2> QED  BY <1>3, <1>4, WFMin
<1>6. PICK x \in V : X = Below(x)
  OBVIOUS
<1>7. ASSUME NEW y \in V, y < x PROVE FALSE
  <2>1. y \in Below(x) /\ y \notin Below(y) /\ Below(y) \subseteq Below(x)
    BY <1>1, <1>7
  <2>2. Below(y) # Below(x) /\ Below(y) \in SUBSET (0..K) /\ Below(x) \in SUBSET (0..K)
    BY <1>1, <2>1
  <2>3. <<Below(y), Below(x)>> \in R
    <3> HIDE DEF Below
    <3> QED  BY <2>1, <2>2 DEF StrictSubsetOrdering
  <2> QED  BY <1>5, <1>6, <2>3
<1>8. \A y \in T : x <= y
  BY <1>1, <1>7
<1> QED  BY <1>8

\* A replacement there is, is a candidate on another account.
LEMMA ReplacementElsewhere ==
  ASSUME NEW i \in DOMAIN asn, Replacement(i) # None
  PROVE  AccountOf[Replacement(i).model] # AccountOf[asn[i].model]
<1> DEFINE left == AccountOf[asn[i].model]
           fit == {c \in Candidates : /\ Viable(c, Request[asn[i].attempt])
                                      /\ AccountOf[c.model] # left}
           ranks == {Rank[c.model] : c \in fit}
<1>1. fit # {} /\ Replacement(i) = CHOOSE c \in fit : \A d \in fit : Rank[c.model] <= Rank[d.model]
  BY DEF Replacement
<1>2. \A c \in Candidates : c.model \in Models
  BY DEF Candidates
<1>3. \A c \in fit : AccountOf[c.model] # left /\ c.model \in Models
  BY <1>2
<1> HIDE DEF fit, left
<1>4. ranks \in SUBSET Nat /\ ranks # {}
  BY <1>1, <1>3, RoutingAssumption
<1>5. PICK n \in ranks : \A m \in ranks : n <= m
  BY <1>4, LeastNumber
<1>6. PICK c \in fit : n = Rank[c.model]
  OBVIOUS
<1>7. \A d \in fit : Rank[c.model] <= Rank[d.model]
  BY <1>5, <1>6
<1>8. Replacement(i) \in fit
  BY <1>1, <1>7
<1> QED  BY <1>3, <1>8 DEF left

\* A handoff ends one row and adds one of the same attempt, on another account, when no
\* effect of it is in doubt.
LEMMA HandoffMoves ==
  ASSUME LedgerOK(asn), DOMAIN effect = Attempts, NEW i \in DOMAIN asn, Handoff(i)
  PROVE  /\ LedgerOK(asn') /\ DOMAIN effect' = Attempts
         /\ \A j \in DOMAIN asn : j # i => asn'[j] = asn[j]
         /\ effect'[asn[i].attempt] \notin Unsafe
         /\ \E j \in DOMAIN asn' :
              /\ asn'[j].attempt = asn[i].attempt /\ asn'[j].state = "ACTIVE"
              /\ AccountOf[asn'[j].model] # AccountOf[asn[i].model]
<1> DEFINE t == asn[i].attempt
           c == Replacement(i)
           window == IF Request[t].tokens > 0 THEN ClaimWindow(c) ELSE None
           claims == RouteClaim(c.model, window, Request[t].tokens)
           s == SessionDecision(c, Request[t]).session
           new == Assignment(t, c.model, s, claims, None)
           kept == ReleaseFirst(asn[i].claims)
           row == [asn[i] EXCEPT !.claims = kept, !.state = "SUPERSEDED"]
           mid == [asn EXCEPT ![i] = row]
           k == Len(mid) + 1
<1>1. /\ asn[i].state = "ACTIVE" /\ kept = {} /\ c # None
      /\ \A x \in claims : CanClaim(new, x)
      /\ asn' = Append(mid, new)
  BY DEF Handoff, CanEnd
<1>2. PICK e \in CheckEffectSafety(t) : effect' = [effect EXCEPT ![t] = e]
  BY DEF Handoff
<1>3. new.attempt = t /\ new.model = c.model /\ new.state = "ACTIVE"
  BY DEF Assignment
<1>4. AccountOf[c.model] # AccountOf[asn[i].model]
  BY <1>1, ReplacementElsewhere
<1>5. RowOK(asn[i])
  BY DEF LedgerOK
<1>6. t \in Attempts
  BY <1>5 DEF RowOK
<1>7. \A x \in claims : DOMAIN x = ClaimFields
  BY DEF RouteClaim, Claim, ClaimFields
<1>8. \A x \in claims : WindowAccount[x.window] = AccountOf[c.model]
  <2> HIDE DEF claims, new
  <2> QED  BY <1>1, <1>3 DEF CanClaim
<1>9. RowOK(new)
  <2> HIDE DEF t, c, claims, s
  <2> QED  BY <1>6, <1>7, <1>8, NewRow
<1>10. RowAfter(asn[i], row)
  <2> HIDE DEF kept
  <2>1. /\ DOMAIN row = RowFields /\ row.attempt = asn[i].attempt /\ row.state = "SUPERSEDED"
        /\ row.claims = kept
    BY <1>5 DEF RowOK, RowFields
  <2> HIDE DEF row
  <2> QED  BY <1>1, <1>5, <2>1 DEF RowAfter, RowOK, ClaimsFit, Ended
<1>11. row.state = "SUPERSEDED"
  BY <1>5 DEF RowOK, RowFields
<1> HIDE DEF c, window, claims, s, new, kept, row
<1>12. /\ LedgerAfter(asn, mid) /\ mid[i] = row
       /\ \A j \in DOMAIN asn : j # i => mid[j] = asn[j]
  BY <1>10, RowReplaced
<1>13. LedgerOK(mid) /\ DOMAIN mid = DOMAIN asn
  BY <1>12, RowsKept DEF LedgerAfter
<1> HIDE DEF mid
<1>14. \A j \in DOMAIN mid : mid[j].attempt = new.attempt => mid[j].state # "ACTIVE"
  BY <1>1, <1>3, <1>11, <1>12, <1>13 DEF LedgerOK, OneActive
<1>15. LedgerOK(asn')
  BY <1>1, <1>9, <1>13, <1>14, RowAdded
<1>16. Listed(mid)
  BY <1>13 DEF LedgerOK
<1>17. /\ \A j \in DOMAIN mid : asn'[j] = mid[j]
       /\ k \in DOMAIN asn' /\ asn'[k] = new
  <2>1. /\ DOMAIN asn' = 1..(Len(mid) + 1) /\ Len(mid) \in Nat
        /\ \A j \in DOMAIN mid : asn'[j] = mid[j]
        /\ asn'[Len(mid) + 1] = new
    BY <1>1, <1>16, AppendListed
  <2> QED  BY <2>1
<1>18. \A j \in DOMAIN asn : j # i => asn'[j] = asn[j]
  BY <1>12, <1>13, <1>17
<1>19. DOMAIN effect' = Attempts /\ effect'[t] = e
  BY <1>2, <1>6
<1>20. e \notin Unsafe
  BY <1>2 DEF CheckEffectSafety, Unsafe
<1>21. AccountOf[asn'[k].model] # AccountOf[asn[i].model] /\ asn'[k].attempt = t
       /\ asn'[k].state = "ACTIVE"
  BY <1>3, <1>4, <1>17
<1> QED  BY <1>15, <1>17, <1>18, <1>19, <1>20, <1>21

----------------------------------------------------------------------------
(***************************************************************************)
(* The system.                                                             *)
(***************************************************************************)
\* A step leaves the ledger alone, lets time pass, adds a row, settles one or hands one over.
LEMMA LedgerMoves ==
  ASSUME RoutingInv, [RoutingNext]_routingVars
  PROVE  \/ UNCHANGED asn /\ DOMAIN effect' = Attempts
         \/ Tick /\ UNCHANGED effect
         \/ \E c \in Callers : (CommitRoute(c) \/ Settle(c)) /\ UNCHANGED effect
         \/ \E t \in Attempts, m \in Models : Reserve(t, m) /\ UNCHANGED effect
         \/ \E i \in DOMAIN asn : Handoff(i)
<1>1. DOMAIN effect = Attempts
  BY DEF RoutingInv
<1>2. CASE UNCHANGED routingVars
  BY <1>1, <1>2 DEF routingVars
<1>3. CASE Reports
  BY <1>1, <1>3 DEF Reports, Tick, AppendProviderCapacity, UpsertProviderAccount, UpsertProviderSession
<1>4. ASSUME NEW c \in Callers, Router(c)
      PROVE  \/ UNCHANGED asn /\ DOMAIN effect' = Attempts
             \/ (CommitRoute(c) \/ Settle(c)) /\ UNCHANGED effect
  <2>1. CASE CommitRoute(c) \/ Settle(c)
    BY <2>1 DEF CommitRoute, Settle
  <2>2. CASE Route(c) \/ RouteIsolatedWrite(c)
    BY <1>1, <2>2 DEF Route, RouteIsolatedWrite, SelectProvider
  <2>3. CASE DispatchEffect(c)
    BY <1>1, <2>3 DEF DispatchEffect
  <2>4. CASE ExecutorReturns(c) \/ ExecuteAgain(c) \/ CallerStops(c)
    BY <1>1, <2>4 DEF ExecutorReturns, ExecuteAgain, CallerStops
  <2>5. CASE DecideFault(c) \/ RecordOutcome(c)
    BY <1>1, <2>5 DEF DecideFault, RecordOutcome
  <2> QED  BY <1>4, <2>1, <2>2, <2>3, <2>4, <2>5 DEF Router
<1>5. ASSUME NEW t \in Attempts, ResolveEffect(t)
      PROVE  UNCHANGED asn /\ DOMAIN effect' = Attempts
  BY <1>1, <1>5 DEF ResolveEffect
<1>6. ASSUME NEW t \in Attempts, NEW m \in Models, Reserve(t, m)
      PROVE  UNCHANGED effect
  BY <1>6 DEF Reserve
<1> QED  BY <1>2, <1>3, <1>4, <1>5, <1>6 DEF RoutingNext

\* Every step keeps the ledger in order, and supersedes a row only by a handoff.
LEMMA RoutingStep ==
  ASSUME RoutingInv, [RoutingNext]_routingVars
  PROVE  /\ RoutingInv'
         /\ \A i \in DOMAIN asn :
              asn[i].state = "ACTIVE" /\ asn'[i].state = "SUPERSEDED" =>
                /\ effect'[asn[i].attempt] \notin Unsafe
                /\ \E j \in DOMAIN asn' :
                     /\ asn'[j].attempt = asn[i].attempt /\ asn'[j].state = "ACTIVE"
                     /\ AccountOf[asn'[j].model] # AccountOf[asn[i].model]
<1>1. LedgerOK(asn) /\ DOMAIN effect = Attempts
  BY DEF RoutingInv
<1>2. CASE UNCHANGED asn /\ DOMAIN effect' = Attempts
  BY <1>1, <1>2 DEF RoutingInv
<1>3. CASE Tick /\ UNCHANGED effect
  <2>1. LedgerAfter(asn, asn') /\ \A i \in DOMAIN asn : asn'[i].state = asn[i].state
    BY <1>1, <1>3, TickKeeps
  <2>2. LedgerOK(asn')
    BY <1>1, <2>1, RowsKept
  <2> QED  BY <1>1, <1>3, <2>1, <2>2 DEF RoutingInv
<1>4. ASSUME NEW c \in Callers, Settle(c), UNCHANGED effect
      PROVE  LedgerOK(asn') /\ \A i \in DOMAIN asn : asn[i].state = "ACTIVE" => asn'[i].state # "SUPERSEDED"
  BY <1>1, <1>4, SettleKeeps, RowsKept
<1>5. ASSUME NEW c \in Callers, CommitRoute(c)
      PROVE  LedgerOK(asn') /\ \A i \in DOMAIN asn : asn'[i] = asn[i]
  BY <1>1, <1>5, CommitKeeps
<1>6. ASSUME NEW t \in Attempts, NEW m \in Models, Reserve(t, m)
      PROVE  LedgerOK(asn') /\ \A i \in DOMAIN asn : asn'[i] = asn[i]
  BY <1>1, <1>6, ReserveKeeps
<1>7. CASE \E c \in Callers : (CommitRoute(c) \/ Settle(c)) /\ UNCHANGED effect
  BY <1>1, <1>4, <1>5, <1>7 DEF RoutingInv
<1>8. CASE \E t \in Attempts, m \in Models : Reserve(t, m) /\ UNCHANGED effect
  BY <1>1, <1>6, <1>8 DEF RoutingInv
<1>9. CASE \E i \in DOMAIN asn : Handoff(i)
  <2>1. PICK h \in DOMAIN asn : Handoff(h)
    BY <1>9
  <2>2. /\ LedgerOK(asn') /\ DOMAIN effect' = Attempts
        /\ \A j \in DOMAIN asn : j # h => asn'[j] = asn[j]
        /\ effect'[asn[h].attempt] \notin Unsafe
        /\ \E j \in DOMAIN asn' :
             /\ asn'[j].attempt = asn[h].attempt /\ asn'[j].state = "ACTIVE"
             /\ AccountOf[asn'[j].model] # AccountOf[asn[h].model]
    BY <1>1, <2>1, HandoffMoves
  <2> QED  BY <2>2 DEF RoutingInv
<1> QED  BY <1>2, <1>3, <1>7, <1>8, <1>9, LedgerMoves

\* At first the ledger is empty.
LEMMA RoutingStart == RoutingInit => RoutingInv
<1> SUFFICES ASSUME RoutingInit PROVE RoutingInv
  OBVIOUS
<1>1. asn = <<>> /\ effect = [t \in Attempts |-> "NONE"]
  BY DEF RoutingInit
<1>2. Len(asn) = 0 /\ DOMAIN asn = {}
  BY <1>1
<1>3. Listed(asn)
  BY <1>1, <1>2 DEF Listed
<1> QED  BY <1>1, <1>2, <1>3 DEF RoutingInv, LedgerOK, OneActive

\* The ledger in order is what the property says of it.
LEMMA OrderedLedger == RoutingInv => OneProvider
<1> SUFFICES ASSUME RoutingInv PROVE OneProvider
  OBVIOUS
<1>1. LedgerOK(asn)
  BY DEF RoutingInv
<1>2. ASSUME NEW t \in Attempts PROVE Cardinality(Active(t)) <= 1
  <2>1. CASE Active(t) = {}
    BY <2>1, FS_EmptySet
  <2>2. CASE Active(t) # {}
    <3>1. PICK i \in DOMAIN asn : i \in Active(t)
      BY <2>2 DEF Active
    <3>2. Active(t) = {i}
      BY <1>1, <3>1 DEF Active, LedgerOK, OneActive
    <3>3. Cardinality({i}) = 1
      BY FS_Singleton
    <3> QED  BY <3>2, <3>3
  <2> QED  BY <2>1, <2>2
<1>3. \A i \in DOMAIN asn :
        /\ asn[i].state \in Ended => asn[i].claims = {}
        /\ \A k \in asn[i].claims : WindowAccount[k.window] = AccountOf[asn[i].model]
  BY <1>1 DEF LedgerOK, RowOK, ClaimsFit
<1> QED  BY <1>2, <1>3 DEF OneProvider

\* Three writers that never talk to each other keep one ledger: an attempt is with one
\* provider at a time, what has ended claims nothing, and every claim is on the account of
\* its assignment (router.go, service.go, handoff.go).
THEOREM OneProviderAtATime == RoutingSpec => []OneProvider
BY RoutingStart, RoutingStep, OrderedLedger, PTL DEF RoutingSpec

\* Whoever executes, resolves or settles in between, work leaves an account only for another
\* one and only when no effect of it is DISPATCHED or IN_DOUBT (handoff.go).
THEOREM HandedOverWithoutDoubt == RoutingSpec => NoDoubtHandedOver
<1> DEFINE Step == \A i \in DOMAIN asn :
         asn[i].state = "ACTIVE" /\ asn'[i].state = "SUPERSEDED" =>
           /\ effect'[asn[i].attempt] \notin Unsafe
           /\ \E j \in DOMAIN asn' :
                /\ asn'[j].attempt = asn[i].attempt /\ asn'[j].state = "ACTIVE"
                /\ AccountOf[asn'[j].model] # AccountOf[asn[i].model]
<1>1. RoutingInv /\ [RoutingNext]_routingVars => RoutingInv' /\ Step
  BY RoutingStep
<1> QED  BY <1>1, RoutingStart, PTL DEF RoutingSpec, NoDoubtHandedOver
=============================================================================
