--------------------------- MODULE HarnessEffects ---------------------------
(***************************************************************************)
(* External side effects (engine/effect_runtime.go, effect_store.go and    *)
(* the uncertain branch of ReclaimExpiredAttempt) over the engine with its *)
(* retries: an effect is recorded before it is sent, what became of it is  *)
(* recorded after, and when that cannot be known its attempt and node are  *)
(* IN_DOUBT until evidence or an operator decides.                         *)
(*                                                                         *)
(* A row of effect_intents is found by run, node, operation and input, so  *)
(* all attempts of a node share it; which of them prepared it is kept in   *)
(* effect_attempt_bindings.  ReconcileEffect asks the provider between two *)
(* transactions: `asking` are the calls that wait for the answer.          *)
(*                                                                         *)
(* `cleared` and `sender` are history, not tables: which callers were told *)
(* to go ahead, by PrepareEffect and then by MarkEffectDispatched, and who *)
(* moved each effect to DISPATCHED.                                        *)
(***************************************************************************)
EXTENDS HarnessRetry, Sequences

CONSTANTS
  Effect,    \* logical effects
  Site,      \* Site[e]: the node that performs e
  Class,     \* Class[e]: its declared EffectClass
  ListLimit, \* the most effects of an attempt a reclaim looks at
  Operation, \* Operation[e]: "write", "delete", or a path
  Callers    \* the reconcilers that callers of ReconcileEffect pass

EffectClass == {"PURE", "IDEMPOTENT", "IDEMPOTENT_WITH_KEY", "QUERYABLE",
                "COMPENSATABLE", "NON_IDEMPOTENT_UNKNOWN"}

ASSUME EffectAssumption ==
  /\ Site \in [Effect -> Node]
  /\ Class \in [Effect -> EffectClass]
  /\ ListLimit \in Nat \ {0}
  /\ Operation \in [Effect -> {"write", "delete", "path"}]

VARIABLES
  effect,    \* effect_intents: state, last attempt, and whether proven absent
  prepared,  \* its effects in the order of prepared_at
  bound,     \* effect_attempt_bindings
  asking,    \* effects whose provider has been asked for evidence
  cleared,   \* history: callers told that they may dispatch
  sender     \* history: the attempt and token each effect was marked DISPATCHED with

effectVars == <<effect, prepared, bound, asking, cleared, sender>>
evars == <<rvars, effectVars>>

EffectState == {"PREPARED", "DISPATCHED", "CONFIRMED", "FAILED", "IN_DOUBT"}
NoEffect == [state |-> "ABSENT", last |-> 0, absent |-> FALSE]
Caller == Attempt \X (Fence \cup {Unfenced})
Nobody == <<>>
Stage == {"PREPARED", "DISPATCHED"}

----------------------------------------------------------------------------
BlindRetrySafe(e) == Class[e] \in {"PURE", "IDEMPOTENT", "IDEMPOTENT_WITH_KEY"}

LastAttempt(e) == <<Site[e], effect[e].last>>

\* effectAttemptContext: the caller owns a RUNNING attempt of a RUNNING node,
\* in a workflow that runs or drains.
EffectAttemptContext(a, fence, late) ==
  /\ AuthorizeCompletion(a, fence, late)
  /\ attempt[a].state = "RUNNING"
  /\ node[NodeOf(a)] = "RUNNING"
  /\ WorkflowAllowsDrain(wf)

\* Mutant: the class of an effect that may have happened is not looked at.
DispatchAllowedAlways(e, state) == state \in {"PREPARED", "DISPATCHED"}

\* EffectPrepareResult.DispatchAllowed, for the stored state of the effect.
DispatchAllowed(e, state) ==
  \/ state = "PREPARED"
  \/ state = "DISPATCHED" /\ BlindRetrySafe(e)

ValidEffectAttempt(e, a) == NodeOf(a) = Site[e]

\* The first prepare creates the row, a later one binds it to its attempt.
PutEffectIntent(e, a, state) ==
  /\ ValidEffectAttempt(e, a)
  /\ effect' = [effect EXCEPT ![e] = [state |-> state, last |-> a[2], absent |-> @.absent]]
  /\ prepared' = IF effect[e] = NoEffect THEN Append(prepared, e) ELSE prepared
  /\ bound' = bound \cup {<<e, a>>}

PrepareEffect(e, a, fence, late) ==
  LET state == IF effect[e] = NoEffect THEN "PREPARED" ELSE effect[e].state IN
  /\ EffectAttemptContext(a, fence, late)
  /\ PutEffectIntent(e, a, state)
  /\ cleared' = IF DispatchAllowed(e, state)
                  THEN cleared \cup {<<e, <<a, fence>>, "PREPARED">>} ELSE cleared
  /\ UNCHANGED <<rvars, asking, sender>>

\* A caller that was allowed to dispatch is told that its mark is recorded.
GoAhead(e, a, fence) ==
  cleared' = IF <<e, <<a, fence>>, "PREPARED">> \in cleared
               THEN cleared \cup {<<e, <<a, fence>>, "DISPATCHED">>} ELSE cleared

\* For the last attempt of the effect; an effect that is DISPATCHED already is
\* answered before the caller's token is looked at.
MarkEffectDispatched(e, a, fence, late) ==
  /\ effect[e] # NoEffect
  /\ LastAttempt(e) = a
  /\ \/ /\ effect[e].state = "DISPATCHED"
        /\ UNCHANGED <<effect, sender>>
     \/ /\ EffectAttemptContext(a, fence, late)
        /\ effect[e].state = "PREPARED"
        /\ effect' = [effect EXCEPT ![e].state = "DISPATCHED"]
        /\ sender' = [sender EXCEPT ![e] = <<a, fence>>]
  /\ GoAhead(e, a, fence)
  /\ UNCHANGED <<rvars, prepared, bound, asking>>

\* The owner knows what became of the effect.  A repeated report is answered
\* from the row and changes nothing.
ReportEffect(e, a, fence, late, verdict) ==
  /\ effect[e].state = "DISPATCHED"
  /\ LastAttempt(e) = a
  /\ EffectAttemptContext(a, fence, late)
  /\ effect' = [effect EXCEPT ![e].state = verdict]
  /\ UNCHANGED <<rvars, prepared, bound, asking, cleared, sender>>

ConfirmEffect(e, a, fence, late) == ReportEffect(e, a, fence, late, "CONFIRMED")
FailEffect(e, a, fence, late) == ReportEffect(e, a, fence, late, "FAILED")

\* The attempt and its node become IN_DOUBT; a pause they held up completes.
EnterDoubt(a) ==
  /\ attempt' = [attempt EXCEPT ![a].state = "IN_DOUBT"]
  /\ CompareAndSwapNodeRun(NodeOf(a), "IN_DOUBT")
  /\ wf' = FinalizePauseIfDrained(wf, attempt')
  /\ UNCHANGED <<deps, remaining, progress, worker, outcome, retryVars>>

\* The owner lost the answer.  The state of the workflow is not looked at.
MarkEffectInDoubt(e, a, fence, late) ==
  /\ effect[e].state = "DISPATCHED"
  /\ LastAttempt(e) = a
  /\ attempt[a].state = "RUNNING"
  /\ node[NodeOf(a)] = "RUNNING"
  /\ AuthorizeCompletion(a, fence, late)
  /\ effect' = [effect EXCEPT ![e].state = "IN_DOUBT"]
  /\ ReleaseLease(a, fence)
  /\ EnterDoubt(a)
  /\ UNCHANGED <<prepared, bound, asking, cleared, sender>>

----------------------------------------------------------------------------
(* Reclaiming an attempt whose worker is gone.                             *)

\* ListEffectIntentsByAttempt, the oldest ListLimit of them.
EffectsOf(a) ==
  LET mine == {i \in DOMAIN prepared : <<prepared[i], a>> \in bound} IN
  {prepared[i] : i \in {j \in mine : Cardinality({k \in mine : k <= j}) <= ListLimit}}

\* Mutant: only effects that are known to be in doubt are uncertain.
UncertainMarkedOnly(a) ==
  {e \in EffectsOf(a) : effect[e].state = "IN_DOUBT" /\ ~BlindRetrySafe(e)}

Uncertain(a) ==
  {e \in EffectsOf(a) : effect[e].state \in {"DISPATCHED", "IN_DOUBT"} /\ ~BlindRetrySafe(e)}

ReclaimCertain ==
  \E a \in Attempt, w \in Worker, ttl \in 1..MaxTTL, late \in Late :
    /\ Uncertain(a) = {}
    /\ ReclaimExpiredAttempt(a, w, ttl, late)
    /\ UNCHANGED <<retryVars, effectVars>>

\* Mutant: the uncertain effects keep the state they had.
ReclaimInDoubtUnmarked(a, w, late) ==
  /\ worker[w] = "ACTIVE"
  /\ Live(a)
  /\ Uncertain(a) # {}
  /\ \E i \in Epoch :
       /\ lease[a][i].state = "ACTIVE"
       /\ Expired(lease[a][i], late)
       /\ lease' = [lease EXCEPT ![a][i] = CloseLease(@, "EXPIRED")]
  /\ TransitionAttempt(attempt[a].state, "IN_DOUBT")
  /\ EnterDoubt(a)
  /\ UNCHANGED effectVars

\* An uncertain effect: the lease is closed and nobody gets a new one.
ReclaimInDoubt(a, w, late) ==
  /\ worker[w] = "ACTIVE"
  /\ Live(a)
  /\ Uncertain(a) # {}
  /\ \E i \in Epoch :
       /\ lease[a][i].state = "ACTIVE"
       /\ Expired(lease[a][i], late)
       /\ lease' = [lease EXCEPT ![a][i] = CloseLease(@, "EXPIRED")]
  /\ TransitionAttempt(attempt[a].state, "IN_DOUBT")
  /\ effect' = [e \in Effect |-> IF e \in Uncertain(a)
                                   THEN [effect[e] EXCEPT !.state = "IN_DOUBT"] ELSE effect[e]]
  /\ EnterDoubt(a)
  /\ UNCHANGED <<prepared, bound, asking, cleared, sender>>

----------------------------------------------------------------------------
(* Reconciliation.                                                         *)

AskProvider(e) ==
  /\ effect[e].state = "IN_DOUBT"
  /\ asking' = asking \cup {e}
  /\ UNCHANGED <<rvars, effect, prepared, bound, cleared, sender>>

Undecided == {"RUNNING", "PAUSING", "PAUSED"}

\* The node of a confirmed effect succeeds like a completed attempt's, in a
\* PAUSED run too; only, PAUSED -> SUCCEEDED is not in the table.
ResolveReconciledNodeSuccess(n) ==
  LET children == IF wf \in Undecided THEN Dependents(n) ELSE {}
      released == {c \in children : remaining[c] = 1}
      finished == /\ wf \in Undecided
                  /\ progress'.terminal = progress'.total
                  /\ progress'.failed = 0
  IN
  /\ IncrementWorkflowProgress(FALSE)
  /\ \A c \in children : node[c] = "PENDING_DEPENDENCIES" /\ remaining[c] > 0
  /\ remaining' = [c \in Node |-> IF c \in children THEN remaining[c] - 1 ELSE remaining[c]]
  /\ node' = [c \in Node |-> IF c = n THEN "SUCCEEDED"
                             ELSE IF c \in released THEN "READY" ELSE node[c]]
  /\ ready' = ready \cup released
  /\ finished => TransitionWorkflow(wf, "SUCCEEDED")
  /\ wf' = IF finished THEN "SUCCEEDED" ELSE wf

ProviderConfirms(e) ==
  /\ effect' = [effect EXCEPT ![e].state = "CONFIRMED"]
  /\ IF node[Site[e]] = "IN_DOUBT"
       THEN ResolveReconciledNodeSuccess(Site[e])
       ELSE UNCHANGED <<wf, node, remaining, ready, progress>>

ProviderDenies(e, absent) ==
  /\ effect' = [effect EXCEPT ![e].state = "FAILED", ![e].absent = absent]
  /\ UNCHANGED <<wf, node, remaining, ready, progress>>

EffectReconcileStatus == {"CONFIRMED", "ABSENT", "FAILED", "UNKNOWN"}

\* FilesystemReconciler.  The path it looks at is the ProviderRef of the effect
\* or, without one, its operation.  An effect has no ProviderRef before it is
\* CONFIRMED, so that for a named operation a file called "write" or "delete"
\* is looked for, which is not there; and the expected hash and size are never
\* filled in, so that no content is FAILED.
FilesystemAnswers(e) ==
  CASE Operation[e] = "delete" -> {"CONFIRMED"}
    [] Operation[e] = "write" -> {"ABSENT"}
    [] Operation[e] = "path" -> {"CONFIRMED", "ABSENT", "UNKNOWN"}

\* GitReconciler, GitHubReconciler, MCPReconciler: without a query function they
\* confirm what has a ProviderRef, and nothing that is in doubt has one.
QueryAnswers(queries) == IF queries THEN EffectReconcileStatus ELSE {"UNKNOWN"}

\* CompositeReconciler; a caller may also pass a reconciler of its own.
Answers(e, caller) ==
  CASE caller = "filesystem" -> FilesystemAnswers(e)
    [] caller \in {"git", "github", "mcp"} -> QueryAnswers(FALSE)
    [] caller = "own" -> QueryAnswers(TRUE)

\* Mutant: what happened to the effect in the meantime is not looked at.
ReconcileBlindly(e) ==
  /\ e \in asking
  /\ asking' = asking \ {e}
  /\ ProviderConfirms(e) \/ ProviderDenies(e, TRUE)
  /\ UNCHANGED <<deps, attempt, lease, worker, outcome, retryVars, prepared, bound,
                 cleared, sender>>

\* The second transaction: CONFIRMED, ABSENT or FAILED settles an effect that is
\* still IN_DOUBT; UNKNOWN, an error or a lost call leaves everything as it is.
ReconcileEffect(e) ==
  /\ e \in asking
  /\ asking' = asking \ {e}
  /\ \/ /\ effect[e].state = "IN_DOUBT"
        /\ \E caller \in Callers : \E status \in Answers(e, caller) :
             \/ status = "CONFIRMED" /\ ProviderConfirms(e)
             \/ status = "ABSENT" /\ ProviderDenies(e, TRUE)
             \/ status = "FAILED" /\ ProviderDenies(e, FALSE)
     \/ UNCHANGED <<effect, wf, node, remaining, ready, progress>>
  /\ UNCHANGED <<deps, attempt, lease, worker, outcome, retryVars, prepared, bound,
                 cleared, sender>>

\* FAILED must be proven absent or safe to repeat; IN_DOUBT is accepted as it is.
MayRearm(e) ==
  \/ effect[e].state = "FAILED" /\ (effect[e].absent \/ BlindRetrySafe(e))
  \/ effect[e].state = "IN_DOUBT"

\* RETRY_WAIT with a schedule row, or through it to READY when the delay is 0.
ResolveReconciledRetry(e, delay, late) ==
  LET n == Site[e] IN
  /\ MayRearm(e)
  /\ node[n] = "IN_DOUBT"
  /\ wf \in Undecided
  /\ IF delay = 0
       THEN /\ node' = [node EXCEPT ![n] = "READY"]
            /\ ready' = ready \cup {n}
            /\ UNCHANGED <<schedule, history>>
       ELSE /\ CompareAndSwapNodeRun(n, "RETRY_WAIT")
            /\ LastAttempt(e) \notin history
            /\ schedule' = [schedule EXCEPT ![n] = [attempt |-> effect[e].last, wait |-> delay - late]]
            /\ history' = history \cup {LastAttempt(e)}
  /\ UNCHANGED <<wf, deps, remaining, progress, attempt, lease, worker, outcome,
                 budget, refused, batch, effectVars>>

\* The operator gives the node up.  The run fails only if no node is left.
ResolveReconciledFailure(e) ==
  /\ effect[e] # NoEffect
  /\ node[Site[e]] = "IN_DOUBT"
  /\ effect' = [effect EXCEPT ![e].state = IF @ = "IN_DOUBT" THEN "FAILED" ELSE @]
  /\ CompareAndSwapNodeRun(Site[e], "FAILED")
  /\ IncrementWorkflowProgress(TRUE)
  /\ wf' = IF progress'.terminal = progress'.total /\ wf \in Undecided THEN "FAILED" ELSE wf
  /\ UNCHANGED <<deps, remaining, attempt, lease, worker, outcome, retryVars, prepared,
                 bound, asking, cleared, sender>>

----------------------------------------------------------------------------
EffectInit ==
  /\ RetryInit
  /\ effect = [e \in Effect |-> NoEffect]
  /\ prepared = <<>>
  /\ bound = {}
  /\ asking = {}
  /\ cleared = {}
  /\ sender = [e \in Effect |-> Nobody]

EffectNext ==
  \/ (RetryOperations \/ RetryTick) /\ UNCHANGED effectVars
  \/ ReclaimCertain
  \/ \E a \in Attempt, w \in Worker, late \in Late : ReclaimInDoubt(a, w, late)
  \/ \E e \in Effect, a \in Attempt, fence \in Fence \cup {Unfenced}, late \in Late :
       \/ PrepareEffect(e, a, fence, late)
       \/ MarkEffectDispatched(e, a, fence, late)
       \/ ConfirmEffect(e, a, fence, late)
       \/ FailEffect(e, a, fence, late)
       \/ MarkEffectInDoubt(e, a, fence, late)
  \/ \E e \in Effect :
       \/ AskProvider(e)
       \/ ReconcileEffect(e)
       \/ \E delay \in 0..MaxDelay, late \in Late : ResolveReconciledRetry(e, delay, late)
       \/ ResolveReconciledFailure(e)

EffectSpec == EffectInit /\ [][EffectNext]_evars

----------------------------------------------------------------------------
(* Safety.                                                                 *)

\* A node is IN_DOUBT exactly while its newest attempt ended IN_DOUBT and it
\* was neither re-armed nor decided; then an effect of that attempt is what the
\* operator can act on, so that the node is never beyond resolution.
DoubtExplained ==
  \A n \in Node : node[n] = "IN_DOUBT" =>
    /\ LiveAttemptsOf(n) = {}
    /\ \E k \in 1..MaxAttempts :
         /\ IsNextAttempt(n, k + 1)
         /\ attempt[<<n, k>>].state = "IN_DOUBT"
         /\ \E e \in Effect : <<e, <<n, k>>>> \in bound /\ effect[e].state \in {"IN_DOUBT", "FAILED"}

\* While an effect that must not be repeated may be on its way, the attempt that
\* sent it belongs to its sender: it is never handed to another worker or epoch.
SoleOwner ==
  \A e \in Effect : effect[e].state = "DISPATCHED" /\ ~BlindRetrySafe(e) =>
    LET a == sender[e][1] IN
    Live(a) => sender[e][2] = [worker |-> attempt[a].worker, epoch |-> attempt[a].epoch]

Senders(e) == {c \in Caller : <<e, c, "DISPATCHED">> \in cleared}

\* An effect that must not be repeated is sent by one attempt only, however
\* often its node is retried, reclaimed and re-armed.
NoBlindRetry ==
  \A e \in Effect : ~BlindRetrySafe(e) => Cardinality({c[1] : c \in Senders(e)}) <= 1

KeepsEvidence ==
  /\ \A e \in Effect : effect[e].state \in {"CONFIRMED", "FAILED"} =>
       effect'[e].state = effect[e].state /\ effect'[e].absent = effect[e].absent
  /\ wf \in TerminalWorkflow => \A n \in Node : node'[n] \notin {"READY", "RETRY_WAIT"} \/ node'[n] = node[n]

\* Evidence stands: a confirmed or failed effect is never changed by a provider's
\* answer that comes late, and no verdict re-arms a node of a decided run.
EvidenceStands == [][KeepsEvidence]_evars

----------------------------------------------------------------------------
(* What the documentation says and the code does not do.                   *)

\* At most one caller is told to send an effect that must not be repeated.
OneSender == \A e \in Effect : ~BlindRetrySafe(e) => Cardinality(Senders(e)) <= 1
=============================================================================
