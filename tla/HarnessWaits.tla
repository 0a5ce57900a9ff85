---------------------------- MODULE HarnessWaits ----------------------------
(***************************************************************************)
(* Durable waits (timer_runtime.go, signal_runtime.go, approval_runtime.go *)
(* and store/sqlite/wait_store.go) over the engine's core: a READY node is *)
(* parked WAITING without a worker until its timer is due, a signal comes, *)
(* or a human decides.                                                     *)
(*                                                                         *)
(* The release loops list what is due and treat each row in a transaction  *)
(* of its own, with the clock they listed with.  A row that was due stays  *)
(* due, and its state is read again, so a loop is its single steps, with   *)
(* a clock that may lag: the list itself decides nothing.                  *)
(*                                                                         *)
(* Deadlines are kept as the ticks left.  Bounds: MaxApprovals requests    *)
(* per node, waits of at most MaxWait ticks.                               *)
(***************************************************************************)
EXTENDS HarnessEngine

CONSTANTS
  WaitNodes,   \* nodes of kind WAIT
  Signal,      \* signals, one for each name and message id
  SignalName,  \* SignalName[s]
  MaxApprovals, MaxWait

Name == {SignalName[s] : s \in Signal}
Approval == Node \X (1..MaxApprovals)
NoNode == "no node"

ASSUME WaitAssumption ==
  /\ WaitNodes \subseteq Node
  /\ NoNode \notin Node
  /\ DOMAIN SignalName = Signal
  /\ MaxApprovals \in Nat
  /\ MaxWait \in Nat

VARIABLES
  wakeup,    \* the PENDING NODE_WAIT timer of a node: the ticks left
  signal,    \* signals: state, and the node that consumed it
  wait,      \* signal_waits, one row per node
  approval   \* approvals, each with the state of its expiry timer

waitVars == <<wakeup, signal, wait, approval>>
wvars == <<vars, waitVars>>

Never == MaxWait + 1  \* no such timer, or no deadline
Ticks == (-MaxLag)..Never

NoWait == [state |-> "ABSENT", name |-> "none"]
NoApproval == [state |-> "ABSENT", left |-> Never, timer |-> "ABSENT"]

----------------------------------------------------------------------------
\* A READY node of a RUNNING workflow leaves the queue.
Park(n) ==
  /\ node[n] = "READY"
  /\ wf = "RUNNING"
  /\ CompareAndSwapNodeRun(n, "WAITING")

Wake(n) == node[n] = "WAITING" /\ CompareAndSwapNodeRun(n, "READY")

\* The table of timers: one is PENDING until it is fired or cancelled.
CreateTimer(n, ticks) == wakeup' = [wakeup EXCEPT ![n] = ticks]
CompareAndSwapTimer(n) == wakeup[n] # Never /\ wakeup' = [wakeup EXCEPT ![n] = Never]

\* What waiting and waking leave as it is.
CoreUnchanged == UNCHANGED <<wf, deps, remaining, progress, attempt, lease, worker, outcome>>

WaitUntil(n, ticks, late) ==
  /\ n \in WaitNodes
  /\ Park(n)
  /\ CreateTimer(n, ticks - late)
  /\ CoreUnchanged
  /\ UNCHANGED <<signal, wait, approval>>

\* Mutant: only runs that are RUNNING are looked at.
ReleaseTimerOfRunning(n, late) ==
  /\ wakeup[n] + late <= 0
  /\ wf = "RUNNING"
  /\ Wake(n)
  /\ CompareAndSwapTimer(n)
  /\ CoreUnchanged
  /\ UNCHANGED <<signal, wait, approval>>

\* A due timer fires in any state of the workflow.
ReleaseDueTimer(n, late) ==
  /\ wakeup[n] + late <= 0
  /\ Wake(n)
  /\ CompareAndSwapTimer(n)
  /\ CoreUnchanged
  /\ UNCHANGED <<signal, wait, approval>>

----------------------------------------------------------------------------
(* Signals.                                                                *)

Pending(name) == {s \in Signal : signal[s].state = "PENDING" /\ SignalName[s] = name}
Waiting(name) == {n \in Node : wait[n].state = "WAITING" /\ wait[n].name = name}

\* A signal is stored once for its message id; a replay changes nothing.
PutSignal(s) ==
  signal' = [signal EXCEPT ![s] = IF @.state = "ABSENT" THEN [state |-> "PENDING", by |-> NoNode] ELSE @]

\* The node is the key of the row: it waits for a signal once in its life.
CreateSignalWait(n, name) ==
  /\ wait[n] = NoWait
  /\ wait' = [wait EXCEPT ![n] = [state |-> "WAITING", name |-> name]]

DeliverSignal(n, s) ==
  /\ signal' = [signal EXCEPT ![s] = [state |-> "CONSUMED", by |-> n]]
  /\ wait' = [wait EXCEPT ![n] = [state |-> "DELIVERED", name |-> SignalName[s]]]

\* Mutant: signals that came before the wait are not looked at.
WaitForNextSignal(n, name) ==
  /\ n \in WaitNodes
  /\ Park(n)
  /\ CreateSignalWait(n, name)
  /\ UNCHANGED signal
  /\ CoreUnchanged
  /\ UNCHANGED <<wakeup, approval>>

\* A signal that is pending already (the oldest; the model takes any) is
\* consumed in the transaction that would park the node, which stays READY.
WaitForSignal(n, name) ==
  /\ n \in WaitNodes
  /\ node[n] = "READY"
  /\ wf = "RUNNING"
  /\ wait[n] = NoWait
  /\ IF Pending(name) = {}
       THEN /\ Park(n)
            /\ CreateSignalWait(n, name)
            /\ UNCHANGED signal
       ELSE /\ \E s \in Pending(name) : DeliverSignal(n, s)
            /\ UNCHANGED <<node, ready>>
  /\ CoreUnchanged
  /\ UNCHANGED <<wakeup, approval>>

\* The signal is stored and handed to the first node
\* that waits for its name; a node that does not wait after all undoes it.
SendSignal(s) ==
  /\ wf # "ABSENT"
  /\ signal[s].state # "CONSUMED"
  /\ IF Waiting(SignalName[s]) = {}
       THEN /\ PutSignal(s)
            /\ UNCHANGED <<node, ready, wait>>
       ELSE \E n \in Waiting(SignalName[s]) : Wake(n) /\ DeliverSignal(n, s)
  /\ CoreUnchanged
  /\ UNCHANGED <<wakeup, approval>>

----------------------------------------------------------------------------
(* Approvals.                                                              *)

\* ttl 0 is an approval without a deadline and without a timer.
CreateApproval(p, ttl, late) ==
  approval' = [approval EXCEPT ![p] =
    [state |-> "PENDING",
     left |-> IF ttl = 0 THEN Never ELSE ttl - late,
     timer |-> IF ttl = 0 THEN "ABSENT" ELSE "PENDING"]]

RequestApproval(n, ttl, late) ==
  /\ Park(n)
  /\ \E k \in 1..MaxApprovals :
       /\ \A j \in 1..MaxApprovals : approval[<<n, j>>] # NoApproval <=> j < k
       /\ CreateApproval(<<n, k>>, ttl, late)
  /\ CoreUnchanged
  /\ UNCHANGED <<wakeup, signal, wait>>

InTime(p, late) == approval[p].left = Never \/ approval[p].left + late > 0

\* Only a PENDING approval is decided, and by a human only before its deadline.
CompareAndSwapApproval(p, state, late) ==
  /\ approval[p].state = "PENDING"
  /\ state \in {"APPROVED", "REJECTED"} => InTime(p, late)
  /\ approval' = [approval EXCEPT ![p].state = state, ![p].timer = IF state = "EXPIRED" THEN "FIRED" ELSE @]

\* The expiry timer stays PENDING: the loop that finds it due cancels it.
Approve(p, late) ==
  /\ Wake(p[1])
  /\ CompareAndSwapApproval(p, "APPROVED", late)
  /\ CoreUnchanged
  /\ UNCHANGED <<wakeup, signal, wait>>

\* Mutant: the run is not failed while it is paused.
FailApprovalWaitDraining(n, state) ==
  /\ node[n] = "WAITING"
  /\ CompareAndSwapNodeRun(n, state)
  /\ IncrementWorkflowProgress(TRUE)
  /\ wf' = IF WorkflowAllowsDrain(wf) THEN "FAILED" ELSE wf
  /\ UNCHANGED <<deps, remaining, attempt, lease, worker, outcome>>

\* A refused node fails its workflow, unless that is decided.
FailApprovalWait(n, state) ==
  /\ node[n] = "WAITING"
  /\ CompareAndSwapNodeRun(n, state)
  /\ IncrementWorkflowProgress(TRUE)
  /\ wf' = IF wf \in TerminalWorkflow THEN wf ELSE "FAILED"
  /\ UNCHANGED <<deps, remaining, attempt, lease, worker, outcome>>

Reject(p, late) ==
  /\ CompareAndSwapApproval(p, "REJECTED", late)
  /\ FailApprovalWait(p[1], "FAILED")
  /\ UNCHANGED <<wakeup, signal, wait>>

TimerDue(p, late) == approval[p].timer = "PENDING" /\ approval[p].left + late <= 0

\* The expiry of an undecided approval; the timer of a decided one is dropped.
ReleaseExpiredApproval(p, late) ==
  /\ TimerDue(p, late)
  /\ \/ /\ CompareAndSwapApproval(p, "EXPIRED", late)
        /\ FailApprovalWait(p[1], "TIMED_OUT")
     \/ /\ approval[p].state # "PENDING"
        /\ approval' = [approval EXCEPT ![p].timer = "CANCELLED"]
        /\ UNCHANGED vars
  /\ UNCHANGED <<wakeup, signal, wait>>

----------------------------------------------------------------------------
\* Mutant: the human's approvals stay open when their run is cancelled.
CancelKeepingApprovals ==
  /\ CancelWorkflow
  /\ wakeup' = [n \in Node |-> Never]
  /\ wait' = [n \in Node |-> IF wait[n].state = "WAITING"
                               THEN [wait[n] EXCEPT !.state = "CANCELLED"] ELSE wait[n]]
  /\ UNCHANGED <<signal, approval>>

\* CancelWorkflowRuntime closes every pending timer, wait and approval.
CancelWithWaits ==
  /\ CancelWorkflow
  /\ wakeup' = [n \in Node |-> Never]
  /\ wait' = [n \in Node |-> IF wait[n].state = "WAITING"
                               THEN [wait[n] EXCEPT !.state = "CANCELLED"] ELSE wait[n]]
  /\ approval' = [p \in Approval |->
       [approval[p] EXCEPT !.state = IF @ = "PENDING" THEN "CANCELLED" ELSE @,
                           !.timer = IF @ = "PENDING" THEN "CANCELLED" ELSE @]]
  /\ UNCHANGED signal

Sooner(left) == IF left = Never \/ left = -MaxLag THEN left ELSE left - 1

WaitTick ==
  /\ TickLeases
  /\ wakeup' = [n \in Node |-> Sooner(wakeup[n])]
  /\ approval' = [p \in Approval |-> [approval[p] EXCEPT !.left = Sooner(@)]]
  /\ <<lease, wakeup, approval>>' # <<lease, wakeup, approval>>
  /\ UNCHANGED <<wf, node, deps, remaining, ready, progress, attempt, worker, outcome, signal, wait>>

WaitInit ==
  /\ Init
  /\ wakeup = [n \in Node |-> Never]
  /\ signal = [s \in Signal |-> [state |-> "ABSENT", by |-> NoNode]]
  /\ wait = [n \in Node |-> NoWait]
  /\ approval = [p \in Approval |-> NoApproval]

WaitNext ==
  \/ (Operations \/ Reclaim) /\ UNCHANGED waitVars
  \/ \E n \in Node, late \in Late :
       \/ \E ticks \in 1..MaxWait : WaitUntil(n, ticks, late)
       \/ ReleaseDueTimer(n, late)
       \/ \E ttl \in 0..MaxWait : RequestApproval(n, ttl, late)
  \/ \E n \in Node, name \in Name : WaitForSignal(n, name)
  \/ \E s \in Signal : SendSignal(s)
  \/ \E p \in Approval, late \in Late :
       Approve(p, late) \/ Reject(p, late) \/ ReleaseExpiredApproval(p, late)
  \/ CancelWithWaits
  \/ WaitTick

WaitSpec == WaitInit /\ [][WaitNext]_wvars

\* Somebody keeps calling the two release loops, and time passes.
WaitFairSpec ==
  /\ WaitSpec
  /\ \A n \in Node : WF_wvars(\E late \in Late : ReleaseDueTimer(n, late))
  /\ \A p \in Approval : WF_wvars(\E late \in Late : ReleaseExpiredApproval(p, late))
  /\ WF_wvars(WaitTick)

----------------------------------------------------------------------------
(* Safety.                                                                 *)

\* The open rows n may be waiting for.
OpenReasons(n) ==
  {r \in ({"timer", "signal"} \X {0}) \cup ({"approval"} \X (1..MaxApprovals)) :
     \/ r[1] = "timer" /\ wakeup[n] # Never
     \/ r[1] = "signal" /\ wait[n].state = "WAITING"
     \/ r[1] = "approval" /\ approval[<<n, r[2]>>].state = "PENDING"}

\* A WAITING node has exactly one open reason to wait, a timer, a signal or an
\* approval, and nothing else is open for a node: whoever resolves the reason
\* finds the node WAITING, so that no timer, signal or decision is refused and
\* no node is parked for ever.
WaitExplained ==
  \A n \in Node : Cardinality(OpenReasons(n)) = IF node[n] = "WAITING" THEN 1 ELSE 0

\* No signal lies pending while a node waits for its name, whichever of them
\* came first; and a consumed signal was delivered to one node, which got no other.
SignalsMeet ==
  /\ \A name \in Name : Pending(name) = {} \/ Waiting(name) = {}
  /\ \A n \in Node : wait[n].state = "DELIVERED" <=>
       Cardinality({s \in Signal : signal[s].by = n}) = 1
  /\ \A n \in Node : Cardinality({s \in Signal : signal[s].by = n}) <= 1

----------------------------------------------------------------------------
(* Progress.                                                               *)

\* Every timer fires and every approval with a deadline is decided, or the run
\* is cancelled, whatever else its state becomes.
WaitsEnd ==
  /\ \A n \in Node : wakeup[n] # Never ~> wakeup[n] = Never
  /\ \A p \in Approval : approval[p].timer = "PENDING" ~> approval[p].timer # "PENDING"
=============================================================================
