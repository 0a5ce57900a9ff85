-------------------------- MODULE ProcessExecutor --------------------------
(***************************************************************************)
(* The process executor (executor/process.Executor): Execute starts a        *)
(* command, streams its output to a log sink through a bounded queue, and    *)
(* ends it when a time limit or the caller's context says so; Cancel is     *)
(* called from elsewhere.                                                   *)
(*                                                                          *)
(* The goroutines of one execution interleave: Execute's loop, the copier   *)
(* that writes the child's output into the queue, the sink's consumer, and  *)
(* the waiter on the process.  The child may ignore signals, write all the  *)
(* time, or end by itself; the sink may be slow, fail, or not answer before *)
(* its context is cancelled.                                                *)
(***************************************************************************)
EXTENDS Naturals

CONSTANTS
    Execution,      \* calls of Execute
    IdOf,           \* [Execution -> the execution identity it asks for]
    Limits,         \* [Execution -> the time limits it is given]
    Queue           \* capacity of the stream queue

VARIABLES
    registry,       \* [identity -> who holds it, and whether Cancel finds it]
    execution       \* [Execution -> what its goroutines share]

executorVars == <<registry, execution>>

Nobody == [holder |-> "nobody", running |-> FALSE]
Unstarted ==
    [stage |-> "idle",      \* of Execute
     process |-> "none",    \* none, deaf or polite, told to end, exited
     waited |-> FALSE,      \* Cmd.Wait has returned
     blocked |-> FALSE,     \* the copier has a chunk the queue does not take
     queued |-> 0,
     sink |-> "ready",      \* ready, busy in WriteChunk, failed
     streaming |-> TRUE,    \* the stream context is alive
     context |-> "alive",   \* the caller's
     escalates |-> FALSE,   \* a graceful Cancel is waiting out the grace period
     cancelled |-> FALSE,
     reason |-> "none"]     \* why Execute ends the process
Over(outcome) == [Unstarted EXCEPT !.stage = outcome]

ExecutorInit ==
    /\ registry = [id \in {IdOf[x] : x \in Execution} |-> Nobody]
    /\ execution = [x \in Execution |-> Unstarted]

Becomes(x, state) == execution' = [execution EXCEPT ![x] = state]
At(x, stage) == execution[x].stage = stage
Alive(x) == execution[x].process \in {"deaf", "polite", "told"}

\* Signals to the process group, as the process of the state takes them.
Told(state) == [state EXCEPT !.process = IF @ = "polite" THEN "told" ELSE @]
Killed(state) == [state EXCEPT !.process = "exited"]

(***************************************************************************)
(* Execute.                                                                 *)
(***************************************************************************)
Reserve(x) ==
    /\ At(x, "idle")
    /\ IF registry[IdOf[x]] = Nobody
       THEN /\ registry' = [registry EXCEPT ![IdOf[x]].holder = x]
            /\ Becomes(x, [execution[x] EXCEPT !.stage = "reserved"])
       ELSE Becomes(x, Over("refused")) /\ UNCHANGED registry

Leave(x, outcome) == /\ Becomes(x, Over(outcome))
                     /\ registry' = [registry EXCEPT ![IdOf[x]] = Nobody]

(* The command cannot be started, its context is over, or starting took too   *)
(* long and the new process is killed.                                      *)
StartFails(x) == At(x, "reserved") /\ Leave(x, "failed")

Start(x, manners) ==
    /\ At(x, "reserved") /\ execution[x].context = "alive"
    /\ Becomes(x, [execution[x] EXCEPT !.stage = "waiting", !.process = manners])
    /\ registry' = [registry EXCEPT ![IdOf[x]].running = TRUE]

Exits(x) ==
    /\ At(x, "waiting") /\ execution[x].waited
    /\ Becomes(x, [execution[x] EXCEPT !.stage = "draining"])
    /\ UNCHANGED registry

\* Mutant: the stream stays open until the process has ended.
TerminateStreaming(x, why) ==
    /\ At(x, "waiting")
    /\ Becomes(x, Told([execution[x] EXCEPT !.stage = "terminating", !.reason = why]))
    /\ UNCHANGED registry

Terminate(x, why) ==
    /\ At(x, "waiting")
    /\ Becomes(x, Told([execution[x] EXCEPT !.stage = "terminating", !.reason = why,
                                            !.streaming = FALSE]))
    /\ UNCHANGED registry

LimitReached(x) == \E limit \in Limits[x] : Terminate(x, limit)
ContextSeen(x) == execution[x].context = "over" /\ Terminate(x, "context")

GraceEnds(x) ==
    /\ At(x, "terminating") /\ ~execution[x].waited /\ Alive(x)
    /\ Becomes(x, Killed(execution[x]))
    /\ UNCHANGED registry

Terminated(x) ==
    /\ At(x, "terminating") /\ execution[x].waited
    /\ Becomes(x, [execution[x] EXCEPT !.stage = "draining"])
    /\ UNCHANGED registry

(* The queue is closed and the consumer has ended: the result is composed.    *)
Drained(x) ==
    /\ At(x, "draining") /\ execution[x].queued = 0 /\ execution[x].sink # "busy"
    /\ Becomes(x, [execution[x] EXCEPT !.stage = "composed", !.streaming = FALSE,
                     !.reason = IF @ = "none" /\ execution[x].cancelled THEN "cancel" ELSE @])
    /\ UNCHANGED registry

Return(x) == At(x, "composed") /\ Leave(x, execution[x].reason)

(***************************************************************************)
(* The child, the copier and Cmd.Wait, which returns when the child has      *)
(* ended and its output is copied.                                          *)
(***************************************************************************)
Write(x) ==
    /\ Alive(x) /\ ~execution[x].blocked /\ execution[x].streaming
    /\ Becomes(x, IF execution[x].queued < Queue THEN [execution[x] EXCEPT !.queued = @ + 1]
                  ELSE [execution[x] EXCEPT !.blocked = TRUE])
    /\ UNCHANGED registry

(* A blocked chunk is taken, or dropped once the stream is over.              *)
Unblocks(x) ==
    /\ execution[x].blocked
    /\ \/ /\ execution[x].queued < Queue
          /\ Becomes(x, [execution[x] EXCEPT !.blocked = FALSE, !.queued = @ + 1])
       \/ /\ ~execution[x].streaming
          /\ Becomes(x, [execution[x] EXCEPT !.blocked = FALSE])
    /\ UNCHANGED registry

EndsItself(x) == Alive(x) /\ Becomes(x, Killed(execution[x])) /\ UNCHANGED registry
Obeys(x) ==
    execution[x].process = "told" /\ Becomes(x, Killed(execution[x])) /\ UNCHANGED registry

WaitReturns(x) ==
    /\ execution[x].process = "exited" /\ ~execution[x].blocked /\ ~execution[x].waited
    /\ Becomes(x, [execution[x] EXCEPT !.waited = TRUE])
    /\ UNCHANGED registry

(***************************************************************************)
(* The consumer of the queue.  After a failure it drains without the sink.   *)
(***************************************************************************)
Consume(x) ==
    /\ execution[x].sink \in {"ready", "failed"} /\ execution[x].queued > 0
    /\ Becomes(x, [execution[x] EXCEPT !.queued = @ - 1,
                                       !.sink = IF @ = "ready" THEN "busy" ELSE @])
    /\ UNCHANGED registry

SinkWrites(x) ==
    /\ execution[x].sink = "busy"
    /\ Becomes(x, [execution[x] EXCEPT !.sink = "ready"])
    /\ UNCHANGED registry

SinkFails(x) ==
    /\ execution[x].sink = "busy"
    /\ Becomes(x, [execution[x] EXCEPT !.sink = "failed", !.streaming = FALSE])
    /\ UNCHANGED registry

SinkGivesUp(x) == ~execution[x].streaming /\ SinkFails(x)

(***************************************************************************)
(* Elsewhere: the caller's context ends, or Cancel is called for the        *)
(* identity.  Before the start and after the return it finds nothing.       *)
(***************************************************************************)
ContextEnds(x) ==
    /\ execution[x].stage \notin {"idle", "composed"} /\ registry[IdOf[x]].holder = x
    /\ execution[x].context = "alive"
    /\ Becomes(x, [execution[x] EXCEPT !.context = "over"])
    /\ UNCHANGED registry

Cancel(id, mode) ==
    /\ registry[id].running
    /\ LET x == registry[id].holder
           flagged == [execution[x] EXCEPT !.cancelled = TRUE,
                         !.streaming = @ /\ mode = "SOFT",
                         !.escalates = @ \/ (mode = "GRACEFUL" /\ ~execution[x].waited)]
       IN  Becomes(x, IF Alive(x) THEN IF mode = "HARD" THEN Killed(flagged) ELSE Told(flagged)
                      ELSE flagged)
    /\ UNCHANGED registry

CancelEscalates(x) ==
    /\ execution[x].escalates
    /\ Becomes(x, [execution[x] EXCEPT !.escalates = FALSE,
                                       !.process = IF Alive(x) THEN "exited" ELSE @])
    /\ UNCHANGED registry

Execute(x) ==
    \/ Exits(x) \/ LimitReached(x) \/ ContextSeen(x) \/ GraceEnds(x)
    \/ Terminated(x) \/ Drained(x) \/ Return(x)
Copies(x) == Unblocks(x) \/ WaitReturns(x)

ExecutorNext ==
    \/ \E x \in Execution :
         \/ Reserve(x) \/ StartFails(x) \/ Execute(x) \/ Copies(x)
         \/ \E manners \in {"deaf", "polite"} : Start(x, manners)
         \/ Write(x) \/ EndsItself(x) \/ Obeys(x)
         \/ Consume(x) \/ SinkWrites(x) \/ SinkFails(x)
         \/ ContextEnds(x) \/ CancelEscalates(x)
    \/ \E id \in DOMAIN registry, mode \in {"SOFT", "GRACEFUL", "HARD"} : Cancel(id, mode)

(* The goroutines of one execution run; a sink gives up when its context is    *)
(* cancelled.  Neither the child nor a sink owes anything else.             *)
ExecutorFairness(x) ==
    /\ WF_executorVars(Execute(x))
    /\ WF_executorVars(Copies(x))
    /\ WF_executorVars(Consume(x))
    /\ WF_executorVars(SinkGivesUp(x))

(* A time limit ends the wait for the process, and the execution with it,      *)
(* whatever the process does with its signals and whether or not the sink    *)
(* takes its output: backpressure is broken before anybody waits (Execute's  *)
(* loop, streamWriter, terminateWithEscalation).                            *)
TimeLimitHolds ==
    \A x \in Execution :
      Limits[x] # {} => /\ At(x, "waiting") ~> ~(At(x, "waiting") \/ At(x, "terminating"))
                        /\ At(x, "terminating") ~> ~(At(x, "terminating") \/ At(x, "draining"))
=============================================================================
