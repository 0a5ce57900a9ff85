---------------------------- MODULE RemoteMirror ----------------------------
(***************************************************************************)
(* The running remote daemon: Telegram updates become durable commands, the *)
(* supervisor's loop sends them to the IDEs, reads what the agents say and  *)
(* shows it in Telegram through an outbox.                                  *)
(*                                                                          *)
(* The poller is a goroutine of its own; the loop runs commands, ingestion  *)
(* and delivery one after another.  Every write to the database is a step,  *)
(* and so is every call of the IDE or of Telegram: the daemon may stop      *)
(* between any two of them, and either call may fail with or without effect.*)
(***************************************************************************)
EXTENDS RemoteSessions

CONSTANTS
    Topics, Users,
    CommandBatch, DeliveryBatch    \* batch sizes of one turn of the loop

VARIABLES
    chat,       \* pairing, bindings and the poller's cursor, all stored
    polling,    \* the update handled but not yet counted, or 0
    commands,   \* stored commands, in the order they were requested
    sent,       \* how often the text of each update reached an IDE
    said,       \* [1..MaxSessions -> events the agent has produced]
    stored,     \* [1..MaxSessions -> events stored; their numbers are 1..n]
    outbox,     \* items in the order they were queued
    view,       \* [1..MaxSessions -> row of telegram_mirror_state]
    shown,      \* the messages Telegram holds
    loop        \* where the supervisor's loop is

mirrorVars == <<chat, polling, commands, sent, said, stored, outbox, view, shown, loop>>
vars == <<sessionVars, setup, left, mirrorVars>>

Ids == 1..MaxSessions
NoView == [topic |-> None, stream |-> None, message |-> 0, event |-> 0]
Idle == [stage |-> "idle", batch |-> {}, at |-> None, post |-> NoView]
Serving == daemon.phase = "serving"
Updates == DOMAIN setup.updates

(* At most one enabled binding per topic; the newest of a session counts.   *)
ByTopic(t) == {n \in DOMAIN chat.bound : chat.bound[n].topic = t}
BySession(s) == {n \in DOMAIN chat.bound : chat.bound[n].session = s}
TopicOf(s) == chat.bound[CHOOSE n \in BySession(s) : \A m \in BySession(s) : m <= n].topic

(* `agctl remote telegram bind`, another process.                           *)
ReplaceBinding(t, s) ==
    /\ Spend("binds") /\ s \in DOMAIN sessions
    /\ chat' = [chat EXCEPT !.bound =
          Append(SelectSeq(@, LAMBDA b : b.topic # t), [topic |-> t, session |-> s])]
    /\ UNCHANGED <<sessionVars, polling, commands, sent, said, stored, outbox, view, shown, loop>>

(***************************************************************************)
(* Poller.PollOnce: updates in order, each counted once it is handled.      *)
(***************************************************************************)
AdmittedPending(key) == \E c \in DOMAIN commands : commands[c].key = key /\ commands[c].state = "PENDING"
Admitted(key) == \E c \in DOMAIN commands : commands[c].key = key

Admit(u, s, kind) ==
    commands' = IF Admitted(u) THEN commands
                ELSE Append(commands, [key |-> u, session |-> s, kind |-> kind, state |-> "PENDING"])

Authorized(u) == setup.updates[u].user \in chat.paired

(* The session an update is about; a button names one, which must still be   *)
(* the one its topic is bound to.                                           *)
Target(u) ==
    LET up == setup.updates[u]
        bound == {chat.bound[n].session : n \in ByTopic(up.topic)}
    IN  IF up.kind = "button" THEN bound \cap {up.session} ELSE bound

Handling(u) == /\ Serving /\ polling = 0 /\ u = chat.cursor + 1 /\ u \in Updates
               /\ polling' = u
               /\ UNCHANGED <<sessionVars, left, sent, said, stored, outbox, view, shown, loop>>

ProcessText(u) ==
    /\ Handling(u) /\ setup.updates[u].kind \in {"text", "button"}
    /\ Authorized(u)
    /\ \E s \in Target(u) :
         Admit(u, s, IF setup.updates[u].kind = "text" THEN "conversation.send" ELSE "session.pause")
    /\ UNCHANGED chat

IgnoreUpdate(u) ==
    /\ Handling(u) /\ setup.updates[u].kind \in {"text", "button"}
    /\ ~Authorized(u) \/ Target(u) = {}
    /\ UNCHANGED <<chat, commands>>

(* A code pairs one user.  For anybody else, and for an expired code, the    *)
(* poll ends with an error, the cursor stays and the update comes again.     *)
ConsumePairing(u) ==
    /\ Handling(u) /\ setup.updates[u].kind = "pair"
    /\ chat.code \in {None, setup.updates[u].user}
    /\ chat' = [chat EXCEPT !.code = setup.updates[u].user,
                            !.paired = @ \cup {setup.updates[u].user}]
    /\ UNCHANGED commands

Later(a, b) == IF a > b THEN a ELSE b
AdvanceCursor ==
    /\ Serving /\ polling # 0
    /\ chat' = [chat EXCEPT !.cursor = Later(@, polling)]
    /\ polling' = 0
    /\ UNCHANGED <<sessionVars, left, commands, sent, said, stored, outbox, view, shown, loop>>

Poll == AdvanceCursor \/ \E u \in Updates : ProcessText(u) \/ IgnoreUpdate(u) \/ ConsumePairing(u)

(***************************************************************************)
(* command.Worker.RunOnce.                                                  *)
(***************************************************************************)
(* A list read from the database is the set of its rows, which the loop goes *)
(* through in ascending order.                                              *)
FirstOf(S, n) == {k \in S : Cardinality({j \in S : j <= k}) <= n}

Pending(n) == commands[n].state = "PENDING"
Due(n) == outbox[n].state = "DUE"
Attached(s) == sessions[s].inst \in bridges

Current == CHOOSE k \in loop.batch : \A j \in loop.batch : k <= j

Turn(stage, batch) == loop' = [Idle EXCEPT !.stage = stage, !.batch = batch]
Next1 == loop' = [loop EXCEPT !.batch = @ \ {Current}, !.at = None, !.post = NoView]
InLoop(stage) == Serving /\ loop.stage = stage /\ loop.batch # {} /\ loop.at = None

NextTurn ==
    /\ Serving
    /\ \/ loop.stage = "idle" /\ Turn("commands", FirstOf({n \in DOMAIN commands : Pending(n)}, CommandBatch))
       \/ /\ loop.batch = {}
          /\ \/ /\ loop.stage = "commands"
                /\ Turn("ingest", {s \in DOMAIN sessions : Attached(s)})
             \/ /\ loop.stage = "ingest"
                /\ Turn("deliver", FirstOf({n \in DOMAIN outbox : Due(n)}, DeliveryBatch))
             \/ loop.stage = "deliver" /\ loop' = Idle
    /\ UNCHANGED <<sessionVars, left, chat, polling, commands, sent, said, stored, outbox, view, shown>>

SetCommand(n, state) == commands' = [commands EXCEPT ![n].state = state]

(* Only sends are executed, and only over a Bridge the daemon remembers.     *)
Executable(n) == commands[n].kind = "conversation.send" /\ Attached(commands[n].session)

SkipCommand ==
    /\ InLoop("commands") /\ ~(Executable(Current) /\ Pending(Current))
    /\ Next1
    /\ UNCHANGED <<sessionVars, left, chat, polling, commands, sent, said, stored, outbox, view, shown>>

ClaimCommand ==
    /\ InLoop("commands") /\ Executable(Current) /\ Pending(Current)
    /\ SetCommand(Current, "RUNNING")
    /\ loop' = [loop EXCEPT !.at = "claimed"]
    /\ UNCHANGED <<sessionVars, left, chat, polling, sent, said, stored, outbox, view, shown>>

Reachable(n) == LET s == commands[n].session
                IN  cockpit[sessions[s].inst].run = "held" /\ s \in cockpit[sessions[s].inst].convs

(* The gate lists, focuses and sends; the answer of a send may be lost.      *)
SendCommand ==
    LET n == Current
        u == commands[n].key
        Reached == sent' = [sent EXCEPT ![u] = @ + 1]
    IN  /\ Serving /\ loop.stage = "commands" /\ loop.at = "claimed"
        /\ \/ Reachable(n) /\ Reached /\ loop' = [loop EXCEPT !.at = "SUCCEEDED"] /\ UNCHANGED left
           \/ ~Reachable(n) /\ UNCHANGED <<sent, left>> /\ loop' = [loop EXCEPT !.at = "FAILED"]
           \/ /\ Reachable(n) /\ Spend("faults")
              /\ Reached \/ UNCHANGED sent
              /\ loop' = [loop EXCEPT !.at = "FAILED"]
        /\ UNCHANGED <<sessionVars, chat, polling, commands, said, stored, outbox, view, shown>>

FinishCommand ==
    /\ Serving /\ loop.stage = "commands" /\ loop.at \in {"SUCCEEDED", "FAILED"}
    /\ SetCommand(Current, loop.at)
    /\ Next1
    /\ UNCHANGED <<sessionVars, left, chat, polling, sent, said, stored, outbox, view, shown>>

(***************************************************************************)
(* Ingestor.PollSession: the events of the conversation from the first one, *)
(* those stored already recognised by their source id.                      *)
(***************************************************************************)
AgentSpeaks(s) ==
    /\ s \in DOMAIN sessions /\ said[s] < Len(setup.speech)
    /\ cockpit[sessions[s].inst].run # "stopped"
    /\ said' = [said EXCEPT ![s] = @ + 1]
    /\ UNCHANGED <<sessionVars, left, chat, polling, commands, sent, stored, outbox, view, shown, loop>>

Queued(s) == {outbox[n].event : n \in {m \in DOMAIN outbox : outbox[m].session = s}}
Items(s, events) == [n \in DOMAIN events |-> [session |-> s, event |-> events[n], state |-> "DUE"]]
EnqueueNew(s, to) == outbox \o Items(s, SelectSeq([n \in 1..to |-> n], LAMBDA e : e > stored[s]))
Enqueue(s, to) == outbox \o Items(s, SelectSeq([n \in 1..to |-> n], LAMBDA e : e \notin Queued(s)))

(* Reading stops at the event that fails; the next turn starts over.         *)
Ingest ==
    LET s == Current
    IN  /\ InLoop("ingest")
        /\ IF cockpit[sessions[s].inst].run # "held" \/ said[s] = 0
           THEN UNCHANGED <<stored, outbox, left>>
           ELSE \E n \in 1..said[s] :
                  /\ (n = said[s] /\ UNCHANGED left) \/ (n < said[s] /\ Spend("faults"))
                  /\ stored' = [stored EXCEPT ![s] = Later(@, n)]
                  /\ outbox' = IF BySession(s) = {} THEN outbox ELSE Enqueue(s, n)
        /\ Next1
        /\ UNCHANGED <<sessionVars, chat, polling, commands, sent, said, view, shown>>

(***************************************************************************)
(* TelegramWorker.RunOnce.                                                  *)
(***************************************************************************)
SetItem(n, state) == outbox' = [outbox EXCEPT ![n].state = state]
Stream(e) == setup.speech[e]

Overtaken(n) == outbox[n].event <= view[outbox[n].session].event

(* Nothing to show: no binding is left, or a later event was shown already.  *)
(* The code records both as delivered; the model tells them apart.           *)
SettleUnshown ==
    LET n == Current
    IN  /\ InLoop("deliver")
        /\ \/ BySession(outbox[n].session) = {} /\ SetItem(n, "UNBOUND")
           \/ BySession(outbox[n].session) # {} /\ Overtaken(n) /\ SetItem(n, "DELIVERED")
        /\ Next1
        /\ UNCHANGED <<sessionVars, left, chat, polling, commands, sent, said, stored, view, shown>>

Showable == /\ InLoop("deliver") /\ BySession(outbox[Current].session) # {} /\ ~Overtaken(Current)
            /\ UNCHANGED <<sessionVars, chat, polling, commands, sent, said, stored, view>>

(* The view a shown event leaves behind: a new message for a new stream or   *)
(* another topic, else an edit of the last message.                          *)
ViewAfter(n) ==
    LET s == outbox[n].session
        e == outbox[n].event
        old == view[s]
        continues == old.message # 0 /\ old.stream = Stream(e) /\ old.topic = TopicOf(s)
    IN  [topic |-> TopicOf(s), stream |-> Stream(e), event |-> e,
         message |-> IF continues THEN old.message ELSE Len(shown) + 1]

Post(v) == LET message == [session |-> outbox[Current].session, topic |-> v.topic,
                           stream |-> v.stream, event |-> v.event]
           IN  IF v.message > Len(shown) THEN Append(shown, message)
               ELSE [shown EXCEPT ![v.message] = message]

ShowItem ==
    /\ Showable /\ UNCHANGED <<left, outbox>>
    /\ shown' = Post(ViewAfter(Current))
    /\ loop' = [loop EXCEPT !.at = "shown", !.post = ViewAfter(Current)]

(* Telegram does not answer, or answers after it has shown the message; the  *)
(* item waits and the loop goes on with the next one.                        *)
ShowFails ==
    /\ Showable /\ Spend("outages")
    /\ shown' = Post(ViewAfter(Current)) \/ UNCHANGED shown
    /\ SetItem(Current, "WAITING")
    /\ Next1

SaveView ==
    /\ Serving /\ loop.stage = "deliver" /\ loop.at = "shown"
    /\ view' = [view EXCEPT ![outbox[Current].session] = loop.post]
    /\ loop' = [loop EXCEPT !.at = "saved"]
    /\ UNCHANGED <<sessionVars, left, chat, polling, commands, sent, said, stored, outbox, shown>>

MarkDelivered ==
    /\ Serving /\ loop.stage = "deliver" /\ loop.at = "saved"
    /\ SetItem(Current, "DELIVERED")
    /\ Next1
    /\ UNCHANGED <<sessionVars, left, chat, polling, commands, sent, said, stored, view, shown>>

(* The delay of a failed item has passed.                                    *)
RetryDue ==
    /\ \E n \in DOMAIN outbox : outbox[n].state = "WAITING" /\ SetItem(n, "DUE")
    /\ UNCHANGED <<sessionVars, left, chat, polling, commands, sent, said, stored, view, shown, loop>>

Supervise == \/ NextTurn \/ SkipCommand \/ ClaimCommand \/ SendCommand \/ FinishCommand
             \/ Ingest \/ SettleUnshown \/ ShowItem \/ ShowFails \/ SaveView \/ MarkDelivered

(***************************************************************************)
(* The whole system.                                                        *)
(***************************************************************************)
CONSTANT Setups    \* initial situations: see MCRemoteMirror

(* What is stored at first is the work of earlier starts of the daemon.      *)
ASSUME SetupsAssumption ==
    \A x \in Setups :
      /\ x.opens \subseteq Opens
      /\ x.sessions \in Seq(Session)
      /\ \A s, r \in DOMAIN x.sessions : x.sessions[s].open = x.sessions[r].open => s = r

ASSUME NoneAssumption ==
    None \notin {"open", "recover", "claimed", "SUCCEEDED", "FAILED"}

Init ==
    /\ setup \in Setups
    /\ left = setup.left
    /\ cockpit = setup.cockpit
    /\ mirrors = [i \in Instances |-> IF cockpit[i].convs # {} THEN "READY" ELSE None]
    /\ sessions = setup.sessions
    /\ bridges = {} /\ daemon = Down
    /\ chat = [code |-> None, paired |-> setup.paired, bound |-> setup.bound, cursor |-> 0]
    /\ polling = 0 /\ commands = <<>> /\ sent = [u \in Updates |-> 0]
    /\ said = [s \in Ids |-> 0] /\ stored = [s \in Ids |-> 0]
    /\ outbox = <<>> /\ view = [s \in Ids |-> NoView] /\ shown = <<>> /\ loop = Idle

(* What the poller and the loop keep in memory ends with the daemon.         *)
Crash == /\ StopDaemon
         /\ polling' = 0 /\ loop' = Idle
         /\ UNCHANGED <<chat, commands, sent, said, stored, outbox, view, shown>>

Next == /\ UNCHANGED setup
        /\ \/ SessionSteps /\ UNCHANGED mirrorVars
           \/ Crash \/ Poll \/ Supervise \/ RetryDue
           \/ \E s \in Ids : AgentSpeaks(s)
           \/ \E t \in Topics, s \in Ids : ReplaceBinding(t, s)

(* The goroutines of the daemon are scheduled and delays pass; when Telegram *)
(* answers, when the daemon stops and what users do is nobody's promise.     *)
Spec == /\ Init /\ [][Next]_vars
        /\ WF_vars(Startup /\ UNCHANGED <<setup, mirrorVars>>)
        /\ WF_vars(Supervise /\ UNCHANGED setup)
        /\ WF_vars(Poll /\ UNCHANGED setup)
        /\ WF_vars(RetryDue /\ UNCHANGED setup)

(***************************************************************************)
(* Properties.                                                              *)
(***************************************************************************)
(* A text reaches an IDE at most once, whatever is lost, stopped or polled   *)
(* again (the durable command and its CAS from PENDING, command.Worker).     *)
SentOnce == \A u \in Updates : sent[u] <= 1

(* While the daemon serves and a bound session keeps its Bridge, what its    *)
(* agent has said last is finally what Telegram shows.                       *)
Mirrored(s) == /\ Serving /\ s \in DOMAIN sessions /\ Attached(s)
               /\ cockpit[sessions[s].inst].run = "held"
               /\ BySession(s) # {}
               /\ \A n \in DOMAIN outbox : outbox[n].session = s => outbox[n].state # "UNBOUND"
MirrorCatchesUp == \A s \in Ids : <>[]Mirrored(s) => <>[](view[s].event = said[s])

(* Every final answer of an agent is shown once its item is settled.         *)
Final(e) == \A f \in DOMAIN setup.speech : Stream(f) = Stream(e) => f <= e
FinalShown ==
    \A n \in DOMAIN outbox :
      (outbox[n].state = "DELIVERED" /\ Final(outbox[n].event)) =>
        \E k \in DOMAIN shown : /\ shown[k].session = outbox[n].session
                                /\ shown[k].event = outbox[n].event
=============================================================================
