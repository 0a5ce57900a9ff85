--------------------------- MODULE RemoteSessions ---------------------------
(***************************************************************************)
(* Start-up of `agctl remote daemon`: recovery of the persisted sessions    *)
(* and the --open sessions, against IDE instances that Cockpit and its user *)
(* control as well.                                                         *)
(*                                                                          *)
(* A Bridge is usable only with the token of the launch that started its    *)
(* IDE, and tokens live in the memory of the daemon alone: a process the    *)
(* daemon did not start, or started before its own restart, is "foreign".   *)
(*                                                                          *)
(* The daemon asks session.Service for AUTO instances, new conversations    *)
(* and no workspace allocator.  No stored instance is READY for an account  *)
(* and path without a session of that repository and account, so its        *)
(* resolver always answers CREATE_NEW and Provision creates an instance.    *)
(***************************************************************************)
EXTENDS Naturals, Sequences, FiniteSets

CONSTANTS
    None,
    Instances,     \* Cockpit ids, the ones still to be created included
    Accounts, Repos,
    MaxSessions    \* bound on sessions ever created

Opens == [repo : Repos, account : Accounts]
Session == [open : Opens, inst : Instances, observed : {"READY", "NEEDS_ATTENTION"}]

VARIABLES
    cockpit,   \* [Instances -> what Cockpit and the operating system hold]
    mirrors,   \* [Instances -> None or the observed_state of the stored row]
    sessions,  \* the stored sessions, in the order of their creation
    bridges,   \* instances the running daemon remembers a Bridge of
    daemon,    \* start-up progress of the daemon
    setup,     \* the --open arguments and what outsiders write, never changed
    left       \* how many restarts, meddlings, faults are still allowed

sessionVars == <<cockpit, mirrors, sessions, bridges, daemon>>

NoOp == [kind |-> None, who |-> None, inst |-> None, stage |-> None]
Down == [phase |-> "down", restart |-> FALSE, todo |-> {}, opens |-> {}, op |-> NoOp]

Spend(what) == /\ left[what] > 0
               /\ left' = [left EXCEPT ![what] = @ - 1]

(* Losing the daemon loses every token it held.                             *)
Disown(c) == [i \in Instances |->
    IF c[i].run \in {"fresh", "held"} THEN [c[i] EXCEPT !.run = "foreign"] ELSE c[i]]
Exit(c) == /\ cockpit' = Disown(c)
           /\ bridges' = {}
           /\ daemon' = Down

Stopped(c, i) == [c EXCEPT ![i].run = "stopped"]
Created == {i \in Instances : cockpit[i].run # "absent"}

(* What a session needs of the instance it is pinned to.                    *)
Fits(s) == LET i == cockpit[sessions[s].inst]
           IN  i.account = sessions[s].open.account /\ i.dir = sessions[s].open.repo

SetObserved(s, state) == sessions' = [sessions EXCEPT ![s].observed = state]

(***************************************************************************)
(* recoverPersistedSessions and Service.Recover.                            *)
(***************************************************************************)
StartDaemon ==
    /\ daemon.phase = "down" /\ Spend("lives")
    /\ \E restart \in BOOLEAN :
         daemon' = [Down EXCEPT !.phase = "recovering", !.restart = restart,
                                !.todo = DOMAIN sessions]
    /\ UNCHANGED <<cockpit, mirrors, sessions, bridges>>

Begin(kind, who, i) ==
    daemon' = [daemon EXCEPT !.op = [kind |-> kind, who |-> who, inst |-> i, stage |-> "launch"],
                             !.todo = IF kind = "recover" THEN @ \ {who} ELSE @]

Recovering(s) == /\ daemon.phase = "recovering" /\ daemon.op = NoOp /\ s \in daemon.todo
                 /\ UNCHANGED <<mirrors, bridges, left>>

GiveUp(s) == /\ SetObserved(s, "NEEDS_ATTENTION")
             /\ daemon' = [daemon EXCEPT !.todo = @ \ {s}, !.op = NoOp]

MayRestart == daemon.restart

RecoverRefused(s) ==
    /\ Recovering(s)
    /\ ~Fits(s) \/ (cockpit[sessions[s].inst].run # "stopped" /\ ~MayRestart)
    /\ GiveUp(s)
    /\ UNCHANGED cockpit

RecoverStopFails(s) ==
    /\ daemon.phase = "recovering" /\ daemon.op = NoOp /\ s \in daemon.todo
    /\ Fits(s) /\ cockpit[sessions[s].inst].run # "stopped" /\ MayRestart
    /\ Spend("faults")
    /\ GiveUp(s)
    /\ UNCHANGED <<cockpit, mirrors, bridges>>

(* A process without an owned token is stopped first, if the flag allows.   *)
RecoverStart(s) ==
    LET i == sessions[s].inst
    IN  /\ Recovering(s) /\ Fits(s)
        /\ cockpit[i].run = "stopped" \/ MayRestart
        /\ cockpit' = Stopped(cockpit, i)
        /\ Begin("recover", s, i)
        /\ UNCHANGED sessions

(***************************************************************************)
(* ensureBootstrapSession and Service.Provision.                            *)
(***************************************************************************)
StartupStage ==
    /\ daemon.op = NoOp
    /\ \/ /\ daemon.phase = "recovering" /\ daemon.todo = {}
          /\ daemon' = [daemon EXCEPT !.phase = "opening", !.opens = setup.opens]
       \/ /\ daemon.phase = "opening" /\ daemon.opens = {}
          /\ daemon' = [daemon EXCEPT !.phase = "serving"]
    /\ UNCHANGED <<cockpit, mirrors, sessions, bridges, left>>

MatchingLive(o) == {s \in DOMAIN sessions : sessions[s].open = o /\ sessions[s].inst \in bridges}
Matching(o) == {s \in DOMAIN sessions : sessions[s].open = o}
Opening(o) == daemon.phase = "opening" /\ daemon.op = NoOp /\ o \in daemon.opens

AlreadyLive(o) ==
    /\ Opening(o)
    /\ \E s \in Matching(o) : sessions[s].inst \in bridges
    /\ daemon' = [daemon EXCEPT !.opens = @ \ {o}]
    /\ UNCHANGED <<cockpit, mirrors, sessions, bridges, left>>

(* An error of one --open ends the daemon.                                  *)
OpenRefused(o) ==
    /\ Opening(o)
    /\ \E s \in Matching(o) : sessions[s].inst \notin bridges
    /\ Exit(cockpit)
    /\ UNCHANGED <<mirrors, sessions, left>>

(* A stored READY instance of that account and path would be used again.    *)
Resolvable(o) ==
    {i \in Instances : mirrors[i] = "READY" /\ \E s \in Matching(o) : sessions[s].inst = i}

NewInstance(o) == [run |-> "stopped", account |-> o.account, dir |-> o.repo, convs |-> {}]

ResolveInstance(o) == CHOOSE i \in Instances : i \notin Created

CreateInstance(o) ==
    /\ Opening(o) /\ Matching(o) = {} /\ Len(sessions) < MaxSessions
    /\ Created # Instances /\ Resolvable(o) = {}
    /\ cockpit' = [cockpit EXCEPT ![ResolveInstance(o)] = NewInstance(o)]
    /\ Begin("open", o, ResolveInstance(o))
    /\ UNCHANGED <<mirrors, sessions, bridges, left>>

(***************************************************************************)
(* The launch both share: StartManagedInstance, then Locator.Wait and the   *)
(* checks of the Bridge, the workspace and the conversation.                *)
(***************************************************************************)
Op == daemon.op
AtStage(stage) == Op # NoOp /\ Op.stage = stage
StageDone(stage) == daemon' = [daemon EXCEPT !.op.stage = stage]

Launch ==
    /\ AtStage("launch") /\ cockpit[Op.inst].run = "stopped"
    /\ cockpit' = [cockpit EXCEPT ![Op.inst].run = "fresh"]
    /\ mirrors' = IF Op.kind = "open" THEN [mirrors EXCEPT ![Op.inst] = "PROCESS_RUNNING"]
                  ELSE mirrors
    /\ StageDone("attach")
    /\ UNCHANGED <<sessions, bridges, left>>

(* The error path of a step: the daemon ends or goes on to the next session. *)
Fail(c) == IF Op.kind = "open" THEN Exit(c) /\ UNCHANGED sessions
           ELSE cockpit' = c /\ UNCHANGED bridges /\ GiveUp(Op.who)

(* Cockpit does not start an instance somebody else has started meanwhile.  *)
LaunchFails ==
    /\ AtStage("launch")
    /\ \/ cockpit[Op.inst].run # "stopped" /\ UNCHANGED left
       \/ Spend("faults")
    /\ mirrors' = IF Op.kind = "open" THEN [mirrors EXCEPT ![Op.inst] = "PREPARING"]
                  ELSE mirrors
    /\ Fail(cockpit)

Expected == IF Op.kind = "open" THEN Op.who ELSE sessions[Op.who].open
Attachable == /\ cockpit[Op.inst].run = "fresh"
              /\ cockpit[Op.inst].dir = Expected.repo
              /\ Op.kind = "recover" => Op.who \in cockpit[Op.inst].convs

RollBack == Stopped(cockpit, Op.inst)

AttachRecovered ==
    /\ AtStage("attach") /\ Op.kind = "recover" /\ Attachable
    /\ cockpit' = [cockpit EXCEPT ![Op.inst].run = "held"]
    /\ mirrors' = [mirrors EXCEPT ![Op.inst] = "READY"]
    /\ bridges' = bridges \cup {Op.inst}
    /\ SetObserved(Op.who, "READY")
    /\ daemon' = [daemon EXCEPT !.op = NoOp]
    /\ UNCHANGED left

ResolveConversation(c) == [c EXCEPT !.convs = @ \cup {Len(sessions) + 1}]

(* The conversation is created and stored before the session is.            *)
AttachOpened ==
    /\ AtStage("attach") /\ Op.kind = "open" /\ Attachable
    /\ cockpit' = [cockpit EXCEPT ![Op.inst] = [ResolveConversation(@) EXCEPT !.run = "held"]]
    /\ bridges' = bridges \cup {Op.inst}
    /\ StageDone("record")
    /\ UNCHANGED <<mirrors, sessions, left>>

AttachFails ==
    /\ AtStage("attach")
    /\ \/ ~Attachable /\ UNCHANGED left
       \/ Spend("faults")
    /\ Fail(RollBack)
    /\ UNCHANGED mirrors

(* A wait that runs into its deadline is not recorded in the session.       *)
AttachTimesOut ==
    /\ AtStage("attach") /\ Spend("faults")
    /\ IF Op.kind = "open" THEN Exit(RollBack)
       ELSE /\ cockpit' = RollBack
            /\ daemon' = [daemon EXCEPT !.op = NoOp]
            /\ UNCHANGED bridges
    /\ UNCHANGED <<mirrors, sessions>>

CreateSession ==
    /\ AtStage("record")
    /\ sessions' = Append(sessions, [open |-> Op.who, inst |-> Op.inst, observed |-> "READY"])
    /\ mirrors' = [mirrors EXCEPT ![Op.inst] = "READY"]
    /\ daemon' = [daemon EXCEPT !.op = NoOp, !.opens = @ \ {Op.who}]
    /\ UNCHANGED <<cockpit, bridges, left>>

RecordFails ==
    /\ AtStage("record") /\ Spend("faults")
    /\ Exit(RollBack)
    /\ UNCHANGED <<mirrors, sessions>>

(***************************************************************************)
(* Crashes, and what the user does in Cockpit and in the IDE.               *)
(***************************************************************************)
StopDaemon == /\ daemon.phase # "down"
              /\ Exit(cockpit)
              /\ UNCHANGED <<mirrors, sessions, left>>

UserAct(i, field, value) ==
    /\ i \in Created /\ cockpit[i][field] # value /\ Spend("meddling")
    /\ cockpit' = [cockpit EXCEPT ![i][field] = value]
    /\ UNCHANGED <<mirrors, sessions, bridges, daemon>>

UserStops(i) == UserAct(i, "run", "stopped")
UserStarts(i) == cockpit[i].run = "stopped" /\ UserAct(i, "run", "foreign")
UserRebinds(i) == \E a \in Accounts : UserAct(i, "account", a)
UserMoves(i) == cockpit[i].run = "stopped" /\ \E r \in Repos : UserAct(i, "dir", r)
UserClears(i) == UserAct(i, "convs", {})

Startup == \/ StartupStage \/ Launch \/ LaunchFails \/ AttachRecovered
           \/ AttachOpened \/ AttachFails \/ CreateSession
           \/ \E s \in DOMAIN sessions : RecoverRefused(s) \/ RecoverStart(s)
           \/ \E o \in Opens : AlreadyLive(o) \/ OpenRefused(o) \/ CreateInstance(o)

Meddling == \E i \in Instances : \/ UserStops(i) \/ UserStarts(i) \/ UserRebinds(i)
                                 \/ UserMoves(i) \/ UserClears(i)

SessionSteps == \/ Startup \/ StartDaemon \/ AttachTimesOut \/ RecordFails \/ Meddling
                \/ \E s \in DOMAIN sessions : RecoverStopFails(s)

(***************************************************************************)
(* Properties.                                                              *)
(***************************************************************************)
(* Repeating --open across restarts, failures and lost Bridges never makes  *)
(* a second session of the same repository and account ("idempotently       *)
(* ensure a live session", remote_daemon.go).                               *)
OneSessionPerOpen ==
    \A s, r \in DOMAIN sessions : sessions[s].open = sessions[r].open => s = r
=============================================================================
