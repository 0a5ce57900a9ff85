---------------------------- MODULE AccountSwitch ----------------------------
(***************************************************************************)
(* One Cockpit instance whose account is switched (remote/account) while a *)
(* reconciler (remote/reconcile) compares the database with what Cockpit   *)
(* and the Bridge show, and the user works in both.  The switch stops the  *)
(* IDE, binds the other account, starts it again and continues every       *)
(* session in a new conversation that is sent the old one's checkpoint.    *)
(* Neither holds a lock: each writes back what it read some steps earlier. *)
(*                                                                         *)
(* Both run in one process, which may die.  A Bridge answers only who      *)
(* knows the token of the IDE's last start: `live` is the start that       *)
(* runtime.LiveManager remembers.  Every call of another program may fail. *)
(* Calls that follow each other with nothing between them but reads of the *)
(* same process (PlanSwitch; Observe and the write of what it found) are   *)
(* one step.                                                               *)
(***************************************************************************)
EXTENDS Integers

CONSTANTS
  Session,    \* remote sessions of the instance
  Account,    \* Cockpit accounts
  MaxStarts,  \* bound: starts of the IDE
  MaxTalks,   \* bound: conversations of a session after its first
  MaxEvents   \* bound: switches, passes, deaths and what users do

ASSUME SwitchAssumption == Account # {} /\ MaxStarts \in Nat /\ MaxTalks \in Nat /\ MaxEvents \in Nat

VARIABLES
  cockpit,   \* the instance: its account, whether it runs, its last start
  talks,     \* conversations that exist in the IDE
  carried,   \* history: conversations that were sent a checkpoint
  folders,   \* sessions whose workspace is open in the IDE
  live,      \* the start whose Bridge the runtime manager can talk to
  mirror,    \* remote_instances
  session,   \* remote_sessions, with the conversation of each
  switch,    \* the account switch under way
  pass,      \* the reconciler's pass under way
  calm,      \* history: nothing else moved since the pass began
  reported,      \* history: a pass has ended and nothing moved since it began
  events

switchVars == <<cockpit, talks, carried, folders, live, mirror, session, switch, pass, calm, reported, events>>
ides == <<cockpit, talks, carried, folders, live>>
records == <<mirror, session>>

NoSession == [desired |-> "READY", observed |-> "CLOSED", account |-> "", talk |-> 0]
NoSwitch == [pc |-> "idle", target |-> "", ran |-> FALSE, saved |-> {}, left |-> {}, next |-> <<>>]
NoPass == [pc |-> "idle", mirror |-> {}, actual |-> {}, read |-> {}, verdict |-> "",
           seen |-> [talks |-> {}, folders |-> {}], left |-> {}]
Talk(s) == <<s, session[s].talk>>

Running == cockpit.state = "running"
Reachable == Running /\ live = cockpit.start
Open == {s \in Session : session[s].observed # "CLOSED"}

Happens == events < MaxEvents /\ events' = events + 1
Stirs == calm' = FALSE /\ reported' = FALSE
SwitchGoes(pc) == switch' = [switch EXCEPT !.pc = pc]
UpdateSessionStates(s, desired, observed) ==
  session' = [session EXCEPT ![s].desired = desired, ![s].observed = observed]

----------------------------------------------------------------------------
(* The switch.                                                             *)

\* PlanSwitch, ValidateExecution: refused when Cockpit and the database differ,
\* or when sessions would be handed over without leave or without a Bridge.
PlanSwitch(target) ==
  /\ switch = NoSwitch
  /\ cockpit.state # "gone"
  /\ target # cockpit.account
  /\ mirror.account = cockpit.account
  /\ Open # {} => live # 0
  /\ switch' = [NoSwitch EXCEPT !.pc = "checkpoint", !.target = target, !.ran = Running, !.left = Open]
  /\ Happens
  /\ UNCHANGED <<ides, records, pass, calm, reported>>

\* The sessions are read again one by one; what is kept is what was read.
Checkpoint(s) ==
  /\ switch.pc = "checkpoint" /\ s \in switch.left
  /\ Reachable
  /\ switch' = [switch EXCEPT !.saved = @ \cup {[id |-> s, was |-> session[s]]}, !.left = @ \ {s}]
  /\ UNCHANGED <<ides, records, pass, calm, reported, events>>

\* A checkpoint, a stop, a binding or a write of the database that fails ends the
\* switch where it is, and nothing is undone or marked.
SwitchFails ==
  /\ switch.pc \in {"checkpoint", "stopped", "bound", "started", "sent", "recorded", "moved"}
  /\ switch' = NoSwitch
  /\ UNCHANGED <<ides, records, pass, calm, reported, events>>

StopForSwitch ==
  /\ switch.pc = "checkpoint" /\ switch.left = {}
  /\ IF switch.ran
       THEN /\ cockpit.state # "gone"
            /\ cockpit' = [cockpit EXCEPT !.state = "stopped"]
            /\ live' = 0 /\ Stirs
       ELSE UNCHANGED <<cockpit, live, calm, reported>>
  /\ SwitchGoes("stopped")
  /\ UNCHANGED <<talks, carried, folders, records, pass, events>>

BindAccount ==
  /\ switch.pc = "stopped"
  /\ cockpit.state # "gone"
  /\ cockpit' = [cockpit EXCEPT !.account = switch.target]
  /\ SwitchGoes("bound") /\ Stirs
  /\ UNCHANGED <<talks, carried, folders, live, records, pass, events>>

\* The instance was idle and nobody used it: done.  Otherwise it is started.
RecordBinding ==
  LET resumes == switch.ran \/ switch.saved # {} IN
  /\ switch.pc = "bound"
  /\ mirror' = [mirror EXCEPT !.account = switch.target, !.start = 0, !.observed = "STOPPED",
                              !.desired = IF resumes THEN "RUNNING" ELSE "STOPPED"]
  /\ switch' = IF resumes THEN [switch EXCEPT !.pc = "starting"] ELSE NoSwitch
  /\ Stirs
  /\ UNCHANGED <<ides, session, pass, events>>

\* LiveManager.Start: a stopped instance is started and waited for.  A running
\* one would be taken over if its Bridge answered, but the one that a user has
\* started meanwhile has a token nobody here knows.
StartAgain ==
  /\ switch.pc = "starting"
  /\ cockpit.state = "stopped" /\ cockpit.start < MaxStarts
  /\ cockpit' = [cockpit EXCEPT !.state = "running", !.start = @ + 1]
  /\ live' = cockpit.start + 1
  /\ SwitchGoes("started") /\ Stirs
  /\ UNCHANGED <<talks, carried, folders, records, pass, events>>

NeedAttention == [switch EXCEPT !.pc = "failing", !.left = {r.id : r \in switch.saved}]

\* No Bridge: a live one that does not answer is forgotten, and an IDE that was
\* started without one keeps running.
RestartFails ==
  /\ switch.pc = "starting"
  /\ \/ /\ cockpit.state = "stopped" /\ cockpit.start < MaxStarts
        /\ cockpit' = [cockpit EXCEPT !.state = "running", !.start = @ + 1]
        /\ UNCHANGED live
     \/ /\ live' = IF Running THEN 0 ELSE live
        /\ UNCHANGED cockpit
  /\ mirror' = [mirror EXCEPT !.account = switch.target, !.start = 0, !.observed = "DEGRADED",
                              !.desired = "RUNNING"]
  /\ switch' = NeedAttention
  /\ Stirs
  /\ UNCHANGED <<talks, carried, folders, session, pass, events>>

\* The workspaces of all saved sessions must be open in the restarted IDE.
CheckContext ==
  LET usable == Reachable /\ {r.id : r \in switch.saved} \subseteq folders IN
  /\ switch.pc = "started"
  /\ \/ /\ usable
        /\ mirror' = [account |-> switch.target, desired |-> "RUNNING", observed |-> "READY",
                      start |-> cockpit.start]
        /\ switch' = [switch EXCEPT !.pc = "continuing", !.left = {r.id : r \in switch.saved}]
     \/ /\ UNCHANGED mirror
        /\ switch' = NeedAttention
  /\ Stirs
  /\ UNCHANGED <<ides, session, pass, events>>

\* markNeedsAttention, with the desired state the session had when it was read.
MarkNeedsAttention(r) ==
  /\ switch.pc = "failing" /\ r \in switch.saved /\ r.id \in switch.left
  /\ UpdateSessionStates(r.id, r.was.desired, "NEEDS_ATTENTION")
  /\ switch' = [switch EXCEPT !.left = @ \ {r.id}]
  /\ Stirs
  /\ UNCHANGED <<ides, mirror, pass, events>>

SwitchEnds ==
  /\ switch.pc \in {"failing", "continuing"} /\ switch.left = {}
  /\ switch' = NoSwitch
  /\ UNCHANGED <<ides, records, pass, calm, reported, events>>

Continuing(r) == switch.pc = "continuing" /\ r \in switch.saved /\ r.id \in switch.left

\* A paused session is moved to the account and left to its user.
MovePaused(r) ==
  /\ Continuing(r) /\ r.was.desired = "PAUSED"
  /\ session' = [session EXCEPT ![r.id].account = switch.target, ![r.id].desired = "PAUSED",
                                ![r.id].observed = "NEEDS_ATTENTION"]
  /\ switch' = [switch EXCEPT !.left = @ \ {r.id}]
  /\ Stirs
  /\ UNCHANGED <<ides, mirror, pass, events>>

\* CreateConversation and FocusConversation.  `left` keeps what comes after r.
CreateConversation(r) ==
  /\ Continuing(r) /\ r.was.desired # "PAUSED"
  /\ Reachable
  /\ \E k \in 1..MaxTalks :
       /\ <<r.id, k>> \notin talks \cup carried
       /\ talks' = talks \cup {<<r.id, k>>}
       /\ switch' = [switch EXCEPT !.pc = "created", !.next = <<r.id, k>>]
  /\ Stirs
  /\ UNCHANGED <<cockpit, carried, folders, live, records, pass, events>>

\* One of the Bridge calls fails: this session alone is marked.
ContinuationFails(r) ==
  /\ switch.pc \in {"continuing", "created"} /\ r \in switch.saved /\ r.id \in switch.left
  /\ switch.pc = "created" => switch.next[1] = r.id
  /\ UpdateSessionStates(r.id, r.was.desired, "NEEDS_ATTENTION")
  /\ switch' = NoSwitch
  /\ Stirs
  /\ UNCHANGED <<ides, mirror, pass, events>>

SendBootstrap ==
  /\ switch.pc = "created"
  /\ Reachable
  /\ carried' = carried \cup {switch.next}
  /\ SwitchGoes("sent")
  /\ UNCHANGED <<cockpit, talks, folders, live, records, pass, calm, reported, events>>

\* Mutant: the conversation is recorded before the checkpoint is sent to it.
SaveConversationEarly ==
  /\ switch.pc = "created"
  /\ session' = [session EXCEPT ![switch.next[1]].talk = switch.next[2]]
  /\ SwitchGoes("recorded") /\ Stirs
  /\ UNCHANGED <<ides, mirror, pass, events>>

SaveConversation ==
  /\ switch.pc = "sent"
  /\ session' = [session EXCEPT ![switch.next[1]].talk = switch.next[2]]
  /\ SwitchGoes("recorded") /\ Stirs
  /\ UNCHANGED <<ides, mirror, pass, events>>

SaveAccount ==
  /\ switch.pc = "recorded"
  /\ session' = [session EXCEPT ![switch.next[1]].account = switch.target]
  /\ SwitchGoes("moved") /\ Stirs
  /\ UNCHANGED <<ides, mirror, pass, events>>

SaveStates(r) ==
  /\ switch.pc = "moved" /\ r \in switch.saved /\ r.id = switch.next[1]
  /\ UpdateSessionStates(r.id, r.was.desired, IF r.was.observed = "RUNNING" THEN "RUNNING" ELSE "READY")
  /\ switch' = [switch EXCEPT !.pc = "continuing", !.left = @ \ {r.id}, !.next = <<>>]
  /\ Stirs
  /\ UNCHANGED <<ides, mirror, pass, events>>

----------------------------------------------------------------------------
(* The reconciler.                                                         *)

BeginPass ==
  /\ pass = NoPass
  /\ pass' = [NoPass EXCEPT !.pc = "mirrors", !.mirror = {mirror}]
  /\ calm' = TRUE /\ reported' = FALSE
  /\ Happens
  /\ UNCHANGED <<ides, records, switch>>

ListCockpit ==
  /\ pass.pc = "mirrors"
  /\ pass' = [pass EXCEPT !.pc = "cockpit", !.actual = {cockpit}]
  /\ UNCHANGED <<ides, records, switch, calm, reported, events>>

ListSessions ==
  /\ pass.pc = "cockpit"
  /\ pass' = [pass EXCEPT !.pc = "sessions", !.read = {[id |-> s, desired |-> session[s].desired] : s \in Open},
                          !.left = Open]
  /\ UNCHANGED <<ides, records, switch, calm, reported, events>>

\* Mutant: the sessions of an IDE that stopped are left as they are.
VerdictKeepsStopped(m, a, answers) ==
  IF a.state = "gone" THEN [instance |-> "STOPPED", sessions |-> "DEGRADED"]
  ELSE IF a.account # m.account THEN [instance |-> "DEGRADED", sessions |-> "NEEDS_ATTENTION"]
  ELSE IF a.state = "stopped" THEN
    [instance |-> "STOPPED", sessions |-> "KEPT"]
  ELSE IF ~answers THEN [instance |-> "DEGRADED", sessions |-> "DEGRADED"]
  ELSE IF cockpit.start # a.start THEN [instance |-> "DEGRADED", sessions |-> "NEEDS_ATTENTION"]
  ELSE [instance |-> "READY", sessions |-> "EACH"]

\* reconcileInstance: what becomes of the mirror m and of the sessions when
\* Cockpit showed a and the Bridge answers, or does not.
Verdict(m, a, answers) ==
  IF a.state = "gone" THEN [instance |-> "STOPPED", sessions |-> "DEGRADED"]
  ELSE IF a.account # m.account THEN [instance |-> "DEGRADED", sessions |-> "NEEDS_ATTENTION"]
  ELSE IF a.state = "stopped" THEN
    [instance |-> "STOPPED", sessions |-> IF m.desired = "RUNNING" THEN "DEGRADED" ELSE "KEPT"]
  ELSE IF ~answers THEN [instance |-> "DEGRADED", sessions |-> "DEGRADED"]
  ELSE IF cockpit.start # a.start THEN [instance |-> "DEGRADED", sessions |-> "NEEDS_ATTENTION"]
  ELSE [instance |-> "READY", sessions |-> "EACH"]

\* The mirror is written as it was read, but for what the verdict changes.
ReconcileInstance ==
  \E m \in pass.mirror, a \in pass.actual, answers \in {FALSE, Reachable} :
    LET v == Verdict(m, a, answers) IN
    /\ pass.pc = "sessions"
    /\ mirror' = [m EXCEPT !.observed = v.instance, !.start = IF v.instance = "STOPPED" THEN 0 ELSE a.start]
    /\ pass' = [pass EXCEPT !.pc = "writing", !.verdict = v.sessions, !.seen = [talks |-> talks, folders |-> folders],
                            !.left = IF v.sessions = "KEPT" THEN {} ELSE @]
    /\ UNCHANGED <<ides, session, switch, calm, reported, events>>

\* desiredObservedState of a session whose workspace and conversation are there;
\* one that is to be READY may be busy.
StatesSeen(r) ==
  IF r.id \notin pass.seen.folders \/ Talk(r.id) \notin pass.seen.talks THEN {"NEEDS_ATTENTION"}
  ELSE IF r.desired = "PAUSED" THEN {"PAUSED"} ELSE {"READY", "RUNNING"}

\* The desired state is written back as it was read.
ReconcileSession(r) ==
  /\ pass.pc = "writing" /\ r \in pass.read /\ r.id \in pass.left
  /\ \E state \in IF pass.verdict = "EACH" THEN StatesSeen(r) ELSE {pass.verdict} :
       UpdateSessionStates(r.id, r.desired, state)
  /\ pass' = [pass EXCEPT !.left = @ \ {r.id}]
  /\ UNCHANGED <<ides, mirror, switch, calm, reported, events>>

EndPass ==
  /\ pass.pc = "writing" /\ pass.left = {}
  /\ pass' = NoPass
  /\ reported' = calm
  /\ UNCHANGED <<ides, records, switch, calm, events>>

PassFails ==
  /\ pass # NoPass
  /\ pass' = NoPass
  /\ UNCHANGED <<ides, records, switch, calm, reported, events>>

----------------------------------------------------------------------------
(* What others do.                                                         *)

ControlDies ==
  /\ switch' = NoSwitch /\ pass' = NoPass /\ live' = 0
  /\ Happens
  /\ Stirs
  /\ UNCHANGED <<cockpit, talks, carried, folders, records>>

\* In Cockpit: the IDE is stopped, started without a token, removed, or bound to
\* another account while it is stopped.
UserMovesInstance ==
  /\ Happens
  /\ cockpit.state # "gone"
  /\ \/ cockpit' = [cockpit EXCEPT !.state = "stopped"]
     \/ cockpit' = [cockpit EXCEPT !.state = "gone"]
     \/ /\ ~Running /\ cockpit.start < MaxStarts
        /\ cockpit' = [cockpit EXCEPT !.state = "running", !.start = @ + 1]
     \/ /\ ~Running
        /\ \E a \in Account : cockpit' = [cockpit EXCEPT !.account = a]
  /\ Stirs
  /\ UNCHANGED <<talks, carried, folders, live, records, switch, pass>>

\* In the IDE: a conversation is deleted, a workspace closed or opened again.
UserMovesIDE ==
  /\ Happens
  /\ \E s \in Open :
       \/ talks' = talks \ {Talk(s)} /\ UNCHANGED folders
       \/ folders' = (folders \ {s}) \cup ({s} \ folders) /\ UNCHANGED talks
  /\ Stirs
  /\ UNCHANGED <<cockpit, carried, live, records, switch, pass>>

\* A caller of the store pauses a session.
PauseSession(s) ==
  /\ Happens
  /\ s \in Open
  /\ UpdateSessionStates(s, "PAUSED", "PAUSED")
  /\ Stirs
  /\ UNCHANGED <<ides, mirror, switch, pass>>

SwitchInit ==
  /\ \E a \in {CHOOSE x \in Account : TRUE}, some \in {{}, Session} :
       /\ cockpit = [account |-> a, state |-> "running", start |-> 1]
       /\ mirror = [account |-> a, desired |-> "RUNNING", observed |-> "READY", start |-> 1]
       /\ session = [s \in Session |-> IF s \in some
                       THEN [NoSession EXCEPT !.observed = "READY", !.account = a] ELSE NoSession]
       /\ talks = some \X {0}
       /\ folders = some
  /\ carried = {} /\ live = 1
  /\ switch = NoSwitch /\ pass = NoPass
  /\ calm = FALSE /\ reported = FALSE /\ events = 0

SwitchNext ==
  \/ \E a \in Account : PlanSwitch(a)
  \/ \E s \in Session : Checkpoint(s) \/ PauseSession(s)
  \/ StopForSwitch \/ BindAccount \/ RecordBinding \/ StartAgain \/ RestartFails \/ CheckContext
  \/ SwitchFails \/ SwitchEnds
  \/ \E r \in switch.saved :
       \/ MarkNeedsAttention(r) \/ MovePaused(r)
       \/ CreateConversation(r) \/ ContinuationFails(r) \/ SaveStates(r)
  \/ SendBootstrap \/ SaveConversation \/ SaveAccount
  \/ BeginPass \/ ListCockpit \/ ListSessions \/ ReconcileInstance \/ EndPass \/ PassFails
  \/ \E r \in pass.read : ReconcileSession(r)
  \/ ControlDies \/ UserMovesInstance \/ UserMovesIDE

----------------------------------------------------------------------------
\* The context of a session is never changed silently (plan I-03): at every moment,
\* whatever fails, dies or is written late, the database leads it to the
\* conversation it had or to one that was sent the checkpoint of that.
CheckpointCarried ==
  \A s \in Open : session[s].talk = 0 \/ Talk(s) \in carried

\* A pass of the reconciler during which nothing else moved tells the truth: a
\* session is READY, RUNNING or PAUSED only if the IDE runs under the account
\* and the start recorded, its Bridge answers, and the session's workspace and
\* conversation are there.
ReportsWhatRuns ==
  reported => \A s \in Open : session[s].observed \in {"READY", "RUNNING", "PAUSED"} =>
    /\ Reachable
    /\ mirror = [account |-> cockpit.account, desired |-> "RUNNING", observed |-> "READY", start |-> cockpit.start]
    /\ Talk(s) \in talks /\ s \in folders
=============================================================================
