---------------------------- MODULE RemoteProofs ----------------------------
(***************************************************************************)
(* Theorems about RemoteMirror, for every set of instances and every       *)
(* situation it starts in: one session per --open, and no text sent twice. *)
(***************************************************************************)
EXTENDS RemoteMirror, SequenceTheorems, FiniteSetTheorems, WellFoundedInduction, TLAPS

----------------------------------------------------------------------------
(***************************************************************************)
(* One session per --open.  The daemon decides to provision a session when  *)
(* it starts an operation and stores it several steps later: what it        *)
(* decided on must hold until then.                                         *)
(***************************************************************************)
OpRecord == [kind : {None, "open", "recover"}, who : {None} \cup Opens \cup Nat,
             inst : {None} \cup Instances, stage : {None, "launch", "attach", "record"}]
DaemonState == [phase : {"down", "recovering", "opening", "serving"}, restart : BOOLEAN,
                todo : SUBSET Nat, opens : SUBSET Opens, op : OpRecord]

\* No stored session is of this repository and account.
Unopened(o, rows) == \A s \in DOMAIN rows : rows[s].open # o

\* An operation in flight opens what no session is of, or recovers one of them.
OpSound(op, phase, rows) ==
  \/ op = NoOp
  \/ /\ op.kind = "open" /\ phase = "opening"
     /\ op.who \in Opens /\ op.inst \in Instances
     /\ Unopened(op.who, rows)
  \/ /\ op.kind = "recover" /\ phase = "recovering"
     /\ op.who \in DOMAIN rows /\ op.inst \in Instances
     /\ op.stage # "record"

SessionInv ==
  /\ sessions \in Seq(Session)
  /\ daemon \in DaemonState
  /\ setup.opens \subseteq Opens
  /\ OneSessionPerOpen
  /\ OpSound(daemon.op, daemon.phase, sessions)

\* The fields of the operation are of their types.
LEMMA NoOpTyped == NoOp \in OpRecord /\ Down \in DaemonState /\ Down.op = NoOp
BY DEF NoOp, OpRecord, Down, DaemonState

\* A sequence of sessions is a function from its indices.
LEMMA SessionsListed ==
  ASSUME NEW q \in Seq(Session)
  PROVE  /\ Len(q) \in Nat /\ DOMAIN q = 1..Len(q) /\ DOMAIN q \subseteq Nat
         /\ \A s \in DOMAIN q : q[s] \in Session
BY LenProperties

\* What is observed of a session does not change what it was opened for.
LEMMA ObservedOnly ==
  ASSUME sessions \in Seq(Session), NEW s \in DOMAIN sessions,
         NEW v \in {"READY", "NEEDS_ATTENTION"}, SetObserved(s, v)
  PROVE  /\ sessions' \in Seq(Session) /\ DOMAIN sessions' = DOMAIN sessions
         /\ \A r \in DOMAIN sessions : sessions'[r].open = sessions[r].open
<1> DEFINE e == [sessions[s] EXCEPT !.observed = v]
<1>1. DOMAIN sessions = 1..Len(sessions) /\ \A r \in DOMAIN sessions : sessions[r] \in Session
  BY SessionsListed
<1>2. e \in Session /\ e.open = sessions[s].open
  BY <1>1 DEF Session
<1>3. sessions' = [sessions EXCEPT ![s] = e]
  BY DEF SetObserved
<1> HIDE DEF e
<1>4. sessions' \in Seq(Session)
  BY <1>1, <1>2, <1>3, ExceptSeq
<1>5. DOMAIN sessions' = DOMAIN sessions
  BY <1>3
<1>6. ASSUME NEW r \in DOMAIN sessions PROVE sessions'[r].open = sessions[r].open
  BY <1>2, <1>3, <1>6
<1> QED  BY <1>4, <1>5, <1>6

\* An operation that is sound stays sound while the sessions keep what they are for.
LEMMA SoundKept ==
  ASSUME SessionInv,
         sessions' \in Seq(Session), DOMAIN sessions' = DOMAIN sessions,
         \A r \in DOMAIN sessions : sessions'[r].open = sessions[r].open,
         NEW op, NEW phase, OpSound(op, phase, sessions)
  PROVE  OneSessionPerOpen' /\ OpSound(op, phase, sessions')
<1>1. OneSessionPerOpen'
  BY DEF SessionInv, OneSessionPerOpen
<1>2. OpSound(op, phase, sessions')
  BY DEF OpSound, Unopened
<1> QED  BY <1>1, <1>2

\* The steps that leave the sessions alone, or change only what is observed of them.
LEMMA SessionsKept ==
  ASSUME SessionInv, setup' = setup, daemon' \in DaemonState,
         OpSound(daemon'.op, daemon'.phase, sessions),
         \/ UNCHANGED sessions
         \/ \E s \in DOMAIN sessions, v \in {"READY", "NEEDS_ATTENTION"} : SetObserved(s, v)
  PROVE  SessionInv'
<1>1. /\ sessions' \in Seq(Session) /\ DOMAIN sessions' = DOMAIN sessions
      /\ \A r \in DOMAIN sessions : sessions'[r].open = sessions[r].open
  <2>1. CASE UNCHANGED sessions
    BY <2>1 DEF SessionInv
  <2>2. CASE \E s \in DOMAIN sessions, v \in {"READY", "NEEDS_ATTENTION"} : SetObserved(s, v)
    <3>1. PICK s \in DOMAIN sessions, v \in {"READY", "NEEDS_ATTENTION"} : SetObserved(s, v)
      BY <2>2
    <3>2. sessions \in Seq(Session)
      BY DEF SessionInv
    <3> QED  BY <3>1, <3>2, ObservedOnly
  <2> QED  BY <2>1, <2>2
<1>2. OneSessionPerOpen' /\ OpSound(daemon'.op, daemon'.phase, sessions')
  BY <1>1, SoundKept
<1> QED  BY <1>1, <1>2 DEF SessionInv

\* A daemon that has exited remembers no operation.
LEMMA ExitKeeps ==
  ASSUME SessionInv, setup' = setup, NEW c, Exit(c), UNCHANGED sessions
  PROVE  SessionInv'
<1>1. daemon' = Down
  BY DEF Exit
<1>2. daemon' \in DaemonState /\ daemon'.op = NoOp
  BY <1>1, NoOpTyped
<1>3. OpSound(daemon'.op, daemon'.phase, sessions)
  BY <1>2 DEF OpSound
<1> QED  BY <1>2, <1>3, SessionsKept

\* A daemon that gives up on a session remembers no operation.
LEMMA GiveUpKeeps ==
  ASSUME SessionInv, setup' = setup, NEW s \in DOMAIN sessions, GiveUp(s)
  PROVE  SessionInv'
<1>1. daemon \in DaemonState
  BY DEF SessionInv
<1>2. daemon' \in DaemonState /\ daemon'.op = NoOp
  BY <1>1, NoOpTyped DEF GiveUp, DaemonState
<1>3. OpSound(daemon'.op, daemon'.phase, sessions)
  BY <1>2 DEF OpSound
<1>4. SetObserved(s, "NEEDS_ATTENTION")
  BY DEF GiveUp
<1> QED  BY <1>2, <1>3, <1>4, SessionsKept

\* An operation in flight is an "open" or a "recover", with what its kind says.
LEMMA InFlight ==
  ASSUME SessionInv, Op # NoOp
  PROVE  /\ Op \in OpRecord /\ daemon \in DaemonState
         /\ Op.kind \in {"open", "recover"}
         /\ OpSound(Op, daemon.phase, sessions)
         /\ Op.kind = "recover" => Op.who \in DOMAIN sessions
BY DEF SessionInv, Op, DaemonState, OpSound

\* The error path of an operation.
LEMMA FailKeeps ==
  ASSUME SessionInv, setup' = setup, Op # NoOp, NEW c, Fail(c)
  PROVE  SessionInv'
<1>1. CASE Op.kind = "open"
  BY <1>1, ExitKeeps DEF Fail
<1>2. CASE Op.kind # "open"
  <2>1. Op.who \in DOMAIN sessions /\ GiveUp(Op.who)
    BY <1>2, InFlight DEF Fail
  <2> QED  BY <2>1, GiveUpKeeps
<1> QED  BY <1>1, <1>2

\* An operation goes on to its next stage.
LEMMA StageKeeps ==
  ASSUME SessionInv, setup' = setup, Op # NoOp, UNCHANGED sessions,
         NEW stage \in {"attach", "record"}, StageDone(stage),
         stage = "record" => Op.kind = "open"
  PROVE  SessionInv'
<1>1. /\ Op \in OpRecord /\ daemon \in DaemonState
      /\ Op.kind \in {"open", "recover"} /\ OpSound(Op, daemon.phase, sessions)
  BY InFlight
<1> DEFINE op == [Op EXCEPT !.stage = stage]
<1>2. /\ op \in OpRecord /\ op.kind = Op.kind /\ op.who = Op.who /\ op.inst = Op.inst
      /\ op.stage = stage
  BY <1>1 DEF OpRecord
<1>3. daemon' = [daemon EXCEPT !.op = op]
  BY DEF StageDone, Op
<1> HIDE DEF op
<1>4. daemon' \in DaemonState /\ daemon'.op = op /\ daemon'.phase = daemon.phase
  BY <1>1, <1>2, <1>3 DEF DaemonState
<1>5. Op.kind # None
  BY <1>1, NoneAssumption
<1>6. OpSound(op, daemon.phase, sessions)
  BY <1>1, <1>2, <1>5 DEF OpSound, NoOp
<1>7. OpSound(daemon'.op, daemon'.phase, sessions)
  BY <1>4, <1>6
<1> QED  BY <1>4, <1>7, SessionsKept

\* An operation begins.
LEMMA BeginKeeps ==
  ASSUME SessionInv, setup' = setup, UNCHANGED sessions,
         NEW kind \in {"open", "recover"}, NEW who \in Opens \cup Nat, NEW i \in Instances,
         Begin(kind, who, i),
         \/ kind = "open" /\ daemon.phase = "opening" /\ who \in Opens /\ Unopened(who, sessions)
         \/ kind = "recover" /\ daemon.phase = "recovering" /\ who \in DOMAIN sessions
  PROVE  SessionInv'
<1> DEFINE op == [kind |-> kind, who |-> who, inst |-> i, stage |-> "launch"]
           todo == IF kind = "recover" THEN daemon.todo \ {who} ELSE daemon.todo
<1>1. daemon \in DaemonState
  BY DEF SessionInv
<1>2. op \in OpRecord /\ op.kind = kind /\ op.who = who /\ op.inst = i /\ op.stage = "launch"
  BY DEF OpRecord
<1>3. todo \in SUBSET Nat
  BY <1>1 DEF DaemonState
<1>4. daemon' = [daemon EXCEPT !.op = op, !.todo = todo]
  BY DEF Begin
<1> HIDE DEF op, todo
<1>5. daemon' \in DaemonState /\ daemon'.op = op /\ daemon'.phase = daemon.phase
  BY <1>1, <1>2, <1>3, <1>4 DEF DaemonState
<1>6. OpSound(op, daemon.phase, sessions)
  BY <1>2 DEF OpSound
<1> QED  BY <1>5, <1>6, SessionsKept

\* Recovery: a session is refused, or its instance is started.
LEMMA RecoveringKeeps ==
  ASSUME SessionInv, setup' = setup, NEW s \in DOMAIN sessions,
         RecoverRefused(s) \/ RecoverStopFails(s) \/ RecoverStart(s)
  PROVE  SessionInv'
<1>1. CASE RecoverRefused(s) \/ RecoverStopFails(s)
  <2>1. GiveUp(s)
    BY <1>1 DEF RecoverRefused, RecoverStopFails
  <2> QED  BY <2>1, GiveUpKeeps
<1>2. CASE RecoverStart(s)
  <2> DEFINE i == sessions[s].inst
  <2>1. sessions[s] \in Session /\ s \in Nat
    BY SessionsListed DEF SessionInv
  <2>2. i \in Instances
    BY <2>1 DEF Session
  <2>3. /\ UNCHANGED sessions /\ Begin("recover", s, i) /\ daemon.phase = "recovering"
    BY <1>2 DEF RecoverStart, Recovering
  <2> HIDE DEF i
  <2> QED  BY <2>1, <2>2, <2>3, BeginKeeps
<1> QED  BY <1>1, <1>2

\* The steps of the start-up between operations.
LEMMA StartingKeeps ==
  ASSUME SessionInv, setup' = setup, StartDaemon \/ StartupStage
  PROVE  SessionInv'
<1>1. daemon \in DaemonState /\ setup.opens \subseteq Opens
  BY DEF SessionInv
<1>2. DOMAIN sessions \subseteq Nat
  BY SessionsListed DEF SessionInv
<1>3. CASE StartDaemon
  <2>1. PICK restart \in BOOLEAN :
          daemon' = [Down EXCEPT !.phase = "recovering", !.restart = restart,
                                 !.todo = DOMAIN sessions]
    BY <1>3 DEF StartDaemon
  <2>2. daemon' \in DaemonState /\ daemon'.op = NoOp
    BY <1>2, <2>1, NoOpTyped DEF DaemonState
  <2>3. OpSound(daemon'.op, daemon'.phase, sessions)
    BY <2>2 DEF OpSound
  <2> QED  BY <1>3, <2>2, <2>3, SessionsKept DEF StartDaemon
<1>4. CASE StartupStage
  <2>1. daemon' \in DaemonState /\ daemon'.op = NoOp
    BY <1>1, <1>4 DEF StartupStage, DaemonState
  <2>2. OpSound(daemon'.op, daemon'.phase, sessions)
    BY <2>1 DEF OpSound
  <2> QED  BY <1>4, <2>1, <2>2, SessionsKept DEF StartupStage
<1> QED  BY <1>3, <1>4

\* One --open: its session is live, refused, or an instance is created for it.
LEMMA OpeningKeeps ==
  ASSUME SessionInv, setup' = setup, NEW o \in Opens,
         AlreadyLive(o) \/ OpenRefused(o) \/ CreateInstance(o)
  PROVE  SessionInv'
<1>1. daemon \in DaemonState
  BY DEF SessionInv
<1>2. CASE AlreadyLive(o)
  <2>1. /\ daemon' = [daemon EXCEPT !.opens = daemon.opens \ {o}] /\ UNCHANGED sessions
        /\ daemon.op = NoOp
    BY <1>2 DEF AlreadyLive, Opening
  <2>2. daemon' \in DaemonState /\ daemon'.op = NoOp
    BY <1>1, <2>1 DEF DaemonState
  <2>3. OpSound(daemon'.op, daemon'.phase, sessions)
    BY <2>2 DEF OpSound
  <2> QED  BY <2>1, <2>2, <2>3, SessionsKept
<1>3. CASE OpenRefused(o)
  <2>1. Exit(cockpit) /\ UNCHANGED sessions
    BY <1>3 DEF OpenRefused
  <2> QED  BY <2>1, ExitKeeps
<1>4. CASE CreateInstance(o)
  <2> DEFINE i == ResolveInstance(o)
  <2>1. /\ UNCHANGED sessions /\ Begin("open", o, i) /\ daemon.phase = "opening"
        /\ Matching(o) = {} /\ Created # Instances
    BY <1>4 DEF CreateInstance, Opening
  <2>2. i \in Instances
    BY <2>1 DEF ResolveInstance, Created
  <2>3. Unopened(o, sessions)
    BY <2>1 DEF Matching, Unopened
  <2> HIDE DEF i
  <2> QED  BY <2>1, <2>2, <2>3, BeginKeeps
<1> QED  BY <1>2, <1>3, <1>4

\* The launch, until the session of an --open is to be stored.
LEMMA LaunchKeeps ==
  ASSUME SessionInv, setup' = setup,
         \/ Launch \/ LaunchFails \/ AttachRecovered \/ AttachOpened \/ AttachFails
         \/ AttachTimesOut \/ RecordFails
  PROVE  SessionInv'
<1>1. Op # NoOp
  BY DEF Launch, LaunchFails, AttachRecovered, AttachOpened, AttachFails, AttachTimesOut,
         RecordFails, AtStage
<1>2. /\ Op \in OpRecord /\ daemon \in DaemonState
      /\ OpSound(Op, daemon.phase, sessions)
      /\ Op.kind = "recover" => Op.who \in DOMAIN sessions
  BY <1>1, InFlight
<1>3. CASE Launch
  BY <1>1, <1>3, StageKeeps DEF Launch
<1>4. CASE LaunchFails
  BY <1>1, <1>4, FailKeeps DEF LaunchFails
<1>5. CASE AttachFails
  BY <1>1, <1>5, FailKeeps DEF AttachFails
<1>6. CASE AttachOpened
  <2>1. StageDone("record") /\ UNCHANGED sessions /\ Op.kind = "open"
    BY <1>6 DEF AttachOpened
  <2> QED  BY <1>1, <2>1, StageKeeps
<1>7. CASE RecordFails
  <2>1. Exit(RollBack) /\ UNCHANGED sessions
    BY <1>7 DEF RecordFails
  <2> QED  BY <2>1, ExitKeeps
<1>8. CASE AttachTimesOut
  <2>1. UNCHANGED sessions
    BY <1>8 DEF AttachTimesOut
  <2>2. CASE Op.kind = "open"
    <3>1. Exit(RollBack)
      BY <1>8, <2>2 DEF AttachTimesOut
    <3> QED  BY <2>1, <3>1, ExitKeeps
  <2>3. CASE Op.kind # "open"
    <3>1. daemon' = [daemon EXCEPT !.op = NoOp]
      BY <1>8, <2>3 DEF AttachTimesOut
    <3>2. daemon' \in DaemonState /\ daemon'.op = NoOp
      BY <1>2, <3>1, NoOpTyped DEF DaemonState
    <3>3. OpSound(daemon'.op, daemon'.phase, sessions)
      BY <3>2 DEF OpSound
    <3> QED  BY <2>1, <3>2, <3>3, SessionsKept
  <2> QED  BY <2>2, <2>3
<1>9. CASE AttachRecovered
  <2>1. /\ daemon' = [daemon EXCEPT !.op = NoOp] /\ SetObserved(Op.who, "READY")
        /\ Op.who \in DOMAIN sessions
    BY <1>2, <1>9 DEF AttachRecovered
  <2>2. daemon' \in DaemonState /\ daemon'.op = NoOp
    BY <1>2, <2>1, NoOpTyped DEF DaemonState
  <2>3. OpSound(daemon'.op, daemon'.phase, sessions)
    BY <2>2 DEF OpSound
  <2> QED  BY <2>1, <2>2, <2>3, SessionsKept
<1> QED  BY <1>3, <1>4, <1>5, <1>6, <1>7, <1>8, <1>9

\* The session of an --open is stored: nobody stored one of it in between.
LEMMA CreatingKeeps ==
  ASSUME SessionInv, setup' = setup, CreateSession
  PROVE  SessionInv'
<1> DEFINE row == [open |-> Op.who, inst |-> Op.inst, observed |-> "READY"]
<1>1. Op # NoOp /\ Op.stage = "record"
  BY DEF CreateSession, AtStage
<1>2. daemon \in DaemonState /\ Op \in OpRecord /\ OpSound(Op, daemon.phase, sessions)
  BY <1>1, InFlight
<1>3. Op.kind = "open" /\ Op.who \in Opens /\ Op.inst \in Instances /\ Unopened(Op.who, sessions)
  BY <1>1, <1>2 DEF OpSound
<1>4. row \in Session /\ row.open = Op.who
  BY <1>3 DEF Session
<1>5. sessions \in Seq(Session)
  BY DEF SessionInv
<1>6. sessions' = Append(sessions, row)
  BY DEF CreateSession
<1> HIDE DEF row
<1>7. /\ sessions' \in Seq(Session) /\ Len(sessions') = Len(sessions) + 1
      /\ \A s \in 1..Len(sessions) : sessions'[s] = sessions[s]
      /\ sessions'[Len(sessions) + 1] = row
  BY <1>4, <1>5, <1>6, AppendProperties
<1>8. /\ Len(sessions) \in Nat /\ DOMAIN sessions = 1..Len(sessions)
      /\ DOMAIN sessions' = 1..(Len(sessions) + 1)
  BY <1>5, <1>7, SessionsListed
<1>9. OneSessionPerOpen'
  BY <1>3, <1>4, <1>7, <1>8 DEF SessionInv, OneSessionPerOpen, Unopened
<1>10. daemon' \in DaemonState /\ daemon'.op = NoOp
  BY <1>2, NoOpTyped DEF CreateSession, DaemonState
<1>11. OpSound(daemon'.op, daemon'.phase, sessions')
  BY <1>10 DEF OpSound
<1> QED  BY <1>7, <1>9, <1>10, <1>11 DEF SessionInv

\* Every step keeps it.
LEMMA SessionStep == SessionInv /\ [Next]_vars => SessionInv'
<1> SUFFICES ASSUME SessionInv, [Next]_vars PROVE SessionInv'
  OBVIOUS
<1>1. setup' = setup
  BY DEF Next, vars
<1>2. CASE UNCHANGED <<sessions, daemon>>
  <2>1. daemon' \in DaemonState /\ OpSound(daemon'.op, daemon'.phase, sessions) /\ UNCHANGED sessions
    BY <1>2 DEF SessionInv
  <2> QED  BY <1>1, <2>1, SessionsKept
<1>3. CASE SessionSteps
  <2>1. CASE Meddling
    <3>1. UNCHANGED <<sessions, daemon>>
      BY <2>1 DEF Meddling, UserStops, UserStarts, UserRebinds, UserMoves, UserClears, UserAct
    <3> QED  BY <1>2, <3>1
  <2>2. CASE ~Meddling
    <3>1. CASE StartDaemon \/ StartupStage
      BY <1>1, <3>1, StartingKeeps
    <3>2. CASE \E s \in DOMAIN sessions : RecoverRefused(s) \/ RecoverStopFails(s) \/ RecoverStart(s)
      BY <1>1, <3>2, RecoveringKeeps
    <3>3. CASE \E o \in Opens : AlreadyLive(o) \/ OpenRefused(o) \/ CreateInstance(o)
      BY <1>1, <3>3, OpeningKeeps
    <3>4. CASE \/ Launch \/ LaunchFails \/ AttachRecovered \/ AttachOpened \/ AttachFails
               \/ AttachTimesOut \/ RecordFails
      BY <1>1, <3>4, LaunchKeeps
    <3>5. CASE CreateSession
      BY <1>1, <3>5, CreatingKeeps
    <3> QED  BY <1>3, <2>2, <3>1, <3>2, <3>3, <3>4, <3>5 DEF SessionSteps, Startup
  <2> QED  BY <2>1, <2>2
<1>4. CASE Crash
  BY <1>1, <1>4, ExitKeeps DEF Crash, StopDaemon
<1>5. CASE UNCHANGED sessionVars \/ UNCHANGED vars
  BY <1>2, <1>5 DEF sessionVars, vars
<1>6. CASE Poll \/ Supervise \/ RetryDue
  BY <1>5, <1>6 DEF Poll, AdvanceCursor, ProcessText, IgnoreUpdate, ConsumePairing, Handling,
     Supervise, NextTurn, SkipCommand, ClaimCommand, SendCommand, FinishCommand, Ingest,
     SettleUnshown, ShowItem, ShowFails, Showable, SaveView, MarkDelivered, RetryDue
<1>7. CASE (\E s \in Ids : AgentSpeaks(s)) \/ (\E t \in Topics, s \in Ids : ReplaceBinding(t, s))
  BY <1>5, <1>7 DEF AgentSpeaks, ReplaceBinding
<1> QED  BY <1>3, <1>4, <1>5, <1>6, <1>7 DEF Next

\* A stored session of an earlier start is the only one of its repository and account.
LEMMA SessionStart == Init => SessionInv
<1> SUFFICES ASSUME Init PROVE SessionInv
  OBVIOUS
<1>1. /\ setup.opens \subseteq Opens /\ sessions \in Seq(Session) /\ OneSessionPerOpen
  BY SetupsAssumption DEF Init, OneSessionPerOpen
<1>2. daemon \in DaemonState /\ daemon.op = NoOp
  BY NoOpTyped DEF Init
<1> QED  BY <1>1, <1>2 DEF SessionInv, OpSound

\* Repeating --open across restarts, failures and lost Bridges never makes a second
\* session of one repository and account, though it looks for one several steps before
\* it stores one (ensureBootstrapSession, Service.Provision).
THEOREM OpenedOnce == Spec => []OneSessionPerOpen
<1>1. SessionInv => OneSessionPerOpen
  BY DEF SessionInv
<1> QED  BY <1>1, SessionStart, SessionStep, PTL DEF Spec

----------------------------------------------------------------------------
(***************************************************************************)
(* No text is sent twice.  An update is stored as at most one command, and  *)
(* what is sent is the command the loop has claimed, which is pending no    *)
(* more and was not sent before.                                            *)
(***************************************************************************)
\* A list of anything: what the values of its elements are does not matter here.
Listed(q) == Len(q) \in Nat /\ q = [n \in 1..Len(q) |-> q[n]]

\* No two commands are of one update.
KeysDiffer == \A m, n \in DOMAIN commands : commands[m].key = commands[n].key => m = n

\* A command that is still to be sent has not been sent.
PendingUnsent == \A n \in DOMAIN commands : Pending(n) => sent[commands[n].key] = 0

\* A text that was sent is that of a command.
SentAdmitted == \A u \in Updates : sent[u] # 0 => Admitted(u)

\* Where the loop is while it has a command in hand.
AtCommand == {"claimed", "SUCCEEDED", "FAILED"}

\* The batch of the loop are commands, and the claimed one is pending no more.
ClaimedUnsent ==
  /\ loop.stage = "commands" => loop.batch \subseteq DOMAIN commands
  /\ loop.at \in AtCommand => loop.batch # {}
  /\ loop.at = "claimed" =>
       /\ loop.stage = "commands"
       /\ ~Pending(Current) /\ sent[commands[Current].key] = 0

SendInv ==
  /\ Listed(commands)
  /\ \A n \in DOMAIN commands : /\ {"key", "state"} \subseteq DOMAIN commands[n]
                                /\ commands[n].key \in Updates
  /\ sent \in [Updates -> Nat]
  /\ DOMAIN loop = {"stage", "batch", "at", "post"}
  /\ KeysDiffer /\ PendingUnsent /\ SentAdmitted /\ ClaimedUnsent
  /\ SentOnce

\* A set of numbers that is not empty has a least one.
LEMMA LeastRow ==
  ASSUME NEW K \in Nat, NEW T \in SUBSET (1..K), T # {}
  PROVE  \E x \in T : \A y \in T : x <= y
<1> DEFINE Below(x) == 1..(x - 1)
           U == {Below(x) : x \in T}
           R == StrictSubsetOrdering(1..K)
           F == FiniteSubsetsOf(1..K)
<1>1. \A x \in T : x \in Nat /\ x >= 1 /\ x <= K /\ Below(x) \subseteq 1..K /\ IsFiniteSet(Below(x))
  <2>1. \A x \in T : x \in Nat /\ x >= 1 /\ x <= K /\ Below(x) \subseteq 1..K
    OBVIOUS
  <2> QED  BY <2>1, FS_Interval
<1>2. U \subseteq F /\ U # {}
  BY <1>1 DEF FiniteSubsetsOf
<1>3. IsWellFoundedOn(R, F)
  BY FS_StrictSubsetOrderingWellFounded
<1>4. PICK X \in U : \A Y \in U : ~(<<Y, X>> \in R)
  <2> HIDE DEF U, R, F
  <2> QED  BY <1>2, <1>3, WFMin
<1>5. PICK x \in T : X = Below(x)
  OBVIOUS
<1>6. ASSUME NEW y \in T, y < x PROVE FALSE
  <2>1. y \in Below(x) /\ y \notin Below(y) /\ Below(y) \subseteq Below(x)
    BY <1>1, <1>6
  <2>2. Below(y) # Below(x) /\ Below(y) \in SUBSET (1..K) /\ Below(x) \in SUBSET (1..K)
    BY <1>1, <2>1
  <2>3. <<Below(y), Below(x)>> \in R
    <3> HIDE DEF Below
    <3> QED  BY <2>1, <2>2 DEF StrictSubsetOrdering
  <2> QED  BY <1>4, <1>5, <2>3
<1>7. \A y \in T : x <= y
  BY <1>1, <1>6
<1> QED  BY <1>7

\* The row the loop is at is one of its batch.
LEMMA CurrentInBatch ==
  ASSUME SendInv, loop.stage = "commands", loop.batch # {}
  PROVE  Current \in loop.batch /\ Current \in DOMAIN commands /\ commands[Current].key \in Updates
<1>1. Len(commands) \in Nat /\ DOMAIN commands = 1..Len(commands)
  BY DEF SendInv, Listed
<1>2. loop.batch \in SUBSET (1..Len(commands))
  BY <1>1 DEF SendInv, ClaimedUnsent
<1>3. \E x \in loop.batch : \A y \in loop.batch : x <= y
  BY <1>1, <1>2, LeastRow
<1>4. Current \in loop.batch
  BY <1>3 DEF Current
<1> QED  BY <1>1, <1>2, <1>4 DEF SendInv

\* A list and one element more is a list.
LEMMA AppendListed ==
  ASSUME NEW q, NEW e, Listed(q)
  PROVE  /\ Listed(Append(q, e)) /\ DOMAIN q = 1..Len(q) /\ Len(q) \in Nat
         /\ DOMAIN Append(q, e) = 1..(Len(q) + 1)
         /\ \A n \in DOMAIN q : Append(q, e)[n] = q[n]
         /\ Append(q, e)[Len(q) + 1] = e
<1> DEFINE S == {q[n] : n \in 1..Len(q)} \cup {e}
           f == [n \in 1..Len(q) |-> q[n]]
<1>1. Len(q) \in Nat /\ q = f /\ DOMAIN q = 1..Len(q)
  BY DEF Listed
<1>2. f \in [1..Len(q) -> S]
  OBVIOUS
<1>3. q \in [1..Len(q) -> S]
  BY <1>1, <1>2
<1>4. q \in Seq(S)
  BY <1>1, <1>3
<1>5. e \in S
  OBVIOUS
<1> HIDE DEF S, f
<1> DEFINE a == Append(q, e)
<1>6. /\ a \in Seq(S) /\ Len(a) = Len(q) + 1
      /\ \A n \in 1..Len(q) : a[n] = q[n]
      /\ a[Len(q) + 1] = e
  BY <1>4, <1>5, AppendProperties
<1>7. Len(a) \in Nat /\ a \in [1..Len(a) -> S] /\ DOMAIN a = 1..Len(a)
  BY <1>6, LenProperties
<1> HIDE DEF a
<1>8. Listed(a)
  BY <1>7 DEF Listed
<1> QED  BY <1>1, <1>6, <1>7, <1>8 DEF a

\* The steps that change neither a command nor what was sent.
LEMMA SendsKept ==
  ASSUME SendInv, UNCHANGED <<commands, sent, setup>>,
         \/ UNCHANGED loop
         \/ /\ DOMAIN loop' = {"stage", "batch", "at", "post"} /\ loop'.at \notin AtCommand
            /\ loop'.stage = "commands" => loop'.batch \subseteq DOMAIN commands
  PROVE  SendInv'
<1>1. /\ Listed(commands)'
      /\ (\A n \in DOMAIN commands : /\ {"key", "state"} \subseteq DOMAIN commands[n]
                                     /\ commands[n].key \in Updates)'
      /\ (sent \in [Updates -> Nat])'
      /\ KeysDiffer' /\ PendingUnsent' /\ SentAdmitted' /\ SentOnce'
  BY DEF SendInv, Listed, KeysDiffer, PendingUnsent, SentAdmitted, SentOnce, Pending, Admitted, Updates
<1>2. DOMAIN loop' = {"stage", "batch", "at", "post"}
  BY DEF SendInv
<1>3. ClaimedUnsent'
  BY DEF SendInv, ClaimedUnsent, Pending, Current, AtCommand
<1> QED  BY <1>1, <1>2, <1>3 DEF SendInv

\* The loop goes on to its next row, or to its next turn.
LEMMA LoopMoves ==
  ASSUME SendInv
  PROVE  /\ Next1 => /\ DOMAIN loop' = {"stage", "batch", "at", "post"} /\ loop'.at \notin AtCommand
                     /\ loop'.stage = loop.stage /\ loop'.batch = loop.batch \ {Current}
         /\ \A stage, batch : Turn(stage, batch) =>
              /\ DOMAIN loop' = {"stage", "batch", "at", "post"} /\ loop'.at \notin AtCommand
              /\ loop'.stage = stage /\ loop'.batch = batch
         /\ loop' = Idle => /\ DOMAIN loop' = {"stage", "batch", "at", "post"}
                            /\ loop'.at \notin AtCommand /\ loop'.stage = "idle"
<1>1. None \notin AtCommand
  BY NoneAssumption DEF AtCommand
<1>2. DOMAIN loop = {"stage", "batch", "at", "post"}
  BY DEF SendInv
<1>3. Next1 => /\ DOMAIN loop' = {"stage", "batch", "at", "post"} /\ loop'.at \notin AtCommand
               /\ loop'.stage = loop.stage /\ loop'.batch = loop.batch \ {Current}
  BY <1>1, <1>2 DEF Next1
<1>4. ASSUME NEW stage, NEW batch, Turn(stage, batch)
      PROVE  /\ DOMAIN loop' = {"stage", "batch", "at", "post"} /\ loop'.at \notin AtCommand
             /\ loop'.stage = stage /\ loop'.batch = batch
  BY <1>1, <1>4 DEF Turn, Idle
<1>5. loop' = Idle => /\ DOMAIN loop' = {"stage", "batch", "at", "post"}
                      /\ loop'.at \notin AtCommand /\ loop'.stage = "idle"
  BY <1>1 DEF Idle
<1> QED  BY <1>3, <1>4, <1>5

\* A new turn of the loop: its commands are rows of the list.
LEMMA TurnKeeps ==
  ASSUME SendInv, setup' = setup, NextTurn
  PROVE  SendInv'
<1>1. UNCHANGED <<commands, sent, setup>>
  BY DEF NextTurn
<1> DEFINE due == FirstOf({n \in DOMAIN commands : Pending(n)}, CommandBatch)
           live == {s \in DOMAIN sessions : Attached(s)}
           items == FirstOf({n \in DOMAIN outbox : Due(n)}, DeliveryBatch)
<1>2. due \subseteq DOMAIN commands
  BY DEF FirstOf
<1>3. Turn("commands", due) \/ Turn("ingest", live) \/ Turn("deliver", items) \/ loop' = Idle
  BY DEF NextTurn
<1> HIDE DEF due, live, items
<1>4. CASE Turn("commands", due)
  <2>1. /\ DOMAIN loop' = {"stage", "batch", "at", "post"} /\ loop'.at \notin AtCommand
        /\ loop'.batch = due
    BY <1>4, LoopMoves
  <2> QED  BY <1>1, <1>2, <2>1, SendsKept
<1>5. CASE Turn("ingest", live) \/ Turn("deliver", items) \/ loop' = Idle
  <2>1. /\ DOMAIN loop' = {"stage", "batch", "at", "post"} /\ loop'.at \notin AtCommand
        /\ loop'.stage \in {"ingest", "deliver", "idle"}
    BY <1>5, LoopMoves
  <2> QED  BY <1>1, <2>1, SendsKept
<1> QED  BY <1>3, <1>4, <1>5

\* Ingestion and delivery, and a command that is skipped, send no text.
LEMMA RestKeeps ==
  ASSUME SendInv, setup' = setup,
         \/ SkipCommand \/ Ingest \/ SettleUnshown \/ ShowItem \/ ShowFails
         \/ SaveView \/ MarkDelivered
  PROVE  SendInv'
<1>1. UNCHANGED <<commands, sent, setup>>
  BY DEF SkipCommand, Ingest, SettleUnshown, ShowItem, ShowFails, Showable, SaveView, MarkDelivered
<1>2. DOMAIN loop = {"stage", "batch", "at", "post"}
  BY DEF SendInv
<1>3. loop.stage = "commands" => loop.batch \subseteq DOMAIN commands
  BY DEF SendInv, ClaimedUnsent
<1>4. CASE Next1
  <2>1. /\ DOMAIN loop' = {"stage", "batch", "at", "post"} /\ loop'.at \notin AtCommand
        /\ loop'.stage = loop.stage /\ loop'.batch = loop.batch \ {Current}
    BY <1>4, LoopMoves
  <2> QED  BY <1>1, <1>3, <2>1, SendsKept
<1>5. CASE ShowItem \/ SaveView
  <2>1. /\ DOMAIN loop' = {"stage", "batch", "at", "post"} /\ loop'.at \notin AtCommand
        /\ loop'.stage = loop.stage /\ loop'.batch = loop.batch
    <3>1. CASE ShowItem
      <4> DEFINE v == ViewAfter(Current)
      <4>1. loop' = [loop EXCEPT !.at = "shown", !.post = v]
        BY <3>1 DEF ShowItem
      <4> HIDE DEF v
      <4> QED  BY <1>2, <4>1 DEF AtCommand
    <3>2. CASE SaveView
      BY <1>2, <3>2 DEF SaveView, AtCommand
    <3> QED  BY <1>5, <3>1, <3>2
  <2> QED  BY <1>1, <1>3, <2>1, SendsKept
<1> QED
  BY <1>4, <1>5 DEF SkipCommand, Ingest, SettleUnshown, ShowFails, MarkDelivered

\* Setting the state of one command.
LEMMA CommandSet ==
  ASSUME SendInv, NEW n \in DOMAIN commands, NEW v, v # "PENDING", SetCommand(n, v)
  PROVE  /\ Listed(commands)' /\ DOMAIN commands' = DOMAIN commands
         /\ \A m \in DOMAIN commands :
              /\ commands'[m].key = commands[m].key
              /\ {"key", "state"} \subseteq DOMAIN commands'[m]
              /\ commands'[m].state = "PENDING" => m # n /\ commands[m].state = "PENDING"
<1> DEFINE c == [commands[n] EXCEPT !.state = v]
<1>1. {"key", "state"} \subseteq DOMAIN commands[n]
  BY DEF SendInv
<1>2. c.key = commands[n].key /\ {"key", "state"} \subseteq DOMAIN c /\ c.state = v
  BY <1>1
<1>3. commands' = [commands EXCEPT ![n] = c]
  BY DEF SetCommand
<1>4. Len(commands) \in Nat /\ DOMAIN commands = 1..Len(commands)
  BY DEF SendInv, Listed
<1> HIDE DEF c
<1>5. /\ DOMAIN commands' = DOMAIN commands
      /\ \A m \in DOMAIN commands : commands'[m] = IF m = n THEN c ELSE commands[m]
  BY <1>3
<1>6. commands' = [m \in 1..Len(commands) |-> commands'[m]]
  BY <1>3, <1>4, <1>5
<1>7. Len(commands') = Len(commands)
  BY <1>4, <1>5, <1>6
<1>8. Listed(commands)'
  BY <1>4, <1>6, <1>7 DEF Listed
<1>9. ASSUME NEW m \in DOMAIN commands
      PROVE  /\ commands'[m].key = commands[m].key
             /\ {"key", "state"} \subseteq DOMAIN commands'[m]
             /\ commands'[m].state = "PENDING" => m # n /\ commands[m].state = "PENDING"
  BY <1>2, <1>5, <1>9 DEF SendInv
<1> QED  BY <1>5, <1>8, <1>9

\* The loop claims a command, which is pending and was not sent, and later finishes it.
LEMMA ClaimingKeeps ==
  ASSUME SendInv, setup' = setup, ClaimCommand \/ FinishCommand
  PROVE  SendInv'
<1>1. /\ loop.stage = "commands" /\ UNCHANGED <<sent, setup>>
      /\ DOMAIN loop = {"stage", "batch", "at", "post"} /\ loop.batch \subseteq DOMAIN commands
  BY DEF ClaimCommand, FinishCommand, InLoop, SendInv, ClaimedUnsent
<1>2. CASE ClaimCommand
  <2>1. /\ loop.batch # {} /\ Pending(Current) /\ SetCommand(Current, "RUNNING")
        /\ loop' = [loop EXCEPT !.at = "claimed"]
    BY <1>2 DEF ClaimCommand, InLoop
  <2>2. Current \in loop.batch /\ Current \in DOMAIN commands
    BY <1>1, <2>1, CurrentInBatch
  <2> DEFINE n == Current
  <2>3. sent[commands[n].key] = 0
    BY <2>1, <2>2 DEF SendInv, PendingUnsent
  <2>4. /\ DOMAIN loop' = {"stage", "batch", "at", "post"}
        /\ loop'.stage = "commands" /\ loop'.batch = loop.batch
    BY <1>1, <2>1
  <2>5. Current' = n
    BY <2>4 DEF Current
  <2> HIDE DEF n
  <2>6. n \in DOMAIN commands /\ SetCommand(n, "RUNNING")
    BY <2>1, <2>2 DEF n
  <2>7. /\ Listed(commands)' /\ DOMAIN commands' = DOMAIN commands
        /\ \A m \in DOMAIN commands :
             /\ commands'[m].key = commands[m].key
             /\ {"key", "state"} \subseteq DOMAIN commands'[m]
             /\ commands'[m].state = "PENDING" => m # n /\ commands[m].state = "PENDING"
    BY <2>6, CommandSet
  <2>8. KeysDiffer' /\ PendingUnsent' /\ SentAdmitted' /\ SentOnce'
    BY <1>1, <2>7 DEF SendInv, KeysDiffer, PendingUnsent, SentAdmitted, SentOnce, Pending,
       Admitted, Updates
  <2>9. ClaimedUnsent'
    BY <1>1, <2>1, <2>3, <2>4, <2>5, <2>6, <2>7 DEF ClaimedUnsent, Pending, AtCommand
  <2> QED  BY <1>1, <2>4, <2>7, <2>8, <2>9 DEF SendInv, Updates
<1>3. CASE FinishCommand
  <2>1. PICK v \in {"SUCCEEDED", "FAILED"} : SetCommand(Current, v) /\ Next1
    BY <1>3 DEF FinishCommand
  <2>2. loop.batch # {}
    BY <1>3 DEF FinishCommand, SendInv, ClaimedUnsent, AtCommand
  <2>3. Current \in DOMAIN commands
    BY <1>1, <2>2, CurrentInBatch
  <2>4. /\ DOMAIN loop' = {"stage", "batch", "at", "post"} /\ loop'.at \notin AtCommand
        /\ loop'.stage = "commands" /\ loop'.batch = loop.batch \ {Current}
    BY <1>1, <2>1, LoopMoves
  <2> DEFINE n == Current
  <2>5. n \in DOMAIN commands /\ SetCommand(n, v)
    BY <2>1, <2>3
  <2>6. loop'.batch \subseteq DOMAIN commands
    BY <1>1, <2>4
  <2> HIDE DEF n
  <2>7. /\ Listed(commands)' /\ DOMAIN commands' = DOMAIN commands
        /\ \A m \in DOMAIN commands :
             /\ commands'[m].key = commands[m].key
             /\ {"key", "state"} \subseteq DOMAIN commands'[m]
             /\ commands'[m].state = "PENDING" => m # n /\ commands[m].state = "PENDING"
    BY <2>5, CommandSet
  <2>8. KeysDiffer' /\ PendingUnsent' /\ SentAdmitted' /\ SentOnce'
    BY <1>1, <2>7 DEF SendInv, KeysDiffer, PendingUnsent, SentAdmitted, SentOnce, Pending,
       Admitted, Updates
  <2>9. ClaimedUnsent'
    BY <2>4, <2>6, <2>7 DEF ClaimedUnsent, AtCommand
  <2> QED  BY <1>1, <2>4, <2>7, <2>8, <2>9 DEF SendInv, Updates
<1> QED  BY <1>2, <1>3

\* The claimed command is sent, once, or not at all.
LEMMA SendingKeeps ==
  ASSUME SendInv, setup' = setup, SendCommand
  PROVE  SendInv'
<1> DEFINE n == Current
           u == commands[n].key
<1>1. /\ loop.stage = "commands" /\ loop.at = "claimed" /\ UNCHANGED <<commands, setup>>
      /\ DOMAIN loop = {"stage", "batch", "at", "post"} /\ loop.batch \subseteq DOMAIN commands
      /\ loop.batch # {} /\ ~Pending(n) /\ sent[u] = 0
  BY DEF SendCommand, SendInv, ClaimedUnsent, AtCommand
<1>2. n \in DOMAIN commands /\ u \in Updates
  BY <1>1, CurrentInBatch
<1>3. sent' = [sent EXCEPT ![u] = sent[u] + 1] \/ UNCHANGED sent
  BY DEF SendCommand
<1>4. loop' = [loop EXCEPT !.at = "SUCCEEDED"] \/ loop' = [loop EXCEPT !.at = "FAILED"]
  BY DEF SendCommand
<1> HIDE DEF n, u
<1>5. sent \in [Updates -> Nat]
  BY DEF SendInv
<1>6. /\ sent' \in [Updates -> Nat]
      /\ \A x \in Updates : IF x = u THEN sent'[x] <= 1 ELSE sent'[x] = sent[x]
  BY <1>1, <1>2, <1>3, <1>5
<1>7. Updates' = Updates
  BY <1>1 DEF Updates
<1>8. u = commands[n].key
  BY DEF u
<1>9. \A m \in DOMAIN commands : Pending(m) => commands[m].key # u /\ commands[m].key \in Updates
  BY <1>1, <1>2, <1>8 DEF SendInv, KeysDiffer
<1>10. PendingUnsent'
  BY <1>1, <1>6, <1>9 DEF SendInv, PendingUnsent, Pending
<1>11. SentAdmitted'
  BY <1>1, <1>2, <1>6, <1>7, <1>8 DEF SendInv, SentAdmitted, Admitted
<1>12. SentOnce'
  BY <1>6, <1>7 DEF SendInv, SentOnce
<1>13. /\ DOMAIN loop' = {"stage", "batch", "at", "post"} /\ loop'.at \in {"SUCCEEDED", "FAILED"}
       /\ loop'.batch = loop.batch
  BY <1>1, <1>4
<1>14. ClaimedUnsent'
  BY <1>1, <1>13 DEF ClaimedUnsent
<1>15. /\ Listed(commands)' /\ KeysDiffer'
       /\ (\A m \in DOMAIN commands : /\ {"key", "state"} \subseteq DOMAIN commands[m]
                                      /\ commands[m].key \in Updates)'
  BY <1>1, <1>7 DEF SendInv, Listed, KeysDiffer
<1> QED  BY <1>6, <1>7, <1>10, <1>11, <1>12, <1>13, <1>14, <1>15 DEF SendInv

\* An update is stored as a command unless one of it is stored already.
LEMMA AdmitKeeps ==
  ASSUME SendInv, UNCHANGED <<sent, loop, setup>>, NEW u \in Updates, NEW s, NEW kind,
         Admit(u, s, kind)
  PROVE  SendInv'
<1>1. CASE Admitted(u)
  <2>1. UNCHANGED commands
    BY <1>1 DEF Admit
  <2> QED  BY <2>1, SendsKept
<1>2. CASE ~Admitted(u)
  <2> DEFINE e == [key |-> u, session |-> s, kind |-> kind, state |-> "PENDING"]
             k == Len(commands) + 1
  <2>1. commands' = Append(commands, e)
    BY <1>2 DEF Admit
  <2>2. {"key", "state"} \subseteq DOMAIN e /\ e.key = u
    OBVIOUS
  <2>3. Listed(commands)
    BY DEF SendInv
  <2> HIDE DEF e
  <2>4. /\ Listed(commands)' /\ Len(commands) \in Nat /\ DOMAIN commands = 1..Len(commands)
        /\ DOMAIN commands' = 1..k
        /\ \A n \in DOMAIN commands : commands'[n] = commands[n]
        /\ commands'[k] = e
    BY <2>1, <2>3, AppendListed
  <2>5. Len(commands) + 1 = k
    OBVIOUS
  <2> HIDE DEF k
  <2>6. /\ DOMAIN commands' = DOMAIN commands \cup {k} /\ k \notin DOMAIN commands
    BY <2>4, <2>5
  <2>7. \A n \in DOMAIN commands : commands[n].key # u
    BY <1>2 DEF Admitted
  <2>8. sent[u] = 0
    BY <1>2 DEF SendInv, SentAdmitted
  <2>9. Updates' = Updates
    BY DEF Updates
  <2>10. (\A n \in DOMAIN commands : /\ {"key", "state"} \subseteq DOMAIN commands[n]
                                     /\ commands[n].key \in Updates)'
    BY <2>2, <2>4, <2>6, <2>9 DEF SendInv
  <2>11. KeysDiffer'
    BY <2>2, <2>4, <2>6, <2>7 DEF SendInv, KeysDiffer
  <2>12. PendingUnsent'
    BY <2>2, <2>4, <2>6, <2>8 DEF SendInv, PendingUnsent, Pending
  <2>13. SentAdmitted' /\ SentOnce'
    <3>1. ASSUME NEW x \in Updates, sent[x] # 0 PROVE Admitted(x)'
      <4>1. PICK n \in DOMAIN commands : commands[n].key = x
        BY <3>1 DEF SendInv, SentAdmitted, Admitted
      <4>2. n \in DOMAIN commands' /\ commands'[n].key = x
        BY <2>4, <2>6, <4>1
      <4> QED  BY <4>2 DEF Admitted
    <3>2. SentAdmitted'
      BY <2>9, <3>1 DEF SentAdmitted
    <3>3. SentOnce'
      BY <2>9 DEF SendInv, SentOnce
    <3> QED  BY <3>2, <3>3
  <2>14. Current' = Current
    BY DEF Current
  <2>15. loop.at = "claimed" => Current \in DOMAIN commands
    BY CurrentInBatch DEF SendInv, ClaimedUnsent, AtCommand
  <2>16. ClaimedUnsent'
    BY <2>4, <2>6, <2>14, <2>15 DEF SendInv, ClaimedUnsent, Pending
  <2> QED  BY <2>4, <2>9, <2>10, <2>11, <2>12, <2>13, <2>16 DEF SendInv
<1> QED  BY <1>1, <1>2

\* Every step keeps it.
LEMMA SendStep == SendInv /\ [Next]_vars => SendInv'
<1> SUFFICES ASSUME SendInv, [Next]_vars PROVE SendInv'
  OBVIOUS
<1>1. setup' = setup
  BY DEF Next, vars
<1>2. CASE UNCHANGED <<commands, sent, loop>>
  BY <1>1, <1>2, SendsKept
<1>3. CASE SessionSteps /\ UNCHANGED mirrorVars
  BY <1>2, <1>3 DEF mirrorVars
<1>4. CASE Crash
  <2>1. /\ DOMAIN loop' = {"stage", "batch", "at", "post"} /\ loop'.at \notin AtCommand
        /\ loop'.stage = "idle" /\ UNCHANGED <<commands, sent>>
    BY <1>4, LoopMoves DEF Crash
  <2> QED  BY <1>1, <2>1, SendsKept
<1>5. CASE Poll
  <2>1. CASE AdvanceCursor
    BY <1>2, <2>1 DEF AdvanceCursor
  <2>2. ASSUME NEW u \in Updates, ProcessText(u) PROVE SendInv'
    <3>1. UNCHANGED <<sent, loop>> /\ \E s, kind : Admit(u, s, kind)
      BY <2>2 DEF ProcessText, Handling
    <3>2. PICK s, kind : Admit(u, s, kind)
      BY <3>1
    <3> QED  BY <1>1, <3>1, <3>2, AdmitKeeps
  <2>3. ASSUME NEW u \in Updates, IgnoreUpdate(u) \/ ConsumePairing(u) PROVE SendInv'
    BY <1>2, <2>3 DEF IgnoreUpdate, ConsumePairing, Handling
  <2> QED  BY <1>5, <2>1, <2>2, <2>3 DEF Poll
<1>6. CASE Supervise
  BY <1>1, <1>6, TurnKeeps, ClaimingKeeps, SendingKeeps, RestKeeps DEF Supervise
<1>7. CASE \/ RetryDue \/ UNCHANGED vars \/ \E s \in Ids : AgentSpeaks(s)
           \/ \E t \in Topics, s \in Ids : ReplaceBinding(t, s)
  BY <1>2, <1>7 DEF RetryDue, AgentSpeaks, ReplaceBinding, vars, mirrorVars
<1> QED  BY <1>3, <1>4, <1>5, <1>6, <1>7 DEF Next

\* At first nothing is stored and nothing was sent.
LEMMA SendStart == Init => SendInv
<1> SUFFICES ASSUME Init PROVE SendInv
  OBVIOUS
<1>1. /\ commands = <<>> /\ sent = [u \in Updates |-> 0] /\ loop = Idle
  BY DEF Init
<1>2. Len(commands) = 0 /\ DOMAIN commands = {} /\ Listed(commands)
  BY <1>1 DEF Listed
<1>3. DOMAIN loop = {"stage", "batch", "at", "post"} /\ loop.at \notin AtCommand /\ loop.stage = "idle"
  BY <1>1, NoneAssumption DEF Idle, AtCommand
<1>4. ClaimedUnsent
  BY <1>3 DEF ClaimedUnsent, AtCommand
<1>5. KeysDiffer /\ PendingUnsent
  BY <1>2 DEF KeysDiffer, PendingUnsent
<1>6. sent \in [Updates -> Nat] /\ SentAdmitted /\ SentOnce
  BY <1>1 DEF SentAdmitted, SentOnce
<1> QED  BY <1>2, <1>3, <1>4, <1>5, <1>6 DEF SendInv

\* Whatever is polled again, lost or stopped between two writes, the text of an update
\* reaches an IDE at most once: the claim from PENDING comes before the send, and an
\* update is never stored as a second command (AdmitRemoteCommand, Worker.RunOnce).
THEOREM TextsAreSentOnce == Spec => []SentOnce
<1>1. SendInv => SentOnce
  BY DEF SendInv
<1> QED  BY <1>1, SendStart, SendStep, PTL DEF Spec
=============================================================================
