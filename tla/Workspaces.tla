----------------------------- MODULE Workspaces -----------------------------
(***************************************************************************)
(* Workspaces of one repository (workspace/manager.go, workspace_store.go) *)
(* as remote sessions take them (remote/workspace/allocator.go): a row of  *)
(* the workspaces table says who may write where, a git worktree gives a   *)
(* session a directory of its own.  The row and the directory are changed  *)
(* one after the other, by processes that may die in between, while        *)
(* Reconcile and GC work through lists they read earlier.                  *)
(*                                                                         *)
(* A session is granted at most Tries workspaces, each under a new id; its *)
(* branch and its directory are named after the session.  Deleting a row   *)
(* keeps its last expiry here, so that it can still be spoken of; the      *)
(* expiry of a released or corrupted row is never read and not kept.  One  *)
(* sweep runs at a time.                                                   *)
(***************************************************************************)
EXTENDS Integers

CONSTANTS
  Holder,      \* remote sessions that ask for a workspace
  Modes,       \* the isolation modes the sessions ask for, together
  Tries,       \* bound: how often a session is granted one
  TTL,         \* how long a lease lasts, in hours
  GracePeriod, \* how much longer GC waits
  MaxHour     \* bound: hours that pass

ASSUME WorkspaceAssumption ==
  /\ Modes \subseteq [Holder -> {"SHARED_READ", "EXCLUSIVE_WRITE", "WORKTREE"}]
  /\ Tries \in Nat \ {0}
  /\ TTL \in Nat \ {0} /\ GracePeriod \in Nat /\ MaxHour \in Nat

VARIABLES
  mode,       \* the IsolationMode of each session
  workspace,  \* workspaces: state and expiry of each row
  worktree,   \* sessions whose worktree directory exists
  branches,   \* sessions whose branch exists
  present,    \* the repository is where it was registered
  missed,     \* history: rows whose directory Reconcile did not find
  holder,     \* where each session is, and the number of its workspace
  sweeper,    \* Reconcile or GC, and the rows it has still to look at
  hour        \* the time

workspaceVars == <<mode, workspace, worktree, branches, present, missed, holder, sweeper, hour>>
Workspace == Holder \X (1..Tries)
NoSweep == [job |-> "none", left |-> {}]
Sweeping(job, rows) == sweeper' = IF rows = {} THEN NoSweep ELSE [job |-> job, left |-> rows]
Mine(h) == <<h, holder[h].n>>
AtPoint(h, pc) == holder[h].pc = pc
Goes(h, pc) == holder' = [holder EXCEPT ![h].pc = pc]

----------------------------------------------------------------------------
(* The table.                                                              *)

NoWorkspace == [state |-> "ABSENT", expires |-> 0]

CreateWorkspace(w) ==
  workspace' = [workspace EXCEPT ![w] = [state |-> "ACTIVE", expires |-> hour + TTL]]

\* An update of a row that is gone is an error and changes nothing.
UpdateWorkspaceState(w, state) ==
  workspace' = IF workspace[w].state \in {"ABSENT", "DELETED"} THEN workspace
               ELSE [workspace EXCEPT ![w] = [state |-> state, expires |-> 0]]

DeleteWorkspace(w) ==
  workspace' = IF workspace[w].state = "ABSENT" THEN workspace
               ELSE [workspace EXCEPT ![w].state = "DELETED"]

ListActiveWorkspaces == {w \in Workspace : workspace[w].state = "ACTIVE"}

----------------------------------------------------------------------------
(* A session's workspace.                                                  *)

Exclusive(h) == mode[h] = "EXCLUSIVE_WRITE"

\* Mutant: a lease that is over does not lock the repository.
RunningLocks(h) ==
  {w \in ListActiveWorkspaces : Exclusive(w[1]) /\ w[1] # h /\ workspace[w].expires >= hour}

\* The rows that lock the repository against h.  Their expiry is not looked at.
Locks(h) == {w \in ListActiveWorkspaces : Exclusive(w[1]) /\ w[1] # h}

\* A worktree starts from a repository that git finds clean (any answer of git
\* is possible, a refusal changes nothing); the other modes do not ask.
InspectRepository(h) ==
  /\ AtPoint(h, "idle")
  /\ holder[h].n < Tries
  /\ mode[h] = "WORKTREE" => present
  /\ Goes(h, "inspected")
  /\ UNCHANGED <<mode, workspace, worktree, branches, present, missed, sweeper, hour>>

\* Manager.Allocate: one transaction looks for a lock and inserts the row.
Allocate(h) ==
  /\ AtPoint(h, "inspected")
  /\ \/ /\ Exclusive(h) => Locks(h) = {}
        /\ CreateWorkspace(<<h, holder[h].n + 1>>)
        /\ holder' = [holder EXCEPT ![h] = [n |-> @.n + 1,
                         pc |-> IF mode[h] = "WORKTREE" THEN "recorded" ELSE "working"]]
     \/ /\ Exclusive(h) /\ Locks(h) # {}
        /\ Goes(h, "idle")
        /\ UNCHANGED workspace
  /\ UNCHANGED <<mode, worktree, branches, present, missed, sweeper, hour>>

\* git worktree add -b: the branch must be new and the directory not be there.
CreateGitWorktree(h) ==
  /\ AtPoint(h, "recorded")
  /\ present /\ h \notin branches \cup worktree
  /\ branches' = branches \cup {h}
  /\ worktree' = worktree \cup {h}
  /\ Goes(h, "working")
  /\ UNCHANGED <<mode, workspace, present, missed, sweeper, hour>>

\* It fails, perhaps with the branch or the directory half made, and the row is
\* released; what git left behind stays.
CreateWorktreeFails(h) ==
  /\ AtPoint(h, "recorded")
  /\ \/ UNCHANGED <<branches, worktree>>
     \/ /\ present /\ h \notin branches \cup worktree
        /\ branches' = branches \cup {h}
        /\ \E there \in SUBSET {h} : worktree' = worktree \cup there
  /\ UpdateWorkspaceState(Mine(h), "RELEASED")
  /\ Goes(h, "idle")
  /\ UNCHANGED <<mode, present, missed, sweeper, hour>>

\* The directory goes first, whatever git says; the branch stays.
RemoveGitWorktree(h) ==
  /\ AtPoint(h, "working")
  /\ mode[h] = "WORKTREE"
  /\ worktree' = worktree \ {h}
  /\ Goes(h, "removed")
  /\ UNCHANGED <<mode, workspace, branches, present, missed, sweeper, hour>>

Release(h) ==
  /\ AtPoint(h, IF mode[h] = "WORKTREE" THEN "removed" ELSE "working")
  /\ UpdateWorkspaceState(Mine(h), "RELEASED")
  /\ Goes(h, "idle")
  /\ UNCHANGED <<mode, worktree, branches, present, missed, sweeper, hour>>

HolderDies(h) ==
  /\ holder[h].pc \in {"inspected", "recorded", "working", "removed"}
  /\ Goes(h, "dead")
  /\ UNCHANGED <<mode, workspace, worktree, branches, present, missed, sweeper, hour>>

----------------------------------------------------------------------------
(* Reconcile and GC.                                                       *)

Directory(w) == IF mode[w[1]] = "WORKTREE" THEN w[1] \in worktree ELSE present

BeginReconcile ==
  /\ sweeper = NoSweep
  /\ Sweeping("reconcile", ListActiveWorkspaces)
  /\ UNCHANGED <<mode, workspace, worktree, branches, present, missed, holder, hour>>

\* A directory that is not there: the row is CORRUPTED, whatever it is by now.
ReconcileWorkspace(w) ==
  /\ sweeper.job = "reconcile" /\ w \in sweeper.left
  /\ Sweeping("reconcile", sweeper.left \ {w})
  /\ IF Directory(w) THEN UNCHANGED <<workspace, missed>>
     ELSE /\ UpdateWorkspaceState(w, "CORRUPTED")
          /\ missed' = missed \cup {w}
  /\ UNCHANGED <<mode, worktree, branches, present, holder, hour>>

BeginWorkspaceGC ==
  /\ sweeper = NoSweep
  /\ Sweeping("gc", {w \in ListActiveWorkspaces : workspace[w].expires < hour - GracePeriod})
  /\ UNCHANGED <<mode, workspace, worktree, branches, present, missed, holder, hour>>

GCWorkspace(w) ==
  /\ sweeper.job = "gc" /\ w \in sweeper.left
  /\ Sweeping("gc", sweeper.left \ {w})
  /\ DeleteWorkspace(w)
  /\ UNCHANGED <<mode, worktree, branches, present, missed, holder, hour>>

SweeperDies ==
  /\ sweeper' = NoSweep
  /\ UNCHANGED <<mode, workspace, worktree, branches, present, missed, holder, hour>>

----------------------------------------------------------------------------
(* The repository and the time.                                            *)

RepositoryMoves ==
  /\ present' = ~present
  /\ UNCHANGED <<mode, workspace, worktree, branches, missed, holder, sweeper, hour>>

HourPasses ==
  /\ hour < MaxHour
  /\ hour' = hour + 1
  /\ UNCHANGED <<mode, workspace, worktree, branches, present, missed, holder, sweeper>>

WorkspacesInit ==
  /\ mode \in Modes
  /\ workspace = [w \in Workspace |-> NoWorkspace]
  /\ worktree = {} /\ branches = {}
  /\ present = TRUE /\ missed = {}
  /\ holder = [h \in Holder |-> [pc |-> "idle", n |-> 0]]
  /\ sweeper = NoSweep
  /\ hour = 0

WorkspacesNext ==
  \/ \E h \in Holder :
       \/ InspectRepository(h) \/ Allocate(h)
       \/ CreateGitWorktree(h) \/ CreateWorktreeFails(h)
       \/ RemoveGitWorktree(h) \/ Release(h) \/ HolderDies(h)
  \/ BeginReconcile \/ BeginWorkspaceGC \/ SweeperDies
  \/ \E w \in Workspace : ReconcileWorkspace(w) \/ GCWorkspace(w)
  \/ RepositoryMoves \/ HourPasses

----------------------------------------------------------------------------
\* The lock of a session that is at work was taken from it: its lease had been
\* over for more than the grace period, or its directory was not found.
Dispossessed(h) ==
  \/ Mine(h) \in missed
  \/ workspace[Mine(h)].state = "DELETED" /\ workspace[Mine(h)].expires < hour - GracePeriod

\* One writer (Manager.Allocate's conflict check): of two sessions at work in the
\* repository itself, one has been dispossessed, whoever died, swept or came back
\* before; and a session at work in a worktree has its directory.
OneWriter ==
  /\ \A h, i \in Holder :
       h # i /\ Exclusive(h) /\ Exclusive(i) /\ AtPoint(h, "working") /\ AtPoint(i, "working")
       => Dispossessed(h) \/ Dispossessed(i)
  /\ \A h \in Holder : mode[h] = "WORKTREE" /\ AtPoint(h, "working") => h \in worktree
=============================================================================
