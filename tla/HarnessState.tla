---------------------------- MODULE HarnessState ----------------------------
(***************************************************************************)
(* The lifecycle tables of internal/harness/state/transitions.go.  Every   *)
(* state change the engine makes goes through TransitionWorkflow,          *)
(* TransitionNode or TransitionAttempt, which accept a pair exactly when   *)
(* it is an edge of the table; a refused pair rolls the transaction back.  *)
(* "ABSENT" is not a state of the program: it marks a row that does not    *)
(* exist yet.                                                              *)
(***************************************************************************)

WorkflowState == {"CREATED", "VALIDATING", "QUEUED", "RUNNING", "PAUSING",
                  "PAUSED", "BLOCKED", "CANCELLING", "SUCCEEDED", "FAILED",
                  "CANCELLED"}

NodeState == {"PENDING_DEPENDENCIES", "READY", "QUEUED", "RUNNING", "WAITING",
              "RETRY_WAIT", "IN_DOUBT", "UNSCHEDULABLE", "SUCCEEDED",
              "FAILED", "TIMED_OUT", "CANCELLED", "SKIPPED"}

AttemptState == {"CREATED", "CLAIMED", "RUNNING", "SUCCEEDED", "FAILED",
                 "TIMED_OUT", "CANCELLED", "LOST", "IN_DOUBT"}

TerminalWorkflow == {"SUCCEEDED", "FAILED", "CANCELLED"}
TerminalNode == {"SUCCEEDED", "FAILED", "TIMED_OUT", "CANCELLED", "SKIPPED"}
LiveAttempt == {"CLAIMED", "RUNNING"}

WorkflowTransitions ==
  UNION { {"CREATED"} \X {"VALIDATING", "CANCELLED"},
          {"VALIDATING"} \X {"QUEUED", "FAILED", "CANCELLED", "BLOCKED"},
          {"QUEUED"} \X {"RUNNING", "CANCELLING", "CANCELLED", "BLOCKED", "FAILED"},
          {"RUNNING"} \X {"PAUSING", "CANCELLING", "SUCCEEDED", "FAILED", "BLOCKED"},
          {"PAUSING"} \X {"PAUSED", "CANCELLING", "SUCCEEDED", "FAILED", "BLOCKED"},
          {"PAUSED"} \X {"RUNNING", "CANCELLING", "CANCELLED", "FAILED", "BLOCKED"},
          {"CANCELLING"} \X {"CANCELLED", "FAILED"},
          {"BLOCKED"} \X {"RUNNING", "CANCELLING", "CANCELLED", "FAILED"} }

NodeTransitions ==
  UNION { {"PENDING_DEPENDENCIES"} \X {"READY", "SKIPPED", "CANCELLED", "UNSCHEDULABLE"},
          {"READY"} \X {"QUEUED", "WAITING", "SKIPPED", "CANCELLED", "UNSCHEDULABLE"},
          {"QUEUED"} \X {"RUNNING", "CANCELLED", "UNSCHEDULABLE"},
          {"RUNNING"} \X {"WAITING", "RETRY_WAIT", "IN_DOUBT", "SUCCEEDED",
                          "FAILED", "TIMED_OUT", "CANCELLED"},
          {"WAITING"} \X {"READY", "RUNNING", "CANCELLED", "FAILED", "TIMED_OUT"},
          {"RETRY_WAIT"} \X {"READY", "CANCELLED", "FAILED"},
          {"IN_DOUBT"} \X {"SUCCEEDED", "FAILED", "RETRY_WAIT", "CANCELLED"},
          {"UNSCHEDULABLE"} \X {"READY", "CANCELLED", "SKIPPED"} }

AttemptTransitions ==
  UNION { {"CREATED"} \X {"CLAIMED", "CANCELLED"},
          {"CLAIMED"} \X {"RUNNING", "CANCELLED", "LOST"},
          {"RUNNING"} \X {"SUCCEEDED", "FAILED", "TIMED_OUT", "CANCELLED",
                          "LOST", "IN_DOUBT"} }

TransitionWorkflow(from, to) == <<from, to>> \in WorkflowTransitions
TransitionNode(from, to) == <<from, to>> \in NodeTransitions
TransitionAttempt(from, to) == <<from, to>> \in AttemptTransitions
=============================================================================
