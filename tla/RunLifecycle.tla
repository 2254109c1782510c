---------------------------- MODULE RunLifecycle ----------------------------
(***************************************************************************)
(* The run state machine every surface shares: the states of an agent run, *)
(* the legal edges between them and the terminal states.  Storage consults *)
(* it before it writes a status (updateRunStatus, completeRunRollback).    *)
(***************************************************************************)

RunStates ==
  {"idle", "planning", "searching", "reading", "editing", "tool_use",
   "waiting_for_user_approval", "applying_patch", "running_command",
   "verifying", "repairing", "done", "failed", "cancelled",
   "budget_exceeded"}

Terminal == {"done", "failed", "cancelled", "budget_exceeded"}

\* How a run that is still working may end early.
Interrupted == {"failed", "cancelled", "budget_exceeded"}

RunTransitions ==
  [idle            |-> {"planning", "tool_use", "done", "failed", "cancelled"},
   planning        |-> {"searching", "reading", "tool_use",
                        "waiting_for_user_approval"} \cup Interrupted,
   searching       |-> {"reading", "editing", "tool_use",
                        "waiting_for_user_approval"} \cup Interrupted,
   reading         |-> {"searching", "editing", "tool_use",
                        "waiting_for_user_approval"} \cup Interrupted,
   editing         |-> {"tool_use", "waiting_for_user_approval",
                        "applying_patch"} \cup Interrupted,
   tool_use        |-> {"planning", "waiting_for_user_approval",
                        "applying_patch", "running_command", "verifying",
                        "repairing", "done"} \cup Interrupted,
   waiting_for_user_approval |->
                       {"tool_use", "applying_patch",
                        "running_command"} \cup Interrupted,
   applying_patch  |-> {"tool_use", "running_command", "verifying",
                        "repairing", "done"} \cup Interrupted,
   running_command |-> {"tool_use", "verifying", "repairing",
                        "done"} \cup Interrupted,
   verifying       |-> {"tool_use", "repairing", "done"} \cup Interrupted,
   repairing       |-> {"tool_use", "waiting_for_user_approval",
                        "applying_patch", "verifying",
                        "done"} \cup Interrupted,
   done            |-> {"tool_use", "cancelled"},
   failed          |-> {"tool_use", "cancelled"},
   cancelled       |-> {"tool_use"},
   budget_exceeded |-> {"tool_use", "cancelled"}]

\* Writing the state a run already has is accepted as well.
CanTransition(from, to) == from = to \/ to \in RunTransitions[from]

=============================================================================
