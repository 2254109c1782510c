---------------------------- MODULE AgentService ----------------------------
(***************************************************************************)
(* The agent service of the runtime: one asynchronous tool-use loop per    *)
(* run, and the user's calls (run, continue, stop, apply, reject, roll     *)
(* back, clear) that interleave with it at its awaits.                     *)
(*                                                                         *)
(* Node runs one thread.  A call of the user and the completion of an I/O  *)
(* operation are tasks; the code that follows a resolved promise runs      *)
(* before the next task.  A loop whose program counter is in MicroPCs, or  *)
(* that is parked with its answer given, has such code left to run: every  *)
(* task waits until no loop has (Quiet).                                   *)
(***************************************************************************)
EXTENDS RunLifecycle, Naturals

CONSTANTS
  Runs,              \* the runs of one workspace
  CallIds,           \* tool-call identifiers a model may emit (it may repeat one)
  CallKinds,         \* the kinds of tool a model may call
  SettingsChoices,   \* the agent settings a loop may read when it starts
  MaxIterations, MaxToolCalls,   \* budget limits
  MaxRepairAttempts,             \* verified patches in a row
  MaxCallsPerTurn,               \* bound: tool calls in one model turn
  RollbackWhenLive               \* may a rollback reach a run whose loop is live?

AllKinds == {"read", "patch", "memory", "dynamic", "command"}

AllSettings ==
  [readOnly : BOOLEAN, shell : BOOLEAN, sandbox : BOOLEAN, confirm : BOOLEAN]

ASSUME ConstantsAssumption ==
  /\ CallKinds \subseteq AllKinds
  /\ SettingsChoices \subseteq AllSettings
  /\ MaxIterations \in Nat
  /\ MaxToolCalls \in Nat
  /\ MaxRepairAttempts \in Nat
  /\ MaxCallsPerTurn \in Nat \ {0}
  /\ RollbackWhenLive \in BOOLEAN

VARIABLES
  row,       \* agent_runs: status, exit reason, whether a conversation is stored
  mem,       \* the service's maps: controllers, approvals, pending
  loop,      \* the local state of driveLoop and the react loop
  consent,   \* history: what the user approved of the call at hand
  degraded,  \* the installation gate refuses unsafe tools
  up         \* the process runs

vars == <<row, mem, loop, consent, degraded, up>>

Calls == [id : CallIds, kind : CallKinds]
NoCall == [id |-> "none", kind |-> "none"]
NoSettings ==
  [readOnly |-> TRUE, shell |-> FALSE, sandbox |-> FALSE, confirm |-> FALSE]

PendingKinds == {"none", "patch", "mutation", "command_confirm", "command_writeback"}

ExitReasons == {"none", "done", "failure", "cancelled", "budget", "rolled_back",
                "interrupted_restart"}

\* How a loop ends: what the react loop returned, or that something threw.
Outcomes == {"none", "done", "failed", "threw", "cancelled", "budget_exceeded"}

\* Program counters whose code runs to its next await before any other task.
MicroPCs == {"top", "next", "exec", "teardown"}
ParkedPCs == {"parked", "writeback"}
AwaitPCs == {"init", "baseline", "compress", "model", "patching", "tool",
             "sandbox", "diff", "applying", "cleanup", "verifying"}

IdleLoop ==
  [pc |-> "idle", aborted |-> FALSE, decision |-> "none", call |-> NoCall,
   todo |-> 0, iterations |-> 0, toolCalls |-> 0, repairs |-> 0,
   grants |-> {}, settings |-> NoSettings, outcome |-> "none"]

NoMem == [controller |-> FALSE, approval |-> FALSE, pending |-> "none"]

\* Calls and completions that find a run's row gone are swallowed
\* (isStaleRunStorageError).
HasRow(r) == row[r].status \in RunStates

Live(r) == loop[r].pc # "idle"

Micro(r) == \/ loop[r].pc \in MicroPCs
            \/ loop[r].pc \in ParkedPCs /\ loop[r].decision # "none"

\* The thread is free for the next task.
Quiet == up /\ \A r \in Runs : ~Micro(r)

-----------------------------------------------------------------------------
(***************************************************************************)
(* Storage and settings                                                    *)
(***************************************************************************)

\* updateRunStatus refuses an edge RunTransitions lacks: setStatus then throws.
\* A missing row throws too, but setStatus swallows that.
MaySet(r, status) == HasRow(r) => CanTransition(row[r].status, status)

WithStatus(w, status) == IF w.status \in RunStates THEN [w EXCEPT !.status = status] ELSE w

SetStatus(r, status) == row' = [row EXCEPT ![r] = WithStatus(@, status)]

Closed(w, status, reason) == [w EXCEPT !.status = status, !.exitReason = reason]

\* failRun: a run that is gone or has ended keeps its record.
Failed(w) ==
  IF w.status \in RunStates \ Terminal
  THEN Closed(w, "failed", "failure")
  ELSE w

\* reconcileInterruptedRuns on one row the dead process owned.
Reconciled(w) ==
  IF w.status \in RunStates \ Terminal
  THEN Closed(w, "failed", "interrupted_restart")
  ELSE w

Mutating(kind) == kind # "read"

\* classify(call).control = "per_call_approval"
PerCallApproval(kind, settings) ==
  \/ kind \in {"patch", "memory", "dynamic"}
  \/ kind = "command" /\ settings.confirm

\* assertToolAllowed, extended to mutating plugin tools.
GateRefuses(kind) == degraded /\ kind \in {"patch", "command", "dynamic"}

RequiresApproval(kind, settings) ==
  ~settings.readOnly /\ ~GateRefuses(kind) /\ PerCallApproval(kind, settings)

PendingOf(kind) ==
  CASE kind = "patch"   -> "patch"
    [] kind = "command" -> "command_confirm"
    [] OTHER            -> "mutation"

-----------------------------------------------------------------------------
(***************************************************************************)
(* Steps of a loop                                                         *)
(***************************************************************************)

Asking(m, pending) == [m EXCEPT !.pending = pending, !.approval = TRUE]

Goto(r, l) == loop' = [loop EXCEPT ![r] = l]

End(l, outcome) == [l EXCEPT !.pc = "teardown", !.outcome = outcome]

\* loopErrorToOutcome: an exception out of the react loop after an abort is a
\* cancellation.
Threw(l) == End(l, IF l.aborted THEN "cancelled" ELSE "threw")

\* An abort check: cancelled if aborted, on to pc otherwise.
Checked(l, pc) == IF l.aborted THEN End(l, "cancelled") ELSE [l EXCEPT !.pc = pc]

\* The result of a call that is not a patch: the repair streak ends.
Returned(l) == [l EXCEPT !.pc = "next", !.repairs = 0]

\* The verify command runs on a read-write loop whose shell is enabled, if the
\* project has one: pcs at which driveLoop may arrive at its first await.
EntryPCs(settings) ==
  IF settings.readOnly \/ ~settings.shell THEN {"top"} ELSE {"top", "baseline"}

\* driveLoop: settings are read once, at its entry.
DriveLoop(r, aborted) ==
  \E settings \in SettingsChoices : \E pc \in EntryPCs(settings) :
    Goto(r, [IdleLoop EXCEPT !.pc = pc, !.aborted = aborted, !.settings = settings])

\* runTask's await of phase1InitContext: the prompt files are read.
InitDone(r) ==
  /\ Quiet /\ loop[r].pc = "init"
  /\ DriveLoop(r, loop[r].aborted)
  /\ UNCHANGED <<row, mem, consent, degraded, up>>

\* Mutant: the failed start forgets to delete the controller.
InitFailsKeepsController(r) ==
  /\ Quiet /\ loop[r].pc = "init"
  /\ row' = [row EXCEPT ![r] = Failed(@)]
  /\ Goto(r, IdleLoop)
  /\ UNCHANGED <<mem, consent, degraded, up>>

InitFails(r) ==
  /\ Quiet /\ loop[r].pc = "init"
  /\ row' = [row EXCEPT ![r] = Failed(@)]
  /\ mem' = [mem EXCEPT ![r] = [@ EXCEPT !.controller = FALSE]]
  /\ Goto(r, IdleLoop)
  /\ UNCHANGED <<consent, degraded, up>>

\* Mutant: an aborted baseline command never settles its promise.
BaselineHangs(r) ==
  /\ Quiet /\ loop[r].pc = "baseline" /\ ~loop[r].aborted
  /\ Goto(r, [loop[r] EXCEPT !.pc = "top"])
  /\ UNCHANGED <<row, mem, consent, degraded, up>>

\* captureBaseline swallows whatever its command does.
BaselineDone(r) ==
  /\ Quiet /\ loop[r].pc = "baseline"
  /\ Goto(r, [loop[r] EXCEPT !.pc = "top"])
  /\ UNCHANGED <<row, mem, consent, degraded, up>>

\* The head of the react loop.
StopAtTop(r) ==
  /\ up /\ loop[r].pc = "top" /\ loop[r].aborted
  /\ Goto(r, End(loop[r], "cancelled"))
  /\ UNCHANGED <<row, mem, consent, degraded, up>>

\* Cost and wall time may be exhausted at any iteration.
BudgetExhausted(r) ==
  /\ up /\ loop[r].pc = "top" /\ ~loop[r].aborted
  /\ Goto(r, End(loop[r], "budget_exceeded"))
  /\ UNCHANGED <<row, mem, consent, degraded, up>>

WithinBudget(l) == l.iterations < MaxIterations /\ l.toolCalls < MaxToolCalls

\* The conversation is compressed first when it outgrows the window.
StartIteration(r) ==
  /\ up /\ loop[r].pc = "top" /\ ~loop[r].aborted /\ WithinBudget(loop[r])
  /\ \E pc \in {"compress", "model"} :
       Goto(r, [loop[r] EXCEPT !.pc = pc, !.iterations = @ + 1])
  /\ UNCHANGED <<row, mem, consent, degraded, up>>

CompressDone(r) ==
  /\ Quiet /\ loop[r].pc = "compress"
  /\ Goto(r, Checked(loop[r], "model"))
  /\ UNCHANGED <<row, mem, consent, degraded, up>>

\* The stream throws (a failure the provider does not report in band).
ModelThrows(r) ==
  /\ Quiet /\ loop[r].pc = "model"
  /\ Goto(r, Threw(loop[r]))
  /\ UNCHANGED <<row, mem, consent, degraded, up>>

\* The turn ends: onAssistant writes tool_use (every state may go there), then
\* an abort wins over an error, and an error over the tool calls.
ModelDone(r) ==
  /\ Quiet /\ loop[r].pc = "model"
  /\ SetStatus(r, "tool_use")
  /\ \/ /\ loop[r].aborted
        /\ Goto(r, End(loop[r], "cancelled"))
     \/ /\ ~loop[r].aborted
        /\ \E outcome \in {"failed", "done"} : Goto(r, End(loop[r], outcome))
     \/ /\ ~loop[r].aborted
        /\ \E n \in 1..MaxCallsPerTurn :
             Goto(r, [loop[r] EXCEPT !.pc = "next", !.todo = n])
  /\ UNCHANGED <<mem, consent, degraded, up>>

\* The calls of the turn are exhausted, or the run was stopped meanwhile.
TurnEnds(r) ==
  /\ up /\ loop[r].pc = "next" /\ (loop[r].todo = 0 \/ loop[r].aborted)
  /\ Goto(r, IF loop[r].todo = 0 THEN [loop[r] EXCEPT !.pc = "top"]
             ELSE End(loop[r], "cancelled"))
  /\ UNCHANGED <<row, mem, consent, degraded, up>>

\* Taken(l, call): the next call is counted.
Taken(l, call) ==
  [l EXCEPT !.call = call, !.todo = @ - 1, !.toolCalls = @ + 1]

\* Mutant: the calls of a turn are taken without looking at the abort signal.
NextCallUnchecked(r, call) ==
  /\ up /\ loop[r].pc = "next" /\ loop[r].todo > 0
  /\ consent' = [consent EXCEPT ![r] = {}]
  /\ UNCHANGED <<degraded, up>>

NextCall(r, call) ==
  /\ up /\ loop[r].pc = "next" /\ loop[r].todo > 0 /\ ~loop[r].aborted
  /\ consent' = [consent EXCEPT ![r] = {}]
  /\ UNCHANGED <<degraded, up>>

UngatedCall(r, call) ==
  /\ NextCall(r, call)
  /\ ~RequiresApproval(call.kind, loop[r].settings)
  /\ Goto(r, [Taken(loop[r], call) EXCEPT !.pc = "exec"])
  /\ UNCHANGED <<row, mem>>

\* awaitApproval and its variants: the pending entry is set before setStatus,
\* the approval after it, so an illegal edge leaves the entry and throws.
GatedCall(r, call) ==
  /\ NextCall(r, call)
  /\ RequiresApproval(call.kind, loop[r].settings)
  /\ LET l == Taken(loop[r], call)
         pending == PendingOf(call.kind)
     IN IF MaySet(r, "waiting_for_user_approval")
        THEN /\ SetStatus(r, "waiting_for_user_approval")
             /\ mem' = [mem EXCEPT ![r] = Asking(@, pending)]
             /\ Goto(r, [l EXCEPT !.pc = "parked"])
        ELSE /\ mem' = [mem EXCEPT ![r] = [@ EXCEPT !.pending = pending]]
             /\ Goto(r, Threw(l))
             /\ UNCHANGED row

\* waitForMutationApproval returns: a granted call goes on to the executor.
Resume(r) ==
  /\ up /\ loop[r].pc = "parked" /\ loop[r].decision # "none"
  /\ LET l == [loop[r] EXCEPT !.decision = "none"]
     IN Goto(r, IF loop[r].decision = "no" THEN End(l, "cancelled")
                ELSE Checked([l EXCEPT !.grants = @ \cup {l.call}], "exec"))
  /\ UNCHANGED <<row, mem, consent, degraded, up>>

-----------------------------------------------------------------------------
(***************************************************************************)
(* The executor and the tools                                              *)
(***************************************************************************)

\* The executor refuses a call before it looks for a grant.
Disabled(l) ==
  \/ l.settings.readOnly /\ Mutating(l.call.kind)
  \/ l.call.kind = "command" /\ ~l.settings.shell
  \/ GateRefuses(l.call.kind)

NeedsGrant(l) == PerCallApproval(l.call.kind, l.settings)

Refused(l) == Disabled(l) \/ (NeedsGrant(l) /\ l.call \notin l.grants)

\* A patch returns.  The streak is only compared with the cap, so it stops
\* counting just above it.
PatchReturns(r, applied) ==
  LET streak == IF loop[r].repairs > MaxRepairAttempts
                THEN loop[r].repairs ELSE loop[r].repairs + 1
      l == [loop[r] EXCEPT !.repairs = streak]
  IN \/ /\ Goto(r, Checked(l, "next"))
        /\ UNCHANGED row
     \/ \* verifyPatch finds a command to run
        /\ applied /\ streak <= MaxRepairAttempts /\ l.settings.shell
        /\ ~l.aborted /\ MaySet(r, "verifying")
        /\ SetStatus(r, "verifying")
        /\ Goto(r, [l EXCEPT !.pc = "verifying"])

RefuseCall(r) ==
  /\ up /\ loop[r].pc = "exec" /\ Refused(loop[r])
  /\ \/ /\ loop[r].call.kind = "patch"
        /\ PatchReturns(r, FALSE)
     \/ /\ loop[r].call.kind # "patch"
        /\ Goto(r, Returned(loop[r]))
        /\ UNCHANGED row
  /\ UNCHANGED <<mem, consent, degraded, up>>

\* A grant is consumed before the tool starts.
ToolPC(l) == CASE l.call.kind = "patch"                        -> "patching"
               [] l.call.kind = "command" /\ l.settings.sandbox -> "sandbox"
               [] OTHER                                         -> "tool"

Execute(r) ==
  /\ up /\ loop[r].pc = "exec" /\ ~Refused(loop[r])
  /\ Goto(r, [loop[r] EXCEPT !.pc = ToolPC(loop[r]), !.grants = @ \ {loop[r].call}])
  /\ UNCHANGED <<row, mem, consent, degraded, up>>

\* applyPatchTool lands or throws (the executor turns the throw into a result).
PatchDone(r) ==
  /\ Quiet /\ loop[r].pc = "patching"
  /\ \E applied \in BOOLEAN : PatchReturns(r, applied)
  /\ UNCHANGED <<mem, consent, degraded, up>>

ToolDone(r) ==
  /\ Quiet /\ loop[r].pc = "tool"
  /\ Goto(r, Returned(loop[r]))
  /\ UNCHANGED <<row, mem, consent, degraded, up>>

\* A sandboxed command: run in a staging copy, diffed, and synchronised after
\* the user's approval.  An abort makes the runner reject; nothing looks at it
\* later.
SandboxDone(r) ==
  /\ Quiet /\ loop[r].pc = "sandbox"
  /\ \E pc \in IF loop[r].aborted THEN {"cleanup"} ELSE {"diff", "cleanup"} :
       Goto(r, [loop[r] EXCEPT !.pc = pc])
  /\ UNCHANGED <<row, mem, consent, degraded, up>>

\* No change, a binary change, or the diff fails.
NothingStaged(r) ==
  /\ Quiet /\ loop[r].pc = "diff"
  /\ Goto(r, [loop[r] EXCEPT !.pc = "cleanup"])
  /\ UNCHANGED <<row, mem, consent, degraded, up>>

\* Mutant: the approval is registered without its pending entry.
ChangesStagedUnlisted(r) ==
  /\ Quiet /\ loop[r].pc = "diff"
  /\ SetStatus(r, "waiting_for_user_approval")
  /\ mem' = [mem EXCEPT ![r] = [@ EXCEPT !.approval = TRUE]]
  /\ Goto(r, [loop[r] EXCEPT !.pc = "writeback"])
  /\ UNCHANGED <<consent, degraded, up>>

\* awaitWritebackApproval; what it throws ends the command, not the loop.
ChangesStaged(r) ==
  /\ Quiet /\ loop[r].pc = "diff"
  /\ IF MaySet(r, "waiting_for_user_approval")
     THEN /\ SetStatus(r, "waiting_for_user_approval")
          /\ mem' = [mem EXCEPT ![r] = Asking(@, "command_writeback")]
          /\ Goto(r, [loop[r] EXCEPT !.pc = "writeback"])
     ELSE /\ mem' = [mem EXCEPT ![r] = [@ EXCEPT !.pending = "command_writeback"]]
          /\ Goto(r, [loop[r] EXCEPT !.pc = "cleanup"])
          /\ UNCHANGED row
  /\ UNCHANGED <<consent, degraded, up>>

WritebackAnswered(r) ==
  /\ up /\ loop[r].pc = "writeback" /\ loop[r].decision # "none"
  /\ Goto(r, [loop[r] EXCEPT !.decision = "none",
                !.pc = IF loop[r].decision = "yes" THEN "applying" ELSE "cleanup"])
  /\ UNCHANGED <<row, mem, consent, degraded, up>>

ApplyingDone(r) ==
  /\ Quiet /\ loop[r].pc = "applying"
  /\ Goto(r, [loop[r] EXCEPT !.pc = "cleanup"])
  /\ UNCHANGED <<row, mem, consent, degraded, up>>

CleanupDone(r) ==
  /\ Quiet /\ loop[r].pc = "cleanup"
  /\ Goto(r, Returned(loop[r]))
  /\ UNCHANGED <<row, mem, consent, degraded, up>>

\* The verify command could not run, or the run was stopped meanwhile: the
\* status stays.
VerifyFails(r) ==
  /\ Quiet /\ loop[r].pc = "verifying"
  /\ Goto(r, Checked(loop[r], "next"))
  /\ UNCHANGED <<row, mem, consent, degraded, up>>

\* The verdict; what an illegal edge throws is swallowed by the react loop.
VerifyDone(r) ==
  /\ Quiet /\ loop[r].pc = "verifying" /\ ~loop[r].aborted
  /\ \E status \in {"tool_use", "repairing"} :
       IF MaySet(r, status) THEN SetStatus(r, status) ELSE UNCHANGED row
  /\ Goto(r, [loop[r] EXCEPT !.pc = "next"])
  /\ UNCHANGED <<mem, consent, degraded, up>>

-----------------------------------------------------------------------------
(***************************************************************************)
(* The end of driveLoop: the conversation is saved, the exit reason and    *)
(* then the status are written, and the finally block clears the maps.     *)
(* When the status is refused, runTask's catch calls failRun.              *)
(***************************************************************************)

FinalStatus(outcome) ==
  IF outcome \in {"done", "cancelled", "budget_exceeded"} THEN outcome ELSE "failed"

ExitReasonOf(outcome) ==
  CASE outcome = "done"            -> "done"
    [] outcome = "cancelled"       -> "cancelled"
    [] outcome = "budget_exceeded" -> "budget"
    [] OTHER                       -> "failure"

\* Mutant: the finally block deletes the controller only.
TeardownKeepsPending(r) ==
  /\ up /\ loop[r].pc = "teardown"
  /\ SetStatus(r, FinalStatus(loop[r].outcome))
  /\ mem' = [mem EXCEPT ![r] = [@ EXCEPT !.controller = FALSE]]
  /\ Goto(r, IdleLoop)
  /\ UNCHANGED <<consent, degraded, up>>

Teardown(r) ==
  /\ up /\ loop[r].pc = "teardown"
  /\ LET final == FinalStatus(loop[r].outcome)
         saved == IF HasRow(r)
                  THEN [row[r] EXCEPT !.messages = TRUE,
                                      !.exitReason = ExitReasonOf(loop[r].outcome)]
                  ELSE row[r]
     IN row' = [row EXCEPT ![r] = IF MaySet(r, final) THEN WithStatus(saved, final)
                                  ELSE Failed(saved)]
  /\ mem' = [mem EXCEPT ![r] = NoMem]
  /\ Goto(r, IdleLoop)
  /\ consent' = [consent EXCEPT ![r] = {}]
  /\ UNCHANGED <<degraded, up>>

-----------------------------------------------------------------------------
(***************************************************************************)
(* The user's calls                                                        *)
(***************************************************************************)

\* Mutant: whatever the call, a parked approval is resolved with TRUE.
AnsweredYes(r, l, decision) ==
  IF mem[r].approval THEN [l EXCEPT !.decision = "yes"] ELSE l

Answered(r, l, decision) == IF mem[r].approval THEN [l EXCEPT !.decision = decision] ELSE l

\* createRun, then resolveLLM: a missing provider fails the run at once.
RunTask(r) ==
  /\ Quiet /\ row[r].status = "fresh"
  /\ \/ /\ row' = [row EXCEPT ![r] = Closed(@, "failed", "failure")]
        /\ UNCHANGED <<mem, loop>>
     \/ /\ row' = [row EXCEPT ![r] = [@ EXCEPT !.status = "tool_use"]]
        /\ mem' = [mem EXCEPT ![r] = [@ EXCEPT !.controller = TRUE]]
        /\ Goto(r, [IdleLoop EXCEPT !.pc = "init"])
  /\ UNCHANGED <<consent, degraded, up>>

\* A follow-up on a run with a stored conversation and no live controller.
ContinueTask(r) ==
  /\ Quiet /\ HasRow(r) /\ ~mem[r].controller /\ row[r].messages
  /\ \/ /\ row' = [row EXCEPT ![r] = Closed(@, "failed", "failure")]
        /\ UNCHANGED <<mem, loop>>
     \/ /\ SetStatus(r, "tool_use")
        /\ mem' = [mem EXCEPT ![r] = [@ EXCEPT !.controller = TRUE]]
        /\ DriveLoop(r, FALSE)
  /\ UNCHANGED <<consent, degraded, up>>

\* Mutant: the abort signal fires and the parked approval is left alone.
StopOnlyAborts(r) ==
  /\ Quiet /\ mem[r].controller
  /\ loop' = [loop EXCEPT ![r].aborted = TRUE]
  /\ UNCHANGED <<row, mem, consent, degraded, up>>

\* The abort reaches the loop through its controller; a parked approval is
\* answered with a refusal.  The pending entry stays until the loop ends.
Stop(r) ==
  /\ Quiet /\ (mem[r].controller \/ mem[r].approval)
  /\ Goto(r, [Answered(r, loop[r], "no") EXCEPT !.aborted = @ \/ mem[r].controller])
  /\ mem' = [mem EXCEPT ![r] = [@ EXCEPT !.approval = FALSE]]
  /\ UNCHANGED <<row, consent, degraded, up>>

\* Mutant: a run between two model turns counts as quiescent.
LiveStatusesWithoutToolUse == {"applying_patch", "verifying", "repairing"}

LiveStatuses == {"applying_patch", "verifying", "repairing", "tool_use"}

\* Mutant: the rejected approval is deleted and never resolved.
RejectPatchForgets(r) ==
  /\ Quiet /\ (HasRow(r) \/ mem[r].approval)
  /\ mem' = [mem EXCEPT ![r] = [@ EXCEPT !.approval = FALSE, !.pending = "none"]]
  /\ UNCHANGED <<row, loop, consent, degraded, up>>

RejectPatch(r) ==
  /\ Quiet /\ (HasRow(r) \/ mem[r].approval)
  /\ mem' = [mem EXCEPT ![r] = [@ EXCEPT !.approval = FALSE, !.pending = "none"]]
  /\ Goto(r, Answered(r, loop[r], "no"))
  /\ IF ~mem[r].approval /\ row[r].status \notin LiveStatuses /\ MaySet(r, "cancelled")
     THEN SetStatus(r, "cancelled")
     ELSE UNCHANGED row
  /\ UNCHANGED <<consent, degraded, up>>

\* The approval is removed, then the status written, then the promise resolved:
\* a refused status leaves the promise unresolved.
ApplyPatch(r) ==
  /\ Quiet /\ mem[r].approval
  /\ mem' = [mem EXCEPT ![r] = [@ EXCEPT !.approval = FALSE, !.pending = "none"]]
  /\ LET status == IF mem[r].pending \in {"mutation", "command_confirm"}
                   THEN "tool_use" ELSE "applying_patch"
     IN IF MaySet(r, status)
        THEN /\ SetStatus(r, status)
             /\ Goto(r, [loop[r] EXCEPT !.decision = "yes"])
             /\ consent' = [consent EXCEPT ![r] = @ \cup
                  {IF loop[r].pc = "writeback" THEN "write" ELSE "call"}]
        ELSE UNCHANGED <<row, loop, consent>>
  /\ UNCHANGED <<degraded, up>>

\* The files are restored synchronously (module WorkspaceEdits), then the record
\* is closed.  Neither the controller nor an approval is touched.
Rollback(r) ==
  /\ Quiet /\ HasRow(r) /\ (RollbackWhenLive \/ ~Live(r))
  /\ MaySet(r, "cancelled")
  /\ row' = [row EXCEPT ![r] = Closed(@, "cancelled", "rolled_back")]
  /\ mem' = [mem EXCEPT ![r] = [@ EXCEPT !.pending = "none"]]
  /\ UNCHANGED <<loop, consent, degraded, up>>

\* Every run of the workspace is aborted, forgotten and deleted; the loops
\* find out at their next abort check.
ClearRuns ==
  LET listed == {r \in Runs : HasRow(r)}
  IN /\ Quiet /\ listed # {}
     /\ loop' = [r \in Runs |->
          IF r \in listed
          THEN [Answered(r, loop[r], "no") EXCEPT !.aborted = @ \/ mem[r].controller]
          ELSE loop[r]]
     /\ mem' = [r \in Runs |-> IF r \in listed THEN NoMem ELSE mem[r]]
     /\ row' = [r \in Runs |->
          IF r \in listed
          THEN [status |-> "deleted", exitReason |-> "none", messages |-> FALSE]
          ELSE row[r]]
     /\ UNCHANGED <<consent, degraded, up>>

\* The installation gate opens or closes: the user skips or resumes the
\* prompt, or a probe finds Docker started or stopped.
GateChanges ==
  /\ Quiet /\ degraded' = ~degraded
  /\ UNCHANGED <<row, mem, loop, consent, up>>

-----------------------------------------------------------------------------
(***************************************************************************)
(* The process dies, and starts again: every run it owned and left open is *)
(* reconciled before the service takes calls (reconcileInterruptedRuns).   *)
(***************************************************************************)

Crash ==
  /\ up /\ up' = FALSE
  /\ mem' = [r \in Runs |-> NoMem]
  /\ loop' = [r \in Runs |-> IdleLoop]
  /\ consent' = [r \in Runs |-> {}]
  /\ UNCHANGED <<row, degraded>>

Restart ==
  /\ ~up /\ up' = TRUE
  /\ row' = [r \in Runs |-> Reconciled(row[r])]
  /\ UNCHANGED <<mem, loop, consent, degraded>>

-----------------------------------------------------------------------------
Init ==
  /\ row = [r \in Runs |-> [status |-> "fresh", exitReason |-> "none", messages |-> FALSE]]
  /\ mem = [r \in Runs |-> NoMem]
  /\ loop = [r \in Runs |-> IdleLoop]
  /\ consent = [r \in Runs |-> {}]
  /\ degraded \in BOOLEAN
  /\ up = TRUE

\* What a loop does by itself once the I/O it awaits completes.
LoopStep(r) ==
  \/ InitDone(r) \/ InitFails(r) \/ BaselineDone(r)
  \/ StopAtTop(r) \/ BudgetExhausted(r) \/ StartIteration(r)
  \/ CompressDone(r) \/ ModelThrows(r) \/ ModelDone(r)
  \/ TurnEnds(r)
  \/ \E call \in Calls : UngatedCall(r, call) \/ GatedCall(r, call)
  \/ Resume(r) \/ RefuseCall(r) \/ Execute(r)
  \/ PatchDone(r) \/ ToolDone(r)
  \/ SandboxDone(r) \/ NothingStaged(r) \/ ChangesStaged(r)
  \/ WritebackAnswered(r) \/ ApplyingDone(r) \/ CleanupDone(r)
  \/ VerifyFails(r) \/ VerifyDone(r)
  \/ Teardown(r)

UserCall(r) ==
  RunTask(r) \/ ContinueTask(r) \/ Stop(r) \/ RejectPatch(r) \/ ApplyPatch(r) \/ Rollback(r)

Environment == ClearRuns \/ GateChanges \/ Crash \/ Restart

Next == (\E r \in Runs : LoopStep(r) \/ UserCall(r)) \/ Environment

Spec == Init /\ [][Next]_vars

\* Model calls, commands and file operations all end (HTTP requests and commands
\* have timeouts), and the event loop serves every completion in its turn.  The
\* user owes the program nothing.
FairSpec == Spec /\ \A r \in Runs : SF_vars(LoopStep(r))

-----------------------------------------------------------------------------
(***************************************************************************)
(* Properties                                                              *)
(***************************************************************************)

RowType == [status : RunStates \cup {"fresh", "deleted"},
            exitReason : ExitReasons, messages : BOOLEAN]

MemType == [controller : BOOLEAN, approval : BOOLEAN, pending : PendingKinds]

LoopType ==
  [pc : {"idle"} \cup MicroPCs \cup ParkedPCs \cup AwaitPCs,
   aborted : BOOLEAN, decision : {"none", "yes", "no"}, call : Calls \cup {NoCall},
   todo : 0..MaxCallsPerTurn, iterations : 0..MaxIterations,
   toolCalls : Nat, repairs : 0..(MaxRepairAttempts + 1),
   grants : SUBSET (Calls \cup {NoCall}), settings : SettingsChoices \cup {NoSettings},
   outcome : Outcomes]

\* Every variable holds a value of its type: the budget's iterations and the
\* repair streak within their limits.
TypeOK ==
  /\ row \in [Runs -> RowType]
  /\ mem \in [Runs -> MemType]
  /\ loop \in [Runs -> LoopType]
  /\ consent \in [Runs -> SUBSET {"call", "write"}]
  /\ degraded \in BOOLEAN
  /\ up \in BOOLEAN

\* A patch, a memory write, a plugin's mutation and, when the setting asks for
\* it, a command run only after the user approved this very call, and sandboxed
\* changes reach the workspace only after the user approved them: whatever
\* stops, clears, gate changes and repeated call ids came in between.
ConsentBeforeMutation ==
  \A r \in Runs :
    LET l == loop[r] IN
      /\ l.pc \in {"patching", "tool", "sandbox", "diff", "writeback", "applying"}
           /\ PerCallApproval(l.call.kind, l.settings)
         => "call" \in consent[r]
      /\ l.pc = "applying" => "write" \in consent[r]

\* The controllers map tells live runs from finished ones: a run that has a
\* row has a controller exactly while its loop is live.  So Stop reaches every
\* live loop, and continueTask never starts a second loop on one run.
ControllerIffLive ==
  \A r \in Runs : /\ HasRow(r) => (mem[r].controller <=> Live(r))
                  /\ ~HasRow(r) => ~mem[r].controller

\* A run whose record is open has a loop that will close it: neither a missing
\* provider, nor a failure, nor a crash and restart leaves it open for ever.
NoOrphanRun ==
  up => \A r \in Runs :
          HasRow(r) /\ row[r].status \notin Terminal => Live(r)

\* A loop that ended left nothing behind in the service's maps.
NothingLeftBehind ==
  \A r \in Runs : ~Live(r) => mem[r] = NoMem

\* A parked loop can be answered: its approval is registered, a user who opens
\* the run sees it waiting, and what is pending is what it waits for.
ParkedIsAnswerable ==
  \A r \in Runs :
    loop[r].pc \in ParkedPCs /\ loop[r].decision = "none" /\ HasRow(r) =>
      /\ mem[r].approval
      /\ row[r].status = "waiting_for_user_approval"
      /\ mem[r].pending = IF loop[r].pc = "writeback" THEN "command_writeback"
                          ELSE PendingOf(loop[r].call.kind)

\* An approval is registered only while a loop waits for it: the user can never
\* answer a question nobody asks any more.
ApprovalIsAwaited ==
  \A r \in Runs : mem[r].approval => loop[r].pc \in ParkedPCs /\ loop[r].decision = "none"

\* The exit reason of an ended run is the one of the end its status shows.
ReasonFits(w) ==
  CASE w.status = "done"            -> w.exitReason = "done"
    [] w.status = "budget_exceeded" -> w.exitReason = "budget"
    [] w.status = "failed"          -> w.exitReason \in {"failure", "interrupted_restart"}
    [] OTHER                        -> TRUE

\* What the database shows of a run is true of its loop: a row is open exactly
\* while a loop works on it, whatever was refused, raced, failed or crashed, and
\* an ended row gives the reason of the end it shows.  (Not with sandboxed
\* commands: see the README on a second reject.)
RecordIsTrue ==
  \A r \in Runs : HasRow(r) =>
    /\ up => (row[r].status \notin Terminal <=> Live(r))
    /\ ~Live(r) => ReasonFits(row[r])

\* Once a run was stopped or cleared, its loop starts no tool.
NoToolAfterStop ==
  [][\A r \in Runs : loop[r].aborted =>
       loop'[r].pc \notin {"patching", "tool", "sandbox"} \/ loop'[r].pc = loop[r].pc]_vars

\* An approval leaves the map only by answering the loop that waits for it (or
\* with the process): applying, rejecting, stopping and clearing all resume the
\* loop, none of them drops the question.
ApprovalAnswersLoop ==
  [][up' => \A r \in Runs : mem[r].approval /\ ~mem'[r].approval =>
                             loop'[r].decision # "none"]_vars

\* A loop that is not waiting for the user ends or comes to wait.
LoopSettles ==
  \A r \in Runs : Live(r) ~> (~Live(r) \/ loop[r].pc \in ParkedPCs)

\* A stopped loop ends without any further act of the user.
StopTerminates ==
  \A r \in Runs : loop[r].aborted ~> ~Live(r)

=============================================================================
