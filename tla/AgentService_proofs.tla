------------------------ MODULE AgentService_proofs ------------------------
(***************************************************************************)
(* What TLAPS proves about AgentService, for any set of runs, any settings *)
(* and any limits: the types, and the invariants on the service's maps and *)
(* on the user's consent.                                                  *)
(***************************************************************************)
EXTENDS AgentService, TLAPS

(***************************************************************************)
(* Types                                                                   *)
(***************************************************************************)

LEMMA GotoType ==
  ASSUME TypeOK, NEW r \in Runs, NEW l \in LoopType, Goto(r, l)
  PROVE  loop' \in [Runs -> LoopType]
BY DEF TypeOK, Goto

LEMMA SetStatusType ==
  ASSUME TypeOK, NEW r \in Runs, NEW status \in RunStates, SetStatus(r, status)
  PROVE  row' \in [Runs -> RowType]
BY DEF TypeOK, SetStatus, WithStatus, RowType

\* The entries the service's maps take.
LEMMA MemRecords ==
  ASSUME NEW m \in MemType
  PROVE  /\ \A pending \in PendingKinds : /\ Asking(m, pending) \in MemType
                                         /\ [m EXCEPT !.pending = pending] \in MemType
         /\ [m EXCEPT !.controller = TRUE] \in MemType
         /\ [m EXCEPT !.controller = FALSE] \in MemType
         /\ [m EXCEPT !.approval = FALSE] \in MemType
         /\ [m EXCEPT !.approval = FALSE, !.pending = "none"] \in MemType
BY DEF Asking, MemType, PendingKinds

LEMMA ClosedType ==
  ASSUME NEW w \in RowType, NEW status \in RunStates, NEW reason \in ExitReasons
  PROVE  Closed(w, status, reason) \in RowType
BY DEF Closed, RowType

LEMMA FailedType ==
  ASSUME NEW w \in RowType
  PROVE  Failed(w) \in RowType
BY ClosedType DEF Failed, RunStates, ExitReasons

\* Reconciling a row leaves it well typed.
LEMMA ReconciledType ==
  ASSUME NEW w \in RowType
  PROVE  Reconciled(w) \in RowType
BY ClosedType DEF Reconciled, RunStates, ExitReasons

\* The records a step of the loop makes of a loop record are loop records.
LEMMA LoopRecords ==
  ASSUME NEW l \in LoopType
  PROVE  /\ \A outcome \in Outcomes : End(l, outcome) \in LoopType
         /\ Threw(l) \in LoopType
         /\ \A pc \in {"idle"} \cup MicroPCs \cup ParkedPCs \cup AwaitPCs :
              /\ [l EXCEPT !.pc = pc] \in LoopType
              /\ Checked(l, pc) \in LoopType
         /\ Returned(l) \in LoopType
<1>1. \A outcome \in Outcomes : End(l, outcome) \in LoopType
  BY DEF End, LoopType, MicroPCs
<1>2. \A pc \in {"idle"} \cup MicroPCs \cup ParkedPCs \cup AwaitPCs :
        [l EXCEPT !.pc = pc] \in LoopType
  BY DEF LoopType
<1>3. Returned(l) \in LoopType
  <2>1. 0 \in 0..(MaxRepairAttempts + 1)
    BY ConstantsAssumption
  <2>. QED  BY <2>1 DEF Returned, LoopType, MicroPCs
<1>4. Threw(l) \in LoopType
  BY <1>1 DEF Threw, Outcomes
<1>5. \A pc \in {"idle"} \cup MicroPCs \cup ParkedPCs \cup AwaitPCs : Checked(l, pc) \in LoopType
  BY <1>1, <1>2 DEF Checked, Outcomes
<1>. QED  BY <1>1, <1>2, <1>3, <1>4, <1>5

LEMMA IdleLoopType == IdleLoop \in LoopType
<1>1. 0 \in 0..MaxCallsPerTurn /\ 0 \in 0..MaxIterations /\ 0 \in 0..(MaxRepairAttempts + 1)
  BY ConstantsAssumption
<1>. QED  BY <1>1 DEF IdleLoop, LoopType, Outcomes

LEMMA NoMemType == NoMem \in MemType
BY DEF NoMem, MemType, PendingKinds

LEMMA DriveLoopType ==
  ASSUME TypeOK, NEW r \in Runs, NEW aborted \in BOOLEAN, DriveLoop(r, aborted)
  PROVE  loop' \in [Runs -> LoopType]
<1>0. PICK settings \in SettingsChoices : \E pc \in EntryPCs(settings) :
        Goto(r, [IdleLoop EXCEPT !.pc = pc, !.aborted = aborted, !.settings = settings])
  BY DEF DriveLoop
<1>1. PICK pc \in EntryPCs(settings) :
        Goto(r, [IdleLoop EXCEPT !.pc = pc, !.aborted = aborted, !.settings = settings])
  BY <1>0
<1>2. pc \in {"idle"} \cup MicroPCs \cup ParkedPCs \cup AwaitPCs
  BY <1>1 DEF EntryPCs, MicroPCs, AwaitPCs
<1>3. [IdleLoop EXCEPT !.pc = pc, !.aborted = aborted, !.settings = settings] \in LoopType
  BY <1>2, IdleLoopType DEF LoopType
<1>. QED  BY <1>1, <1>3, GotoType

LEMMA TakenType ==
  ASSUME NEW l \in LoopType, l.todo > 0, NEW call \in Calls
  PROVE  Taken(l, call) \in LoopType
<1>1. l.todo - 1 \in 0..MaxCallsPerTurn /\ l.toolCalls + 1 \in Nat
  BY ConstantsAssumption DEF LoopType
<1>. QED  BY <1>1 DEF Taken, LoopType

LEMMA PatchReturnsType ==
  ASSUME TypeOK, NEW r \in Runs, NEW applied \in BOOLEAN, PatchReturns(r, applied)
  PROVE  loop' \in [Runs -> LoopType] /\ row' \in [Runs -> RowType]
<1>. DEFINE streak == IF loop[r].repairs > MaxRepairAttempts
                      THEN loop[r].repairs ELSE loop[r].repairs + 1
            l == [loop[r] EXCEPT !.repairs = streak]
<1>0. loop[r] \in LoopType
  BY DEF TypeOK
<1>1. streak \in 0..(MaxRepairAttempts + 1)
  BY <1>0, ConstantsAssumption DEF LoopType
<1>2. l \in LoopType
  BY <1>0, <1>1 DEF LoopType
<1>3. CASE Goto(r, Checked(l, "next")) /\ UNCHANGED row
  BY <1>2, <1>3, LoopRecords, GotoType DEF TypeOK, MicroPCs
<1>4. CASE SetStatus(r, "verifying") /\ Goto(r, [l EXCEPT !.pc = "verifying"])
  <2>1. [l EXCEPT !.pc = "verifying"] \in LoopType
    BY <1>2, LoopRecords DEF AwaitPCs
  <2>. QED  BY <1>4, <2>1, GotoType, SetStatusType DEF RunStates
<1>. QED  BY <1>3, <1>4 DEF PatchReturns

\* A step of a loop keeps the types: one case per action of LoopStep.
LEMMA LoopStepType ==
  ASSUME TypeOK, NEW r \in Runs, LoopStep(r)
  PROVE  TypeOK'
<1>. DEFINE l == loop[r]
<1>0. l \in LoopType /\ row[r] \in RowType /\ mem[r] \in MemType
  BY DEF TypeOK
<1>. USE DEF MicroPCs, ParkedPCs, AwaitPCs
<1>1. CASE InitDone(r)
  <2>1. l.aborted \in BOOLEAN
    BY <1>0 DEF LoopType
  <2>. QED  BY <1>1, <2>1, DriveLoopType DEF InitDone, TypeOK
<1>2. CASE InitFails(r)
  <2>1. row' \in [Runs -> RowType]
    BY <1>2, FailedType DEF InitFails, TypeOK
  <2>2. mem' \in [Runs -> MemType]
    BY <1>0, <1>2, MemRecords DEF InitFails, TypeOK
  <2>. QED  BY <1>2, <2>1, <2>2, IdleLoopType, GotoType DEF InitFails, TypeOK
<1>3. CASE BaselineDone(r)
  BY <1>0, <1>3, LoopRecords, GotoType DEF BaselineDone, TypeOK
<1>4. CASE StopAtTop(r) \/ BudgetExhausted(r)
  BY <1>0, <1>4, LoopRecords, GotoType DEF StopAtTop, BudgetExhausted, TypeOK, Outcomes
<1>5. CASE StartIteration(r)
  <2>1. PICK pc \in {"compress", "model"} :
          Goto(r, [l EXCEPT !.pc = pc, !.iterations = @ + 1])
    BY <1>5 DEF StartIteration
  <2>2. l.iterations + 1 \in 0..MaxIterations
    BY <1>0, <1>5, ConstantsAssumption DEF StartIteration, WithinBudget, LoopType
  <2>3. [l EXCEPT !.pc = pc, !.iterations = @ + 1] \in LoopType
    BY <1>0, <2>2 DEF LoopType
  <2>. QED  BY <1>5, <2>1, <2>3, GotoType DEF StartIteration, TypeOK
<1>6. CASE CompressDone(r) \/ ModelThrows(r)
  BY <1>0, <1>6, LoopRecords, GotoType DEF CompressDone, ModelThrows, TypeOK
<1>7. CASE ModelDone(r)
  <2>1. row' \in [Runs -> RowType]
    BY <1>7, SetStatusType DEF ModelDone, RunStates
  <2>2. loop' \in [Runs -> LoopType]
    <3>1. CASE \E outcome \in {"cancelled", "failed", "done"} : Goto(r, End(l, outcome))
      BY <1>0, <3>1, LoopRecords, GotoType DEF Outcomes
    <3>2. CASE \E n \in 1..MaxCallsPerTurn : Goto(r, [l EXCEPT !.pc = "next", !.todo = n])
      <4>1. PICK n \in 1..MaxCallsPerTurn : Goto(r, [l EXCEPT !.pc = "next", !.todo = n])
        BY <3>2
      <4>2. n \in 0..MaxCallsPerTurn
        BY ConstantsAssumption
      <4>3. [l EXCEPT !.pc = "next", !.todo = n] \in LoopType
        BY <1>0, <4>2 DEF LoopType
      <4>. QED  BY <4>1, <4>3, GotoType
    <3>. QED  BY <1>7, <3>1, <3>2 DEF ModelDone
  <2>. QED  BY <1>7, <2>1, <2>2 DEF ModelDone, TypeOK
<1>8. CASE TurnEnds(r)
  BY <1>0, <1>8, LoopRecords, GotoType DEF TurnEnds, TypeOK, Outcomes
<1>9. CASE \E call \in Calls : UngatedCall(r, call)
  <2>1. PICK call \in Calls : UngatedCall(r, call)
    BY <1>9
  <2>2. Taken(l, call) \in LoopType
    BY <1>0, <2>1, TakenType DEF UngatedCall, NextCall
  <2>3. loop' \in [Runs -> LoopType]
    BY <2>1, <2>2, LoopRecords, GotoType DEF UngatedCall
  <2>. QED  BY <2>1, <2>3 DEF UngatedCall, NextCall, TypeOK
<1>10. CASE \E call \in Calls : GatedCall(r, call)
  <2>1. PICK call \in Calls : GatedCall(r, call)
    BY <1>10
  <2>2. Taken(l, call) \in LoopType
    BY <1>0, <2>1, TakenType DEF GatedCall, NextCall
  <2>3. loop' \in [Runs -> LoopType]
    BY <2>1, <2>2, LoopRecords, GotoType DEF GatedCall
  <2>4. mem' \in [Runs -> MemType]
    BY <1>0, <2>1, MemRecords DEF GatedCall, TypeOK, PendingOf, PendingKinds
  <2>5. row' \in [Runs -> RowType]
    BY <2>1, SetStatusType DEF GatedCall, RunStates, TypeOK
  <2>. QED  BY <2>1, <2>3, <2>4, <2>5 DEF GatedCall, NextCall, TypeOK
<1>11. CASE Resume(r)
  <2>. DEFINE m == [l EXCEPT !.decision = "none"]
              g == [m EXCEPT !.grants = @ \cup {m.call}]
  <2>1. m \in LoopType
    BY <1>0 DEF LoopType
  <2>2. g \in LoopType
    BY <1>0, <2>1 DEF LoopType
  <2>. QED  BY <1>11, <2>1, <2>2, LoopRecords, GotoType DEF Resume, TypeOK, Outcomes
<1>12. CASE RefuseCall(r)
  <2>1. CASE PatchReturns(r, FALSE)
    BY <1>12, <2>1, PatchReturnsType DEF RefuseCall, TypeOK
  <2>2. CASE Goto(r, Returned(l)) /\ UNCHANGED row
    BY <1>0, <1>12, <2>2, LoopRecords, GotoType DEF RefuseCall, TypeOK
  <2>. QED  BY <1>12, <2>1, <2>2 DEF RefuseCall
<1>13. CASE Execute(r)
  <2>1. [l EXCEPT !.pc = ToolPC(l), !.grants = @ \ {l.call}] \in LoopType
    BY <1>0 DEF LoopType, ToolPC
  <2>. QED  BY <1>13, <2>1, GotoType DEF Execute, TypeOK
<1>14. CASE PatchDone(r)
  BY <1>14, PatchReturnsType DEF PatchDone, TypeOK
<1>15. CASE ToolDone(r) \/ CleanupDone(r)
  BY <1>0, <1>15, LoopRecords, GotoType DEF ToolDone, CleanupDone, TypeOK
<1>16. CASE SandboxDone(r) \/ NothingStaged(r) \/ ApplyingDone(r)
  BY <1>0, <1>16, LoopRecords, GotoType DEF SandboxDone, NothingStaged, ApplyingDone, TypeOK
<1>17. CASE ChangesStaged(r)
  <2>1. loop' \in [Runs -> LoopType]
    BY <1>0, <1>17, LoopRecords, GotoType DEF ChangesStaged
  <2>2. mem' \in [Runs -> MemType]
    BY <1>0, <1>17, MemRecords DEF ChangesStaged, TypeOK, PendingKinds
  <2>3. row' \in [Runs -> RowType]
    BY <1>17, SetStatusType DEF ChangesStaged, RunStates, TypeOK
  <2>. QED  BY <1>17, <2>1, <2>2, <2>3 DEF ChangesStaged, TypeOK
<1>18. CASE WritebackAnswered(r)
  <2>1. [l EXCEPT !.decision = "none",
           !.pc = IF l.decision = "yes" THEN "applying" ELSE "cleanup"] \in LoopType
    BY <1>0 DEF LoopType
  <2>. QED  BY <1>18, <2>1, GotoType DEF WritebackAnswered, TypeOK
<1>19. CASE VerifyFails(r)
  BY <1>0, <1>19, LoopRecords, GotoType DEF VerifyFails, TypeOK
<1>20. CASE VerifyDone(r)
  <2>1. loop' \in [Runs -> LoopType]
    BY <1>0, <1>20, LoopRecords, GotoType DEF VerifyDone
  <2>2. row' \in [Runs -> RowType]
    BY <1>20, SetStatusType DEF VerifyDone, RunStates, TypeOK
  <2>. QED  BY <1>20, <2>1, <2>2 DEF VerifyDone, TypeOK
<1>21. CASE Teardown(r)
  <2>. DEFINE final == FinalStatus(l.outcome)
              saved == IF HasRow(r)
                       THEN [row[r] EXCEPT !.messages = TRUE,
                                           !.exitReason = ExitReasonOf(l.outcome)]
                       ELSE row[r]
  <2>1. saved \in RowType
    BY <1>0 DEF RowType, ExitReasonOf, ExitReasons
  <2>2. Failed(saved) \in RowType
    BY <2>1, FailedType
  <2>3. final \in RunStates
    BY DEF FinalStatus, RunStates
  <2>4. WithStatus(saved, final) \in RowType
    BY <2>1, <2>3 DEF WithStatus, RowType
  <2>5. row' \in [Runs -> RowType]
    BY <1>21, <2>2, <2>4 DEF Teardown, TypeOK
  <2>. QED  BY <1>21, <2>5, IdleLoopType, NoMemType, GotoType DEF Teardown, TypeOK
<1>. QED
  BY <1>1, <1>2, <1>3, <1>4, <1>5, <1>6, <1>7, <1>8, <1>9, <1>10, <1>11, <1>12, <1>13,
     <1>14, <1>15, <1>16, <1>17, <1>18, <1>19, <1>20, <1>21
  DEF LoopStep

LEMMA UserCallType ==
  ASSUME TypeOK, NEW r \in Runs, UserCall(r)
  PROVE  TypeOK'
<1>. DEFINE l == loop[r]
<1>0. l \in LoopType /\ row[r] \in RowType /\ mem[r] \in MemType
  BY DEF TypeOK
<1>1. \A decision \in {"yes", "no"} : Answered(r, l, decision) \in LoopType
  BY <1>0 DEF Answered, LoopType
<1>2. CASE RunTask(r)
  <2>1. [IdleLoop EXCEPT !.pc = "init"] \in LoopType
    BY IdleLoopType, LoopRecords DEF AwaitPCs
  <2>2. row' \in [Runs -> RowType]
    <3>1. [row[r] EXCEPT !.status = "tool_use"] \in RowType
      BY <1>0 DEF RowType, RunStates
    <3>2. Closed(row[r], "failed", "failure") \in RowType
      BY <1>0, ClosedType DEF RunStates, ExitReasons
    <3>. QED  BY <1>2, <3>1, <3>2 DEF RunTask, TypeOK
  <2>3. mem' \in [Runs -> MemType]
    BY <1>0, <1>2, MemRecords DEF RunTask, TypeOK
  <2>. QED  BY <1>2, <2>1, <2>2, <2>3, GotoType DEF RunTask, TypeOK
<1>3. CASE ContinueTask(r)
  <2>1. row' \in [Runs -> RowType]
    <3>1. Closed(row[r], "failed", "failure") \in RowType
      BY <1>0, ClosedType DEF RunStates, ExitReasons
    <3>2. CASE SetStatus(r, "tool_use")
      BY <3>2, SetStatusType DEF RunStates
    <3>. QED  BY <1>3, <3>1, <3>2 DEF ContinueTask, TypeOK
  <2>2. mem' \in [Runs -> MemType]
    BY <1>0, <1>3, MemRecords DEF ContinueTask, TypeOK
  <2>. QED  BY <1>3, <2>1, <2>2, DriveLoopType DEF ContinueTask, TypeOK
<1>4. CASE Stop(r)
  <2>1. [Answered(r, l, "no") EXCEPT !.aborted = @ \/ mem[r].controller] \in LoopType
    BY <1>0, <1>1 DEF LoopType, MemType
  <2>2. mem' \in [Runs -> MemType]
    BY <1>0, <1>4, MemRecords DEF Stop, TypeOK
  <2>. QED  BY <1>4, <2>1, <2>2, GotoType DEF Stop, TypeOK
<1>5. CASE RejectPatch(r)
  <2>1. mem' \in [Runs -> MemType]
    BY <1>0, <1>5, MemRecords DEF RejectPatch, TypeOK
  <2>2. row' \in [Runs -> RowType]
    BY <1>5, SetStatusType DEF RejectPatch, TypeOK, RunStates
  <2>. QED  BY <1>1, <1>5, <2>1, <2>2, GotoType DEF RejectPatch, TypeOK
<1>6. CASE ApplyPatch(r)
  <2>1. mem' \in [Runs -> MemType]
    BY <1>0, <1>6, MemRecords DEF ApplyPatch, TypeOK
  <2>2. [l EXCEPT !.decision = "yes"] \in LoopType
    BY <1>0 DEF LoopType
  <2>3. row' \in [Runs -> RowType]
    BY <1>6, SetStatusType DEF ApplyPatch, TypeOK, RunStates
  <2>4. loop' \in [Runs -> LoopType]
    BY <1>6, <2>2, GotoType DEF ApplyPatch, TypeOK
  <2>5. consent' \in [Runs -> SUBSET {"call", "write"}]
    BY <1>6 DEF ApplyPatch, TypeOK
  <2>. QED  BY <1>6, <2>1, <2>3, <2>4, <2>5 DEF ApplyPatch, TypeOK
<1>7. CASE Rollback(r)
  <2>1. mem' \in [Runs -> MemType]
    BY <1>0, <1>7, MemRecords DEF Rollback, TypeOK, PendingKinds
  <2>2. row' \in [Runs -> RowType]
    BY <1>7, <1>0, ClosedType DEF Rollback, TypeOK, RowType, RunStates, ExitReasons
  <2>. QED  BY <1>7, <2>1, <2>2 DEF Rollback, TypeOK
<1>. QED  BY <1>2, <1>3, <1>4, <1>5, <1>6, <1>7 DEF UserCall

LEMMA EnvironmentType ==
  ASSUME TypeOK, Environment
  PROVE  TypeOK'
<1>1. CASE ClearRuns
  <2>1. \A r \in Runs :
          [Answered(r, loop[r], "no") EXCEPT !.aborted = @ \/ mem[r].controller] \in LoopType
    <3>1. SUFFICES ASSUME NEW r \in Runs
                   PROVE  [Answered(r, loop[r], "no") EXCEPT
                             !.aborted = @ \/ mem[r].controller] \in LoopType
      OBVIOUS
    <3>2. loop[r] \in LoopType /\ mem[r] \in MemType
      BY DEF TypeOK
    <3>3. Answered(r, loop[r], "no") \in LoopType
      BY <3>2 DEF Answered, LoopType
    <3>. QED  BY <3>2, <3>3 DEF LoopType, MemType
  <2>2. loop' \in [Runs -> LoopType]
    BY <1>1, <2>1 DEF ClearRuns, TypeOK
  <2>3. mem' \in [Runs -> MemType] /\ row' \in [Runs -> RowType]
    BY <1>1, NoMemType DEF ClearRuns, TypeOK, RowType, ExitReasons
  <2>. QED  BY <1>1, <2>2, <2>3 DEF ClearRuns, TypeOK
<1>2. CASE GateChanges
  BY <1>2 DEF GateChanges, TypeOK
<1>3. CASE Crash
  BY <1>3, IdleLoopType, NoMemType DEF Crash, TypeOK
<1>4. CASE Restart
  BY <1>4, ReconciledType DEF Restart, TypeOK
<1>. QED  BY <1>1, <1>2, <1>3, <1>4 DEF Environment

LEMMA InitType ==
  ASSUME Init
  PROVE  TypeOK
BY IdleLoopType, NoMemType DEF Init, TypeOK, RowType, ExitReasons

LEMMA NextType ==
  ASSUME TypeOK, [Next]_vars
  PROVE  TypeOK'
<1>1. CASE UNCHANGED vars
  BY <1>1 DEF vars, TypeOK
<1>. QED  BY <1>1, LoopStepType, UserCallType, EnvironmentType DEF Next

\* Every state the service reaches is well typed: in particular no loop runs
\* more iterations than its budget allows, and the repair streak stops counting
\* just above its cap.
THEOREM TypeCorrect == Spec => []TypeOK
<1>1. Init => TypeOK
  BY InitType
<1>2. TypeOK /\ [Next]_vars => TypeOK'
  BY NextType
<1>. QED  BY <1>1, <1>2, PTL DEF Spec

(***************************************************************************)
(* The service's maps.  ControllerIffLive, NoOrphanRun, NothingLeftBehind  *)
(* and ApprovalIsAwaited support one another: a loop finds its controller  *)
(* registered because the approval it parked on was taken out of the map   *)
(* before it resumed, and the maps are empty at its end because nothing    *)
(* was pending at its start.                                               *)
(***************************************************************************)

SettledRun(r) ==
  /\ HasRow(r) => (mem[r].controller <=> Live(r))
  /\ ~HasRow(r) => ~mem[r].controller
  /\ up /\ HasRow(r) /\ row[r].status \notin Terminal => Live(r)
  /\ row[r].status = "fresh" => ~Live(r)
  /\ ~Live(r) => mem[r] = NoMem
  /\ mem[r].approval => loop[r].pc \in ParkedPCs /\ loop[r].decision = "none"
  /\ loop[r].pc \notin ParkedPCs => loop[r].decision = "none"
  /\ loop[r].pc = "init" => mem[r].pending = "none"

MapsInv == \A r \in Runs : SettledRun(r)

\* The step concerns one run only, and neither creates nor deletes its row.
SameRows(r) ==
  /\ \A q \in Runs \ {r} : row'[q] = row[q]
  /\ HasRow(r)' <=> HasRow(r)
  /\ row'[r].status = "fresh" <=> row[r].status = "fresh"

LEMMA SetStatusKeepsRow ==
  ASSUME TypeOK, NEW r \in Runs, NEW status \in RunStates, SetStatus(r, status)
  PROVE  SameRows(r)
BY DEF TypeOK, RowType, SetStatus, WithStatus, SameRows, HasRow, RunStates

LEMMA FailedKeepsRow ==
  ASSUME TypeOK, NEW r \in Runs, row' = [row EXCEPT ![r] = Failed(@)]
  PROVE  SameRows(r) /\ row'[r].status \notin RunStates \ Terminal
BY DEF TypeOK, RowType, Failed, Closed, SameRows, HasRow, RunStates, Terminal

LEMMA UnchangedKeepsRow ==
  ASSUME UNCHANGED row, NEW r \in Runs
  PROVE  SameRows(r)
BY DEF SameRows, HasRow

LEMMA GotoIs ==
  ASSUME TypeOK, NEW r \in Runs, NEW l, Goto(r, l)
  PROVE  loop'[r] = l /\ \A q \in Runs \ {r} : loop'[q] = loop[q]
BY DEF Goto, TypeOK

\* Working(r): a live loop moves on and touches no map.
Working(r) ==
  /\ \A q \in Runs \ {r} : loop'[q] = loop[q]
  /\ UNCHANGED <<mem, up>>
  /\ SameRows(r)
  /\ loop'[r].pc \notin {"idle", "init"} \cup ParkedPCs
  /\ loop'[r].decision = "none"

LEMMA WorkingStep ==
  ASSUME MapsInv, NEW r \in Runs, Working(r), Live(r), ~mem[r].approval
  PROVE  MapsInv'
<1>1. SettledRun(r)'
  BY DEF MapsInv, SettledRun, Working, SameRows, HasRow, Live
<1>2. \A q \in Runs \ {r} : SettledRun(q)'
  BY DEF MapsInv, SettledRun, Working, SameRows, HasRow, Live
<1>. QED  BY <1>1, <1>2 DEF MapsInv

\* From a program counter that is not parked.
LEMMA UnparkedStep ==
  ASSUME TypeOK, MapsInv, NEW r \in Runs, NEW l, Goto(r, l), UNCHANGED <<mem, up>>,
         SameRows(r), loop[r].pc \notin {"idle"} \cup ParkedPCs,
         l.pc \notin {"idle", "init"} \cup ParkedPCs, l.decision = loop[r].decision
  PROVE  MapsInv'
<1>1. ~mem[r].approval /\ loop[r].decision = "none"
  BY DEF MapsInv, SettledRun
<1>2. Working(r)
  BY <1>1, GotoIs DEF Working
<1>. QED  BY <1>1, <1>2, WorkingStep DEF Live

LEMMA LoopStepMaps ==
  ASSUME TypeOK, MapsInv, NEW r \in Runs, LoopStep(r)
  PROVE  MapsInv'
<1>. DEFINE l == loop[r]
<1>0. l \in LoopType /\ SettledRun(r)
  BY DEF TypeOK, MapsInv
<1>f. \A outcome : /\ End(l, outcome).pc = "teardown"
                    /\ End(l, outcome).decision = l.decision
  BY <1>0 DEF End, LoopType
<1>c. \A pc : /\ Checked(l, pc).pc \in {pc, "teardown"}
               /\ Checked(l, pc).decision = l.decision
               /\ [l EXCEPT !.pc = pc].pc = pc
               /\ [l EXCEPT !.pc = pc].decision = l.decision
  BY <1>0, <1>f DEF Checked, LoopType
<1>t. Threw(l).pc = "teardown" /\ Threw(l).decision = l.decision
  BY <1>f DEF Threw
<1>r. Returned(l).pc = "next" /\ Returned(l).decision = l.decision
  BY <1>0 DEF Returned, LoopType
<1>1. CASE BaselineDone(r) \/ StopAtTop(r) \/ BudgetExhausted(r) \/ CompressDone(r) \/ ModelThrows(r)
  BY <1>f, <1>c, <1>t, <1>1, UnparkedStep, UnchangedKeepsRow
  DEF BaselineDone, StopAtTop, BudgetExhausted, CompressDone, ModelThrows, ParkedPCs
<1>2. CASE InitDone(r)
  <2>1. PICK settings \in SettingsChoices : \E pc \in EntryPCs(settings) :
          Goto(r, [IdleLoop EXCEPT !.pc = pc, !.aborted = l.aborted, !.settings = settings])
    BY <1>2 DEF InitDone, DriveLoop
  <2>2. PICK pc \in EntryPCs(settings) :
          Goto(r, [IdleLoop EXCEPT !.pc = pc, !.aborted = l.aborted, !.settings = settings])
    BY <2>1
  <2>3. pc \in {"top", "baseline"}
    BY <2>2 DEF EntryPCs
  <2>4. l.decision = "none"
    BY <1>0, <1>2 DEF InitDone, SettledRun, ParkedPCs
  <2>. QED  BY <1>2, <2>2, <2>3, <2>4, UnparkedStep, UnchangedKeepsRow
            DEF InitDone, IdleLoop, ParkedPCs
<1>3. CASE InitFails(r)
  <2>1. SameRows(r) /\ row'[r].status \notin RunStates \ Terminal
    BY <1>3, FailedKeepsRow DEF InitFails
  <2>2. loop'[r] = IdleLoop /\ \A q \in Runs \ {r} : loop'[q] = loop[q] /\ mem'[q] = mem[q]
    BY <1>3, GotoIs DEF InitFails, TypeOK
  <2>3. mem[r].pending = "none" /\ ~mem[r].approval /\ mem[r] \in MemType
    BY <1>0, <1>3 DEF InitFails, SettledRun, ParkedPCs, TypeOK
  <2>4. mem'[r] = NoMem
    BY <1>3, <2>3 DEF InitFails, NoMem, MemType, TypeOK
  <2>5. SettledRun(r)'
    BY <2>1, <2>2, <2>4 DEF SettledRun, HasRow, Live, NoMem, IdleLoop
  <2>6. \A q \in Runs \ {r} : SettledRun(q)'
    BY <1>3, <2>1, <2>2 DEF InitFails, MapsInv, SettledRun, SameRows, HasRow, Live
  <2>. QED  BY <2>5, <2>6 DEF MapsInv
<1>4. CASE StartIteration(r) \/ TurnEnds(r) \/ SandboxDone(r) \/ NothingStaged(r) \/ ApplyingDone(r)
  BY <1>0, <1>f, <1>c, <1>4, UnparkedStep, UnchangedKeepsRow
  DEF StartIteration, TurnEnds, SandboxDone, NothingStaged, ApplyingDone, ParkedPCs, LoopType
<1>5. CASE ModelDone(r)
  <2>1. SameRows(r)
    BY <1>5, SetStatusKeepsRow DEF ModelDone, RunStates
  <2>. QED  BY <1>0, <1>f, <1>5, <2>1, UnparkedStep DEF ModelDone, ParkedPCs, LoopType
<1>6. CASE \E call \in Calls : UngatedCall(r, call)
  BY <1>0, <1>6, UnparkedStep, UnchangedKeepsRow
  DEF UngatedCall, NextCall, Taken, ParkedPCs, LoopType
<1>7. CASE \E call \in Calls : GatedCall(r, call)
  <2>1. PICK call \in Calls : GatedCall(r, call)
    BY <1>7
  <2>. DEFINE t == Taken(l, call)
  <2>2. l.pc = "next" /\ l.decision = "none" /\ ~mem[r].approval
    BY <1>0, <2>1 DEF GatedCall, NextCall, SettledRun, ParkedPCs
  <2>3. t.decision = "none" /\ [t EXCEPT !.pc = "parked"].decision = "none"
          /\ [t EXCEPT !.pc = "parked"].pc = "parked"
    BY <1>0, <2>2 DEF Taken, LoopType
  <2>4. Threw(t).pc = "teardown" /\ Threw(t).decision = "none"
    BY <1>0, <2>2 DEF Threw, End, Taken, LoopType
  <2>5. SameRows(r) /\ up' = up
    BY <2>1, SetStatusKeepsRow, UnchangedKeepsRow DEF GatedCall, NextCall, RunStates
  <2>6. \A q \in Runs \ {r} : loop'[q] = loop[q] /\ mem'[q] = mem[q]
    BY <2>1, GotoIs DEF GatedCall, TypeOK
  <2>7. SettledRun(r)'
    <3>1. mem[r] \in MemType
      BY DEF TypeOK
    <3>2. mem'[r].controller = mem[r].controller
      BY <2>1, <3>1 DEF GatedCall, Asking, MemType, TypeOK
    <3>3. CASE mem'[r].approval
      <4>1. mem'[r] # [mem[r] EXCEPT !.pending = PendingOf(call.kind)]
        BY <2>2, <3>1, <3>3 DEF MemType
      <4>2. loop'[r] = [t EXCEPT !.pc = "parked"]
        BY <2>1, <4>1 DEF GatedCall, Goto, TypeOK
      <4>. QED  BY <1>0, <2>2, <2>3, <2>5, <3>2, <4>2 DEF SettledRun, SameRows, HasRow, Live, ParkedPCs
    <3>4. CASE ~mem'[r].approval
      <4>1. loop'[r].pc \in {"parked", "teardown"} /\ loop'[r].decision = "none"
        BY <2>1, <2>3, <2>4, GotoIs DEF GatedCall
      <4>. QED  BY <1>0, <2>2, <2>5, <3>2, <3>4, <4>1
                DEF SettledRun, SameRows, HasRow, Live, ParkedPCs
    <3>. QED  BY <3>3, <3>4
  <2>8. \A q \in Runs \ {r} : SettledRun(q)'
    BY <2>5, <2>6 DEF MapsInv, SettledRun, SameRows, HasRow, Live
  <2>. QED  BY <2>7, <2>8 DEF MapsInv
<1>8. CASE Resume(r)
  <2>1. ~mem[r].approval /\ Live(r)
    BY <1>0, <1>8 DEF Resume, SettledRun, Live
  <2>2. loop'[r].pc \in {"exec", "teardown"} /\ loop'[r].decision = "none"
    <3>. DEFINE m == [l EXCEPT !.decision = "none"]
                g == [m EXCEPT !.grants = @ \cup {m.call}]
    <3>1. m.decision = "none" /\ g.decision = "none"
      BY <1>0 DEF LoopType
    <3>2. End(m, "cancelled").pc = "teardown" /\ End(m, "cancelled").decision = "none"
      BY <1>0, <3>1 DEF End, LoopType
    <3>3. Checked(g, "exec").pc \in {"exec", "teardown"} /\ Checked(g, "exec").decision = "none"
      BY <1>0, <3>1 DEF Checked, End, LoopType
    <3>4. loop'[r] = IF l.decision = "no" THEN End(m, "cancelled") ELSE Checked(g, "exec")
      BY <1>8 DEF Resume, Goto, TypeOK
    <3>. QED  BY <3>2, <3>3, <3>4
  <2>3. Working(r)
    BY <1>8, <2>2, GotoIs, UnchangedKeepsRow DEF Working, Resume, ParkedPCs
  <2>. QED  BY <2>1, <2>3, WorkingStep
<1>p. ASSUME NEW applied \in BOOLEAN, PatchReturns(r, applied), UNCHANGED <<mem, up>>,
             l.pc \in {"exec", "patching"}
      PROVE  MapsInv'
  <2>1. loop'[r].pc \in {"next", "teardown", "verifying"} /\ loop'[r].decision = l.decision
    <3>. DEFINE streak == IF l.repairs > MaxRepairAttempts THEN l.repairs ELSE l.repairs + 1
                m == [l EXCEPT !.repairs = streak]
                v == [m EXCEPT !.pc = "verifying"]
    <3>1. m.decision = l.decision /\ v.decision = l.decision /\ v.pc = "verifying"
      BY <1>0 DEF LoopType
    <3>2. Checked(m, "next").pc \in {"next", "teardown"} /\ Checked(m, "next").decision = l.decision
      BY <1>0, <3>1 DEF Checked, End, LoopType
    <3>3. loop'[r] = Checked(m, "next") \/ loop'[r] = v
      BY <1>p DEF PatchReturns, Goto, TypeOK
    <3>. QED  BY <3>1, <3>2, <3>3
  <2>2. \A q \in Runs \ {r} : loop'[q] = loop[q]
    BY <1>p, GotoIs DEF PatchReturns
  <2>3. SameRows(r)
    BY <1>p, SetStatusKeepsRow, UnchangedKeepsRow DEF PatchReturns, RunStates
  <2>4. ~mem[r].approval /\ l.decision = "none" /\ Live(r)
    BY <1>0, <1>p DEF SettledRun, ParkedPCs, Live
  <2>5. Working(r)
    BY <1>p, <2>1, <2>2, <2>3, <2>4 DEF Working, ParkedPCs
  <2>. QED  BY <2>4, <2>5, WorkingStep
<1>9. CASE RefuseCall(r) \/ PatchDone(r)
  BY <1>p, <1>r, <1>9, UnparkedStep, UnchangedKeepsRow DEF RefuseCall, PatchDone, ParkedPCs
<1>10. CASE Execute(r)
  BY <1>0, <1>10, UnparkedStep, UnchangedKeepsRow DEF Execute, ToolPC, ParkedPCs, LoopType
<1>11. CASE ToolDone(r) \/ CleanupDone(r) \/ VerifyFails(r)
  BY <1>c, <1>r, <1>11, UnparkedStep, UnchangedKeepsRow
  DEF ToolDone, CleanupDone, VerifyFails, ParkedPCs
<1>12. CASE ChangesStaged(r)
  <2>1. l.pc = "diff" /\ l.decision = "none" /\ ~mem[r].approval
    BY <1>0, <1>12 DEF ChangesStaged, SettledRun, ParkedPCs
  <2>2. SameRows(r) /\ up' = up
    BY <1>12, SetStatusKeepsRow, UnchangedKeepsRow DEF ChangesStaged, RunStates
  <2>3. \A q \in Runs \ {r} : loop'[q] = loop[q] /\ mem'[q] = mem[q]
    BY <1>12, GotoIs DEF ChangesStaged, TypeOK
  <2>4. mem[r] \in MemType
    BY DEF TypeOK
  <2>5. mem'[r].controller = mem[r].controller
    <3>1. Asking(mem[r], "command_writeback").controller = mem[r].controller
      BY <2>4 DEF Asking, MemType
    <3>2. [mem[r] EXCEPT !.pending = "command_writeback"].controller = mem[r].controller
      BY <2>4 DEF MemType
    <3>. QED  BY <1>12, <3>1, <3>2 DEF ChangesStaged, TypeOK
  <2>6. loop'[r].pc \in {"writeback", "cleanup"} /\ loop'[r].decision = "none"
    <3>1. loop'[r] \in {[l EXCEPT !.pc = "writeback"], [l EXCEPT !.pc = "cleanup"]}
      BY <1>12 DEF ChangesStaged, Goto, TypeOK
    <3>. QED  BY <1>c, <2>1, <3>1
  <2>7. mem'[r].approval => loop'[r].pc = "writeback"
    <3>1. CASE loop'[r] = [l EXCEPT !.pc = "writeback"]
      BY <1>c, <3>1
    <3>2. CASE mem'[r] = [mem[r] EXCEPT !.pending = "command_writeback"]
      BY <2>1, <2>4, <3>2 DEF MemType
    <3>. QED  BY <1>12, <3>1, <3>2 DEF ChangesStaged, Goto, TypeOK
  <2>8. SettledRun(r)'
    BY <1>0, <2>1, <2>2, <2>5, <2>6, <2>7 DEF SettledRun, SameRows, HasRow, Live, ParkedPCs
  <2>9. \A q \in Runs \ {r} : SettledRun(q)'
    BY <2>2, <2>3 DEF MapsInv, SettledRun, SameRows, HasRow, Live
  <2>. QED  BY <2>8, <2>9 DEF MapsInv
<1>13. CASE WritebackAnswered(r)
  <2>1. ~mem[r].approval /\ Live(r)
    BY <1>0, <1>13 DEF WritebackAnswered, SettledRun, Live
  <2>2. loop'[r].pc \in {"applying", "cleanup"} /\ loop'[r].decision = "none"
    BY <1>0, <1>13 DEF WritebackAnswered, Goto, TypeOK, LoopType
  <2>3. Working(r)
    BY <1>13, <2>2, GotoIs, UnchangedKeepsRow DEF Working, WritebackAnswered, ParkedPCs
  <2>. QED  BY <2>1, <2>3, WorkingStep
<1>14. CASE VerifyDone(r)
  <2>1. SameRows(r)
    BY <1>14, SetStatusKeepsRow, UnchangedKeepsRow DEF VerifyDone, RunStates
  <2>. QED  BY <1>c, <1>14, <2>1, UnparkedStep DEF VerifyDone, ParkedPCs
<1>15. CASE Teardown(r)
  <2>. DEFINE final == FinalStatus(l.outcome)
              saved == IF HasRow(r)
                       THEN [row[r] EXCEPT !.messages = TRUE,
                                           !.exitReason = ExitReasonOf(l.outcome)]
                       ELSE row[r]
  <2>1. loop'[r] = IdleLoop /\ mem'[r] = NoMem /\ up' = up
    BY <1>15, GotoIs DEF Teardown, TypeOK
  <2>2. \A q \in Runs \ {r} : loop'[q] = loop[q] /\ mem'[q] = mem[q] /\ row'[q] = row[q]
    BY <1>15, GotoIs DEF Teardown, TypeOK
  <2>3. row'[r] = IF MaySet(r, final) THEN WithStatus(saved, final) ELSE Failed(saved)
    BY <1>15 DEF Teardown, TypeOK
  <2>4. saved.status = row[r].status /\ saved \in RowType
    BY DEF TypeOK, RowType, ExitReasonOf, ExitReasons
  <2>5. final \in Terminal
    BY DEF FinalStatus, Terminal
  <2>6. row'[r].status \notin RunStates \ Terminal
    BY <2>3, <2>4, <2>5 DEF WithStatus, Failed, Closed, RowType, Terminal, RunStates
  <2>7. SettledRun(r)'
    BY <2>1, <2>6 DEF SettledRun, HasRow, Live, IdleLoop, NoMem
  <2>8. \A q \in Runs \ {r} : SettledRun(q)'
    BY <2>1, <2>2 DEF MapsInv, SettledRun, HasRow, Live
  <2>. QED  BY <2>7, <2>8 DEF MapsInv
<1>. QED
  BY <1>1, <1>2, <1>3, <1>4, <1>5, <1>6, <1>7, <1>8, <1>9, <1>10, <1>11, <1>12, <1>13,
     <1>14, <1>15
  DEF LoopStep

LEMMA ClearedIsNoMem ==
  ASSUME NEW m \in MemType, m.controller = FALSE, m.approval = FALSE, m.pending = "none"
  PROVE  m = NoMem
BY DEF MemType, NoMem

LEMMA UserCallMaps ==
  ASSUME TypeOK, MapsInv, NEW r \in Runs, UserCall(r)
  PROVE  MapsInv'
<1>. DEFINE l == loop[r]
<1>0. l \in LoopType /\ mem[r] \in MemType /\ row[r] \in RowType /\ SettledRun(r)
  BY DEF TypeOK, MapsInv
<1>a. \A q \in Runs \ {r} : /\ row'[q] = row[q] /\ mem'[q] = mem[q] /\ loop'[q] = loop[q]
                             /\ up' = up
  BY DEF UserCall, RunTask, ContinueTask, DriveLoop, Stop, RejectPatch, ApplyPatch, Rollback,
         SetStatus, Goto, TypeOK
<1>b. \A q \in Runs \ {r} : SettledRun(q)'
  BY <1>a DEF MapsInv, SettledRun, HasRow, Live
<1>m. /\ [mem[r] EXCEPT !.approval = FALSE].controller = mem[r].controller
      /\ ~[mem[r] EXCEPT !.approval = FALSE].approval
      /\ [mem[r] EXCEPT !.approval = FALSE].pending = mem[r].pending
      /\ [mem[r] EXCEPT !.approval = FALSE, !.pending = "none"].controller = mem[r].controller
      /\ ~[mem[r] EXCEPT !.approval = FALSE, !.pending = "none"].approval
      /\ [mem[r] EXCEPT !.approval = FALSE, !.pending = "none"].pending = "none"
  BY <1>0 DEF MemType
<1>d. \A decision : /\ Answered(r, l, decision).pc = l.pc
                    /\ Answered(r, l, decision).decision =
                         IF mem[r].approval THEN decision ELSE l.decision
  BY <1>0 DEF Answered, LoopType
<1>1. ASSUME RunTask(r) PROVE SettledRun(r)'
  <2>1. mem[r] = NoMem /\ l.pc = "idle" /\ l.decision = "none"
    BY <1>0, <1>1 DEF RunTask, SettledRun, Live, ParkedPCs
  <2>2. CASE row'[r] = Closed(row[r], "failed", "failure") /\ UNCHANGED <<mem, loop>>
    <3>1. row'[r].status = "failed"
      BY <1>0, <2>2 DEF Closed, RowType
    <3>. QED  BY <2>1, <2>2, <3>1 DEF SettledRun, HasRow, Live, Terminal, NoMem, RunStates
  <2>3. CASE /\ row'[r] = [row[r] EXCEPT !.status = "tool_use"]
             /\ mem'[r] = [mem[r] EXCEPT !.controller = TRUE]
             /\ loop'[r] = [IdleLoop EXCEPT !.pc = "init"]
    <3>1. row'[r].status = "tool_use"
      BY <1>0, <2>3 DEF RowType
    <3>2. mem'[r].controller /\ ~mem'[r].approval /\ mem'[r].pending = "none"
      BY <2>1, <2>3 DEF NoMem
    <3>3. loop'[r].pc = "init" /\ loop'[r].decision = "none"
      BY <2>3 DEF IdleLoop
    <3>. QED  BY <3>1, <3>2, <3>3 DEF SettledRun, HasRow, Live, RunStates, ParkedPCs
  <2>. QED  BY <1>1, <2>2, <2>3 DEF RunTask, Goto, TypeOK
<1>2. ASSUME ContinueTask(r) PROVE SettledRun(r)'
  <2>1. mem[r] = NoMem /\ l.pc = "idle" /\ l.decision = "none"
    BY <1>0, <1>2 DEF ContinueTask, SettledRun, Live, ParkedPCs
  <2>2. CASE row'[r] = Closed(row[r], "failed", "failure") /\ UNCHANGED <<mem, loop>>
    <3>1. row'[r].status = "failed"
      BY <1>0, <2>2 DEF Closed, RowType
    <3>. QED  BY <2>1, <2>2, <3>1 DEF SettledRun, HasRow, Live, Terminal, NoMem, RunStates
  <2>3. CASE /\ SetStatus(r, "tool_use")
             /\ mem'[r] = [mem[r] EXCEPT !.controller = TRUE]
             /\ DriveLoop(r, FALSE)
    <3>1. row'[r].status = "tool_use"
      BY <1>0, <1>2, <2>3 DEF RowType, SetStatus, WithStatus, TypeOK, ContinueTask, HasRow
    <3>2. mem'[r].controller /\ ~mem'[r].approval
      BY <2>1, <2>3 DEF NoMem
    <3>3. PICK settings \in SettingsChoices : \E pc \in EntryPCs(settings) :
            Goto(r, [IdleLoop EXCEPT !.pc = pc, !.aborted = FALSE, !.settings = settings])
      BY <2>3 DEF DriveLoop
    <3>4. loop'[r].pc \in {"top", "baseline"} /\ loop'[r].decision = "none"
      BY <3>3 DEF EntryPCs, Goto, TypeOK, IdleLoop
    <3>. QED  BY <3>1, <3>2, <3>4 DEF SettledRun, HasRow, Live, RunStates, ParkedPCs
  <2>. QED  BY <1>2, <2>2, <2>3 DEF ContinueTask, TypeOK
<1>3. ASSUME Stop(r) PROVE SettledRun(r)'
  <2>1. Live(r) /\ UNCHANGED <<row, up>>
    BY <1>0, <1>3 DEF Stop, SettledRun, NoMem
  <2>2. mem'[r] = [mem[r] EXCEPT !.approval = FALSE]
    BY <1>3 DEF Stop, TypeOK
  <2>3. loop'[r] = [Answered(r, l, "no") EXCEPT !.aborted = @ \/ mem[r].controller]
    BY <1>3 DEF Stop, Goto, TypeOK
  <2>4. Answered(r, l, "no") \in LoopType
    BY <1>0 DEF Answered, LoopType
  <2>5. loop'[r].pc = l.pc /\ (~mem[r].approval => loop'[r].decision = l.decision)
    BY <1>d, <2>3, <2>4 DEF LoopType
  <2>. QED  BY <1>0, <1>m, <2>1, <2>2, <2>5 DEF SettledRun, HasRow, Live
<1>4. ASSUME RejectPatch(r) PROVE SettledRun(r)'
  <2>1. mem'[r] = [mem[r] EXCEPT !.approval = FALSE, !.pending = "none"] /\ up' = up
    BY <1>4 DEF RejectPatch, TypeOK
  <2>2. loop'[r].pc = l.pc /\ (~mem[r].approval => loop'[r].decision = l.decision)
    BY <1>4, <1>d DEF RejectPatch, Goto, TypeOK
  <2>3. \/ row'[r] = row[r]
        \/ (HasRow(r)' <=> HasRow(r)) /\ row'[r].status \in Terminal \cup {"fresh", "deleted"}
             /\ (row'[r].status = "fresh" <=> row[r].status = "fresh")
    BY <1>0, <1>4 DEF RejectPatch, SetStatus, WithStatus, RowType, HasRow, RunStates,
                      Terminal, TypeOK
  <2>4. mem[r] = NoMem => mem'[r] = NoMem
    <3>1. mem'[r] \in MemType
      BY UserCallType DEF TypeOK
    <3>4. mem'[r].controller = mem[r].controller
      BY <1>m, <2>1 DEF MemType
    <3>2. mem'[r].approval = FALSE /\ mem'[r].pending = "none"
      BY <1>m, <2>1 DEF MemType
    <3>3. mem[r] = NoMem => mem'[r].controller = FALSE
      BY <3>4 DEF NoMem
    <3>. QED  BY <3>1, <3>2, <3>3, ClearedIsNoMem
  <2>. QED  BY <1>0, <1>m, <2>1, <2>2, <2>3, <2>4
            DEF SettledRun, HasRow, Live, RunStates, Terminal
<1>5. ASSUME ApplyPatch(r) PROVE SettledRun(r)'
  <2>1. Live(r) /\ l.pc \in ParkedPCs /\ up' = up
    BY <1>0, <1>5 DEF ApplyPatch, SettledRun, Live, ParkedPCs
  <2>2. mem'[r] = [mem[r] EXCEPT !.approval = FALSE, !.pending = "none"]
    BY <1>5 DEF ApplyPatch, TypeOK
  <2>3. loop'[r].pc = l.pc
    BY <1>0, <1>5 DEF ApplyPatch, Goto, TypeOK, LoopType
  <2>4. SameRows(r)
    BY <1>5, SetStatusKeepsRow, UnchangedKeepsRow DEF ApplyPatch, RunStates
  <2>. QED  BY <1>0, <1>m, <2>1, <2>2, <2>3, <2>4
            DEF SettledRun, SameRows, HasRow, Live, ParkedPCs
<1>6. ASSUME Rollback(r) PROVE SettledRun(r)'
  <2>1. row'[r].status = "cancelled" /\ row[r].status \in RunStates
    BY <1>0, <1>6 DEF Rollback, Closed, RowType, TypeOK, HasRow
  <2>2. mem'[r] = [mem[r] EXCEPT !.pending = "none"] /\ UNCHANGED loop
    BY <1>6 DEF Rollback, TypeOK
  <2>3. /\ mem'[r].controller = mem[r].controller /\ mem'[r].approval = mem[r].approval
        /\ mem'[r].pending = "none" /\ (mem[r] = NoMem => mem'[r] = NoMem)
    BY <1>0, <2>2 DEF MemType, NoMem
  <2>. QED  BY <1>0, <2>1, <2>2, <2>3 DEF SettledRun, HasRow, Live, RunStates, Terminal
<1>. QED  BY <1>b, <1>1, <1>2, <1>3, <1>4, <1>5, <1>6 DEF UserCall, MapsInv

LEMMA EnvironmentMaps ==
  ASSUME TypeOK, MapsInv, Environment
  PROVE  MapsInv'
<1>1. CASE ClearRuns
  <2>1. SUFFICES ASSUME NEW r \in Runs
                 PROVE  SettledRun(r)'
    BY DEF MapsInv
  <2>2. SettledRun(r) /\ loop[r] \in LoopType
    BY DEF MapsInv, TypeOK
  <2>3. CASE ~HasRow(r)
    BY <1>1, <2>2, <2>3 DEF ClearRuns, SettledRun, HasRow, Live
  <2>4. CASE HasRow(r)
    <3>1. row'[r].status = "deleted" /\ mem'[r] = NoMem
      BY <1>1, <2>4 DEF ClearRuns
    <3>2. loop'[r] = [Answered(r, loop[r], "no") EXCEPT !.aborted = @ \/ mem[r].controller]
      BY <1>1, <2>4 DEF ClearRuns
    <3>3. Answered(r, loop[r], "no") \in LoopType
      BY <2>2 DEF Answered, LoopType
    <3>4. /\ loop'[r].pc = loop[r].pc
          /\ ~mem[r].approval => loop'[r].decision = loop[r].decision
      BY <2>2, <3>2, <3>3 DEF Answered, LoopType
    <3>. QED  BY <2>2, <3>1, <3>4 DEF SettledRun, HasRow, Live, RunStates, NoMem
  <2>. QED  BY <2>3, <2>4
<1>2. CASE GateChanges
  BY <1>2 DEF GateChanges, MapsInv, SettledRun, HasRow, Live
<1>3. CASE Crash
  <2>1. \A r \in Runs : loop'[r].pc = "idle" /\ loop'[r].decision = "none" /\ mem'[r] = NoMem
    BY <1>3 DEF Crash, IdleLoop
  <2>. QED  BY <1>3, <2>1 DEF Crash, MapsInv, SettledRun, HasRow, Live, NoMem, ParkedPCs
<1>4. CASE Restart
  <2>1. SUFFICES ASSUME NEW r \in Runs
                 PROVE  SettledRun(r)'
    BY DEF MapsInv
  <2>2. SettledRun(r) /\ row[r] \in RowType
    BY DEF MapsInv, TypeOK
  <2>3. /\ row'[r].status \notin RunStates \ Terminal
        /\ HasRow(r)' <=> HasRow(r)
        /\ row'[r].status = "fresh" <=> row[r].status = "fresh"
    BY <1>4, <2>2 DEF Restart, Reconciled, Closed, RowType, RunStates, Terminal, HasRow
  <2>. QED  BY <1>4, <2>2, <2>3 DEF Restart, SettledRun, HasRow, Live
<1>. QED  BY <1>1, <1>2, <1>3, <1>4 DEF Environment

LEMMA MapsInvariant == Spec => []MapsInv
<1>1. Init => MapsInv
  BY DEF Init, MapsInv, SettledRun, HasRow, RunStates, Live, IdleLoop, NoMem, ParkedPCs
<1>2. TypeOK /\ MapsInv /\ [Next]_vars => MapsInv'
  <2>1. ASSUME MapsInv, UNCHANGED vars PROVE MapsInv'
    BY <2>1 DEF vars, MapsInv, SettledRun, HasRow, Live
  <2>. QED  BY <2>1, LoopStepMaps, UserCallMaps, EnvironmentMaps DEF Next
<1>. QED  BY <1>1, <1>2, TypeCorrect, PTL DEF Spec

\* A run that has a row has a controller exactly while its loop is live: Stop
\* reaches every live loop and continueTask never starts a second one.
THEOREM ControllersTellLiveRuns == Spec => []ControllerIffLive
<1>1. MapsInv => ControllerIffLive
  BY DEF MapsInv, SettledRun, ControllerIffLive
<1>. QED  BY <1>1, MapsInvariant, PTL

\* A run whose record is open has a loop that will close it, through failures
\* of the provider and of the start, clears, crashes and restarts.
THEOREM NoRunIsOrphaned == Spec => []NoOrphanRun
<1>1. MapsInv => NoOrphanRun
  BY DEF MapsInv, SettledRun, NoOrphanRun
<1>. QED  BY <1>1, MapsInvariant, PTL

\* A loop that ended left nothing in the controllers, approvals and pending maps.
THEOREM MapsAreCleared == Spec => []NothingLeftBehind
<1>1. MapsInv => NothingLeftBehind
  BY DEF MapsInv, SettledRun, NothingLeftBehind
<1>. QED  BY <1>1, MapsInvariant, PTL

\* An approval is registered only while a loop waits for its answer.
THEOREM ApprovalsAreAwaited == Spec => []ApprovalIsAwaited
<1>1. MapsInv => ApprovalIsAwaited
  BY DEF MapsInv, SettledRun, ApprovalIsAwaited
<1>. QED  BY <1>1, MapsInvariant, PTL

(***************************************************************************)
(* The user's consent.  ConsentBeforeMutation is not inductive: what a     *)
(* tool may do is settled when its call leaves the executor, and there     *)
(* nobody looks at the approval map again.  The invariant follows the      *)
(* answer from the click to the tool: an answered approval is the consent  *)
(* to the call at hand, and a call that reached the executor either has    *)
(* that consent or is one the executor refuses or need not ask about,      *)
(* because no task (so no change of the gate) runs in between.             *)
(***************************************************************************)

ToolPCs == {"patching", "tool", "sandbox", "diff", "writeback", "applying"}

ConsentRun(r) ==
  LET l == loop[r] IN
    /\ l.pc = "parked" /\ l.decision = "yes" => "call" \in consent[r]
    /\ l.pc = "writeback" /\ l.decision = "yes" => "write" \in consent[r]
    /\ l.pc = "exec" => "call" \in consent[r] \/ ~RequiresApproval(l.call.kind, l.settings)
    /\ l.pc \in ToolPCs /\ PerCallApproval(l.call.kind, l.settings) => "call" \in consent[r]
    /\ l.pc = "applying" => "write" \in consent[r]

ConsentInv == \A r \in Runs : ConsentRun(r)

\* Another run's step, or one that moves no program counter of this run.
LEMMA ConsentFrame ==
  ASSUME NEW r, ConsentRun(r), loop'[r] = loop[r], consent[r] \subseteq consent'[r],
         degraded' = degraded
  PROVE  ConsentRun(r)'
BY DEF ConsentRun, RequiresApproval, GateRefuses

\* Program counters about which the invariant says nothing.
LEMMA ConsentIdlePC ==
  ASSUME NEW r, loop'[r].pc \notin {"parked", "exec"} \cup ToolPCs
  PROVE  ConsentRun(r)'
BY DEF ConsentRun, ToolPCs

\* A tool goes on working on the same call.
LEMMA ConsentSameCall ==
  ASSUME NEW r, ConsentRun(r), loop[r].pc \in ToolPCs, UNCHANGED consent,
         loop'[r].call = loop[r].call, loop'[r].settings = loop[r].settings,
         loop'[r].pc \in {"diff", "writeback"}, loop'[r].decision = "none"
  PROVE  ConsentRun(r)'
BY DEF ConsentRun, ToolPCs

LEMMA LoopStepConsent ==
  ASSUME TypeOK, MapsInv, ConsentInv, NEW r \in Runs, LoopStep(r)
  PROVE  ConsentInv'
<1>. DEFINE l == loop[r]
<1>0. l \in LoopType /\ SettledRun(r) /\ ConsentRun(r)
  BY DEF TypeOK, MapsInv, ConsentInv
<1>a. \A q \in Runs \ {r} : /\ loop'[q] = loop[q] /\ consent'[q] = consent[q]
                             /\ degraded' = degraded
  BY DEF LoopStep, InitDone, InitFails, BaselineDone, StopAtTop, BudgetExhausted, StartIteration,
         CompressDone, ModelThrows, ModelDone, TurnEnds, UngatedCall, GatedCall, NextCall, Resume,
         RefuseCall, Execute, PatchDone, PatchReturns, ToolDone, SandboxDone, NothingStaged,
         ChangesStaged, WritebackAnswered, ApplyingDone, CleanupDone, VerifyFails, VerifyDone,
         Teardown, DriveLoop, Goto, TypeOK
<1>b. \A q \in Runs \ {r} : ConsentRun(q)'
  BY <1>a, ConsentFrame DEF ConsentInv
<1>f. \A outcome : End(l, outcome).pc = "teardown"
  BY <1>0 DEF End, LoopType
<1>c. \A pc : Checked(l, pc).pc \in {pc, "teardown"} /\ [l EXCEPT !.pc = pc].pc = pc
  BY <1>0, <1>f DEF Checked, LoopType
<1>t. Threw(l).pc = "teardown" /\ Returned(l).pc = "next"
  BY <1>0, <1>f DEF Threw, Returned, LoopType
<1>q. ASSUME UNCHANGED degraded
      PROVE  \A kind, settings :
               RequiresApproval(kind, settings)' <=> RequiresApproval(kind, settings)
  BY <1>q DEF RequiresApproval, GateRefuses
<1>1. ASSUME \/ InitDone(r) \/ InitFails(r) \/ BaselineDone(r) \/ StopAtTop(r)
             \/ BudgetExhausted(r) \/ StartIteration(r) \/ CompressDone(r) \/ ModelThrows(r)
             \/ ModelDone(r) \/ TurnEnds(r)
      PROVE  ConsentRun(r)'
  <2>1. loop'[r].pc \in {"idle", "top", "baseline", "compress", "model", "next", "teardown"}
    <3>1. CASE InitDone(r)
      BY <3>1 DEF InitDone, DriveLoop, EntryPCs, IdleLoop, Goto, TypeOK
    <3>2. CASE InitFails(r)
      BY <3>2 DEF InitFails, IdleLoop, Goto, TypeOK
    <3>3. CASE BaselineDone(r)
      BY <3>3, <1>c DEF BaselineDone, Goto, TypeOK
    <3>4. CASE StopAtTop(r) \/ BudgetExhausted(r)
      BY <3>4, <1>f DEF StopAtTop, BudgetExhausted, Goto, TypeOK
    <3>5. CASE CompressDone(r) \/ ModelThrows(r)
      BY <3>5, <1>c, <1>t DEF CompressDone, ModelThrows, Goto, TypeOK
    <3>6. CASE StartIteration(r)
      BY <1>0, <3>6 DEF StartIteration, LoopType, Goto, TypeOK
    <3>7. CASE ModelDone(r)
      <4>1. \/ \E outcome \in Outcomes : loop'[r] = End(l, outcome)
            \/ \E n \in 1..MaxCallsPerTurn : loop'[r] = [l EXCEPT !.pc = "next", !.todo = n]
        BY <3>7 DEF ModelDone, Outcomes, Goto, TypeOK
      <4>. QED  BY <1>0, <1>f, <4>1 DEF LoopType
    <3>8. CASE TurnEnds(r)
      BY <3>8, <1>c, <1>f DEF TurnEnds, Goto, TypeOK
    <3>. QED  BY <1>1, <3>1, <3>2, <3>3, <3>4, <3>5, <3>6, <3>7, <3>8
  <2>. QED  BY <2>1, ConsentIdlePC DEF ToolPCs
<1>2. ASSUME \E call \in Calls : UngatedCall(r, call) PROVE ConsentRun(r)'
  <2>1. PICK call \in Calls : UngatedCall(r, call)
    BY <1>2
  <2>2. loop'[r].pc = "exec" /\ loop'[r].call = call /\ loop'[r].settings = l.settings
    BY <1>0, <2>1 DEF UngatedCall, Taken, LoopType, Goto, TypeOK
  <2>3. ~RequiresApproval(call.kind, l.settings) /\ UNCHANGED degraded
    BY <2>1 DEF UngatedCall, NextCall
  <2>. QED  BY <1>q, <2>2, <2>3 DEF ConsentRun, ToolPCs
<1>3. ASSUME \E call \in Calls : GatedCall(r, call) PROVE ConsentRun(r)'
  <2>1. PICK call \in Calls : GatedCall(r, call)
    BY <1>3
  <2>. DEFINE t == Taken(l, call)
  <2>2. l.decision = "none"
    BY <1>0, <2>1 DEF GatedCall, NextCall, SettledRun, ParkedPCs
  <2>3. [t EXCEPT !.pc = "parked"].decision = "none" /\ [t EXCEPT !.pc = "parked"].pc = "parked"
    BY <1>0, <2>2 DEF Taken, LoopType
  <2>4. Threw(t).pc = "teardown"
    BY <1>0 DEF Threw, End, Taken, LoopType
  <2>5. loop'[r] = [t EXCEPT !.pc = "parked"] \/ loop'[r] = Threw(t)
    BY <2>1 DEF GatedCall, Goto, TypeOK
  <2>. QED  BY <2>3, <2>4, <2>5 DEF ConsentRun, ToolPCs
<1>4. ASSUME Resume(r) PROVE ConsentRun(r)'
  <2>. DEFINE m == [l EXCEPT !.decision = "none"]
              g == [m EXCEPT !.grants = @ \cup {m.call}]
  <2>1. l.pc = "parked" /\ consent' = consent
    BY <1>4 DEF Resume
  <2>2. loop'[r] = IF l.decision = "no" THEN End(m, "cancelled") ELSE Checked(g, "exec")
    BY <1>4 DEF Resume, Goto, TypeOK
  <2>3. CASE l.decision = "no"
    <3>1. loop'[r].pc = "teardown"
      BY <1>0, <2>2, <2>3 DEF End, LoopType
    <3>. QED  BY <3>1, ConsentIdlePC DEF ToolPCs
  <2>4. CASE l.decision # "no"
    <3>1. "call" \in consent[r]
      BY <1>0, <1>4, <2>1, <2>4 DEF Resume, ConsentRun, LoopType
    <3>2. loop'[r].pc \in {"exec", "teardown"}
      BY <1>0, <2>2, <2>4 DEF Checked, End, LoopType
    <3>. QED  BY <2>1, <3>1, <3>2 DEF ConsentRun, ToolPCs
  <2>. QED  BY <2>3, <2>4
<1>5. ASSUME Execute(r) PROVE ConsentRun(r)'
  <2>1. l.pc = "exec" /\ ~Refused(l) /\ consent' = consent
    BY <1>5 DEF Execute
  <2>2. /\ loop'[r].pc = ToolPC(l) /\ loop'[r].decision = l.decision
        /\ loop'[r].call = l.call /\ loop'[r].settings = l.settings
    BY <1>0, <1>5 DEF Execute, Goto, TypeOK, LoopType
  <2>3. ToolPC(l) \in {"patching", "sandbox", "tool"}
    BY DEF ToolPC
  <2>4. ASSUME PerCallApproval(l.call.kind, l.settings) PROVE "call" \in consent[r]
    <3>1. RequiresApproval(l.call.kind, l.settings)
      BY <2>1, <2>4 DEF Refused, Disabled, RequiresApproval, PerCallApproval, Mutating
    <3>. QED  BY <1>0, <2>1, <3>1 DEF ConsentRun
  <2>. QED  BY <2>1, <2>2, <2>3, <2>4 DEF ConsentRun, ToolPCs
<1>p. ASSUME NEW applied \in BOOLEAN, PatchReturns(r, applied) PROVE ConsentRun(r)'
  <2>. DEFINE streak == IF l.repairs > MaxRepairAttempts THEN l.repairs ELSE l.repairs + 1
              m == [l EXCEPT !.repairs = streak]
  <2>1. Checked(m, "next").pc \in {"next", "teardown"} /\ [m EXCEPT !.pc = "verifying"].pc = "verifying"
    BY <1>0 DEF Checked, End, LoopType
  <2>2. loop'[r] = Checked(m, "next") \/ loop'[r] = [m EXCEPT !.pc = "verifying"]
    BY <1>p DEF PatchReturns, Goto, TypeOK
  <2>. QED  BY <2>1, <2>2, ConsentIdlePC DEF ToolPCs
<1>6. ASSUME \/ RefuseCall(r) \/ PatchDone(r) \/ ToolDone(r) \/ NothingStaged(r)
             \/ ApplyingDone(r) \/ CleanupDone(r) \/ VerifyFails(r) \/ VerifyDone(r)
             \/ Teardown(r)
      PROVE  ConsentRun(r)'
  <2>1. CASE RefuseCall(r) \/ PatchDone(r) \/ ToolDone(r) \/ CleanupDone(r)
    <3>1. CASE \E applied \in BOOLEAN : PatchReturns(r, applied)
      BY <1>p, <3>1
    <3>2. CASE Goto(r, Returned(l))
      <4>1. loop'[r].pc = "next"
        BY <1>t, <3>2 DEF Goto, TypeOK
      <4>. QED  BY <4>1, ConsentIdlePC DEF ToolPCs
    <3>. QED  BY <2>1, <3>1, <3>2 DEF RefuseCall, PatchDone, ToolDone, CleanupDone
  <2>2. CASE NothingStaged(r) \/ ApplyingDone(r) \/ VerifyFails(r) \/ VerifyDone(r) \/ Teardown(r)
    <3>1. loop'[r].pc \in {"cleanup", "next", "teardown", "idle"}
      <4>1. CASE NothingStaged(r) \/ ApplyingDone(r)
        BY <1>c, <4>1 DEF NothingStaged, ApplyingDone, Goto, TypeOK
      <4>2. CASE VerifyFails(r)
        BY <1>c, <4>2 DEF VerifyFails, Goto, TypeOK
      <4>3. CASE VerifyDone(r)
        BY <1>c, <4>3 DEF VerifyDone, Goto, TypeOK
      <4>4. CASE Teardown(r)
        BY <4>4 DEF Teardown, IdleLoop, Goto, TypeOK
      <4>. QED  BY <2>2, <4>1, <4>2, <4>3, <4>4
    <3>. QED  BY <3>1, ConsentIdlePC DEF ToolPCs
  <2>. QED  BY <1>6, <2>1, <2>2
<1>7. ASSUME SandboxDone(r) \/ ChangesStaged(r) PROVE ConsentRun(r)'
  <2>1. l.pc \in {"sandbox", "diff"} /\ l.decision = "none" /\ consent' = consent
    BY <1>0, <1>7 DEF SandboxDone, ChangesStaged, SettledRun, ParkedPCs
  <2>2. PICK pc \in {"diff", "writeback", "cleanup"} : loop'[r] = [l EXCEPT !.pc = pc]
    BY <1>7 DEF SandboxDone, ChangesStaged, Goto, TypeOK
  <2>3. /\ loop'[r].pc = pc /\ loop'[r].decision = "none"
        /\ loop'[r].call = l.call /\ loop'[r].settings = l.settings
    BY <1>0, <2>1, <2>2 DEF LoopType
  <2>4. CASE pc = "cleanup"
    BY <2>3, <2>4, ConsentIdlePC DEF ToolPCs
  <2>5. CASE pc # "cleanup"
    BY <1>0, <2>1, <2>3, <2>5, ConsentSameCall DEF ToolPCs
  <2>. QED  BY <2>4, <2>5
<1>8. ASSUME WritebackAnswered(r) PROVE ConsentRun(r)'
  <2>1. l.pc = "writeback" /\ l.decision # "none" /\ consent' = consent
    BY <1>8 DEF WritebackAnswered
  <2>2. /\ loop'[r].pc = IF l.decision = "yes" THEN "applying" ELSE "cleanup"
        /\ loop'[r].decision = "none"
        /\ loop'[r].call = l.call /\ loop'[r].settings = l.settings
    BY <1>0, <1>8 DEF WritebackAnswered, Goto, TypeOK, LoopType
  <2>. QED  BY <1>0, <2>1, <2>2 DEF ConsentRun, ToolPCs
<1>. QED
  BY <1>b, <1>1, <1>2, <1>3, <1>4, <1>5, <1>6, <1>7, <1>8 DEF LoopStep, ConsentInv

LEMMA UserCallConsent ==
  ASSUME TypeOK, MapsInv, ConsentInv, NEW r \in Runs, UserCall(r)
  PROVE  ConsentInv'
<1>. DEFINE l == loop[r]
<1>0. l \in LoopType /\ SettledRun(r) /\ ConsentRun(r)
  BY DEF TypeOK, MapsInv, ConsentInv
<1>a. \A q \in Runs \ {r} : loop'[q] = loop[q] /\ consent'[q] = consent[q] /\ degraded' = degraded
  BY DEF UserCall, RunTask, ContinueTask, DriveLoop, Stop, RejectPatch, ApplyPatch, Rollback,
         Goto, TypeOK
<1>b. \A q \in Runs \ {r} : ConsentRun(q)'
  BY <1>a, ConsentFrame DEF ConsentInv
<1>u. Answered(r, l, "no") \in LoopType
  BY <1>0 DEF Answered, LoopType
<1>1. ASSUME UNCHANGED <<loop, consent, degraded>> PROVE ConsentRun(r)'
  BY <1>0, <1>1, ConsentFrame
<1>2. ASSUME loop'[r].pc \in {"init", "top", "baseline"} PROVE ConsentRun(r)'
  BY <1>2, ConsentIdlePC DEF ToolPCs
<1>3. ASSUME RunTask(r) PROVE ConsentRun(r)'
  <2>1. CASE Goto(r, [IdleLoop EXCEPT !.pc = "init"])
    <3>1. loop'[r] = [IdleLoop EXCEPT !.pc = "init"]
      BY <2>1 DEF Goto, TypeOK
    <3>. QED  BY <1>2, <3>1 DEF IdleLoop
  <2>. QED  BY <1>1, <1>3, <2>1 DEF RunTask
<1>4. ASSUME ContinueTask(r) PROVE ConsentRun(r)'
  <2>1. CASE DriveLoop(r, FALSE)
    <3>1. loop'[r].pc \in {"top", "baseline"}
      BY <2>1 DEF DriveLoop, EntryPCs, IdleLoop, Goto, TypeOK
    <3>. QED  BY <1>2, <3>1
  <2>. QED  BY <1>1, <1>4, <2>1 DEF ContinueTask
<1>5. ASSUME Stop(r) \/ RejectPatch(r) PROVE ConsentRun(r)'
  <2>1. /\ loop'[r].pc = l.pc /\ loop'[r].call = l.call /\ loop'[r].settings = l.settings
        /\ loop'[r].decision \in {"no", l.decision}
    BY <1>0, <1>u, <1>5 DEF Stop, RejectPatch, Answered, Goto, TypeOK, LoopType
  <2>2. consent' = consent /\ degraded' = degraded
    BY <1>5 DEF Stop, RejectPatch
  <2>. QED  BY <1>0, <2>1, <2>2 DEF ConsentRun, RequiresApproval, GateRefuses
<1>6. ASSUME ApplyPatch(r) PROVE ConsentRun(r)'
  <2>1. CASE Goto(r, [l EXCEPT !.decision = "yes"])
               /\ consent' = [consent EXCEPT ![r] = @ \cup
                    {IF l.pc = "writeback" THEN "write" ELSE "call"}]
    <3>1. /\ loop'[r].pc = l.pc /\ loop'[r].call = l.call /\ loop'[r].settings = l.settings
      BY <1>0, <2>1 DEF Goto, TypeOK, LoopType
    <3>2. consent'[r] = consent[r] \cup {IF l.pc = "writeback" THEN "write" ELSE "call"}
      BY <2>1 DEF TypeOK
    <3>3. degraded' = degraded
      BY <1>6 DEF ApplyPatch
    <3>. QED  BY <1>0, <3>1, <3>2, <3>3 DEF ConsentRun, RequiresApproval, GateRefuses
  <2>. QED  BY <1>1, <1>6, <2>1 DEF ApplyPatch
<1>7. ASSUME Rollback(r) PROVE ConsentRun(r)'
  BY <1>1, <1>7 DEF Rollback
<1>. QED  BY <1>b, <1>3, <1>4, <1>5, <1>6, <1>7 DEF UserCall, ConsentInv

LEMMA EnvironmentConsent ==
  ASSUME TypeOK, ConsentInv, Environment
  PROVE  ConsentInv'
<1>1. CASE ClearRuns
  <2>1. SUFFICES ASSUME NEW r \in Runs
                 PROVE  ConsentRun(r)'
    BY DEF ConsentInv
  <2>2. ConsentRun(r) /\ loop[r] \in LoopType
    BY DEF ConsentInv, TypeOK
  <2>3. Answered(r, loop[r], "no") \in LoopType
    BY <2>2 DEF Answered, LoopType
  <2>4. \/ loop'[r] = loop[r]
        \/ loop'[r] = [Answered(r, loop[r], "no") EXCEPT !.aborted = @ \/ mem[r].controller]
    BY <1>1 DEF ClearRuns
  <2>5. /\ loop'[r].pc = loop[r].pc /\ loop'[r].call = loop[r].call
        /\ loop'[r].settings = loop[r].settings
        /\ loop'[r].decision \in {"no", loop[r].decision}
    BY <2>2, <2>3, <2>4 DEF Answered, LoopType
  <2>6. consent' = consent /\ degraded' = degraded
    BY <1>1 DEF ClearRuns
  <2>. QED  BY <2>2, <2>5, <2>6 DEF ConsentRun, RequiresApproval, GateRefuses
<1>2. CASE GateChanges
  <2>1. \A r \in Runs : loop[r].pc # "exec" /\ UNCHANGED <<loop, consent>>
    BY <1>2 DEF GateChanges, Quiet, Micro, MicroPCs
  <2>. QED  BY <2>1 DEF ConsentInv, ConsentRun
<1>3. CASE Crash
  <2>1. \A r \in Runs : loop'[r].pc = "idle"
    BY <1>3 DEF Crash, IdleLoop
  <2>. QED  BY <2>1, ConsentIdlePC DEF ConsentInv, ToolPCs
<1>4. CASE Restart
  BY <1>4, ConsentFrame DEF Restart, ConsentInv
<1>. QED  BY <1>1, <1>2, <1>3, <1>4 DEF Environment

\* No patch, memory write, plugin mutation or confirmed command starts, and no
\* sandboxed change is written back, without the user's approval of that call:
\* whatever stops, clears, gate changes, crashes and repeated call ids happen.
THEOREM MutationsAreConsented == Spec => []ConsentBeforeMutation
<1>1. Init => ConsentInv
  BY DEF Init, ConsentInv, ConsentRun, IdleLoop, ToolPCs
<1>2. TypeOK /\ MapsInv /\ ConsentInv /\ [Next]_vars => ConsentInv'
  <2>1. ASSUME ConsentInv, UNCHANGED vars PROVE ConsentInv'
    BY <2>1, ConsentFrame DEF vars, ConsentInv
  <2>. QED  BY <2>1, LoopStepConsent, UserCallConsent, EnvironmentConsent DEF Next
<1>3. ConsentInv => ConsentBeforeMutation
  BY DEF ConsentInv, ConsentRun, ConsentBeforeMutation, ToolPCs
<1>. QED  BY <1>1, <1>2, <1>3, TypeCorrect, MapsInvariant, PTL DEF Spec

(***************************************************************************)
(* The record.  RecordIsTrue is false of sandboxed commands and of a       *)
(* rollback under a live loop, so both are assumed away.  That no call     *)
(* closes the row of a live run rests on what a waiting status means: the  *)
(* loop is parked with its approval registered, or its refusal is on the   *)
(* way, or it is about to close the row itself.  In the first case a       *)
(* reject answers the approval and leaves the row alone; in the others no  *)
(* user call can come in between.                                          *)
(***************************************************************************)

HostPCs == {"init", "baseline", "top", "compress", "model", "next", "exec", "parked",
            "patching", "tool", "verifying", "teardown"}

Waits(r) == HasRow(r) /\ row[r].status = "waiting_for_user_approval"

HostRun(r) ==
  LET l == loop[r] IN
    /\ l.pc \in HostPCs \cup {"idle"}
    /\ ~l.settings.sandbox
    /\ ~up => ~Live(r)
    /\ HasRow(r) /\ Live(r) => row[r].status \in LiveStatuses \cup {"waiting_for_user_approval"}
    /\ Waits(r) /\ Live(r) =>
         \/ l.pc = "teardown"
         \/ l.pc = "parked" /\ (l.decision = "no" \/ (l.decision = "none" /\ mem[r].approval))
    /\ HasRow(r) /\ ~Live(r) => ReasonFits(row[r])

HostInv == \A r \in Runs : HostRun(r)

HostCommands == ~RollbackWhenLive /\ \A s \in SettingsChoices : ~s.sandbox

\* Another run's step.
LEMMA HostFrame ==
  ASSUME NEW r, HostRun(r), row'[r] = row[r], mem'[r] = mem[r], loop'[r] = loop[r], up, up'
  PROVE  HostRun(r)'
BY DEF HostRun, Waits, HasRow, Live

\* A loop that is not parked moves on, and its row stays or shows it at work.
LEMMA HostMoves ==
  ASSUME NEW r, HostRun(r), up, up', loop[r].pc \notin {"idle", "parked", "teardown"},
         loop'[r].pc \in HostPCs, loop'[r].settings = loop[r].settings,
         row'[r] = row[r] \/ row'[r].status \in LiveStatuses
                         \/ (~HasRow(r) /\ row'[r].status = row[r].status)
  PROVE  HostRun(r)'
BY DEF HostRun, Waits, HasRow, Live, LiveStatuses, HostPCs

LEMMA SetStatusIs ==
  ASSUME TypeOK, NEW r \in Runs, NEW status \in RunStates, SetStatus(r, status)
  PROVE  /\ HasRow(r) => row'[r].status = status
         /\ ~HasRow(r) => row'[r] = row[r]
         /\ \A q \in Runs \ {r} : row'[q] = row[q]
BY DEF TypeOK, RowType, SetStatus, WithStatus, HasRow

\* A loop that ended wrote a reason that fits, or could not write at all.
LEMMA FailedFits ==
  ASSUME NEW w \in RowType, w.status \in RunStates => w.status \notin Terminal \/ ReasonFits(w)
  PROVE  /\ Failed(w).status \in RunStates <=> w.status \in RunStates
         /\ w.status \in RunStates => ReasonFits(Failed(w))
         /\ Reconciled(w).status \in RunStates <=> w.status \in RunStates
         /\ w.status \in RunStates => ReasonFits(Reconciled(w))
<1>1. CASE w.status \in RunStates \ Terminal
  <2>1. Failed(w).status = "failed" /\ Failed(w).exitReason = "failure"
    BY <1>1 DEF Failed, Closed, RowType
  <2>2. Reconciled(w).status = "failed" /\ Reconciled(w).exitReason = "interrupted_restart"
    BY <1>1 DEF Reconciled, Closed, RowType
  <2>. QED  BY <1>1, <2>1, <2>2 DEF ReasonFits, RunStates
<1>2. CASE w.status \notin RunStates \ Terminal
  BY <1>2 DEF Failed, Reconciled
<1>. QED  BY <1>1, <1>2

LEMMA LoopStepHost ==
  ASSUME TypeOK, MapsInv, HostInv, HostCommands, NEW r \in Runs, LoopStep(r)
  PROVE  HostInv'
<1>. DEFINE l == loop[r]
<1>0. l \in LoopType /\ SettledRun(r) /\ HostRun(r) /\ row[r] \in RowType
  BY DEF TypeOK, MapsInv, HostInv
<1>u. up /\ up'
  <2>0. Quiet => up
    BY DEF Quiet
  <2>1. CASE \/ InitDone(r) \/ InitFails(r) \/ BaselineDone(r) \/ StopAtTop(r)
             \/ BudgetExhausted(r) \/ StartIteration(r) \/ CompressDone(r) \/ ModelThrows(r)
             \/ ModelDone(r) \/ TurnEnds(r)
    BY <2>0, <2>1 DEF InitDone, InitFails, BaselineDone, StopAtTop, BudgetExhausted, StartIteration,
                CompressDone, ModelThrows, ModelDone, TurnEnds
  <2>2. CASE \E call \in Calls : UngatedCall(r, call) \/ GatedCall(r, call)
    BY <2>2 DEF UngatedCall, GatedCall, NextCall
  <2>3. CASE \/ Resume(r) \/ RefuseCall(r) \/ Execute(r) \/ PatchDone(r) \/ ToolDone(r)
             \/ SandboxDone(r) \/ NothingStaged(r) \/ ChangesStaged(r)
    BY <2>0, <2>3 DEF Resume, RefuseCall, Execute, PatchDone, ToolDone, SandboxDone, NothingStaged,
                ChangesStaged
  <2>4. CASE \/ WritebackAnswered(r) \/ ApplyingDone(r) \/ CleanupDone(r) \/ VerifyFails(r)
             \/ VerifyDone(r) \/ Teardown(r)
    BY <2>0, <2>4 DEF WritebackAnswered, ApplyingDone, CleanupDone, VerifyFails, VerifyDone, Teardown
  <2>. QED  BY <2>1, <2>2, <2>3, <2>4 DEF LoopStep
<1>a. \A q \in Runs \ {r} : loop'[q] = loop[q] /\ mem'[q] = mem[q] /\ row'[q] = row[q]
  BY DEF LoopStep, InitDone, InitFails, BaselineDone, StopAtTop, BudgetExhausted, StartIteration,
         CompressDone, ModelThrows, ModelDone, TurnEnds, UngatedCall, GatedCall, NextCall, Resume,
         RefuseCall, Execute, PatchDone, PatchReturns, ToolDone, SandboxDone, NothingStaged,
         ChangesStaged, WritebackAnswered, ApplyingDone, CleanupDone, VerifyFails, VerifyDone,
         Teardown, DriveLoop, Goto, SetStatus, TypeOK
<1>b. \A q \in Runs \ {r} : HostRun(q)'
  BY <1>a, <1>u, HostFrame DEF HostInv
<1>f. \A outcome : /\ End(l, outcome).pc = "teardown"
                    /\ End(l, outcome).settings = l.settings
  BY <1>0 DEF End, LoopType
<1>c. \A pc : /\ Checked(l, pc).pc \in {pc, "teardown"}
               /\ Checked(l, pc).settings = l.settings
               /\ [l EXCEPT !.pc = pc].pc = pc
               /\ [l EXCEPT !.pc = pc].settings = l.settings
  BY <1>0, <1>f DEF Checked, LoopType
<1>t. /\ Threw(l).pc = "teardown" /\ Threw(l).settings = l.settings
      /\ Returned(l).pc = "next" /\ Returned(l).settings = l.settings
  BY <1>0, <1>f DEF Threw, Returned, LoopType
<1>g. ASSUME NEW m, Goto(r, m) PROVE loop'[r] = m
  BY <1>g DEF Goto, TypeOK
<1>. USE DEF HostPCs
<1>1. ASSUME \/ BaselineDone(r) \/ StopAtTop(r) \/ BudgetExhausted(r) \/ StartIteration(r)
             \/ CompressDone(r) \/ ModelThrows(r) \/ TurnEnds(r) \/ ToolDone(r) \/ VerifyFails(r)
      PROVE  HostRun(r)'
  <2>1. l.pc \notin {"idle", "parked", "teardown"} /\ row' = row
    BY <1>1 DEF BaselineDone, StopAtTop, BudgetExhausted, StartIteration, CompressDone,
                ModelThrows, TurnEnds, ToolDone, VerifyFails
  <2>2. loop'[r].pc \in HostPCs /\ loop'[r].settings = l.settings
    <3>1. CASE BaselineDone(r) \/ CompressDone(r) \/ VerifyFails(r)
      <4>1. loop'[r] \in {[l EXCEPT !.pc = "top"], Checked(l, "model"), Checked(l, "next")}
        BY <3>1 DEF BaselineDone, CompressDone, VerifyFails, Goto, TypeOK
      <4>2. Checked(l, "model").pc \in HostPCs /\ Checked(l, "model").settings = l.settings
        BY <1>c
      <4>3. Checked(l, "next").pc \in HostPCs /\ Checked(l, "next").settings = l.settings
        BY <1>c
      <4>4. [l EXCEPT !.pc = "top"].pc = "top" /\ [l EXCEPT !.pc = "top"].settings = l.settings
        BY <1>0 DEF LoopType
      <4>. QED  BY <4>1, <4>2, <4>3, <4>4
    <3>4. CASE TurnEnds(r)
      BY <3>4, <1>c, <1>f DEF TurnEnds, Goto, TypeOK
    <3>2. CASE StopAtTop(r) \/ BudgetExhausted(r) \/ ModelThrows(r) \/ ToolDone(r)
      BY <3>2, <1>f, <1>t, <1>g DEF StopAtTop, BudgetExhausted, ModelThrows, ToolDone
    <3>3. CASE StartIteration(r)
      BY <1>0, <3>3 DEF StartIteration, LoopType, Goto, TypeOK
    <3>. QED  BY <1>1, <3>1, <3>2, <3>3, <3>4
  <2>. QED  BY <1>0, <1>u, <2>1, <2>2, HostMoves
<1>2. ASSUME InitDone(r) PROVE HostRun(r)'
  <2>1. PICK settings \in SettingsChoices : \E pc \in EntryPCs(settings) :
          Goto(r, [IdleLoop EXCEPT !.pc = pc, !.aborted = l.aborted, !.settings = settings])
    BY <1>2 DEF InitDone, DriveLoop
  <2>2. loop'[r].pc \in {"top", "baseline"} /\ loop'[r].settings = settings
    BY <2>1 DEF EntryPCs, IdleLoop, Goto, TypeOK
  <2>3. l.pc = "init" /\ row' = row
    BY <1>2 DEF InitDone
  <2>. QED  BY <1>0, <1>u, <2>2, <2>3 DEF HostRun, HostCommands, Waits, HasRow, Live, LiveStatuses
<1>3. ASSUME InitFails(r) PROVE HostRun(r)'
  <2>1. loop'[r] = IdleLoop /\ l.pc = "init" /\ row'[r] = Failed(row[r])
    BY <1>3 DEF InitFails, Goto, TypeOK
  <2>2. row[r].status \in RunStates => row[r].status \notin Terminal
    BY <1>0, <2>1 DEF HostRun, HasRow, Live, LiveStatuses, Terminal
  <2>3. HasRow(r)' => ReasonFits(row'[r])
    BY <1>0, <2>1, <2>2, FailedFits DEF HasRow
  <2>. QED  BY <1>u, <2>1, <2>3 DEF HostRun, HasRow, Waits, Live, IdleLoop, NoSettings, ReasonFits
<1>4. ASSUME ModelDone(r) PROVE HostRun(r)'
  <2>1. row'[r] = row[r] \/ row'[r].status \in LiveStatuses
    BY <1>4, SetStatusIs DEF ModelDone, RunStates, LiveStatuses
  <2>2. \/ \E outcome \in Outcomes : loop'[r] = End(l, outcome)
        \/ \E n \in 1..MaxCallsPerTurn : loop'[r] = [l EXCEPT !.pc = "next", !.todo = n]
    BY <1>4 DEF ModelDone, Outcomes, Goto, TypeOK
  <2>3. loop'[r].pc \in HostPCs /\ loop'[r].settings = l.settings
    BY <1>0, <1>f, <2>2 DEF LoopType
  <2>4. l.pc = "model"
    BY <1>4 DEF ModelDone
  <2>. QED  BY <1>0, <1>u, <2>1, <2>3, <2>4, HostMoves
<1>5. ASSUME \E call \in Calls : UngatedCall(r, call) PROVE HostRun(r)'
  <2>1. l.pc = "next" /\ row' = row /\ loop'[r].pc = "exec" /\ loop'[r].settings = l.settings
    BY <1>0, <1>5 DEF UngatedCall, NextCall, Taken, LoopType, Goto, TypeOK
  <2>. QED  BY <1>0, <1>u, <2>1, HostMoves
<1>6. ASSUME \E call \in Calls : GatedCall(r, call) PROVE HostRun(r)'
  <2>1. PICK call \in Calls : GatedCall(r, call)
    BY <1>6
  <2>. DEFINE t == Taken(l, call)
  <2>2. l.pc = "next" /\ l.decision = "none"
    BY <1>0, <2>1 DEF GatedCall, NextCall, SettledRun, ParkedPCs
  <2>3. CASE MaySet(r, "waiting_for_user_approval")
    <3>1. /\ SetStatus(r, "waiting_for_user_approval")
          /\ mem'[r] = Asking(mem[r], PendingOf(call.kind))
          /\ loop'[r] = [t EXCEPT !.pc = "parked"]
      BY <2>1, <2>3 DEF GatedCall, Goto, TypeOK
    <3>2. HasRow(r) => row'[r].status = "waiting_for_user_approval"
      BY <3>1, SetStatusIs DEF RunStates
    <3>3. ~HasRow(r) => row'[r] = row[r]
      BY <3>1, SetStatusIs DEF RunStates
    <3>4. mem'[r].approval
      BY <3>1 DEF Asking, TypeOK, MemType
    <3>5. loop'[r].pc = "parked" /\ loop'[r].decision = "none" /\ loop'[r].settings = l.settings
      BY <1>0, <2>2, <3>1 DEF Taken, LoopType
    <3>. QED  BY <1>0, <1>u, <3>2, <3>3, <3>4, <3>5 DEF HostRun, Waits, HasRow, Live, LiveStatuses
  <2>4. CASE ~MaySet(r, "waiting_for_user_approval")
    <3>1. row' = row /\ loop'[r] = Threw(t)
      BY <2>1, <2>4 DEF GatedCall, Goto, TypeOK
    <3>2. loop'[r].pc = "teardown" /\ loop'[r].settings = l.settings
      BY <1>0, <3>1 DEF Threw, End, Taken, LoopType
    <3>. QED  BY <1>0, <1>u, <2>2, <3>1, <3>2, HostMoves
  <2>. QED  BY <2>3, <2>4
<1>7. ASSUME Resume(r) PROVE HostRun(r)'
  <2>. DEFINE m == [l EXCEPT !.decision = "none"]
              g == [m EXCEPT !.grants = @ \cup {m.call}]
  <2>1. l.pc = "parked" /\ l.decision # "none" /\ row' = row
    BY <1>7 DEF Resume
  <2>2. loop'[r] = IF l.decision = "no" THEN End(m, "cancelled") ELSE Checked(g, "exec")
    BY <1>7 DEF Resume, Goto, TypeOK
  <2>3. /\ loop'[r].pc = "teardown" \/ (loop'[r].pc = "exec" /\ l.decision # "no")
        /\ loop'[r].settings = l.settings
    BY <1>0, <2>2 DEF Checked, End, LoopType
  <2>. QED  BY <1>0, <1>u, <2>1, <2>3 DEF HostRun, Waits, HasRow, Live
<1>p. ASSUME NEW applied \in BOOLEAN, PatchReturns(r, applied), l.pc \in {"exec", "patching"}
      PROVE  HostRun(r)'
  <2>. DEFINE streak == IF l.repairs > MaxRepairAttempts THEN l.repairs ELSE l.repairs + 1
              m == [l EXCEPT !.repairs = streak]
  <2>1. /\ Checked(m, "next").pc \in {"next", "teardown"}
        /\ Checked(m, "next").settings = l.settings
        /\ [m EXCEPT !.pc = "verifying"].pc = "verifying"
        /\ [m EXCEPT !.pc = "verifying"].settings = l.settings
    BY <1>0 DEF Checked, End, LoopType
  <2>2. loop'[r] = Checked(m, "next") \/ loop'[r] = [m EXCEPT !.pc = "verifying"]
    BY <1>p DEF PatchReturns, Goto, TypeOK
  <2>3. row'[r] = row[r] \/ row'[r].status \in LiveStatuses
    BY <1>p, SetStatusIs DEF PatchReturns, RunStates, LiveStatuses
  <2>. QED  BY <1>0, <1>p, <1>u, <2>1, <2>2, <2>3, HostMoves
<1>8. ASSUME RefuseCall(r) \/ PatchDone(r) PROVE HostRun(r)'
  <2>1. CASE \E applied \in BOOLEAN : PatchReturns(r, applied)
    BY <1>8, <1>p, <2>1 DEF RefuseCall, PatchDone
  <2>2. CASE RefuseCall(r) /\ Goto(r, Returned(l)) /\ UNCHANGED row
    <3>1. l.pc = "exec"
      BY <2>2 DEF RefuseCall
    <3>. QED  BY <1>0, <1>u, <1>t, <1>g, <2>2, <3>1, HostMoves
  <2>. QED  BY <1>8, <2>1, <2>2 DEF RefuseCall, PatchDone
<1>9. ASSUME Execute(r) PROVE HostRun(r)'
  <2>1. l.pc = "exec" /\ row' = row /\ loop'[r].pc = ToolPC(l) /\ loop'[r].settings = l.settings
    BY <1>0, <1>9 DEF Execute, Goto, TypeOK, LoopType
  <2>2. ToolPC(l) \in {"patching", "tool"}
    BY <1>0 DEF HostRun, ToolPC
  <2>. QED  BY <1>0, <1>u, <2>1, <2>2, HostMoves
<1>10. ASSUME \/ SandboxDone(r) \/ NothingStaged(r) \/ ChangesStaged(r)
              \/ WritebackAnswered(r) \/ ApplyingDone(r) \/ CleanupDone(r)
       PROVE  HostRun(r)'
  <2>1. l.pc \in {"sandbox", "diff", "writeback", "applying", "cleanup"}
    BY <1>10 DEF SandboxDone, NothingStaged, ChangesStaged, WritebackAnswered, ApplyingDone,
                 CleanupDone
  <2>. QED  BY <1>0, <2>1 DEF HostRun
<1>11. ASSUME VerifyDone(r) PROVE HostRun(r)'
  <2>1. row'[r] = row[r] \/ row'[r].status \in LiveStatuses
    BY <1>11, SetStatusIs DEF VerifyDone, RunStates, LiveStatuses
  <2>2. l.pc = "verifying" /\ loop'[r].pc = "next" /\ loop'[r].settings = l.settings
    BY <1>11, <1>c DEF VerifyDone, Goto, TypeOK
  <2>. QED  BY <1>0, <1>u, <2>1, <2>2, HostMoves
<1>12. ASSUME Teardown(r) PROVE HostRun(r)'
  <2>. DEFINE final == FinalStatus(l.outcome)
              saved == IF HasRow(r)
                       THEN [row[r] EXCEPT !.messages = TRUE,
                                           !.exitReason = ExitReasonOf(l.outcome)]
                       ELSE row[r]
  <2>1. loop'[r] = IdleLoop /\ l.pc = "teardown"
    BY <1>12 DEF Teardown, Goto, TypeOK
  <2>2. row'[r] = IF MaySet(r, final) THEN WithStatus(saved, final) ELSE Failed(saved)
    BY <1>12 DEF Teardown, TypeOK
  <2>3. saved.status = row[r].status /\ saved \in RowType
    BY <1>0 DEF RowType, ExitReasonOf, ExitReasons
  <2>4. HasRow(r) => row[r].status \notin Terminal /\ saved.exitReason = ExitReasonOf(l.outcome)
    BY <1>0, <2>1 DEF HostRun, Live, LiveStatuses, Terminal, RowType
  <2>5. final \in RunStates
    BY DEF FinalStatus, RunStates
  <2>6. HasRow(r)' <=> HasRow(r)
    BY <2>2, <2>3, <2>5 DEF HasRow, WithStatus, Failed, Closed, RowType, RunStates
  <2>7. CASE HasRow(r) /\ MaySet(r, final)
    <3>1. row'[r].status = final /\ row'[r].exitReason = ExitReasonOf(l.outcome)
      BY <2>2, <2>3, <2>4, <2>7 DEF WithStatus, HasRow, RowType
    <3>2. ReasonFits(row'[r])
      BY <3>1 DEF ReasonFits, FinalStatus, ExitReasonOf
    <3>. QED  BY <1>u, <2>1, <3>2 DEF HostRun, Waits, Live, IdleLoop, NoSettings
  <2>8. CASE HasRow(r) /\ ~MaySet(r, final)
    <3>1. ReasonFits(row'[r])
      BY <2>2, <2>3, <2>4, <2>8, FailedFits DEF HasRow
    <3>. QED  BY <1>u, <2>1, <3>1 DEF HostRun, Waits, Live, IdleLoop, NoSettings
  <2>9. CASE ~HasRow(r)
    BY <1>u, <2>1, <2>6, <2>9 DEF HostRun, Waits, Live, IdleLoop, NoSettings
  <2>. QED  BY <2>7, <2>8, <2>9
<1>. QED
  BY <1>b, <1>1, <1>2, <1>3, <1>4, <1>5, <1>6, <1>7, <1>8, <1>9, <1>10, <1>11, <1>12
  DEF LoopStep, HostInv

LEMMA UserCallHost ==
  ASSUME TypeOK, MapsInv, HostInv, HostCommands, NEW r \in Runs, UserCall(r)
  PROVE  HostInv'
<1>. DEFINE l == loop[r]
<1>0. l \in LoopType /\ mem[r] \in MemType /\ row[r] \in RowType /\ SettledRun(r) /\ HostRun(r)
  BY DEF TypeOK, MapsInv, HostInv
<1>u. up /\ up' /\ ~Micro(r)
  <2>1. Quiet /\ up' = up
    BY DEF UserCall, RunTask, ContinueTask, Stop, RejectPatch, ApplyPatch, Rollback
  <2>. QED  BY <2>1 DEF Quiet
<1>a. \A q \in Runs \ {r} : row'[q] = row[q] /\ mem'[q] = mem[q] /\ loop'[q] = loop[q]
  <2>1. ASSUME RunTask(r) \/ ContinueTask(r)
        PROVE  \A q \in Runs \ {r} : row'[q] = row[q] /\ mem'[q] = mem[q] /\ loop'[q] = loop[q]
    BY <2>1 DEF RunTask, ContinueTask, DriveLoop, SetStatus, Goto, TypeOK
  <2>2. ASSUME Stop(r) \/ RejectPatch(r)
        PROVE  \A q \in Runs \ {r} : row'[q] = row[q] /\ mem'[q] = mem[q] /\ loop'[q] = loop[q]
    BY <2>2 DEF Stop, RejectPatch, SetStatus, Goto, TypeOK
  <2>3. ASSUME ApplyPatch(r) \/ Rollback(r)
        PROVE  \A q \in Runs \ {r} : row'[q] = row[q] /\ mem'[q] = mem[q] /\ loop'[q] = loop[q]
    BY <2>3 DEF ApplyPatch, Rollback, SetStatus, Goto, TypeOK
  <2>. QED  BY <2>1, <2>2, <2>3 DEF UserCall
<1>b. \A q \in Runs \ {r} : HostRun(q)'
  BY <1>a, <1>u, HostFrame DEF HostInv
<1>d. \A decision : /\ Answered(r, l, decision).pc = l.pc
                    /\ Answered(r, l, decision).settings = l.settings
                    /\ Answered(r, l, decision).decision =
                         IF mem[r].approval THEN decision ELSE l.decision
  BY <1>0 DEF Answered, LoopType
<1>w. Waits(r) /\ Live(r) => mem[r].approval
  BY <1>0, <1>u DEF HostRun, Micro, MicroPCs, ParkedPCs
<1>1. ASSUME RunTask(r) \/ ContinueTask(r) PROVE HostRun(r)'
  <2>1. l.pc = "idle"
    BY <1>0, <1>1 DEF RunTask, ContinueTask, SettledRun, Live
  <2>2. CASE row'[r] = Closed(row[r], "failed", "failure") /\ loop' = loop
    <3>1. ReasonFits(row'[r]) /\ row'[r].status = "failed"
      BY <1>0, <2>2 DEF Closed, RowType, ReasonFits
    <3>. QED  BY <1>0, <1>u, <2>1, <2>2, <3>1 DEF HostRun, Waits, HasRow, Live
  <2>3. CASE RunTask(r) /\ loop'[r] = [IdleLoop EXCEPT !.pc = "init"]
    <3>1. CASE row'[r] = [row[r] EXCEPT !.status = "tool_use"]
      <4>1. row'[r].status = "tool_use"
        BY <1>0, <3>1 DEF RowType
      <4>2. loop'[r].pc = "init" /\ ~loop'[r].settings.sandbox
        BY <2>3 DEF IdleLoop, NoSettings
      <4>. QED  BY <1>u, <4>1, <4>2 DEF HostRun, HostPCs, Waits, HasRow, Live, LiveStatuses
    <3>2. CASE row'[r] = Closed(row[r], "failed", "failure") /\ loop' = loop
      BY <2>2, <3>2
    <3>. QED  BY <2>3, <3>1, <3>2 DEF RunTask, TypeOK
  <2>4. CASE ContinueTask(r) /\ SetStatus(r, "tool_use") /\ DriveLoop(r, FALSE)
    <3>1. row'[r].status = "tool_use"
      BY <2>4, SetStatusIs DEF ContinueTask, RunStates
    <3>2. PICK settings \in SettingsChoices : \E pc \in EntryPCs(settings) :
            Goto(r, [IdleLoop EXCEPT !.pc = pc, !.aborted = FALSE, !.settings = settings])
      BY <2>4 DEF DriveLoop
    <3>3. loop'[r].pc \in {"top", "baseline"} /\ loop'[r].settings = settings
      BY <3>2 DEF EntryPCs, IdleLoop, Goto, TypeOK
    <3>. QED  BY <1>u, <3>1, <3>3 DEF HostRun, HostPCs, HostCommands, Waits, HasRow, Live, LiveStatuses
  <2>. QED  BY <1>1, <2>2, <2>3, <2>4 DEF RunTask, ContinueTask, Goto, TypeOK
<1>2. ASSUME Stop(r) PROVE HostRun(r)'
  <2>. DEFINE m == Answered(r, l, "no")
  <2>1. loop'[r] = [m EXCEPT !.aborted = @ \/ mem[r].controller] /\ row' = row
    BY <1>2 DEF Stop, Goto, TypeOK
  <2>2. m \in LoopType
    BY <1>0 DEF Answered, LoopType
  <2>3. /\ loop'[r].pc = l.pc /\ loop'[r].settings = l.settings
        /\ loop'[r].decision = IF mem[r].approval THEN "no" ELSE l.decision
    BY <1>d, <2>1, <2>2 DEF LoopType
  <2>. QED  BY <1>0, <1>u, <1>w, <2>1, <2>3 DEF HostRun, Waits, HasRow, Live
<1>3. ASSUME RejectPatch(r) PROVE HostRun(r)'
  <2>1. /\ loop'[r].pc = l.pc /\ loop'[r].settings = l.settings
        /\ loop'[r].decision = IF mem[r].approval THEN "no" ELSE l.decision
    BY <1>3, <1>d DEF RejectPatch, Goto, TypeOK
  <2>2. CASE UNCHANGED row
    BY <1>0, <1>u, <1>w, <2>1, <2>2 DEF HostRun, Waits, HasRow, Live
  <2>3. CASE ~mem[r].approval /\ row[r].status \notin LiveStatuses /\ SetStatus(r, "cancelled")
    <3>1. HasRow(r) => ~Live(r) /\ row'[r].status = "cancelled"
      BY <1>0, <1>w, <2>3, SetStatusIs DEF HostRun, Waits, RunStates
    <3>2. ~HasRow(r) => row'[r] = row[r]
      BY <2>3, SetStatusIs DEF RunStates
    <3>. QED  BY <1>0, <1>u, <2>1, <3>1, <3>2 DEF HostRun, Waits, HasRow, Live, ReasonFits
  <2>. QED  BY <1>3, <2>2, <2>3 DEF RejectPatch
<1>4. ASSUME ApplyPatch(r) PROVE HostRun(r)'
  <2>. DEFINE status == IF mem[r].pending \in {"mutation", "command_confirm"}
                        THEN "tool_use" ELSE "applying_patch"
  <2>1. l.pc = "parked" /\ mem[r].approval
    BY <1>0, <1>4 DEF ApplyPatch, SettledRun, HostRun, ParkedPCs, HostPCs
  <2>2. status \in LiveStatuses /\ status \in RunStates
    BY DEF LiveStatuses, RunStates
  <2>3. Waits(r) => MaySet(r, status)
    BY DEF Waits, MaySet, CanTransition, RunTransitions
  <2>4. CASE MaySet(r, status)
    <3>1. SetStatus(r, status) /\ loop'[r] = [l EXCEPT !.decision = "yes"]
      BY <1>4, <2>4 DEF ApplyPatch, Goto, TypeOK
    <3>2. loop'[r].pc = "parked" /\ loop'[r].settings = l.settings
      BY <1>0, <2>1, <3>1 DEF LoopType
    <3>3. HasRow(r) => row'[r].status = status
      BY <2>2, <3>1, SetStatusIs
    <3>4. ~HasRow(r) => row'[r] = row[r]
      BY <2>2, <3>1, SetStatusIs
    <3>. QED  BY <1>0, <1>u, <2>2, <3>2, <3>3, <3>4
              DEF HostRun, HostPCs, Waits, HasRow, Live, LiveStatuses
  <2>5. CASE ~MaySet(r, status)
    <3>1. loop' = loop /\ row' = row
      BY <1>4, <2>5 DEF ApplyPatch
    <3>. QED  BY <1>0, <1>u, <2>3, <2>5, <3>1 DEF HostRun, Waits, HasRow, Live
  <2>. QED  BY <2>4, <2>5
<1>5. ASSUME Rollback(r) PROVE HostRun(r)'
  <2>1. loop' = loop /\ ~Live(r) /\ row'[r] = Closed(row[r], "cancelled", "rolled_back")
    BY <1>5 DEF Rollback, HostCommands, TypeOK
  <2>2. row'[r].status = "cancelled"
    BY <1>0, <2>1 DEF Closed, RowType
  <2>. QED  BY <1>0, <1>u, <2>1, <2>2 DEF HostRun, Waits, HasRow, Live, ReasonFits
<1>. QED  BY <1>b, <1>1, <1>2, <1>3, <1>4, <1>5 DEF UserCall, HostInv

LEMMA EnvironmentHost ==
  ASSUME TypeOK, MapsInv, HostInv, Environment
  PROVE  HostInv'
<1>1. SUFFICES ASSUME NEW r \in Runs PROVE HostRun(r)'
  BY DEF HostInv
<1>0. /\ loop[r] \in LoopType /\ mem[r] \in MemType /\ row[r] \in RowType
      /\ SettledRun(r) /\ HostRun(r)
  BY DEF TypeOK, MapsInv, HostInv
<1>2. CASE ClearRuns
  <2>. DEFINE m == Answered(r, loop[r], "no")
  <2>1. CASE HasRow(r)
    <3>1. loop'[r] = [m EXCEPT !.aborted = @ \/ mem[r].controller] /\ row'[r].status = "deleted"
      BY <1>2, <2>1 DEF ClearRuns
    <3>2. m \in LoopType /\ m.pc = loop[r].pc /\ m.settings = loop[r].settings
      BY <1>0 DEF Answered, LoopType
    <3>3. loop'[r].pc = loop[r].pc /\ loop'[r].settings = loop[r].settings
      BY <3>1, <3>2 DEF LoopType
    <3>. QED  BY <1>0, <1>2, <3>1, <3>3 DEF ClearRuns, Quiet, HostRun, Waits, HasRow, Live, RunStates
  <2>2. CASE ~HasRow(r)
    <3>1. loop'[r] = loop[r] /\ row'[r] = row[r]
      BY <1>2, <2>2 DEF ClearRuns
    <3>. QED  BY <1>0, <1>2, <2>2, <3>1 DEF ClearRuns, Quiet, HostRun, Waits, HasRow, Live
  <2>. QED  BY <2>1, <2>2
<1>3. CASE GateChanges
  BY <1>0, <1>3 DEF GateChanges, HostRun, Waits, HasRow, Live
<1>4. CASE Crash
  <2>1. loop'[r] = IdleLoop /\ row' = row
    BY <1>4 DEF Crash
  <2>2. HasRow(r) => ReasonFits(row[r])
    BY <1>0 DEF HostRun, ReasonFits, LiveStatuses
  <2>. QED  BY <2>1, <2>2 DEF HostRun, Waits, HasRow, Live, IdleLoop, NoSettings
<1>5. CASE Restart
  <2>1. loop' = loop /\ ~Live(r) /\ row'[r] = Reconciled(row[r])
    BY <1>0, <1>5 DEF Restart, HostRun
  <2>2. HasRow(r)' => ReasonFits(row'[r])
    BY <1>0, <2>1, FailedFits DEF HostRun, HasRow
  <2>. QED  BY <1>0, <2>1, <2>2 DEF HostRun, Waits, Live
<1>. QED  BY <1>2, <1>3, <1>4, <1>5 DEF Environment

\* With commands on the host and no rollback under a live loop, what the database
\* shows of a run is true of its loop, for any number of runs and any limits.
THEOREM RecordsAreTrue ==
  ASSUME HostCommands
  PROVE  Spec => []RecordIsTrue
<1>1. Init => HostInv
  BY DEF Init, HostInv, HostRun, Waits, HasRow, RunStates, Live, IdleLoop, NoSettings
<1>2. TypeOK /\ MapsInv /\ HostInv /\ [Next]_vars => HostInv'
  <2>1. ASSUME HostInv, UNCHANGED vars PROVE HostInv'
    BY <2>1 DEF vars, HostInv, HostRun, Waits, HasRow, Live
  <2>. QED  BY <2>1, LoopStepHost, UserCallHost, EnvironmentHost DEF Next
<1>3. MapsInv /\ HostInv => RecordIsTrue
  <2>1. SUFFICES ASSUME MapsInv, HostInv, NEW r \in Runs, HasRow(r)
                 PROVE  /\ up => (row[r].status \notin Terminal <=> Live(r))
                        /\ ~Live(r) => ReasonFits(row[r])
    BY DEF RecordIsTrue
  <2>2. SettledRun(r) /\ HostRun(r)
    BY <2>1 DEF MapsInv, HostInv
  <2>. QED  BY <2>1, <2>2 DEF SettledRun, HostRun, LiveStatuses, Terminal
<1>. QED  BY <1>1, <1>2, <1>3, TypeCorrect, MapsInvariant, PTL DEF Spec

(***************************************************************************)
(* Questions and answers.  A parked loop shows its question and can be     *)
(* answered, an approval that leaves the map answers its loop, and a loop  *)
(* that was stopped starts no tool: the code between the answer, or the    *)
(* model's call, and the tool looks at the abort signal once and runs in   *)
(* one task, so that no stop comes after the look.                         *)
(***************************************************************************)

ToolStarts == {"patching", "tool", "sandbox"}

Asks(r) == loop[r].pc \in ParkedPCs /\ loop[r].decision = "none"

AnswerRun(r) ==
  /\ loop[r].pc = "exec" => ~loop[r].aborted
  /\ Asks(r) => up
  /\ Asks(r) /\ HasRow(r) =>
       /\ mem[r].approval
       /\ row[r].status = "waiting_for_user_approval"
       /\ mem[r].pending = IF loop[r].pc = "writeback" THEN "command_writeback"
                           ELSE PendingOf(loop[r].call.kind)

AnswerInv == \A r \in Runs : AnswerRun(r)

\* Another run's step.
LEMMA AnswerFrame ==
  ASSUME NEW r, AnswerRun(r), row'[r] = row[r], mem'[r] = mem[r], loop'[r] = loop[r], up'
  PROVE  AnswerRun(r)'
BY DEF AnswerRun, Asks, HasRow

\* A loop at any other program counter owes the invariant nothing.
LEMMA AnswerFree ==
  ASSUME NEW r, loop'[r].pc \notin {"exec"} \cup ParkedPCs
  PROVE  AnswerRun(r)'
BY DEF AnswerRun, Asks

\* What a step of a loop does to its own run.
AnswerStep(r) ==
  /\ AnswerRun(r)'
  /\ loop'[r].pc \in ToolStarts => loop[r].pc = "exec"

LEMMA AnswerElsewhere ==
  ASSUME NEW r, loop'[r].pc \notin {"exec"} \cup ParkedPCs \cup ToolStarts
  PROVE  AnswerStep(r)
BY AnswerFree DEF AnswerStep

LEMMA LoopStepRunning ==
  ASSUME NEW r, LoopStep(r)
  PROVE  up /\ up' /\ ~Asks(r)
<1>. USE DEF Asks, ParkedPCs
<1>0. Quiet => up
  BY DEF Quiet
<1>1. CASE \/ InitDone(r) \/ InitFails(r) \/ BaselineDone(r) \/ StopAtTop(r)
           \/ BudgetExhausted(r) \/ StartIteration(r) \/ CompressDone(r) \/ ModelThrows(r)
           \/ ModelDone(r) \/ TurnEnds(r)
  BY <1>0, <1>1 DEF InitDone, InitFails, BaselineDone, StopAtTop, BudgetExhausted, StartIteration,
                    CompressDone, ModelThrows, ModelDone, TurnEnds
<1>2. CASE \E call \in Calls : UngatedCall(r, call) \/ GatedCall(r, call)
  BY <1>2 DEF UngatedCall, GatedCall, NextCall
<1>3. CASE \/ Resume(r) \/ RefuseCall(r) \/ Execute(r) \/ PatchDone(r) \/ ToolDone(r)
           \/ SandboxDone(r) \/ NothingStaged(r) \/ ChangesStaged(r)
  BY <1>0, <1>3 DEF Resume, RefuseCall, Execute, PatchDone, ToolDone, SandboxDone, NothingStaged,
                    ChangesStaged
<1>4. CASE \/ WritebackAnswered(r) \/ ApplyingDone(r) \/ CleanupDone(r) \/ VerifyFails(r)
           \/ VerifyDone(r) \/ Teardown(r)
  BY <1>0, <1>4 DEF WritebackAnswered, ApplyingDone, CleanupDone, VerifyFails, VerifyDone, Teardown
<1>. QED  BY <1>1, <1>2, <1>3, <1>4 DEF LoopStep

LEMMA LoopStepAnswer ==
  ASSUME TypeOK, MapsInv, NEW r \in Runs, LoopStep(r)
  PROVE  AnswerStep(r)
<1>. DEFINE l == loop[r]
<1>0. l \in LoopType /\ SettledRun(r) /\ row[r] \in RowType /\ mem[r] \in MemType
  BY DEF TypeOK, MapsInv
<1>u. up'
  BY LoopStepRunning
<1>f. \A outcome : End(l, outcome).pc = "teardown"
  BY <1>0 DEF End, LoopType
<1>c. \A pc : Checked(l, pc).pc \in {pc, "teardown"} /\ [l EXCEPT !.pc = pc].pc = pc
  BY <1>0, <1>f DEF Checked, LoopType
<1>t. Threw(l).pc = "teardown" /\ Returned(l).pc = "next"
  BY <1>0, <1>f DEF Threw, Returned, LoopType
<1>1. ASSUME \/ InitDone(r) \/ InitFails(r) \/ BaselineDone(r) \/ StopAtTop(r)
             \/ BudgetExhausted(r) \/ StartIteration(r) \/ CompressDone(r) \/ ModelThrows(r)
             \/ ModelDone(r) \/ TurnEnds(r)
      PROVE  AnswerStep(r)
  <2>1. loop'[r].pc \in {"idle", "top", "baseline", "compress", "model", "next", "teardown"}
    <3>1. CASE InitDone(r)
      BY <3>1 DEF InitDone, DriveLoop, EntryPCs, IdleLoop, Goto, TypeOK
    <3>2. CASE InitFails(r)
      BY <3>2 DEF InitFails, IdleLoop, Goto, TypeOK
    <3>3. CASE BaselineDone(r)
      BY <3>3, <1>c DEF BaselineDone, Goto, TypeOK
    <3>4. CASE StopAtTop(r) \/ BudgetExhausted(r)
      BY <3>4, <1>f DEF StopAtTop, BudgetExhausted, Goto, TypeOK
    <3>5. CASE CompressDone(r) \/ ModelThrows(r)
      BY <3>5, <1>c, <1>t DEF CompressDone, ModelThrows, Goto, TypeOK
    <3>6. CASE StartIteration(r)
      BY <1>0, <3>6 DEF StartIteration, LoopType, Goto, TypeOK
    <3>7. CASE ModelDone(r)
      <4>1. \/ \E outcome \in Outcomes : loop'[r] = End(l, outcome)
            \/ \E n \in 1..MaxCallsPerTurn : loop'[r] = [l EXCEPT !.pc = "next", !.todo = n]
        BY <3>7 DEF ModelDone, Outcomes, Goto, TypeOK
      <4>. QED  BY <1>0, <1>f, <4>1 DEF LoopType
    <3>8. CASE TurnEnds(r)
      BY <3>8, <1>c, <1>f DEF TurnEnds, Goto, TypeOK
    <3>. QED  BY <1>1, <3>1, <3>2, <3>3, <3>4, <3>5, <3>6, <3>7, <3>8
  <2>. QED  BY <2>1, AnswerElsewhere DEF ToolStarts, ParkedPCs
<1>2. ASSUME \E call \in Calls : UngatedCall(r, call) PROVE AnswerStep(r)
  <2>1. PICK call \in Calls : UngatedCall(r, call)
    BY <1>2
  <2>2. loop'[r].pc = "exec" /\ ~loop'[r].aborted
    BY <1>0, <2>1 DEF UngatedCall, NextCall, Taken, LoopType, Goto, TypeOK
  <2>. QED  BY <2>2 DEF AnswerStep, AnswerRun, Asks, ParkedPCs, ToolStarts
<1>3. ASSUME \E call \in Calls : GatedCall(r, call) PROVE AnswerStep(r)
  <2>1. PICK call \in Calls : GatedCall(r, call)
    BY <1>3
  <2>. DEFINE t == Taken(l, call)
              k == [t EXCEPT !.pc = "parked"]
              pending == PendingOf(call.kind)
  <2>2. k.pc = "parked" /\ k.call = call
    BY <1>0 DEF Taken, LoopType
  <2>3. Threw(t).pc = "teardown"
    BY <1>0 DEF Threw, End, Taken, LoopType
  <2>4. CASE ~MaySet(r, "waiting_for_user_approval")
    <3>1. loop'[r] = Threw(t)
      BY <2>1, <2>4 DEF GatedCall, Goto, TypeOK
    <3>. QED  BY <2>3, <3>1, AnswerElsewhere DEF ParkedPCs, ToolStarts
  <2>5. CASE MaySet(r, "waiting_for_user_approval")
    <3>1. /\ SetStatus(r, "waiting_for_user_approval")
          /\ mem'[r] = Asking(mem[r], pending) /\ loop'[r] = k
      BY <2>1, <2>5 DEF GatedCall, Goto, TypeOK
    <3>2. mem'[r].approval /\ mem'[r].pending = pending
      BY <1>0, <3>1 DEF Asking, MemType
    <3>3. HasRow(r)' => row'[r].status = "waiting_for_user_approval"
      BY <3>1, SetStatusIs DEF HasRow, RunStates
    <3>4. loop'[r].pc = "parked" /\ loop'[r].call = call
      BY <2>2, <3>1
    <3>. QED  BY <1>u, <3>2, <3>3, <3>4 DEF AnswerStep, AnswerRun, Asks, ToolStarts
  <2>. QED  BY <2>4, <2>5
<1>4. ASSUME Resume(r) PROVE AnswerStep(r)
  <2>. DEFINE m == [l EXCEPT !.decision = "none"]
              g == [m EXCEPT !.grants = @ \cup {m.call}]
  <2>1. loop'[r] = IF l.decision = "no" THEN End(m, "cancelled") ELSE Checked(g, "exec")
    BY <1>4 DEF Resume, Goto, TypeOK
  <2>2. /\ End(m, "cancelled").pc = "teardown" /\ End(g, "cancelled").pc = "teardown"
        /\ [g EXCEPT !.pc = "exec"].pc = "exec" /\ [g EXCEPT !.pc = "exec"].aborted = g.aborted
    BY <1>0 DEF End, LoopType
  <2>3. loop'[r].pc = "teardown" \/ (loop'[r].pc = "exec" /\ ~loop'[r].aborted)
    BY <2>1, <2>2 DEF Checked
  <2>. QED  BY <2>3 DEF AnswerStep, AnswerRun, Asks, ParkedPCs, ToolStarts
<1>5. ASSUME Execute(r) PROVE AnswerStep(r)
  <2>1. loop'[r].pc = ToolPC(l) /\ l.pc = "exec"
    BY <1>0, <1>5 DEF Execute, Goto, TypeOK, LoopType
  <2>2. ToolPC(l) \in ToolStarts
    BY DEF ToolPC, ToolStarts
  <2>. QED  BY <2>1, <2>2, AnswerFree DEF AnswerStep, ToolStarts, ParkedPCs
<1>p. ASSUME NEW applied \in BOOLEAN, PatchReturns(r, applied) PROVE AnswerStep(r)
  <2>. DEFINE streak == IF l.repairs > MaxRepairAttempts THEN l.repairs ELSE l.repairs + 1
              m == [l EXCEPT !.repairs = streak]
  <2>1. Checked(m, "next").pc \in {"next", "teardown"} /\ [m EXCEPT !.pc = "verifying"].pc = "verifying"
    BY <1>0 DEF Checked, End, LoopType
  <2>2. loop'[r] = Checked(m, "next") \/ loop'[r] = [m EXCEPT !.pc = "verifying"]
    BY <1>p DEF PatchReturns, Goto, TypeOK
  <2>. QED  BY <2>1, <2>2, AnswerElsewhere DEF ParkedPCs, ToolStarts
<1>6. ASSUME \/ RefuseCall(r) \/ PatchDone(r) \/ ToolDone(r) \/ CleanupDone(r)
      PROVE  AnswerStep(r)
  <2>1. CASE \E applied \in BOOLEAN : PatchReturns(r, applied)
    BY <1>p, <2>1
  <2>2. CASE Goto(r, Returned(l))
    <3>1. loop'[r].pc = "next"
      BY <1>t, <2>2 DEF Goto, TypeOK
    <3>. QED  BY <3>1, AnswerElsewhere DEF ParkedPCs, ToolStarts
  <2>. QED  BY <1>6, <2>1, <2>2 DEF RefuseCall, PatchDone, ToolDone, CleanupDone
<1>7. ASSUME \/ SandboxDone(r) \/ NothingStaged(r) \/ WritebackAnswered(r) \/ ApplyingDone(r)
             \/ VerifyFails(r) \/ VerifyDone(r) \/ Teardown(r)
      PROVE  AnswerStep(r)
  <2>1. loop'[r].pc \in {"diff", "cleanup", "applying", "next", "teardown", "idle"}
    <3>1. CASE SandboxDone(r) \/ NothingStaged(r) \/ ApplyingDone(r)
      BY <1>c, <3>1 DEF SandboxDone, NothingStaged, ApplyingDone, Goto, TypeOK
    <3>2. CASE WritebackAnswered(r)
      BY <1>0, <3>2 DEF WritebackAnswered, Goto, TypeOK, LoopType
    <3>3. CASE VerifyFails(r)
      BY <1>c, <3>3 DEF VerifyFails, Goto, TypeOK
    <3>4. CASE VerifyDone(r)
      BY <1>c, <3>4 DEF VerifyDone, Goto, TypeOK
    <3>5. CASE Teardown(r)
      BY <3>5 DEF Teardown, IdleLoop, Goto, TypeOK
    <3>. QED  BY <1>7, <3>1, <3>2, <3>3, <3>4, <3>5
  <2>. QED  BY <2>1, AnswerElsewhere DEF ParkedPCs, ToolStarts
<1>8. ASSUME ChangesStaged(r) PROVE AnswerStep(r)
  <2>1. CASE ~MaySet(r, "waiting_for_user_approval")
    <3>1. loop'[r].pc = "cleanup"
      BY <1>c, <1>8, <2>1 DEF ChangesStaged, Goto, TypeOK
    <3>. QED  BY <3>1, AnswerElsewhere DEF ParkedPCs, ToolStarts
  <2>2. CASE MaySet(r, "waiting_for_user_approval")
    <3>1. /\ SetStatus(r, "waiting_for_user_approval")
          /\ mem'[r] = Asking(mem[r], "command_writeback") /\ loop'[r].pc = "writeback"
      BY <1>c, <1>8, <2>2 DEF ChangesStaged, Goto, TypeOK
    <3>2. mem'[r].approval /\ mem'[r].pending = "command_writeback"
      BY <1>0, <3>1 DEF Asking, MemType
    <3>3. HasRow(r)' => row'[r].status = "waiting_for_user_approval"
      BY <3>1, SetStatusIs DEF HasRow, RunStates
    <3>. QED  BY <1>u, <3>1, <3>2, <3>3 DEF AnswerStep, AnswerRun, Asks, ToolStarts
  <2>. QED  BY <2>1, <2>2
<1>. QED
  BY <1>1, <1>2, <1>3, <1>4, <1>5, <1>6, <1>7, <1>8 DEF LoopStep

LEMMA LoopStepElsewhere ==
  ASSUME TypeOK, NEW r \in Runs, LoopStep(r)
  PROVE  \A q \in Runs \ {r} : loop'[q] = loop[q] /\ mem'[q] = mem[q] /\ row'[q] = row[q]
BY DEF LoopStep, InitDone, InitFails, BaselineDone, StopAtTop, BudgetExhausted, StartIteration,
       CompressDone, ModelThrows, ModelDone, TurnEnds, UngatedCall, GatedCall, NextCall, Resume,
       RefuseCall, Execute, PatchDone, PatchReturns, ToolDone, SandboxDone, NothingStaged,
       ChangesStaged, WritebackAnswered, ApplyingDone, CleanupDone, VerifyFails, VerifyDone,
       Teardown, DriveLoop, Goto, SetStatus, TypeOK

LEMMA LoopStepAnswers ==
  ASSUME TypeOK, MapsInv, AnswerInv, NEW r \in Runs, LoopStep(r)
  PROVE  AnswerInv'
<1>1. \A q \in Runs \ {r} : AnswerRun(q)'
  BY LoopStepElsewhere, LoopStepRunning, AnswerFrame DEF AnswerInv
<1>. QED  BY <1>1, LoopStepAnswer DEF AnswerStep, AnswerInv

\* Applying finds the row waiting, so its status write is not refused and the
\* answer gets through.
LEMMA ApplyIsAccepted ==
  ASSUME TypeOK, MapsInv, AnswerInv, NEW r \in Runs, ApplyPatch(r)
  PROVE  loop'[r] = [loop[r] EXCEPT !.decision = "yes"]
<1>. DEFINE status == IF mem[r].pending \in {"mutation", "command_confirm"}
                      THEN "tool_use" ELSE "applying_patch"
<1>1. Asks(r) /\ AnswerRun(r)
  BY DEF ApplyPatch, MapsInv, SettledRun, AnswerInv, Asks
<1>2. MaySet(r, status)
  BY <1>1 DEF AnswerRun, MaySet, CanTransition, RunTransitions
<1>. QED  BY <1>2 DEF ApplyPatch, Goto, TypeOK

LEMMA UserCallAnswers ==
  ASSUME TypeOK, MapsInv, AnswerInv, ~RollbackWhenLive, NEW r \in Runs, UserCall(r)
  PROVE  AnswerInv'
<1>. DEFINE l == loop[r]
<1>0. l \in LoopType /\ SettledRun(r) /\ AnswerRun(r)
  BY DEF TypeOK, MapsInv, AnswerInv
<1>u. up /\ up' /\ ~Micro(r)
  <2>1. Quiet /\ up' = up
    BY DEF UserCall, RunTask, ContinueTask, Stop, RejectPatch, ApplyPatch, Rollback
  <2>. QED  BY <2>1 DEF Quiet
<1>a. \A q \in Runs \ {r} : row'[q] = row[q] /\ mem'[q] = mem[q] /\ loop'[q] = loop[q]
  <2>1. ASSUME RunTask(r) \/ ContinueTask(r)
        PROVE  \A q \in Runs \ {r} : row'[q] = row[q] /\ mem'[q] = mem[q] /\ loop'[q] = loop[q]
    BY <2>1 DEF RunTask, ContinueTask, DriveLoop, SetStatus, Goto, TypeOK
  <2>2. ASSUME Stop(r) \/ RejectPatch(r)
        PROVE  \A q \in Runs \ {r} : row'[q] = row[q] /\ mem'[q] = mem[q] /\ loop'[q] = loop[q]
    BY <2>2 DEF Stop, RejectPatch, SetStatus, Goto, TypeOK
  <2>3. ASSUME ApplyPatch(r) \/ Rollback(r)
        PROVE  \A q \in Runs \ {r} : row'[q] = row[q] /\ mem'[q] = mem[q] /\ loop'[q] = loop[q]
    BY <2>3 DEF ApplyPatch, Rollback, SetStatus, Goto, TypeOK
  <2>. QED  BY <2>1, <2>2, <2>3 DEF UserCall
<1>b. \A q \in Runs \ {r} : AnswerRun(q)'
  BY <1>a, <1>u, AnswerFrame DEF AnswerInv
<1>e. l.pc # "exec"
  BY <1>u DEF Micro, MicroPCs
<1>d. /\ Answered(r, l, "no") \in LoopType
      /\ Answered(r, l, "no").pc = l.pc
      /\ mem[r].approval => Answered(r, l, "no").decision = "no"
      /\ ~mem[r].approval => Answered(r, l, "no").decision = l.decision
  BY <1>0 DEF Answered, LoopType
<1>1. ASSUME RunTask(r) \/ ContinueTask(r) PROVE AnswerRun(r)'
  <2>1. l.pc = "idle"
    BY <1>0, <1>1 DEF RunTask, ContinueTask, SettledRun, Live
  <2>2. CASE loop' = loop
    BY <2>1, <2>2, AnswerFree DEF ParkedPCs
  <2>3. CASE Goto(r, [IdleLoop EXCEPT !.pc = "init"])
    <3>1. loop'[r].pc = "init"
      BY <2>3 DEF IdleLoop, Goto, TypeOK
    <3>. QED  BY <3>1, AnswerFree DEF ParkedPCs
  <2>4. CASE DriveLoop(r, FALSE)
    <3>1. loop'[r].pc \in {"top", "baseline"}
      BY <2>4 DEF DriveLoop, EntryPCs, IdleLoop, Goto, TypeOK
    <3>. QED  BY <3>1, AnswerFree DEF ParkedPCs
  <2>. QED  BY <1>1, <2>2, <2>3, <2>4 DEF RunTask, ContinueTask
<1>2. ASSUME Stop(r) PROVE AnswerRun(r)'
  <2>. DEFINE m == Answered(r, l, "no")
  <2>1. loop'[r] = [m EXCEPT !.aborted = @ \/ mem[r].controller] /\ row' = row
    BY <1>2 DEF Stop, Goto, TypeOK
  <2>2. loop'[r].pc = m.pc /\ loop'[r].decision = m.decision
    BY <1>d, <2>1 DEF LoopType
  <2>. QED  BY <1>0, <1>d, <1>e, <1>u, <2>1, <2>2 DEF AnswerRun, Asks, HasRow
<1>3. ASSUME RejectPatch(r) PROVE AnswerRun(r)'
  <2>1. loop'[r] = Answered(r, l, "no")
    BY <1>3 DEF RejectPatch, Goto, TypeOK
  <2>2. HasRow(r)' => HasRow(r)
    BY <1>3 DEF RejectPatch, SetStatus, WithStatus, HasRow, TypeOK, RowType
  <2>. QED  BY <1>0, <1>d, <1>e, <1>u, <2>1, <2>2 DEF AnswerRun, Asks
<1>4. ASSUME ApplyPatch(r) PROVE AnswerRun(r)'
  <2>1. loop'[r] = [l EXCEPT !.decision = "yes"]
    BY <1>4, ApplyIsAccepted
  <2>2. loop'[r].pc = l.pc /\ loop'[r].decision = "yes"
    BY <1>0, <2>1 DEF LoopType
  <2>. QED  BY <1>e, <2>2 DEF AnswerRun, Asks
<1>5. ASSUME Rollback(r) PROVE AnswerRun(r)'
  <2>1. loop' = loop /\ l.pc = "idle"
    BY <1>5 DEF Rollback, Live
  <2>. QED  BY <2>1, AnswerFree DEF ParkedPCs
<1>. QED  BY <1>b, <1>1, <1>2, <1>3, <1>4, <1>5 DEF UserCall, AnswerInv

LEMMA EnvironmentAnswers ==
  ASSUME TypeOK, MapsInv, AnswerInv, Environment
  PROVE  AnswerInv'
<1>1. SUFFICES ASSUME NEW r \in Runs PROVE AnswerRun(r)'
  BY DEF AnswerInv
<1>0. loop[r] \in LoopType /\ SettledRun(r) /\ AnswerRun(r)
  BY DEF TypeOK, MapsInv, AnswerInv
<1>2. CASE ClearRuns
  <2>. DEFINE m == Answered(r, loop[r], "no")
  <2>0. loop[r].pc # "exec" /\ up /\ up'
    BY <1>2 DEF ClearRuns, Quiet, Micro, MicroPCs
  <2>1. CASE HasRow(r)
    <3>1. loop'[r] = [m EXCEPT !.aborted = @ \/ mem[r].controller] /\ row'[r].status = "deleted"
      BY <1>2, <2>1 DEF ClearRuns
    <3>2. m \in LoopType /\ m.pc = loop[r].pc
      BY <1>0 DEF Answered, LoopType
    <3>3. loop'[r].pc = loop[r].pc
      BY <3>1, <3>2 DEF LoopType
    <3>. QED  BY <2>0, <3>1, <3>3 DEF AnswerRun, HasRow, RunStates
  <2>2. CASE ~HasRow(r)
    <3>1. loop'[r] = loop[r] /\ row'[r] = row[r]
      BY <1>2, <2>2 DEF ClearRuns
    <3>. QED  BY <1>0, <2>0, <2>2, <3>1 DEF AnswerRun, Asks, HasRow
  <2>. QED  BY <2>1, <2>2
<1>3. CASE GateChanges
  BY <1>0, <1>3 DEF GateChanges, AnswerRun, Asks, HasRow
<1>4. CASE Crash
  <2>1. loop'[r].pc = "idle"
    BY <1>4 DEF Crash, IdleLoop
  <2>. QED  BY <2>1, AnswerFree DEF ParkedPCs
<1>5. CASE Restart
  BY <1>0, <1>5 DEF Restart, AnswerRun, Asks
<1>. QED  BY <1>2, <1>3, <1>4, <1>5 DEF Environment

LEMMA AnswerInvariant ==
  ASSUME ~RollbackWhenLive
  PROVE  Spec => []AnswerInv
<1>1. Init => AnswerInv
  BY DEF Init, AnswerInv, AnswerRun, Asks, IdleLoop, ParkedPCs
<1>2. TypeOK /\ MapsInv /\ AnswerInv /\ [Next]_vars => AnswerInv'
  <2>1. ASSUME AnswerInv, UNCHANGED vars PROVE AnswerInv'
    BY <2>1 DEF vars, AnswerInv, AnswerRun, Asks, HasRow
  <2>. QED  BY <2>1, LoopStepAnswers, UserCallAnswers, EnvironmentAnswers DEF Next
<1>. QED  BY <1>1, <1>2, TypeCorrect, MapsInvariant, PTL DEF Spec

\* While no rollback reaches a live run, a run that waits for its user shows the
\* question it waits on, and the approval that answers it is registered.
THEOREM QuestionsAreOpen ==
  ASSUME ~RollbackWhenLive
  PROVE  Spec => []ParkedIsAnswerable
<1>1. AnswerInv => ParkedIsAnswerable
  BY DEF AnswerInv, AnswerRun, Asks, ParkedIsAnswerable
<1>. QED  BY <1>1, AnswerInvariant, PTL

\* While no rollback reaches a live run, every approval that leaves the map
\* answers the loop that waits for it.
THEOREM AnswersArrive ==
  ASSUME ~RollbackWhenLive
  PROVE  Spec => ApprovalAnswersLoop
<1>1. ASSUME TypeOK, MapsInv, AnswerInv, Next, up',
             NEW r \in Runs, mem[r].approval, ~mem'[r].approval
      PROVE  loop'[r].decision # "none"
  <2>0. loop[r] \in LoopType /\ mem[r] \in MemType /\ Asks(r)
    BY <1>1 DEF TypeOK, MapsInv, SettledRun, Asks
  <2>1. ASSUME NEW q \in Runs, LoopStep(q) PROVE FALSE
    <3>1. CASE q = r
      BY <2>0, <2>1, <3>1, LoopStepRunning
    <3>2. CASE q # r
      BY <1>1, <2>1, <3>2, LoopStepElsewhere
    <3>. QED  BY <3>1, <3>2
  <2>2. ASSUME NEW q \in Runs, UserCall(q) PROVE loop'[r].decision # "none"
    <3>1. CASE ApplyPatch(q)
      <4>1. q = r
        BY <1>1, <3>1 DEF ApplyPatch, TypeOK
      <4>. QED  BY <1>1, <2>0, <3>1, <4>1, ApplyIsAccepted DEF LoopType
    <3>2. CASE Stop(q)
      <4>1. q = r
        BY <1>1, <3>2 DEF Stop, TypeOK
      <4>2. loop'[r] = [[loop[r] EXCEPT !.decision = "no"] EXCEPT !.aborted = @ \/ mem[r].controller]
        BY <1>1, <3>2, <4>1 DEF Stop, Answered, Goto, TypeOK
      <4>. QED  BY <2>0, <4>2 DEF LoopType
    <3>3. CASE RejectPatch(q)
      <4>1. q = r
        BY <1>1, <3>3 DEF RejectPatch, TypeOK
      <4>2. loop'[r] = [loop[r] EXCEPT !.decision = "no"]
        BY <1>1, <3>3, <4>1 DEF RejectPatch, Answered, Goto, TypeOK
      <4>. QED  BY <2>0, <4>2 DEF LoopType
    <3>4. CASE RunTask(q) \/ ContinueTask(q) \/ Rollback(q)
      <4>1. /\ mem \in [Runs -> MemType]
            /\ \/ mem' = mem
               \/ mem' = [mem EXCEPT ![q] = [@ EXCEPT !.controller = TRUE]]
               \/ mem' = [mem EXCEPT ![q] = [@ EXCEPT !.pending = "none"]]
        BY <1>1, <3>4 DEF RunTask, ContinueTask, Rollback, TypeOK
      <4>2. mem'[r].approval = mem[r].approval
        BY <4>1 DEF MemType
      <4>. QED  BY <1>1, <4>2
    <3>. QED  BY <2>2, <3>1, <3>2, <3>3, <3>4 DEF UserCall
  <2>3. ASSUME Environment PROVE loop'[r].decision # "none"
    <3>1. CASE ClearRuns
      <4>1. HasRow(r)
        BY <1>1, <3>1 DEF ClearRuns
      <4>2. loop'[r] = [[loop[r] EXCEPT !.decision = "no"] EXCEPT !.aborted = @ \/ mem[r].controller]
        BY <1>1, <3>1, <4>1 DEF ClearRuns, Answered
      <4>. QED  BY <2>0, <4>2 DEF LoopType
    <3>. QED  BY <1>1, <2>3, <3>1 DEF Environment, GateChanges, Crash, Restart
  <2>. QED  BY <1>1, <2>1, <2>2, <2>3 DEF Next
<1>2. TypeOK /\ MapsInv /\ AnswerInv /\ [Next]_vars =>
        [up' => \A r \in Runs : mem[r].approval /\ ~mem'[r].approval =>
                                 loop'[r].decision # "none"]_vars
  BY <1>1
<1>. QED  BY <1>2, TypeCorrect, MapsInvariant, AnswerInvariant, PTL DEF Spec, ApprovalAnswersLoop

\* While no rollback reaches a live run, a loop that was stopped or cleared starts
\* no tool.
THEOREM StoppedLoopsStartNothing ==
  ASSUME ~RollbackWhenLive
  PROVE  Spec => NoToolAfterStop
<1>1. ASSUME TypeOK, MapsInv, AnswerInv, Next, NEW r \in Runs, loop[r].aborted,
             loop'[r].pc \in ToolStarts
      PROVE  loop'[r].pc = loop[r].pc
  <2>0. loop[r] \in LoopType /\ AnswerRun(r)
    BY <1>1 DEF TypeOK, AnswerInv
  <2>1. ASSUME NEW q \in Runs, LoopStep(q) PROVE loop'[r].pc = loop[r].pc
    <3>1. CASE q = r
      BY <1>1, <2>0, <2>1, <3>1, LoopStepAnswer DEF AnswerStep, AnswerRun
    <3>2. CASE q # r
      BY <1>1, <2>1, <3>2, LoopStepElsewhere
    <3>. QED  BY <3>1, <3>2
  <2>2. ASSUME NEW q \in Runs, UserCall(q) PROVE loop'[r].pc = loop[r].pc
    <3>1. CASE q # r
      BY <1>1, <2>2, <3>1
      DEF UserCall, RunTask, ContinueTask, DriveLoop, Stop, RejectPatch, ApplyPatch, Rollback,
          Goto, TypeOK
    <3>2. CASE RunTask(r)
      BY <1>1, <3>2 DEF RunTask, ToolStarts, IdleLoop, Goto, TypeOK
    <3>3. CASE ContinueTask(r)
      <4>1. loop' = loop \/ DriveLoop(r, FALSE)
        BY <3>3 DEF ContinueTask
      <4>2. DriveLoop(r, FALSE) => loop'[r].pc \in {"top", "baseline"}
        BY <1>1 DEF DriveLoop, EntryPCs, IdleLoop, Goto, TypeOK
      <4>. QED  BY <1>1, <4>1, <4>2 DEF ToolStarts
    <3>4. CASE Stop(r) \/ RejectPatch(r)
      <4>1. Answered(r, loop[r], "no") \in LoopType /\ Answered(r, loop[r], "no").pc = loop[r].pc
        BY <2>0 DEF Answered, LoopType
      <4>. QED  BY <1>1, <3>4, <4>1 DEF Stop, RejectPatch, Goto, TypeOK, LoopType
    <3>5. CASE ApplyPatch(r)
      BY <1>1, <2>0, <3>5, ApplyIsAccepted DEF LoopType
    <3>6. CASE Rollback(r)
      BY <3>6 DEF Rollback
    <3>. QED  BY <2>2, <3>1, <3>2, <3>3, <3>4, <3>5, <3>6 DEF UserCall
  <2>3. ASSUME Environment PROVE loop'[r].pc = loop[r].pc
    <3>1. CASE ClearRuns
      <4>1. Answered(r, loop[r], "no") \in LoopType /\ Answered(r, loop[r], "no").pc = loop[r].pc
        BY <2>0 DEF Answered, LoopType
      <4>. QED  BY <3>1, <4>1 DEF ClearRuns, LoopType
    <3>2. CASE Crash
      BY <1>1, <3>2 DEF Crash, IdleLoop, ToolStarts
    <3>. QED  BY <2>3, <3>1, <3>2 DEF Environment, GateChanges, Restart
  <2>. QED  BY <1>1, <2>1, <2>2, <2>3 DEF Next
<1>2. TypeOK /\ MapsInv /\ AnswerInv /\ [Next]_vars =>
        [\A r \in Runs : loop[r].aborted =>
           loop'[r].pc \notin {"patching", "tool", "sandbox"} \/ loop'[r].pc = loop[r].pc]_vars
  BY <1>1 DEF ToolStarts
<1>. QED  BY <1>2, TypeCorrect, MapsInvariant, AnswerInvariant, PTL DEF Spec, NoToolAfterStop

=============================================================================
