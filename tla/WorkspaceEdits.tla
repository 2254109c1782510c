--------------------------- MODULE WorkspaceEdits ---------------------------
(***************************************************************************)
(* How a run changes the files of its workspace, and how that is undone:   *)
(* the patch tool (plan, then snapshot and write file by file, unwinding   *)
(* on a failed write), the synchronisation of a sandboxed command's        *)
(* changes, the rollback of a run from its snapshots, and what may come in *)
(* between at the awaits of a write: the process dies, the run's record is *)
(* deleted, the user edits a file.                                         *)
(***************************************************************************)
EXTENDS PatchSemantics, FiniteSets

CONSTANTS
  Patches,      \* the patches a model may write: [format, ops]
  SyncTargets,  \* the staging copies a sandboxed command may leave
  InitialFiles, \* the workspaces a run may start on
  Faults,       \* what may go wrong
  UserEditsAt,  \* where the user may edit files: between calls, while asked
  MaxCalls,     \* bound: tool calls
  MaxEdits,     \* bound: edits of the user
  MaxDamages    \* bound: faults that no repair follows

AllFaults == {"write", "undo", "crash", "clear", "compensate"}

ASSUME ConstantsAssumption ==
  /\ IsFiniteSet(Paths)
  /\ Patches \subseteq [format : Formats, ops : Seq(Ops)]
  /\ SyncTargets \subseteq Workspaces
  /\ InitialFiles \subseteq Workspaces
  /\ Faults \subseteq AllFaults
  /\ UserEditsAt \subseteq {"idle", "asked"}
  /\ MaxCalls \in Nat
  /\ MaxEdits \in Nat
  /\ MaxDamages \in Nat

VARIABLES
  files,     \* the workspace
  row,       \* the run has a record, so snapshots can be stored for it
  snaps,     \* its file snapshots, oldest first
  tx,        \* the call that is writing
  origin,    \* history: each file as it was before the run first wrote it
  touched,   \* history: the files the run has written
  calls, edits, damages

vars == <<files, row, snaps, tx, origin, touched, calls, edits, damages>>

NoTx ==
  [pc |-> "idle", kind |-> "none", planned |-> <<>>, done |-> {}, undo |-> {},
   from |-> <<>>, goal |-> <<>>, damaged |-> FALSE]

\* What a snapshot keeps: the content and whether there was a file.  Its
\* after-image only words a warning and is left out.
SnapshotOf(change) ==
  [path |-> change.path, before |-> change.before, existed |-> change.existed]

Prior(snap) == IF snap.existed THEN FileWith(snap.before) ELSE Absent

Change(path, file, after) ==
  [path |-> path, before |-> file.text, existed |-> file.exists, after |-> after]

-----------------------------------------------------------------------------
(***************************************************************************)
(* Phase A: every change of a patch is computed before the first write.    *)
(***************************************************************************)

\* planV4A evolves one state per path; an operation that does not apply to
\* its path's state rejects the patch.
Evolved(ops, path) ==
  LET state[i \in 0..Len(ops)] ==
        IF i = 0 THEN [ok |-> TRUE, file |-> files[path]]
        ELSE LET r == state[i - 1]
             IN IF ops[i].path # path THEN r
                ELSE [ok |-> r.ok /\ OpApplies("v4a", ops[i], r.file),
                      file |-> OpResult(ops[i], r.file)]
  IN state[Len(ops)]

FirstMentions(ops) ==
  {i \in DOMAIN ops : \A j \in DOMAIN ops : j < i => ops[j].path # ops[i].path}

\* One change per path; a path that neither existed nor exists is skipped.
PlanV4A(ops) ==
  [i \in {i \in FirstMentions(ops) :
            files[ops[i].path].exists \/ Evolved(ops, ops[i].path).file.exists} |->
     Change(ops[i].path, files[ops[i].path], Evolved(ops, ops[i].path).file)]

\* One change per section, each computed from the file on disk.  A section that
\* deletes a file leaves it empty.
PlanUnified(ops) ==
  [i \in DOMAIN ops |->
     LET file == files[ops[i].path]
     IN Change(ops[i].path, file,
               FileWith(IF ops[i].op = "delete" THEN {} ELSE file.text \cup {ops[i].edit}))]

Plan(patch) ==
  IF patch.format = "v4a" THEN PlanV4A(patch.ops) ELSE PlanUnified(patch.ops)

Plannable(patch) ==
  IF patch.format = "v4a"
  THEN \A i \in DOMAIN patch.ops : Evolved(patch.ops, patch.ops[i].path).ok
  ELSE \A i \in DOMAIN patch.ops :
         OpApplies("unified", patch.ops[i], files[patch.ops[i].path])

\* A patch that does not resolve, or changes nothing, throws before any write.
BeginPatch(patch) ==
  /\ tx.pc = "idle" /\ row /\ calls < MaxCalls
  /\ Plannable(patch) /\ DOMAIN Plan(patch) # {}
  /\ tx' = [NoTx EXCEPT !.pc = "next", !.kind = "patch", !.planned = Plan(patch),
                        !.from = files, !.goal = Applied(patch, files).ws]
  /\ calls' = calls + 1
  /\ UNCHANGED <<files, row, snaps, origin, touched, edits, damages>>

\* The staging copy is compared with the workspace, path by path in order; the
\* changes are applied at once or after the user approved them.
BeginSync(target) ==
  LET order == SetToSeq(Paths)
      changed == {i \in DOMAIN order : target[order[i]] # files[order[i]]}
  IN /\ tx.pc = "idle" /\ row /\ calls < MaxCalls /\ changed # {}
     /\ \E pc \in {"asked", "next"} :
          tx' = [NoTx EXCEPT !.pc = pc, !.kind = "sync", !.from = files, !.goal = target,
                   !.planned = [i \in changed |->
                      Change(order[i], files[order[i]], target[order[i]])]]
     /\ calls' = calls + 1
     /\ UNCHANGED <<files, row, snaps, origin, touched, edits, damages>>

Answer ==
  /\ tx.pc = "asked"
  /\ tx' \in {[tx EXCEPT !.pc = "next"], NoTx}
  /\ UNCHANGED <<files, row, snaps, origin, touched, calls, edits, damages>>

-----------------------------------------------------------------------------
(***************************************************************************)
(* Phase B: snapshot, then write, file by file.                            *)
(***************************************************************************)

Todo == DOMAIN tx.planned \ tx.done

Least(S) == CHOOSE i \in S : \A j \in S : i <= j
Greatest(S) == CHOOSE i \in S : \A j \in S : j <= i

Current == tx.planned[Least(Todo)]

\* A file while it is rewritten: as before, cut off, or complete.
HalfWritten(path, after) ==
  {files[path], after} \cup IF after.exists THEN {FileWith({Torn})} ELSE {}

\* addSnapshot refuses a run that has no record, outside the try that unwinds:
\* the files written so far stay.
SnapshotRefused ==
  /\ tx.pc = "next" /\ Todo # {} /\ ~row
  /\ tx' = NoTx
  /\ damages' = damages + 1
  /\ UNCHANGED <<files, row, snaps, origin, touched, calls, edits>>

\* Mutant: only a path's latest snapshot is kept.
SnapshotReplaces ==
  /\ tx.pc = "next" /\ Todo # {} /\ row
  /\ snaps' = Append(SelectSeq(snaps, LAMBDA s : s.path # Current.path),
                     SnapshotOf(Current))
  /\ tx' = [tx EXCEPT !.pc = "write"]
  /\ UNCHANGED <<files, row, origin, touched, calls, edits, damages>>

Snapshot ==
  /\ tx.pc = "next" /\ Todo # {} /\ row
  /\ snaps' = Append(snaps, SnapshotOf(Current))
  /\ tx' = [tx EXCEPT !.pc = "write"]
  /\ UNCHANGED <<files, row, origin, touched, calls, edits, damages>>

Written(path, file) ==
  /\ files' = [files EXCEPT ![path] = file]
  /\ touched' = touched \cup {path}

WriteDone ==
  /\ tx.pc = "write"
  /\ Written(Current.path, Current.after)
  /\ tx' = [tx EXCEPT !.pc = "next", !.done = @ \cup {Least(Todo)}]
  /\ UNCHANGED <<row, snaps, origin, calls, edits, damages>>

\* Mutant: the file whose write failed is not among those unwound.
WriteFailsSkipsCurrent ==
  /\ tx.pc = "write" /\ "write" \in Faults
  /\ \E file \in HalfWritten(Current.path, Current.after) \ {Current.after} :
       Written(Current.path, file)
  /\ tx' = IF tx.kind = "patch" /\ tx.done # {}
           THEN [tx EXCEPT !.pc = "undo", !.undo = tx.done]
           ELSE NoTx
  /\ UNCHANGED <<row, snaps, origin, calls, edits, damages>>

\* A write that fails may have cut the file.  The patch tool unwinds; the
\* synchronisation does not.
WriteFails ==
  /\ tx.pc = "write" /\ "write" \in Faults
  /\ \E file \in HalfWritten(Current.path, Current.after) \ {Current.after} :
       Written(Current.path, file)
  /\ tx' = IF tx.kind = "patch"
           THEN [tx EXCEPT !.pc = "undo", !.undo = tx.done \cup {Least(Todo)}]
           ELSE NoTx
  /\ UNCHANGED <<row, snaps, origin, calls, edits, damages>>

Landed ==
  /\ tx.pc = "next" /\ Todo = {}
  /\ tx' = NoTx
  /\ UNCHANGED <<files, row, snaps, origin, touched, calls, edits, damages>>

\* The change that failed first, then the applied ones, latest first.
Undoing == tx.planned[Greatest(tx.undo)]

Undone(repaired) ==
  LET rest == tx.undo \ {Greatest(tx.undo)}
      damaged == tx.damaged \/ ~repaired
  IN IF rest # {}
     THEN /\ tx' = [tx EXCEPT !.undo = rest, !.damaged = damaged]
          /\ UNCHANGED damages
     ELSE /\ tx' = NoTx
          /\ damages' = IF damaged THEN damages + 1 ELSE damages

UndoFile ==
  /\ tx.pc = "undo"
  /\ files' = [files EXCEPT ![Undoing.path] = Prior(Undoing)]
  /\ Undone(TRUE)
  /\ UNCHANGED <<row, snaps, origin, touched, calls, edits>>

\* A repair that fails is reported; the others go on.
UndoFails ==
  /\ tx.pc = "undo" /\ "undo" \in Faults /\ damages < MaxDamages
  /\ \E file \in HalfWritten(Undoing.path, Prior(Undoing)) :
       files' = [files EXCEPT ![Undoing.path] = file]
  /\ Undone(FALSE)
  /\ UNCHANGED <<row, snaps, origin, touched, calls, edits>>

-----------------------------------------------------------------------------
(***************************************************************************)
(* Rollback of the run (synchronous, each path replaced by a rename).      *)
(***************************************************************************)

Snapshotted == {snaps[i].path : i \in DOMAIN snaps}

OfPath(path) == {i \in DOMAIN snaps : snaps[i].path = path}

\* Mutant: the latest snapshot of a path is restored.
TargetLatest(path) == snaps[Greatest(OfPath(path))]

\* The earliest snapshot of a path tells what it was.
Target(path) == snaps[Least(OfPath(path))]

Restored(paths) ==
  [p \in Paths |-> IF p \in paths THEN Prior(Target(p)) ELSE files[p]]

Rollback ==
  /\ tx.pc = "idle" /\ row
  /\ files' = Restored(Snapshotted)
  /\ UNCHANGED <<row, snaps, tx, origin, touched, calls, edits, damages>>

\* A path cannot be restored: those restored before it are compensated back, so
\* nothing changes; a compensation that fails leaves its path restored.
RollbackFails ==
  /\ tx.pc = "idle" /\ row /\ "compensate" \in Faults /\ damages < MaxDamages
  /\ \E failing \in Snapshotted :
       LET before == {p \in Snapshotted : Least(OfPath(p)) < Least(OfPath(failing))}
       IN \E stuck \in (SUBSET before) \ {{}} : files' = Restored(stuck)
  /\ damages' = damages + 1
  /\ UNCHANGED <<row, snaps, tx, origin, touched, calls, edits>>

-----------------------------------------------------------------------------
(***************************************************************************)
(* What comes in between.                                                  *)
(***************************************************************************)

\* The process dies while a file is written or repaired, or while it waits.
Crash ==
  /\ tx.pc \notin {"idle", "next"} /\ "crash" \in Faults /\ damages < MaxDamages
  /\ CASE tx.pc = "write" ->
            \E file \in HalfWritten(Current.path, Current.after) : Written(Current.path, file)
       [] tx.pc = "undo" ->
            \E file \in HalfWritten(Undoing.path, Prior(Undoing)) : Written(Undoing.path, file)
       [] OTHER -> UNCHANGED <<files, touched>>
  /\ tx' = NoTx
  /\ damages' = damages + 1
  /\ UNCHANGED <<row, snaps, origin, calls, edits>>

\* clearRuns deletes the record and its snapshots and refuses a parked
\* synchronisation; a write that has begun goes on.
ClearRuns ==
  /\ tx.pc # "next" /\ row /\ "clear" \in Faults
  /\ row' = FALSE
  /\ snaps' = <<>>
  /\ tx' = IF tx.pc = "asked" THEN NoTx ELSE tx
  /\ UNCHANGED <<files, origin, touched, calls, edits, damages>>

\* The user edits a file between two calls, or while asked.
UserEdit ==
  /\ tx.pc \in UserEditsAt /\ edits < MaxEdits
  /\ \E p \in Paths, edit \in Edits :
       /\ files[p].exists /\ edit \notin files[p].text
       /\ LET file == FileWith(files[p].text \cup {edit})
          IN /\ files' = [files EXCEPT ![p] = file]
             /\ origin' = IF p \in touched THEN origin ELSE [origin EXCEPT ![p] = file]
  /\ edits' = edits + 1
  /\ UNCHANGED <<row, snaps, tx, touched, calls, damages>>

-----------------------------------------------------------------------------
Init ==
  /\ files \in InitialFiles
  /\ row = TRUE
  /\ snaps = <<>>
  /\ tx = NoTx
  /\ origin = files
  /\ touched = {}
  /\ calls = 0
  /\ edits = 0
  /\ damages = 0

Next ==
  \/ \E patch \in Patches : BeginPatch(patch)
  \/ \E target \in SyncTargets : BeginSync(target)
  \/ Answer
  \/ Snapshot \/ SnapshotRefused \/ WriteDone \/ WriteFails \/ Landed
  \/ UndoFile \/ UndoFails
  \/ Rollback \/ RollbackFails
  \/ Crash \/ ClearRuns \/ UserEdit

Spec == Init /\ [][Next]_vars

-----------------------------------------------------------------------------
(***************************************************************************)
(* Properties                                                              *)
(***************************************************************************)

ChangeType == [path : Paths, before : Texts, existed : BOOLEAN, after : File]

\* Every variable holds a value of its type; what is done or to be undone is
\* planned.
TypeOK ==
  /\ files \in Workspaces
  /\ row \in BOOLEAN
  /\ snaps \in Seq([path : Paths, before : Texts, existed : BOOLEAN])
  /\ tx.pc \in {"idle", "asked", "next", "write", "undo"}
  /\ tx.kind \in {"none", "patch", "sync"}
  /\ \A i \in DOMAIN tx.planned : tx.planned[i] \in ChangeType
  /\ tx.done \subseteq DOMAIN tx.planned
  /\ tx.undo \subseteq DOMAIN tx.planned
  /\ tx.pc = "write" => Todo # {}
  /\ tx.pc = "undo" <=> tx.undo # {}
  /\ origin \in Workspaces
  /\ touched \subseteq Paths
  /\ calls \in 0..MaxCalls
  /\ edits \in 0..MaxEdits
  /\ damages \in Nat

\* As long as the run has a record, its snapshots tell every file it has
\* written as it was before, whatever failed, crashed or was undone in between:
\* a rollback can bring back the workspace the run found.
Recoverable ==
  row => \A p \in Paths :
    IF p \in Snapshotted THEN Prior(Target(p)) = origin[p]
    ELSE files[p] = origin[p] /\ p \notin touched

\* A patch ends with all of it on disk or with none, unless the process died,
\* the record was deleted under it or a repair failed.
AllOrNothing ==
  [][tx.kind = "patch" /\ tx'.pc = "idle" /\ damages' = damages
       => files' \in {tx.from, tx.goal}]_vars

\* The patch tool, the synchronisation and the rollback do what the abstract
\* specification of edits promises: seen from outside, a patch that is being
\* written has not happened yet.
Promise == INSTANCE AtomicEdits WITH
  ws <- IF tx.kind = "patch" THEN tx.from ELSE files,
  base <- origin,
  syncing <- tx.kind = "sync",
  edits <- edits,
  damages <- damages

KeepsPromise == Promise!Spec

=============================================================================
