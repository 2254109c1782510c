----------------------- MODULE WorkspaceEdits_proofs -----------------------
(***************************************************************************)
(* What TLAPS proves about WorkspaceEdits, for any files, patches, staging *)
(* copies and faults: a run that has a record can be rolled back, a patch  *)
(* is all or nothing, and the tools implement AtomicEdits.                 *)
(***************************************************************************)
EXTENDS WorkspaceEdits, TLAPS, FiniteSetTheorems, SequenceTheorems, WellFoundedInduction

(***************************************************************************)
(* Least and greatest numbers of a plan.                                   *)
(***************************************************************************)

LEMMA SmallestNumber ==
  ASSUME NEW T, T \subseteq Nat, T # {}
  PROVE  \E x \in T : \A y \in T : x <= y
<1>1. IsWellFoundedOn(OpToRel(<, Nat), Nat)
  BY NatLessThanWellFounded
<1>2. PICK x \in T : \A y \in T : ~(<<y, x>> \in OpToRel(<, Nat))
  BY <1>1, WFMin
<1>3. \A y \in T : ~(y < x)
  BY <1>2 DEF OpToRel
<1>. QED  BY <1>3

LEMMA LeastIs ==
  ASSUME NEW S, S \subseteq Nat, S # {}
  PROVE  Least(S) \in S /\ \A j \in S : Least(S) <= j
  BY SmallestNumber DEF Least

LEMMA GreatestIs ==
  ASSUME NEW n \in Nat, NEW S, S \subseteq 1..n, S # {}
  PROVE  Greatest(S) \in S
<1>. DEFINE T == {n - i : i \in S}
<1>1. T \subseteq Nat
  <2>1. \A i \in S : n - i \in Nat
    OBVIOUS
  <2>. QED  BY <2>1
<1>2. T # {}
  OBVIOUS
<1>3. \E x \in T : \A y \in T : x <= y
  <2>. HIDE DEF T
  <2>. QED  BY <1>1, <1>2, SmallestNumber
<1>4. PICK i \in S : \A y \in T : n - i <= y
  BY <1>3
<1>5. \A j \in S : n - i <= n - j
  BY <1>4
<1>6. \A j \in S : j <= i
  BY <1>5
<1>. QED  BY <1>6 DEF Greatest

-----------------------------------------------------------------------------
(***************************************************************************)
(* The shape of the state.  Nothing is said of a file's text: what a plan  *)
(* writes is the result of a fold.                                         *)
(***************************************************************************)

IsTx(t) ==
  t = [pc |-> t.pc, kind |-> t.kind, planned |-> t.planned, done |-> t.done,
       undo |-> t.undo, from |-> t.from, goal |-> t.goal, damaged |-> t.damaged]

\* The calls of a plan that are still to be written.
Left(t) == DOMAIN t.planned \ t.done

SoundTx(t) ==
  /\ IsTx(t)
  /\ t.pc \in {"idle", "asked", "next", "write", "undo"}
  /\ \E n \in Nat : DOMAIN t.planned \subseteq 1..n
  /\ t.done \subseteq DOMAIN t.planned
  /\ t.undo \subseteq DOMAIN t.planned
  /\ t.pc = "write" => Left(t) # {}
  /\ t.pc = "undo" => t.undo # {}

Shape ==
  /\ files = [p \in Paths |-> files[p]]
  /\ origin = [p \in Paths |-> origin[p]]
  /\ \E S : snaps \in Seq(S)
  /\ SoundTx(tx)

LEMMA NoTxIsSound == SoundTx(NoTx)
<1>1. DOMAIN NoTx.planned = {}
  BY DEF NoTx
<1>2. {} \subseteq 1..0 /\ 0 \in Nat
  OBVIOUS
<1>3. \E n \in Nat : DOMAIN NoTx.planned \subseteq 1..n
  BY <1>1, <1>2
<1>. QED  BY <1>3 DEF NoTx, SoundTx, IsTx

\* The number a write is about is one of the plan that is left.
LEMMA CurrentIsLeft ==
  ASSUME SoundTx(tx), Todo # {}
  PROVE  Least(Todo) \in Todo
<1>1. Todo \subseteq Nat
  BY DEF SoundTx, Todo
<1>. QED  BY <1>1, LeastIs

\* The number a repair is about is one that was written.
LEMMA UndoingIsUndone ==
  ASSUME SoundTx(tx), tx.undo # {}
  PROVE  Greatest(tx.undo) \in tx.undo
<1>1. PICK n \in Nat : tx.undo \subseteq 1..n
  BY DEF SoundTx
<1>. QED  BY <1>1, GreatestIs

\* A plan has finitely many numbers.
LEMMA PatchIsNumbered ==
  ASSUME NEW patch \in Patches
  PROVE  /\ \E n \in Nat : DOMAIN Plan(patch) \subseteq 1..n
         /\ \A i \in DOMAIN Plan(patch) :
              patch.ops[i].path \in Paths /\ Plan(patch)[i].path = patch.ops[i].path
<1>1. patch.ops \in Seq(Ops)
  BY ConstantsAssumption
<1>2. DOMAIN patch.ops = 1..Len(patch.ops) /\ Len(patch.ops) \in Nat
  BY <1>1
<1>3. \A i \in DOMAIN patch.ops : patch.ops[i].path \in Paths
  <2>1. \A i \in DOMAIN patch.ops : patch.ops[i] \in Ops
    BY <1>1
  <2>. QED  BY <2>1 DEF Ops
<1>4. DOMAIN Plan(patch) \subseteq DOMAIN patch.ops
  BY DEF Plan, PlanV4A, PlanUnified, FirstMentions
<1>5. ASSUME NEW i \in DOMAIN Plan(patch)  PROVE Plan(patch)[i].path = patch.ops[i].path
  <2>1. CASE patch.format = "v4a"
    BY <2>1 DEF Plan, PlanV4A, Change
  <2>2. CASE patch.format # "v4a"
    BY <2>2 DEF Plan, PlanUnified, Change
  <2>. QED  BY <2>1, <2>2
<1>. QED  BY <1>2, <1>3, <1>4, <1>5

LEMMA OrderIsNumbered ==
  /\ \E n \in Nat : DOMAIN SetToSeq(Paths) = 1..n
  /\ \A i \in DOMAIN SetToSeq(Paths) : SetToSeq(Paths)[i] \in Paths
<1>1. Cardinality(Paths) \in Nat /\ ExistsBijection(1..Cardinality(Paths), Paths)
  BY ConstantsAssumption, FS_CardinalityType
<1>2. \E f \in [1..Cardinality(Paths) -> Paths] : IsInjective(f)
  BY <1>1 DEF ExistsBijection, Bijection, Injection, Surjection, IsInjective
<1>3. SetToSeq(Paths) \in [1..Cardinality(Paths) -> Paths]
  BY <1>2 DEF SetToSeq
<1>. QED  BY <1>1, <1>3

-----------------------------------------------------------------------------
LEMMA BeginKeepsShape ==
  ASSUME Shape, (\E patch \in Patches : BeginPatch(patch)) \/ (\E target \in SyncTargets : BeginSync(target))
  PROVE  Shape'
<1>1. ASSUME NEW patch \in Patches, BeginPatch(patch)  PROVE SoundTx(tx')
  <2>1. \E n \in Nat : DOMAIN Plan(patch) \subseteq 1..n
    BY PatchIsNumbered
  <2>2. tx' = [pc |-> "next", kind |-> "patch", planned |-> Plan(patch), done |-> {},
               undo |-> {}, from |-> files, goal |-> Applied(patch, files).ws,
               damaged |-> FALSE]
    BY <1>1 DEF BeginPatch, NoTx
  <2>. QED  BY <2>1, <2>2 DEF SoundTx, IsTx
<1>2. ASSUME NEW target \in SyncTargets, BeginSync(target)  PROVE SoundTx(tx')
  <2>. DEFINE order == SetToSeq(Paths)
              changed == {i \in DOMAIN order : target[order[i]] # files[order[i]]}
              plan == [i \in changed |-> Change(order[i], files[order[i]], target[order[i]])]
  <2>1. \E n \in Nat : DOMAIN plan \subseteq 1..n
    BY OrderIsNumbered
  <2>2. PICK pc \in {"asked", "next"} :
          tx' = [pc |-> pc, kind |-> "sync", planned |-> plan, done |-> {},
                 undo |-> {}, from |-> files, goal |-> target, damaged |-> FALSE]
    BY <1>2 DEF BeginSync, NoTx
  <2>. HIDE DEF plan
  <2>. QED  BY <2>1, <2>2 DEF SoundTx, IsTx
<1>3. UNCHANGED <<files, origin, snaps>>
  BY DEF BeginPatch, BeginSync
<1>. QED  BY <1>1, <1>2, <1>3 DEF Shape

LEMMA SnapshotKeepsShape ==
  ASSUME Shape, Snapshot
  PROVE  Shape'
<1>1. PICK S : snaps \in Seq(S)
  BY DEF Shape
<1>2. snaps' \in Seq(S \cup {SnapshotOf(Current)})
  BY <1>1 DEF Snapshot
<1>3. tx' = [tx EXCEPT !.pc = "write"] /\ Left(tx) # {} /\ SoundTx(tx)
  BY DEF Snapshot, Shape, Todo, Left
<1>4. SoundTx(tx')
  BY <1>3 DEF SoundTx, IsTx, Left
<1>. QED  BY <1>2, <1>4 DEF Shape, Snapshot

LEMMA WritesKeepShape ==
  ASSUME Shape, WriteDone \/ WriteFails
  PROVE  Shape'
<1>1. Least(Todo) \in DOMAIN tx.planned
  BY CurrentIsLeft DEF Shape, SoundTx, WriteDone, WriteFails, Todo, Left
<1>2. CASE WriteDone
  <2>1. tx' = [tx EXCEPT !.pc = "next", !.done = @ \cup {Least(Todo)}] /\ SoundTx(tx)
    BY <1>2 DEF WriteDone, Shape
  <2>2. SoundTx(tx')
    BY <1>1, <2>1 DEF SoundTx, IsTx, Left
  <2>. QED  BY <1>2, <2>2 DEF WriteDone, Written, Shape
<1>3. CASE WriteFails
  <2>1. \/ tx' = [tx EXCEPT !.pc = "undo", !.undo = tx.done \cup {Least(Todo)}]
        \/ tx' = NoTx
    BY <1>3 DEF WriteFails
  <2>2. SoundTx(tx)
    BY DEF Shape
  <2>3. SoundTx(tx')
    <3>1. CASE tx' = [tx EXCEPT !.pc = "undo", !.undo = tx.done \cup {Least(Todo)}]
      BY <1>1, <2>2, <3>1 DEF SoundTx, IsTx, Left
    <3>. QED  BY <2>1, <3>1, NoTxIsSound
  <2>. QED  BY <1>3, <2>3 DEF WriteFails, Written, Shape
<1>. QED  BY <1>2, <1>3

LEMMA RepairsKeepShape ==
  ASSUME Shape, UndoFile \/ UndoFails
  PROVE  Shape'
<1>1. PICK repaired \in BOOLEAN : Undone(repaired)
  BY DEF UndoFile, UndoFails
<1>2. SoundTx(tx) /\ tx.pc = "undo"
  BY DEF Shape, UndoFile, UndoFails
<1>3. \/ tx' = NoTx
      \/ /\ tx.undo \ {Greatest(tx.undo)} # {}
         /\ tx' = [tx EXCEPT !.undo = tx.undo \ {Greatest(tx.undo)},
                              !.damaged = tx.damaged \/ ~repaired]
  BY <1>1 DEF Undone
<1>4. SoundTx(tx')
  <2>1. CASE tx.undo \ {Greatest(tx.undo)} # {}
             /\ tx' = [tx EXCEPT !.undo = tx.undo \ {Greatest(tx.undo)},
                                 !.damaged = tx.damaged \/ ~repaired]
    BY <1>2, <2>1 DEF SoundTx, IsTx, Left
  <2>. QED  BY <1>3, <2>1, NoTxIsSound
<1>. QED  BY <1>4 DEF UndoFile, UndoFails, Shape

LEMMA OthersKeepShape ==
  ASSUME Shape,
         \/ Answer \/ SnapshotRefused \/ Landed
         \/ Rollback \/ RollbackFails
         \/ Crash \/ ClearRuns \/ UserEdit
  PROVE  Shape'
<1>1. SoundTx(tx) /\ SoundTx(NoTx)
  BY NoTxIsSound DEF Shape
<1>2. CASE Answer \/ SnapshotRefused \/ Landed
  <2>1. tx' = NoTx \/ (tx' = [tx EXCEPT !.pc = "next"])
    BY <1>2 DEF Answer, SnapshotRefused, Landed
  <2>2. SoundTx(tx')
    BY <1>1, <2>1 DEF SoundTx, IsTx, Left
  <2>. QED  BY <1>2, <2>2 DEF Answer, SnapshotRefused, Landed, Shape
<1>3. CASE Rollback \/ RollbackFails
  BY <1>3 DEF Rollback, RollbackFails, Restored, Shape
<1>4. CASE Crash
  <2>1. files' = files \/ \E p, file : files' = [files EXCEPT ![p] = file]
    BY <1>4 DEF Crash, Written
  <2>. QED  BY <1>1, <1>4, <2>1 DEF Crash, Shape
<1>5. CASE ClearRuns
  <2>1. snaps' \in Seq({})
    BY <1>5 DEF ClearRuns
  <2>. QED  BY <1>1, <1>5, <2>1 DEF ClearRuns, Shape
<1>6. CASE UserEdit
  BY <1>6 DEF UserEdit, Shape
<1>. QED  BY <1>2, <1>3, <1>4, <1>5, <1>6

LEMMA ShapeIsKept ==
  ASSUME Shape, [Next]_vars
  PROVE  Shape'
<1>1. CASE UNCHANGED vars
  BY <1>1 DEF vars, Shape
<1>. QED  BY <1>1, BeginKeepsShape, SnapshotKeepsShape, WritesKeepShape, RepairsKeepShape,
            OthersKeepShape DEF Next

-----------------------------------------------------------------------------
(***************************************************************************)
(* The invariant.  Recoverable is not inductive: that a snapshot tells the *)
(* truth needs that a plan still does when it is written, and the plan of  *)
(* a call is older than its snapshots.  So, while the record is there:     *)
(*   - a file without a snapshot is as the run found it, and is a file;    *)
(*   - a plan knows such a file as it is;                                  *)
(*   - what was or is being written, or repaired, has a snapshot;          *)
(*   - a snapshot is of a file the run has touched or is about to, so that *)
(*     no later edit of the user moves what the run is held to have found. *)
(***************************************************************************)

Told(p) == p \in Snapshotted => Prior(Target(p)) = origin[p]
Found(p) == p \notin Snapshotted =>
              files[p] = origin[p] /\ p \notin touched /\ origin[p] \in File
Known(p) == p \in Snapshotted => p \in touched \/ (tx.pc = "write" /\ p = Current.path)
Fresh(i) == tx.planned[i].path \in Paths \ Snapshotted =>
              Prior(tx.planned[i]) = files[tx.planned[i].path]

SecuredFiles == \A p \in Paths : Told(p) /\ Found(p) /\ Known(p)
SecuredWrites ==
  /\ \A i \in tx.done \cup tx.undo : tx.planned[i].path \in Snapshotted
  /\ tx.pc = "write" => Current.path \in Snapshotted
SecuredPlan == tx.pc \in {"asked", "next", "write"} => \A i \in Todo : Fresh(i)

Secured == row => SecuredFiles /\ SecuredWrites /\ SecuredPlan

LEMMA NoTxIsSecured ==
  ASSUME tx' = NoTx
  PROVE  SecuredWrites' /\ SecuredPlan'
  BY DEF SecuredWrites, SecuredPlan, NoTx

\* A change made from a file tells what it was.
LEMMA ChangeIsFresh ==
  ASSUME NEW path, NEW file \in File, NEW after
  PROVE  Prior(Change(path, file, after)) = file
  BY DEF Prior, Change, File, FileWith, Absent

LEMMA SnapshotIsTrue ==
  ASSUME NEW change
  PROVE  Prior(SnapshotOf(change)) = Prior(change) /\ SnapshotOf(change).path = change.path
  BY DEF Prior, SnapshotOf

\* A new snapshot is the target of a path only if the path had none.
LEMMA SnapshotAdds ==
  ASSUME Shape, Snapshot
  PROVE  /\ Snapshotted' = Snapshotted \cup {Current.path}
         /\ \A p \in Snapshotted : Target(p)' = Target(p)
         /\ \A p : p \notin Snapshotted /\ p = Current.path => Target(p)' = SnapshotOf(Current)
<1>. DEFINE e == SnapshotOf(Current)
            n == Len(snaps) + 1
<1>1. PICK S : snaps \in Seq(S)
  BY DEF Shape
<1>2. /\ n \in Nat /\ n > 0 /\ DOMAIN snaps = 1..(n - 1) /\ DOMAIN snaps' = 1..n
      /\ \A i \in DOMAIN snaps : snaps'[i] = snaps[i]
      /\ snaps'[n] = e
  BY <1>1 DEF Snapshot
<1>3. e.path = Current.path
  BY SnapshotIsTrue
<1>. HIDE DEF e, n
<1>4. DOMAIN snaps' = DOMAIN snaps \cup {n} /\ n \notin DOMAIN snaps
  BY <1>2
<1>5. Snapshotted' = Snapshotted \cup {Current.path}
  <2>1. \A i \in DOMAIN snaps : snaps'[i].path = snaps[i].path
    BY <1>2
  <2>2. snaps'[n].path = Current.path
    BY <1>2, <1>3
  <2>3. Snapshotted' = {snaps'[i].path : i \in DOMAIN snaps \cup {n}}
    BY <1>4 DEF Snapshotted
  <2>. QED  BY <2>1, <2>2, <2>3 DEF Snapshotted
<1>6. ASSUME NEW p \in Snapshotted  PROVE Target(p)' = Target(p)
  <2>1. OfPath(p) \subseteq Nat /\ OfPath(p) # {}
    BY <1>2 DEF OfPath, Snapshotted
  <2>2. Least(OfPath(p)) \in OfPath(p) /\ \A j \in OfPath(p) : Least(OfPath(p)) <= j
    BY <2>1, LeastIs
  <2>3. OfPath(p)' \subseteq OfPath(p) \cup {n} /\ OfPath(p) \subseteq OfPath(p)'
    BY <1>2 DEF OfPath
  <2>4. \A j \in OfPath(p) : j \in Nat /\ j < n
    BY <1>2 DEF OfPath
  <2>5. OfPath(p)' \subseteq Nat /\ OfPath(p)' # {}
    BY <1>2, <2>1, <2>3
  <2>6. Least(OfPath(p)') \in OfPath(p)' /\ \A j \in OfPath(p)' : Least(OfPath(p)') <= j
    BY <2>5, LeastIs
  <2>7. Least(OfPath(p)') = Least(OfPath(p))
    BY <1>2, <2>2, <2>3, <2>4, <2>6
  <2>8. Target(p)' = snaps'[Least(OfPath(p)')]
    BY DEF Target
  <2>9. snaps'[Least(OfPath(p))] = snaps[Least(OfPath(p))]
    BY <1>2, <2>2 DEF OfPath
  <2>. QED  BY <2>7, <2>8, <2>9 DEF Target
<1>7. ASSUME NEW p, p \notin Snapshotted, p = Current.path  PROVE Target(p)' = e
  <2>1. OfPath(p)' = {i \in DOMAIN snaps \cup {n} : snaps'[i].path = p}
    BY <1>4 DEF OfPath
  <2>2. snaps'[n].path = p
    BY <1>2, <1>3, <1>7
  <2>3. \A i \in DOMAIN snaps : snaps'[i].path # p
    BY <1>2, <1>7 DEF Snapshotted
  <2>4. OfPath(p)' = {n}
    BY <2>1, <2>2, <2>3
  <2>5. {n} \subseteq Nat
    BY <1>2
  <2>6. Least({n}) = n
    BY <2>5, LeastIs
  <2>7. Target(p)' = snaps'[Least(OfPath(p)')]
    BY DEF Target
  <2>. QED  BY <1>2, <2>4, <2>6, <2>7
<1>. QED  BY <1>5, <1>6, <1>7 DEF e

-----------------------------------------------------------------------------
LEMMA InitIsSecured == Init => Shape /\ Secured
<1>. SUFFICES ASSUME Init  PROVE Shape /\ Secured
  OBVIOUS
<1>1. files \in Workspaces /\ origin = files /\ tx = NoTx /\ snaps = <<>> /\ touched = {}
  BY ConstantsAssumption DEF Init
<1>2. snaps \in Seq({}) /\ DOMAIN snaps = {}
  BY <1>1
<1>3. Snapshotted = {}
  BY <1>2 DEF Snapshotted
<1>4. SecuredFiles
  BY <1>1, <1>3 DEF SecuredFiles, Told, Found, Known, Workspaces
<1>5. SecuredWrites /\ SecuredPlan
  BY <1>1 DEF SecuredWrites, SecuredPlan, NoTx
<1>. QED  BY <1>1, <1>2, <1>4, <1>5, NoTxIsSound DEF Shape, Secured, Workspaces

LEMMA BeginIsSecured ==
  ASSUME Shape, Secured, row,
         (\E patch \in Patches : BeginPatch(patch)) \/ (\E target \in SyncTargets : BeginSync(target))
  PROVE  SecuredFiles' /\ SecuredWrites' /\ SecuredPlan'
<1>1. /\ tx.pc = "idle" /\ UNCHANGED <<files, row, snaps, origin, touched>>
      /\ tx'.pc \in {"asked", "next"} /\ tx'.done = {} /\ tx'.undo = {}
  BY DEF BeginPatch, BeginSync, NoTx
<1>2. Snapshotted' = Snapshotted /\ \A p : Target(p)' = Target(p)
  BY <1>1 DEF Snapshotted, Target, OfPath
<1>3. SecuredFiles
  BY DEF Secured
<1>4. SecuredFiles'
  BY <1>1, <1>2, <1>3 DEF SecuredFiles, Told, Found, Known
<1>5. SecuredWrites'
  BY <1>1 DEF SecuredWrites
<1>6. \A p \in Paths \ Snapshotted : files[p] \in File
  BY <1>3 DEF SecuredFiles, Found
<1>7. ASSUME NEW patch \in Patches, BeginPatch(patch), NEW i \in DOMAIN tx'.planned
      PROVE  Fresh(i)'
  <2>1. tx'.planned = Plan(patch)
    BY <1>7 DEF BeginPatch, NoTx
  <2>. DEFINE path == patch.ops[i].path
  <2>2. path \in Paths /\ Plan(patch)[i].path = path
    BY <1>7, <2>1, PatchIsNumbered
  <2>3. \E after : Plan(patch)[i] = Change(path, files[path], after)
    <3>1. CASE patch.format = "v4a"
      BY <1>7, <2>1, <3>1 DEF Plan, PlanV4A
    <3>2. CASE patch.format # "v4a"
      BY <1>7, <2>1, <3>2 DEF Plan, PlanUnified
    <3>. QED  BY <3>1, <3>2
  <2>. HIDE DEF path
  <2>4. path \notin Snapshotted => Prior(Plan(patch)[i]) = files[path]
    BY <1>6, <2>2, <2>3, ChangeIsFresh
  <2>. QED  BY <1>1, <1>2, <2>1, <2>2, <2>4 DEF Fresh
<1>8. ASSUME NEW target \in SyncTargets, BeginSync(target), NEW i \in DOMAIN tx'.planned
      PROVE  Fresh(i)'
  <2>. DEFINE order == SetToSeq(Paths)
              changed == {k \in DOMAIN order : target[order[k]] # files[order[k]]}
              path == order[i]
  <2>1. tx'.planned = [k \in changed |-> Change(order[k], files[order[k]], target[order[k]])]
    BY <1>8 DEF BeginSync, NoTx
  <2>2. i \in DOMAIN order
    BY <1>8, <2>1
  <2>3. path \in Paths
    BY <2>2, OrderIsNumbered
  <2>4. tx'.planned[i] = Change(path, files[path], target[path])
    BY <1>8, <2>1
  <2>. HIDE DEF path
  <2>5. tx'.planned[i].path = path
    BY <2>4 DEF Change
  <2>6. path \notin Snapshotted => Prior(tx'.planned[i]) = files[path]
    BY <1>6, <2>3, <2>4, ChangeIsFresh
  <2>. QED  BY <1>1, <1>2, <2>5, <2>6 DEF Fresh
<1>9. SecuredPlan'
  BY <1>7, <1>8 DEF SecuredPlan, Todo
<1>. QED  BY <1>4, <1>5, <1>9

LEMMA SnapshotIsSecured ==
  ASSUME Shape, Secured, row, Snapshot
  PROVE  SecuredFiles' /\ SecuredWrites' /\ SecuredPlan'
<1>. DEFINE c == Current.path
<1>1. /\ tx.pc = "next" /\ Todo # {} /\ UNCHANGED <<files, row, origin, touched>>
      /\ tx' = [tx EXCEPT !.pc = "write"] /\ SoundTx(tx)
  BY DEF Snapshot, Shape
<1>2. /\ tx'.pc = "write" /\ tx'.planned = tx.planned /\ tx'.done = tx.done
      /\ tx'.undo = tx.undo
  BY <1>1 DEF SoundTx, IsTx
<1>3. Todo' = Todo /\ Current' = Current
  BY <1>2 DEF Todo, Current
<1>4. /\ Snapshotted' = Snapshotted \cup {c}
      /\ \A p \in Snapshotted : Target(p)' = Target(p)
      /\ \A p : p \notin Snapshotted /\ p = c => Target(p)' = SnapshotOf(Current)
  BY SnapshotAdds
<1>5. SecuredFiles /\ SecuredWrites /\ \A i \in Todo : Fresh(i)
  BY <1>1 DEF Secured, SecuredPlan
<1>6. c \in Paths \ Snapshotted => Prior(SnapshotOf(Current)) = files[c]
  BY <1>1, <1>5, CurrentIsLeft, SnapshotIsTrue DEF Fresh, Current
<1>7. ASSUME NEW p \in Paths  PROVE (Told(p) /\ Found(p) /\ Known(p))'
  <2>1. Told(p) /\ Found(p) /\ Known(p)
    BY <1>5 DEF SecuredFiles
  <2>2. Told(p)'
    BY <1>1, <1>4, <1>6, <2>1 DEF Told, Found
  <2>3. Found(p)'
    BY <1>1, <1>4, <2>1 DEF Found
  <2>4. Known(p)'
    BY <1>1, <1>2, <1>3, <1>4, <2>1 DEF Known
  <2>. QED  BY <2>2, <2>3, <2>4
<1>8. SecuredWrites'
  BY <1>2, <1>3, <1>4, <1>5 DEF SecuredWrites
<1>9. SecuredPlan'
  BY <1>1, <1>2, <1>3, <1>4, <1>5 DEF SecuredPlan, Fresh
<1>. QED  BY <1>7, <1>8, <1>9 DEF SecuredFiles

\* A step that writes a file with a snapshot, and takes no snapshot.
LEMMA WriteIsSecured ==
  ASSUME Secured, row, NEW c \in Snapshotted, UNCHANGED <<snaps, origin>>,
         \A p \in Paths : p # c => files'[p] = files[p],
         touched' \in {touched, touched \cup {c}},
         tx.pc = "write" => c = Current.path /\ touched' = touched \cup {c}
  PROVE  SecuredFiles' /\ Snapshotted' = Snapshotted
<1>1. Snapshotted' = Snapshotted /\ \A p : Target(p)' = Target(p)
  BY DEF Snapshotted, Target, OfPath
<1>2. SecuredFiles
  BY DEF Secured
<1>. QED  BY <1>1, <1>2 DEF SecuredFiles, Told, Found, Known

LEMMA WritesAreSecured ==
  ASSUME Shape, Secured, row, WriteDone \/ WriteFails
  PROVE  SecuredFiles' /\ SecuredWrites' /\ SecuredPlan'
<1>. DEFINE c == Current.path
<1>1. /\ tx.pc = "write" /\ UNCHANGED <<row, snaps, origin>> /\ SoundTx(tx)
      /\ touched' = touched \cup {c} /\ \E file : files' = [files EXCEPT ![c] = file]
  BY DEF WriteDone, WriteFails, Written, Shape
<1>2. SecuredWrites /\ c \in Snapshotted /\ \A i \in Todo : Fresh(i)
  BY <1>1 DEF Secured, SecuredWrites, SecuredPlan
<1>3. \A p \in Paths : p # c => files'[p] = files[p]
  BY <1>1 DEF Shape
<1>4. SecuredFiles' /\ Snapshotted' = Snapshotted
  BY <1>1, <1>2, <1>3, WriteIsSecured
<1>5. Least(Todo) \in DOMAIN tx.planned /\ tx.planned[Least(Todo)].path = c
  BY <1>1, CurrentIsLeft DEF SoundTx, Todo, Left, Current
<1>6. CASE tx' = NoTx
  BY <1>4, <1>6, NoTxIsSecured
<1>7. CASE tx' = [tx EXCEPT !.pc = "undo", !.undo = tx.done \cup {Least(Todo)}]
  <2>1. /\ tx'.pc = "undo" /\ tx'.planned = tx.planned /\ tx'.done = tx.done
        /\ tx'.undo = tx.done \cup {Least(Todo)}
    BY <1>1, <1>7 DEF SoundTx, IsTx
  <2>2. SecuredWrites' /\ SecuredPlan'
    BY <1>2, <1>4, <1>5, <2>1 DEF SecuredWrites, SecuredPlan
  <2>. QED  BY <1>4, <2>2
<1>8. CASE tx' = [tx EXCEPT !.pc = "next", !.done = @ \cup {Least(Todo)}]
  <2>1. /\ tx'.pc = "next" /\ tx'.planned = tx.planned /\ tx'.undo = tx.undo
        /\ tx'.done = tx.done \cup {Least(Todo)}
    BY <1>1, <1>8 DEF SoundTx, IsTx
  <2>2. SecuredWrites'
    BY <1>2, <1>4, <1>5, <2>1 DEF SecuredWrites
  <2>3. Todo' \subseteq Todo
    BY <2>1 DEF Todo
  <2>4. \A i \in Todo : Fresh(i)'
    BY <1>2, <1>3, <1>4, <2>1 DEF Fresh
  <2>. QED  BY <1>4, <2>2, <2>3, <2>4 DEF SecuredPlan
<1>. QED  BY <1>6, <1>7, <1>8 DEF WriteDone, WriteFails

LEMMA RepairsAreSecured ==
  ASSUME Shape, Secured, row, UndoFile \/ UndoFails
  PROVE  SecuredFiles' /\ SecuredWrites' /\ SecuredPlan'
<1>. DEFINE c == Undoing.path
<1>1. /\ tx.pc = "undo" /\ UNCHANGED <<row, snaps, origin, touched>> /\ SoundTx(tx)
      /\ \E file : files' = [files EXCEPT ![c] = file]
      /\ \E repaired \in BOOLEAN : Undone(repaired)
  BY DEF UndoFile, UndoFails, Shape
<1>2. SecuredWrites
  BY DEF Secured
<1>3. c \in Snapshotted
  <2>1. Greatest(tx.undo) \in tx.undo
    BY <1>1, UndoingIsUndone DEF SoundTx
  <2>. QED  BY <1>2, <2>1 DEF SecuredWrites, Undoing
<1>4. \A p \in Paths : p # c => files'[p] = files[p]
  BY <1>1 DEF Shape
<1>5. SecuredFiles' /\ Snapshotted' = Snapshotted
  BY <1>1, <1>3, <1>4, WriteIsSecured
<1>6. CASE tx' = NoTx
  BY <1>5, <1>6, NoTxIsSecured
<1>7. CASE tx' # NoTx
  <2>1. PICK repaired \in BOOLEAN :
          tx' = [tx EXCEPT !.undo = tx.undo \ {Greatest(tx.undo)},
                           !.damaged = tx.damaged \/ ~repaired]
    BY <1>1, <1>7 DEF Undone
  <2>2. /\ tx'.pc = "undo" /\ tx'.planned = tx.planned /\ tx'.done = tx.done
        /\ tx'.undo \subseteq tx.undo
    BY <1>1, <2>1 DEF SoundTx, IsTx
  <2>3. SecuredWrites' /\ SecuredPlan'
    BY <1>2, <1>5, <2>2 DEF SecuredWrites, SecuredPlan
  <2>. QED  BY <1>5, <2>3
<1>. QED  BY <1>6, <1>7

LEMMA CrashIsSecured ==
  ASSUME Shape, Secured, row, Crash
  PROVE  SecuredFiles' /\ SecuredWrites' /\ SecuredPlan'
<1>1. tx' = NoTx /\ UNCHANGED <<row, snaps, origin>> /\ SoundTx(tx) /\ SecuredWrites
  BY DEF Crash, Shape, Secured
<1>2. SecuredWrites' /\ SecuredPlan'
  BY <1>1, NoTxIsSecured
<1>3. CASE tx.pc = "write"
  <2>1. Current.path \in Snapshotted /\ touched' = touched \cup {Current.path}
    BY <1>1, <1>3 DEF Crash, Written, SecuredWrites
  <2>2. \E file : files' = [files EXCEPT ![Current.path] = file]
    BY <1>3 DEF Crash, Written
  <2>3. \A p \in Paths : p # Current.path => files'[p] = files[p]
    BY <2>2 DEF Shape
  <2>4. SecuredFiles'
    BY <1>1, <2>1, <2>3, WriteIsSecured
  <2>. QED  BY <1>2, <2>4
<1>4. CASE tx.pc = "undo"
  <2>1. Greatest(tx.undo) \in tx.undo
    BY <1>1, <1>4, UndoingIsUndone DEF SoundTx
  <2>2. Undoing.path \in Snapshotted
    BY <1>1, <2>1 DEF SecuredWrites, Undoing
  <2>3. touched' = touched \cup {Undoing.path}
    BY <1>4 DEF Crash, Written
  <2>4. \E file : files' = [files EXCEPT ![Undoing.path] = file]
    BY <1>4 DEF Crash, Written
  <2>5. \A p \in Paths : p # Undoing.path => files'[p] = files[p]
    BY <2>4 DEF Shape
  <2>6. SecuredFiles'
    BY <1>1, <1>4, <2>2, <2>3, <2>5, WriteIsSecured
  <2>. QED  BY <1>2, <2>6
<1>5. CASE tx.pc \notin {"write", "undo"}
  <2>1. UNCHANGED <<files, touched>>
    BY <1>5 DEF Crash
  <2>2. SecuredFiles'
    BY <1>1, <1>5, <2>1 DEF Secured, SecuredFiles, Told, Found, Known, Snapshotted, Target, OfPath
  <2>. QED  BY <1>2, <2>2
<1>. QED  BY <1>3, <1>4, <1>5

LEMMA OthersAreSecured ==
  ASSUME Shape, Secured, row, row', "asked" \notin UserEditsAt,
         \/ Answer \/ SnapshotRefused \/ Landed
         \/ Rollback \/ RollbackFails
         \/ ClearRuns \/ UserEdit
  PROVE  SecuredFiles' /\ SecuredWrites' /\ SecuredPlan'
<1>1. UNCHANGED snaps /\ tx.pc # "write" /\ SoundTx(tx)
  <2>1. SoundTx(tx) /\ ~ClearRuns /\ ~SnapshotRefused
    BY DEF Shape, ClearRuns, SnapshotRefused
  <2>2. CASE Answer \/ Landed
    BY <2>1, <2>2 DEF Answer, Landed
  <2>3. CASE Rollback \/ RollbackFails
    BY <2>1, <2>3 DEF Rollback, RollbackFails
  <2>4. CASE UserEdit
    BY <2>1, <2>4, ConstantsAssumption DEF UserEdit
  <2>. QED  BY <2>1, <2>2, <2>3, <2>4
<1>2. Snapshotted' = Snapshotted /\ \A p : Target(p)' = Target(p)
  BY <1>1 DEF Snapshotted, Target, OfPath
<1>3. SecuredFiles /\ SecuredWrites /\ SecuredPlan
  BY DEF Secured
<1>4. CASE Answer \/ Landed
  <2>1. /\ UNCHANGED <<files, origin, touched>>
        /\ tx' = NoTx \/ (tx.pc = "asked" /\ tx' = [tx EXCEPT !.pc = "next"])
    BY <1>4 DEF Answer, Landed
  <2>2. SecuredFiles'
    BY <1>1, <1>2, <1>3, <2>1 DEF SecuredFiles, Told, Found, Known
  <2>3. CASE tx.pc = "asked" /\ tx' = [tx EXCEPT !.pc = "next"]
    <3>1. /\ tx'.pc = "next" /\ tx'.planned = tx.planned /\ tx'.done = tx.done
          /\ tx'.undo = tx.undo
      BY <1>1, <2>3 DEF SoundTx, IsTx
    <3>2. SecuredWrites' /\ SecuredPlan'
      BY <1>2, <1>3, <2>1, <2>3, <3>1 DEF SecuredWrites, SecuredPlan, Todo, Fresh
    <3>. QED  BY <2>2, <3>2
  <2>. QED  BY <2>1, <2>2, <2>3, NoTxIsSecured
<1>5. CASE Rollback \/ RollbackFails
  <2>1. UNCHANGED <<tx, origin, touched>> /\ tx.pc = "idle"
    BY <1>5 DEF Rollback, RollbackFails
  <2>2. \A p \in Paths : p \notin Snapshotted => files'[p] = files[p]
    BY <1>5 DEF Rollback, RollbackFails, Restored
  <2>3. SecuredFiles'
    BY <1>1, <1>2, <1>3, <2>1, <2>2 DEF SecuredFiles, Told, Found, Known
  <2>4. SecuredWrites' /\ SecuredPlan'
    BY <1>2, <1>3, <2>1 DEF SecuredWrites, SecuredPlan
  <2>. QED  BY <2>3, <2>4
<1>6. CASE UserEdit
  <2>1. UNCHANGED <<tx, touched>> /\ tx.pc = "idle"
    BY <1>6, ConstantsAssumption DEF UserEdit
  <2>2. PICK q \in Paths, edit \in Edits :
          /\ files[q].exists
          /\ files' = [files EXCEPT ![q] = FileWith(files[q].text \cup {edit})]
          /\ origin' = IF q \in touched THEN origin
                       ELSE [origin EXCEPT ![q] = FileWith(files[q].text \cup {edit})]
    BY <1>6 DEF UserEdit
  <2>. DEFINE file == FileWith(files[q].text \cup {edit})
  <2>3. /\ files'[q] = file /\ \A p \in Paths \ {q} : files'[p] = files[p] /\ origin'[p] = origin[p]
        /\ q \in touched => origin'[q] = origin[q]
        /\ q \notin touched => origin'[q] = file
    BY <2>2 DEF Shape
  <2>4. q \notin touched => q \notin Snapshotted
    BY <1>1, <1>3 DEF SecuredFiles, Known
  <2>5. ASSUME q \notin touched  PROVE file \in File
    <3>1. files[q] \in File
      BY <1>3, <2>4, <2>5 DEF SecuredFiles, Found
    <3>2. files[q].text \cup {edit} \in Texts
      <4>1. files[q].exists
        BY <2>2
      <4>2. ~Absent.exists
        BY DEF Absent
      <4>3. files[q] \in [exists : {TRUE}, text : Texts]
        BY <3>1, <4>1, <4>2 DEF File
      <4>. QED  BY <4>3 DEF Texts
    <3>. QED  BY <3>2 DEF File, FileWith
  <2>. HIDE DEF file
  <2>6. SecuredFiles'
    BY <1>1, <1>2, <1>3, <2>1, <2>3, <2>4, <2>5 DEF SecuredFiles, Told, Found, Known
  <2>7. SecuredWrites' /\ SecuredPlan'
    BY <1>2, <1>3, <2>1 DEF SecuredWrites, SecuredPlan
  <2>. QED  BY <2>6, <2>7
<1>. QED  BY <1>4, <1>5, <1>6 DEF SnapshotRefused, ClearRuns

LEMMA SecuredIsKept ==
  ASSUME Shape, Secured, [Next]_vars, "asked" \notin UserEditsAt
  PROVE  Secured'
<1>. SUFFICES ASSUME row'  PROVE SecuredFiles' /\ SecuredWrites' /\ SecuredPlan'
  BY DEF Secured
<1>1. CASE UNCHANGED vars
  <2>1. row /\ SecuredFiles /\ SecuredWrites /\ SecuredPlan
    BY <1>1 DEF vars, Secured
  <2>2. SecuredFiles'
    <3>1. Snapshotted' = Snapshotted /\ Current' = Current
      BY <1>1 DEF vars, Snapshotted, Current, Todo
    <3>2. \A p \in Paths : Target(p)' = Target(p)
      BY <1>1 DEF vars, Target, OfPath
    <3>. QED  BY <1>1, <2>1, <3>1, <3>2 DEF vars, SecuredFiles, Told, Found, Known
  <2>3. SecuredWrites' /\ SecuredPlan'
    BY <1>1, <2>1 DEF vars, SecuredWrites, SecuredPlan, Fresh, Snapshotted, Current, Todo
  <2>. QED  BY <2>2, <2>3
<1>2. CASE Next
  <2>1. row
    BY <1>2 DEF Next, BeginPatch, BeginSync, Answer, Snapshot, SnapshotRefused, WriteDone,
                WriteFails, Landed, UndoFile, UndoFails, Rollback, RollbackFails, Crash,
                ClearRuns, UserEdit
  <2>. QED  BY <1>2, <2>1, BeginIsSecured, SnapshotIsSecured, WritesAreSecured,
               RepairsAreSecured, CrashIsSecured, OthersAreSecured DEF Next
<1>. QED  BY <1>1, <1>2

-----------------------------------------------------------------------------
\* As long as the user leaves the files alone while a synchronisation waits for
\* the answer (run-command-routed.ts:264), the snapshots of a run that has a record
\* bring back every file as the run found it: whatever files, patches and staging
\* copies, whatever write or repair fails, wherever the process dies and however
\* often the run is rolled back (apply-patch.ts:55-90, rollback.ts:60-150).
THEOREM RunsAreRecoverable ==
  ASSUME "asked" \notin UserEditsAt
  PROVE  Spec => []Recoverable
<1>1. Init => Shape /\ Secured
  BY InitIsSecured
<1>2. Shape /\ Secured /\ [Next]_vars => (Shape /\ Secured)'
  BY ShapeIsKept, SecuredIsKept
<1>3. Secured => Recoverable
  BY DEF Secured, SecuredFiles, Told, Found, Recoverable
<1>. QED  BY <1>1, <1>2, <1>3, PTL DEF Spec

-----------------------------------------------------------------------------
(***************************************************************************)
(* What phase A plans of a patch is what the patch means: the workspace    *)
(* that the operations leave, one after the other.  Both sides are         *)
(* recursive functions over the operations; that such a function exists is *)
(* shown first, for any step on any set.                                   *)
(***************************************************************************)

\* f starts at base and goes on by step, n times.
Runs(f, n, base, step) ==
  /\ f[0] = base
  /\ \A i \in 1..n : f[i] = step[<<i, f[i - 1]>>]

\* Induction, over the numbers of a set.
LEMMA UpTo ==
  ASSUME NEW n \in Nat, NEW S, 0 \in S, \A i \in 1..n : i - 1 \in S => i \in S
  PROVE  \A i \in 0..n : i \in S
<1>. DEFINE Outside == {i \in 0..n : i \notin S}
<1>. SUFFICES ASSUME Outside # {}  PROVE FALSE
  OBVIOUS
<1>1. PICK k \in Outside : \A j \in Outside : k <= j
  <2>1. Outside \subseteq Nat
    OBVIOUS
  <2>. HIDE DEF Outside
  <2>. QED  BY <2>1, SmallestNumber
<1>2. k \in 1..n /\ k - 1 \in 0..n /\ k - 1 \notin Outside
  BY <1>1
<1>. QED  BY <1>1, <1>2

LEMMA RecursionReaches ==
  ASSUME NEW n \in Nat, NEW R, NEW base \in R, NEW step \in [(1..n) \X R -> R]
  PROVE  \A k \in 0..n : \E f \in [0..k -> R] : Runs(f, k, base, step)
<1>. DEFINE Reached == {k \in 0..n : \E f \in [0..k -> R] : Runs(f, k, base, step)}
<1>1. 0 \in Reached
  <2>. DEFINE f == [i \in 0..0 |-> base]
  <2>1. f \in [0..0 -> R] /\ Runs(f, 0, base, step)
    BY DEF Runs
  <2>. QED  BY <2>1
<1>2. ASSUME NEW k \in 1..n, k - 1 \in Reached  PROVE k \in Reached
  <2>1. k \in 0..n /\ k - 1 \in 0..n
    OBVIOUS
  <2>2. PICK g \in [0..(k - 1) -> R] : Runs(g, k - 1, base, step)
    BY <1>2
  <2>3. <<k, g[k - 1]>> \in (1..n) \X R
    BY <2>1
  <2>. DEFINE f == [i \in 0..k |-> IF i = k THEN step[<<k, g[k - 1]>>] ELSE g[i]]
  <2>4. f \in [0..k -> R]
    <3>1. step[<<k, g[k - 1]>>] \in R
      BY <2>3
    <3>2. \A i \in 0..k : i # k => i \in 0..(k - 1)
      BY <2>1
    <3>. QED  BY <3>1, <3>2
  <2>5. f[0] = base /\ f[k] = step[<<k, f[k - 1]>>]
    BY <2>1, <2>2 DEF Runs
  <2>6. ASSUME NEW i \in 1..k, i # k  PROVE f[i] = step[<<i, f[i - 1]>>]
    <3>1. i \in 1..(k - 1) /\ i - 1 \in 0..k /\ i - 1 # k /\ i \in 0..k
      BY <2>1, <2>6
    <3>2. f[i] = g[i] /\ f[i - 1] = g[i - 1]
      BY <2>6, <3>1
    <3>. QED  BY <2>2, <3>1, <3>2 DEF Runs
  <2>7. Runs(f, k, base, step)
    <3>. HIDE DEF f
    <3>. QED  BY <2>5, <2>6 DEF Runs
  <2>. QED  BY <2>1, <2>4, <2>7
<1>3. \A k \in 0..n : k \in Reached
  <2>. HIDE DEF Reached
  <2>. QED  BY <1>1, <1>2, UpTo
<1>. QED  BY <1>3

LEMMA RecursionExists ==
  ASSUME NEW n \in Nat, NEW R, NEW base \in R, NEW step \in [(1..n) \X R -> R]
  PROVE  \E f \in [0..n -> R] : Runs(f, n, base, step)
<1>1. n \in 0..n
  OBVIOUS
<1>. QED  BY <1>1, RecursionReaches

\* Two functions begin alike and go on alike up to n.
Together(f, g, n) == f[0] = g[0] /\ \A i \in 1..n : f[i - 1] = g[i - 1] => f[i] = g[i]

LEMMA RecursionIsUnique ==
  ASSUME NEW n \in Nat, NEW f, NEW g, Together(f, g, n)
  PROVE  \A i \in 0..n : f[i] = g[i]
<1>. DEFINE Same == {i \in 0..n : f[i] = g[i]}
<1>1. 0 \in Same /\ \A i \in 1..n : i - 1 \in Same => i \in Same
  BY DEF Together
<1>2. \A i \in 0..n : i \in Same
  <2>. HIDE DEF Same
  <2>. QED  BY <1>1, UpTo
<1>. QED  BY <1>2

-----------------------------------------------------------------------------
LEMMA OpKeepsTypes ==
  ASSUME NEW format, NEW op \in Ops, NEW file \in File
  PROVE  OpApplies(format, op, file) \in BOOLEAN /\ OpResult(op, file) \in File
<1>1. op.op \in {"update", "add", "delete"} /\ op.edit \in Edits
  BY DEF Ops
<1>2. file.text \in Texts /\ file.exists \in BOOLEAN
  <2>1. CASE file = Absent
    BY <2>1 DEF Absent, Texts
  <2>2. CASE file # Absent
    BY <2>2 DEF File
  <2>. QED  BY <2>1, <2>2
<1>3. file.text \cup {op.edit} \in Texts
  BY <1>1, <1>2 DEF Texts
<1>4. FileWith(file.text \cup {op.edit}) \in File
  BY <1>3 DEF File, FileWith
<1>5. OpResult(op, file) \in File
  BY <1>4 DEF OpResult, File
<1>6. OpApplies(format, op, file) \in BOOLEAN
  BY <1>1, <1>2 DEF OpApplies
<1>. QED  BY <1>5, <1>6

\* One operation of a patch on the whole workspace, and all of them.
Step(format, op, r) ==
  [ok |-> r.ok /\ OpApplies(format, op, r.ws[op.path]),
   ws |-> [r.ws EXCEPT ![op.path] = OpResult(op, r.ws[op.path])]]

IsApplying(f, patch, ws) ==
  /\ f \in [0..Len(patch.ops) -> [ok : BOOLEAN, ws : Workspaces]]
  /\ f[0] = [ok |-> TRUE, ws |-> ws]
  /\ \A i \in 1..Len(patch.ops) : f[i] = Step(patch.format, patch.ops[i], f[i - 1])

LEMMA StepKeepsTypes ==
  ASSUME NEW format, NEW op \in Ops, NEW r \in [ok : BOOLEAN, ws : Workspaces]
  PROVE  Step(format, op, r) \in [ok : BOOLEAN, ws : Workspaces]
<1>1. op.path \in Paths /\ r.ws \in Workspaces /\ r.ws[op.path] \in File
  BY DEF Ops, Workspaces
<1>2. OpApplies(format, op, r.ws[op.path]) \in BOOLEAN /\ OpResult(op, r.ws[op.path]) \in File
  BY <1>1, OpKeepsTypes
<1>3. [r.ws EXCEPT ![op.path] = OpResult(op, r.ws[op.path])] \in Workspaces
  BY <1>1, <1>2 DEF Workspaces
<1>. QED  BY <1>2, <1>3 DEF Step

LEMMA PatchApplies ==
  ASSUME NEW patch \in [format : Formats, ops : Seq(Ops)], NEW ws \in Workspaces
  PROVE  \E f : IsApplying(f, patch, ws) /\ Applied(patch, ws) = f[Len(patch.ops)]
<1>. DEFINE n == Len(patch.ops)
            R == [ok : BOOLEAN, ws : Workspaces]
            base == [ok |-> TRUE, ws |-> ws]
            step == [x \in (1..n) \X R |-> Step(patch.format, patch.ops[x[1]], x[2])]
            IsAfter(f) == f = [i \in 0..n |->
               IF i = 0 THEN [ok |-> TRUE, ws |-> ws]
               ELSE LET r == f[i - 1]
                        op == patch.ops[i]
                    IN [ok |-> r.ok /\ OpApplies(patch.format, op, r.ws[op.path]),
                        ws |-> [r.ws EXCEPT ![op.path] = OpResult(op, @)]]]
<1>1. n \in Nat /\ base \in R /\ \A i \in 1..n : patch.ops[i] \in Ops
  OBVIOUS
<1>2. step \in [(1..n) \X R -> R]
  <2>1. \A x \in (1..n) \X R : Step(patch.format, patch.ops[x[1]], x[2]) \in R
    BY <1>1, StepKeepsTypes
  <2>. QED  BY <2>1
<1>3. PICK f \in [0..n -> R] : Runs(f, n, base, step)
  <2>. HIDE DEF n, R, base, step
  <2>. QED  BY <1>1, <1>2, RecursionExists
<1>4. ASSUME NEW i \in 1..n  PROVE f[i] = Step(patch.format, patch.ops[i], f[i - 1])
  <2>1. f[i - 1] \in R
    <3>. HIDE DEF R, n, base, step
    <3>1. i - 1 \in 0..n
      BY <1>1
    <3>. QED  BY <1>3, <3>1
  <2>2. <<i, f[i - 1]>> \in (1..n) \X R
    BY <2>1
  <2>. HIDE DEF n, R, base
  <2>3. step[<<i, f[i - 1]>>] = Step(patch.format, patch.ops[i], f[i - 1])
    BY <2>2
  <2>. QED  BY <1>3, <2>3 DEF Runs
<1>5. f[0] = base
  BY <1>3 DEF Runs
<1>6. IsAfter(f)
  <2>. HIDE DEF n
  <2>1. f = [i \in 0..n |-> f[i]]
    BY <1>3
  <2>2. ASSUME NEW i \in 0..n
        PROVE f[i] = IF i = 0 THEN base ELSE Step(patch.format, patch.ops[i], f[i - 1])
    <3>1. i = 0 \/ i \in 1..n
      BY <1>1
    <3>. QED  BY <1>1, <1>4, <1>5, <3>1
  <2>3. f = [i \in 0..n |-> IF i = 0 THEN base ELSE Step(patch.format, patch.ops[i], f[i - 1])]
    <3>. HIDE DEF base, R, step
    <3>. QED  BY <2>1, <2>2
  <2>. QED  BY <2>3 DEF Step
<1>. DEFINE g == CHOOSE h : IsAfter(h)
<1>7. IsAfter(g)
  <2>. HIDE DEF IsAfter
  <2>. QED  BY <1>6
<1>8. Applied(patch, ws) = g[n]
  BY DEF Applied
<1>. HIDE DEF g
<1>9. g = [i \in 0..n |-> g[i]] /\ g[0] = base
      /\ \A i \in 1..n : g[i] = Step(patch.format, patch.ops[i], g[i - 1])
  <2>. HIDE DEF n
  <2>1. \A i \in 1..n : i \in 0..n /\ i # 0
    BY <1>1
  <2>2. 0 \in 0..n
    BY <1>1
  <2>. QED  BY <1>7, <2>1, <2>2 DEF Step
<1>. HIDE DEF IsAfter
<1>10. g = f
  <2>. HIDE DEF n
  <2>1. \A i \in 0..n : f[i] = g[i]
    <3>. HIDE DEF base, step, R
    <3>1. f[0] = g[0]
      BY <1>5, <1>9
    <3>2. \A i \in 1..n : f[i - 1] = g[i - 1] => f[i] = g[i]
      BY <1>4, <1>9
    <3>3. n \in Nat
      BY <1>1
    <3>. HIDE DEF g
    <3>4. Together(f, g, n)
      BY <3>1, <3>2 DEF Together
    <3>. QED  BY <3>3, <3>4, RecursionIsUnique, Zenon
  <2>2. f = [i \in 0..n |-> f[i]]
    BY <1>3
  <2>. QED  BY <1>9, <2>1, <2>2
<1>11. IsApplying(g, patch, ws)
  BY <1>3, <1>4, <1>5, <1>10 DEF IsApplying
<1>. QED  BY <1>8, <1>11

-----------------------------------------------------------------------------
\* One operation as planV4A applies it to one path, and all of them.
EvolveStep(path, op, r) ==
  IF op.path # path THEN r
  ELSE [ok |-> r.ok /\ OpApplies("v4a", op, r.file), file |-> OpResult(op, r.file)]

IsEvolving(f, ops, path) ==
  /\ f \in [0..Len(ops) -> [ok : BOOLEAN, file : File]]
  /\ f[0] = [ok |-> TRUE, file |-> files[path]]
  /\ \A i \in 1..Len(ops) : f[i] = EvolveStep(path, ops[i], f[i - 1])

LEMMA EvolveStepKeepsTypes ==
  ASSUME NEW path, NEW op \in Ops, NEW r \in [ok : BOOLEAN, file : File]
  PROVE  EvolveStep(path, op, r) \in [ok : BOOLEAN, file : File]
<1>1. OpApplies("v4a", op, r.file) \in BOOLEAN /\ OpResult(op, r.file) \in File
  BY OpKeepsTypes
<1>. QED  BY <1>1 DEF EvolveStep

LEMMA PathEvolves ==
  ASSUME NEW ops \in Seq(Ops), NEW path \in Paths, files \in Workspaces
  PROVE  \E f : IsEvolving(f, ops, path) /\ Evolved(ops, path) = f[Len(ops)]
<1>. DEFINE n == Len(ops)
            R == [ok : BOOLEAN, file : File]
            base == [ok |-> TRUE, file |-> files[path]]
            step == [x \in (1..n) \X R |-> EvolveStep(path, ops[x[1]], x[2])]
            IsState(f) == f = [i \in 0..n |->
               IF i = 0 THEN [ok |-> TRUE, file |-> files[path]]
               ELSE LET r == f[i - 1]
                    IN IF ops[i].path # path THEN r
                       ELSE [ok |-> r.ok /\ OpApplies("v4a", ops[i], r.file),
                             file |-> OpResult(ops[i], r.file)]]
<1>1. n \in Nat /\ base \in R /\ \A i \in 1..n : ops[i] \in Ops
  BY DEF Workspaces
<1>2. step \in [(1..n) \X R -> R]
  <2>1. \A x \in (1..n) \X R : EvolveStep(path, ops[x[1]], x[2]) \in R
    BY <1>1, EvolveStepKeepsTypes
  <2>. QED  BY <2>1
<1>3. PICK f \in [0..n -> R] : Runs(f, n, base, step)
  <2>. HIDE DEF n, R, base, step
  <2>. QED  BY <1>1, <1>2, RecursionExists
<1>4. ASSUME NEW i \in 1..n  PROVE f[i] = EvolveStep(path, ops[i], f[i - 1])
  <2>1. f[i - 1] \in R
    <3>. HIDE DEF R, n, base, step
    <3>1. i - 1 \in 0..n
      BY <1>1
    <3>. QED  BY <1>3, <3>1
  <2>2. <<i, f[i - 1]>> \in (1..n) \X R
    BY <2>1
  <2>. HIDE DEF n, R, base
  <2>3. step[<<i, f[i - 1]>>] = EvolveStep(path, ops[i], f[i - 1])
    BY <2>2
  <2>. QED  BY <1>3, <2>3 DEF Runs
<1>5. f[0] = base
  BY <1>3 DEF Runs
<1>6. IsState(f)
  <2>. HIDE DEF n
  <2>1. f = [i \in 0..n |-> f[i]]
    BY <1>3
  <2>2. ASSUME NEW i \in 0..n
        PROVE f[i] = IF i = 0 THEN base ELSE EvolveStep(path, ops[i], f[i - 1])
    <3>1. i = 0 \/ i \in 1..n
      BY <1>1
    <3>. QED  BY <1>1, <1>4, <1>5, <3>1
  <2>3. f = [i \in 0..n |-> IF i = 0 THEN base ELSE EvolveStep(path, ops[i], f[i - 1])]
    <3>. HIDE DEF base, R, step
    <3>. QED  BY <2>1, <2>2
  <2>. QED  BY <2>3 DEF EvolveStep
<1>. DEFINE g == CHOOSE h : IsState(h)
<1>7. IsState(g)
  <2>. HIDE DEF IsState
  <2>. QED  BY <1>6
<1>8. Evolved(ops, path) = g[n]
  BY DEF Evolved
<1>. HIDE DEF g
<1>9. g = [i \in 0..n |-> g[i]] /\ g[0] = base
      /\ \A i \in 1..n : g[i] = EvolveStep(path, ops[i], g[i - 1])
  <2>. HIDE DEF n
  <2>1. \A i \in 1..n : i \in 0..n /\ i # 0
    BY <1>1
  <2>2. 0 \in 0..n
    BY <1>1
  <2>. QED  BY <1>7, <2>1, <2>2 DEF EvolveStep
<1>. HIDE DEF IsState
<1>10. g = f
  <2>. HIDE DEF n
  <2>1. \A i \in 0..n : f[i] = g[i]
    <3>. HIDE DEF base, step, R
    <3>1. f[0] = g[0]
      BY <1>5, <1>9
    <3>2. \A i \in 1..n : f[i - 1] = g[i - 1] => f[i] = g[i]
      BY <1>4, <1>9
    <3>3. n \in Nat
      BY <1>1
    <3>. HIDE DEF g
    <3>4. Together(f, g, n)
      BY <3>1, <3>2 DEF Together
    <3>. QED  BY <3>3, <3>4, RecursionIsUnique, Zenon
  <2>2. f = [i \in 0..n |-> f[i]]
    BY <1>3
  <2>. QED  BY <1>9, <2>1, <2>2
<1>11. IsEvolving(g, ops, path)
  BY <1>3, <1>4, <1>5, <1>10 DEF IsEvolving
<1>. QED  BY <1>8, <1>11

-----------------------------------------------------------------------------
\* What planV4A keeps of each path.
Evolutions == [Paths -> [ok : BOOLEAN, file : File]]

\* The files of one side are those of the other, and so is the verdict.
Agree(r, G) ==
  /\ \A p \in Paths : r.ws[p] = G[p].file
  /\ (r.ok = TRUE) <=> \A p \in Paths : G[p].ok = TRUE

LEMMA StepsAgree ==
  ASSUME NEW op \in Ops, NEW r \in [ok : BOOLEAN, ws : Workspaces], NEW G \in Evolutions,
         Agree(r, G), NEW s, s = Step("v4a", op, r),
         NEW H, \A p \in Paths : H[p] = EvolveStep(p, op, G[p])
  PROVE  Agree(s, H)
<1>. DEFINE q == op.path
            applies == OpApplies("v4a", op, r.ws[q])
<1>1. q \in Paths /\ G[q] \in [ok : BOOLEAN, file : File] /\ r.ws[q] = G[q].file
  BY DEF Ops, Evolutions, Agree
<1>2. /\ s.ws[q] = OpResult(op, r.ws[q])
      /\ \A p \in Paths : p # q => s.ws[p] = r.ws[p]
      /\ s.ok = (r.ok /\ applies)
  <2>1. r.ws \in [Paths -> File]
    BY DEF Workspaces
  <2>2. s.ws = [r.ws EXCEPT ![q] = OpResult(op, r.ws[q])] /\ s.ok = (r.ok /\ applies)
    BY DEF Step
  <2>. QED  BY <1>1, <2>1, <2>2
<1>3. /\ H[q].file = OpResult(op, G[q].file)
      /\ H[q].ok = (G[q].ok /\ applies)
      /\ \A p \in Paths : p # q => H[p] = G[p]
  <2>1. H[q] = [ok |-> G[q].ok /\ OpApplies("v4a", op, G[q].file),
                file |-> OpResult(op, G[q].file)]
    BY <1>1 DEF EvolveStep
  <2>2. \A p \in Paths : p # q => H[p] = G[p]
    BY DEF EvolveStep
  <2>. QED  BY <1>1, <2>1, <2>2
<1>4. applies \in BOOLEAN
  BY <1>1, OpKeepsTypes
<1>. HIDE DEF q, applies
<1>5. \A p \in Paths : s.ws[p] = H[p].file
  BY <1>1, <1>2, <1>3 DEF Agree
<1>6. (s.ok = TRUE) <=> r.ok = TRUE /\ applies = TRUE
  <2>1. r.ok \in BOOLEAN
    OBVIOUS
  <2>. QED  BY <1>2, <1>4, <2>1
<1>7. (H[q].ok = TRUE) <=> G[q].ok = TRUE /\ applies = TRUE
  <2>1. G[q].ok \in BOOLEAN
    BY <1>1
  <2>. QED  BY <1>3, <1>4, <2>1
<1>8. (s.ok = TRUE) <=> \A p \in Paths : H[p].ok = TRUE
  <2>1. (r.ok = TRUE) <=> \A p \in Paths : G[p].ok = TRUE
    BY DEF Agree
  <2>. QED  BY <1>1, <1>3, <1>6, <1>7, <2>1
<1>. QED  BY <1>5, <1>8 DEF Agree

\* One path at a time or all at once: the files come out the same.
LEMMA PathsTogether ==
  ASSUME files \in Workspaces, NEW patch \in [format : Formats, ops : Seq(Ops)],
         patch.format = "v4a"
  PROVE  /\ [p \in Paths |-> Evolved(patch.ops, p)] \in Evolutions
         /\ Applied(patch, files) \in [ok : BOOLEAN, ws : Workspaces]
         /\ Agree(Applied(patch, files), [p \in Paths |-> Evolved(patch.ops, p)])
<1>. DEFINE ops == patch.ops
            n == Len(ops)
            IsOf(h, p) == IsEvolving(h, ops, p) /\ Evolved(ops, p) = h[n]
            g == [p \in Paths |-> CHOOSE h : IsOf(h, p)]
            At(i) == [p \in Paths |-> g[p][i]]
<1>1. n \in Nat /\ \A i \in 1..n : ops[i] \in Ops
  OBVIOUS
<1>2. PICK f : IsApplying(f, patch, files) /\ Applied(patch, files) = f[n]
  BY PatchApplies
<1>3. ASSUME NEW p \in Paths  PROVE IsOf(g[p], p)
  <2>1. \E h : IsOf(h, p)
    BY PathEvolves
  <2>. HIDE DEF IsOf
  <2>. QED  BY <2>1
<1>. HIDE DEF g
<1>4. /\ f[0] = [ok |-> TRUE, ws |-> files]
      /\ \A i \in 0..n : f[i] \in [ok : BOOLEAN, ws : Workspaces]
      /\ \A i \in 1..n : f[i] = Step("v4a", ops[i], f[i - 1])
  BY <1>2 DEF IsApplying
<1>5. ASSUME NEW p \in Paths
      PROVE  /\ g[p][0] = [ok |-> TRUE, file |-> files[p]]
             /\ \A i \in 0..n : g[p][i] \in [ok : BOOLEAN, file : File]
             /\ \A i \in 1..n : g[p][i] = EvolveStep(p, ops[i], g[p][i - 1])
             /\ Evolved(ops, p) = g[p][n]
  BY <1>3 DEF IsEvolving
<1>. HIDE DEF n, ops
<1>6. \A i \in 0..n : At(i) \in Evolutions
  BY <1>5 DEF Evolutions
<1>. DEFINE Agreed == {i \in 0..n : Agree(f[i], At(i))}
<1>7. 0 \in Agreed
  <2>1. 0 \in 0..n
    BY <1>1
  <2>2. f[0].ws = files /\ f[0].ok = TRUE
    BY <1>4
  <2>3. ASSUME NEW p \in Paths  PROVE At(0)[p].file = files[p] /\ At(0)[p].ok = TRUE
    <3>1. At(0)[p] = g[p][0]
      OBVIOUS
    <3>. HIDE DEF At
    <3>2. At(0)[p] = [ok |-> TRUE, file |-> files[p]]
      BY <1>5, <3>1
    <3>. QED  BY <3>2
  <2>. HIDE DEF At
  <2>. QED  BY <2>1, <2>2, <2>3 DEF Agree
<1>8. ASSUME NEW i \in 1..n, i - 1 \in Agreed  PROVE i \in Agreed
  <2>1. /\ i \in 0..n /\ i - 1 \in 0..n /\ ops[i] \in Ops
        /\ f[i - 1] \in [ok : BOOLEAN, ws : Workspaces] /\ Agree(f[i - 1], At(i - 1))
        /\ f[i] = Step("v4a", ops[i], f[i - 1])
    <3>. HIDE DEF At
    <3>. QED  BY <1>1, <1>4, <1>8
  <2>2. At(i - 1) \in Evolutions
    BY <1>6, <2>1
  <2>3. \A p \in Paths : At(i)[p] = EvolveStep(p, ops[i], At(i - 1)[p])
    <3>1. ASSUME NEW p \in Paths  PROVE g[p][i] = EvolveStep(p, ops[i], g[p][i - 1])
      BY <1>5
    <3>. QED  BY <3>1
  <2>. HIDE DEF At
  <2>4. Agree(f[i], At(i))
    BY <2>1, <2>2, <2>3, StepsAgree
  <2>. QED  BY <2>1, <2>4
<1>9. n \in Agreed
  <2>1. n \in 0..n
    BY <1>1
  <2>. HIDE DEF Agreed
  <2>. QED  BY <1>1, <1>7, <1>8, <2>1, UpTo
<1>10. [p \in Paths |-> Evolved(ops, p)] = At(n)
  BY <1>5
<1>11. n \in 0..n
  BY <1>1
<1>. HIDE DEF At
<1>. QED  BY <1>2, <1>4, <1>6, <1>9, <1>10, <1>11 DEF ops

-----------------------------------------------------------------------------
(***************************************************************************)
(* A plan makes one workspace of another: it has one change for each file  *)
(* that differs, taken from what the file was to what it is to be.         *)
(***************************************************************************)

Makes(plan, from, goal) ==
  /\ \A i \in DOMAIN plan :
       /\ plan[i].path \in Paths
       /\ Prior(plan[i]) = from[plan[i].path]
       /\ plan[i].after = goal[plan[i].path]
  /\ \A i, j \in DOMAIN plan : plan[i].path = plan[j].path => i = j
  /\ \A p \in Paths : (\A i \in DOMAIN plan : plan[i].path # p) => goal[p] = from[p]

\* The sections of a unified diff edit or create different files.  Of a patch
\* that is not tidy, phase A plans something else.
IsTidy(patch) ==
  patch.format = "unified" =>
    \A i \in DOMAIN patch.ops :
      /\ patch.ops[i].op # "delete"
      /\ \A j \in DOMAIN patch.ops : patch.ops[j].path = patch.ops[i].path => i = j

\* A file no operation names evolves no further.
LEMMA UnnamedStays ==
  ASSUME files \in Workspaces, NEW ops \in Seq(Ops), NEW path \in Paths,
         \A i \in DOMAIN ops : ops[i].path # path
  PROVE  Evolved(ops, path) = [ok |-> TRUE, file |-> files[path]]
<1>. DEFINE n == Len(ops)
            start == [ok |-> TRUE, file |-> files[path]]
<1>1. n \in Nat /\ n \in 0..n /\ DOMAIN ops = 1..n
  OBVIOUS
<1>2. PICK f : IsEvolving(f, ops, path) /\ Evolved(ops, path) = f[n]
  BY PathEvolves
<1>3. f[0] = start /\ \A i \in 1..n : f[i] = EvolveStep(path, ops[i], f[i - 1])
  BY <1>2 DEF IsEvolving
<1>4. \A i \in 1..n : f[i] = f[i - 1]
  BY <1>1, <1>3 DEF EvolveStep
<1>. HIDE DEF n, start
<1>. DEFINE Same == {i \in 0..n : f[i] = start}
<1>5. 0 \in Same /\ \A i \in 1..n : i - 1 \in Same => i \in Same
  BY <1>1, <1>3, <1>4
<1>6. n \in Same
  <2>. HIDE DEF Same
  <2>. QED  BY <1>1, <1>5, UpTo
<1>. QED  BY <1>2, <1>6 DEF start

\* V4A: one change per file, whatever the operations do to it.
LEMMA V4APlanMakes ==
  ASSUME files \in Workspaces, NEW patch \in [format : Formats, ops : Seq(Ops)],
         patch.format = "v4a", Plannable(patch)
  PROVE  /\ Applied(patch, files).ok = TRUE
         /\ Makes(Plan(patch), files, Applied(patch, files).ws)
<1>. DEFINE ops == patch.ops
            n == Len(ops)
            after == [p \in Paths |-> Evolved(ops, p)]
            goal == Applied(patch, files).ws
            plan == PlanV4A(ops)
            Of(p) == {i \in 1..n : ops[i].path = p}
<1>1. /\ n \in Nat /\ DOMAIN ops = 1..n /\ ops \in Seq(Ops)
      /\ \A i \in 1..n : ops[i] \in Ops
  OBVIOUS
<1>2. \A i \in 1..n : ops[i].path \in Paths
  BY <1>1 DEF Ops
<1>3. after \in Evolutions /\ Agree(Applied(patch, files), after) /\ Plan(patch) = plan
  BY PathsTogether DEF Plan
<1>4. \A p \in Paths : goal[p] = after[p].file /\ after[p].file \in File /\ files[p] \in File
  BY <1>3 DEF Agree, Evolutions, Workspaces
<1>5. \A p \in Paths : Of(p) = {} => after[p] = [ok |-> TRUE, file |-> files[p]]
  BY <1>1, UnnamedStays
<1>6. ASSUME NEW p \in Paths  PROVE after[p].ok = TRUE
  <2>1. CASE Of(p) = {}
    BY <1>5, <2>1
  <2>2. CASE Of(p) # {}
    <3>1. PICK i \in DOMAIN ops : ops[i].path = p
      BY <1>1, <2>2
    <3>2. Evolved(ops, ops[i].path).ok
      BY DEF Plannable
    <3>3. after[p] = Evolved(ops, p) /\ after[p] \in [ok : BOOLEAN, file : File]
      BY <1>3 DEF Evolutions
    <3>. QED  BY <3>1, <3>2, <3>3
  <2>. QED  BY <2>1, <2>2
<1>7. Applied(patch, files).ok = TRUE
  BY <1>3, <1>6 DEF Agree
<1>8. ASSUME NEW i \in DOMAIN plan
      PROVE  /\ i \in FirstMentions(ops) /\ i \in 1..n
             /\ plan[i] = Change(ops[i].path, files[ops[i].path], after[ops[i].path].file)
  <2>1. i \in FirstMentions(ops) /\ i \in 1..n
    BY <1>1 DEF PlanV4A, FirstMentions
  <2>2. plan[i] = Change(ops[i].path, files[ops[i].path], Evolved(ops, ops[i].path).file)
    BY DEF PlanV4A
  <2>. QED  BY <1>2, <2>1, <2>2
<1>9. ASSUME NEW i \in DOMAIN plan
      PROVE  /\ plan[i].path = ops[i].path /\ plan[i].path \in Paths
             /\ Prior(plan[i]) = files[plan[i].path]
             /\ plan[i].after = goal[plan[i].path]
  <2>. DEFINE p == ops[i].path
  <2>1. p \in Paths /\ plan[i] = Change(p, files[p], after[p].file)
    BY <1>2, <1>8
  <2>. HIDE DEF p, plan, after, goal
  <2>2. plan[i].path = p /\ plan[i].after = after[p].file
    BY <2>1 DEF Change
  <2>3. Prior(plan[i]) = files[p]
    BY <1>4, <2>1, ChangeIsFresh
  <2>. QED  BY <1>4, <2>1, <2>2, <2>3 DEF p
<1>10. ASSUME NEW i \in DOMAIN plan, NEW j \in DOMAIN plan, plan[i].path = plan[j].path
       PROVE  i = j
  <2>1. ops[i].path = ops[j].path
    BY <1>9, <1>10
  <2>2. ~(i < j) /\ ~(j < i)
    BY <1>1, <1>8, <2>1 DEF FirstMentions
  <2>3. i \in 1..n /\ j \in 1..n
    BY <1>8
  <2>. QED  BY <1>1, <2>2, <2>3
<1>11. ASSUME NEW p \in Paths, \A i \in DOMAIN plan : plan[i].path # p
       PROVE  goal[p] = files[p]
  <2>1. CASE Of(p) = {}
    BY <1>4, <1>5, <2>1
  <2>2. CASE Of(p) # {}
    <3>1. PICK i \in Of(p) : \A j \in Of(p) : i <= j
      <4>1. Of(p) \subseteq Nat
        OBVIOUS
      <4>. HIDE DEF Of
      <4>. QED  BY <2>2, <4>1, SmallestNumber
    <3>2. i \in FirstMentions(ops) /\ ops[i].path = p
      BY <1>1, <3>1 DEF FirstMentions
    <3>3. ~files[p].exists /\ ~after[p].file.exists
      <4>1. i \notin DOMAIN plan
        BY <1>9, <1>11, <3>2
      <4>2. DOMAIN plan = {k \in FirstMentions(ops) :
               files[ops[k].path].exists \/ Evolved(ops, ops[k].path).file.exists}
        BY DEF PlanV4A
      <4>3. after[p] = Evolved(ops, p)
        OBVIOUS
      <4>. HIDE DEF plan, after
      <4>. QED  BY <3>2, <4>1, <4>2, <4>3
    <3>4. \A file \in File : ~file.exists => file = Absent
      BY DEF File
    <3>. HIDE DEF after, goal
    <3>. QED  BY <1>4, <3>3, <3>4
  <2>. QED  BY <2>1, <2>2
<1>. HIDE DEF plan, goal
<1>12. Makes(plan, files, goal)
  BY <1>9, <1>10, <1>11 DEF Makes
<1>. QED  BY <1>3, <1>7, <1>12 DEF goal

\* A unified diff whose sections are of different files: each finds its file as
\* it is on disk.
SectionResult(op) == FileWith(files[op.path].text \cup {op.edit})

LEMMA SectionsTogether ==
  ASSUME files \in Workspaces, NEW patch \in [format : Formats, ops : Seq(Ops)],
         patch.format = "unified", IsTidy(patch), Plannable(patch)
  PROVE  LET ops == patch.ops
             goal == Applied(patch, files).ws
         IN /\ Applied(patch, files).ok = TRUE
            /\ \A i \in DOMAIN ops : goal[ops[i].path] = SectionResult(ops[i])
            /\ \A p \in Paths : (\A i \in DOMAIN ops : ops[i].path # p) => goal[p] = files[p]
<1>. DEFINE ops == patch.ops
            n == Len(ops)
            Done(i, w) ==
              /\ \A j \in 1..n : j <= i => w[ops[j].path] = SectionResult(ops[j])
              /\ \A p \in Paths : (\A j \in 1..n : j <= i => ops[j].path # p) => w[p] = files[p]
<1>1. /\ n \in Nat /\ DOMAIN ops = 1..n
      /\ \A i \in 1..n : ops[i] \in Ops
  OBVIOUS
<1>2. \A i \in 1..n : ops[i].path \in Paths /\ ops[i].op \in {"update", "add", "delete"}
  BY <1>1 DEF Ops
<1>3. PICK f : IsApplying(f, patch, files) /\ Applied(patch, files) = f[n]
  BY PatchApplies
<1>4. /\ f[0] = [ok |-> TRUE, ws |-> files]
      /\ \A i \in 0..n : f[i] \in [ok : BOOLEAN, ws : Workspaces]
      /\ \A i \in 1..n : f[i] = Step("unified", ops[i], f[i - 1])
  BY <1>3 DEF IsApplying
<1>5. /\ \A i \in 1..n : ops[i].op # "delete"
      /\ \A i, j \in 1..n : ops[i].path = ops[j].path => i = j
  BY <1>1 DEF IsTidy
<1>6. \A i \in 1..n : OpApplies("unified", ops[i], files[ops[i].path])
  BY <1>1 DEF Plannable
<1>. HIDE DEF ops, n
<1>. DEFINE Good == {i \in 0..n : f[i].ok = TRUE /\ Done(i, f[i].ws)}
<1>7. 0 \in Good
  <2>1. 0 \in 0..n /\ f[0].ok = TRUE /\ f[0].ws = files
    BY <1>1, <1>4
  <2>2. \A j \in 1..n : ~(j <= 0)
    BY <1>1
  <2>. QED  BY <2>1, <2>2
<1>8. ASSUME NEW i \in 1..n, i - 1 \in Good  PROVE i \in Good
  <2>. DEFINE op == ops[i]
              q == op.path
              r == f[i - 1]
  <2>1. /\ i \in 0..n /\ i - 1 \in 0..n /\ op \in Ops /\ q \in Paths
        /\ r \in [ok : BOOLEAN, ws : Workspaces] /\ r.ok = TRUE /\ Done(i - 1, r.ws)
        /\ f[i] = Step("unified", op, r)
    BY <1>1, <1>2, <1>4, <1>8
  <2>2. \A j \in 1..n : (j <= i <=> j <= i - 1 \/ j = i) /\ (j <= i - 1 => j # i)
    BY <1>1
  <2>3. \A j \in 1..n : j <= i - 1 => ops[j].path # q
    BY <1>5, <2>2
  <2>4. r.ws[q] = files[q]
    BY <2>1, <2>3
  <2>5. op.op \in {"update", "add"} /\ OpApplies("unified", op, files[q])
    BY <1>2, <1>5, <1>6
  <2>. HIDE DEF op, r
  <2>6. OpResult(op, files[q]) = SectionResult(op)
    BY <2>5 DEF OpResult, SectionResult
  <2>7. /\ f[i].ws = [r.ws EXCEPT ![q] = OpResult(op, r.ws[q])]
        /\ f[i].ok = (r.ok /\ OpApplies("unified", op, r.ws[q]))
    BY <2>1 DEF Step
  <2>8. f[i].ok = TRUE
    <3>1. OpApplies("unified", op, r.ws[q]) = TRUE
      <4>1. files[q] \in File
        BY <2>1 DEF Workspaces
      <4>2. OpApplies("unified", op, files[q]) \in BOOLEAN
        BY <2>1, <4>1, OpKeepsTypes
      <4>. QED  BY <2>4, <2>5, <4>2
    <3>. QED  BY <2>1, <2>7, <3>1
  <2>9. f[i].ws[q] = SectionResult(op) /\ \A p \in Paths : p # q => f[i].ws[p] = r.ws[p]
    BY <2>1, <2>4, <2>6, <2>7 DEF Workspaces
  <2>10. ASSUME NEW j \in 1..n, j <= i  PROVE f[i].ws[ops[j].path] = SectionResult(ops[j])
    <3>1. CASE j = i
      BY <2>9, <3>1 DEF op
    <3>2. CASE j # i
      <4>1. j <= i - 1 /\ ops[j].path \in Paths /\ ops[j].path # q
        BY <1>2, <2>2, <2>3, <2>10, <3>2
      <4>2. r.ws[ops[j].path] = SectionResult(ops[j])
        BY <2>1, <4>1
      <4>. QED  BY <2>9, <4>1, <4>2
    <3>. QED  BY <3>1, <3>2
  <2>11. ASSUME NEW p \in Paths, \A j \in 1..n : j <= i => ops[j].path # p
         PROVE  f[i].ws[p] = files[p]
    <3>1. p # q /\ \A j \in 1..n : j <= i - 1 => ops[j].path # p
      BY <2>2, <2>11 DEF op
    <3>2. r.ws[p] = files[p]
      BY <2>1, <3>1
    <3>. QED  BY <2>9, <3>1, <3>2
  <2>. QED  BY <2>1, <2>8, <2>10, <2>11
<1>9. n \in Good
  <2>1. n \in Nat /\ n \in 0..n
    BY <1>1
  <2>. HIDE DEF Good
  <2>2. \A i \in 1..n : i - 1 \in Good => i \in Good
    BY <1>8
  <2>3. \A i \in 0..n : i \in Good
    BY <1>7, <2>1, <2>2, UpTo
  <2>. QED  BY <2>1, <2>3
<1>10. \A j \in 1..n : j <= n
  BY <1>1
<1>11. /\ Applied(patch, files).ok = TRUE
       /\ \A i \in DOMAIN ops : Applied(patch, files).ws[ops[i].path] = SectionResult(ops[i])
       /\ \A p \in Paths : (\A i \in DOMAIN ops : ops[i].path # p)
                             => Applied(patch, files).ws[p] = files[p]
  BY <1>1, <1>3, <1>9, <1>10
<1>. QED  BY <1>11 DEF ops

LEMMA UnifiedPlanMakes ==
  ASSUME files \in Workspaces, NEW patch \in [format : Formats, ops : Seq(Ops)],
         patch.format = "unified", IsTidy(patch), Plannable(patch)
  PROVE  /\ Applied(patch, files).ok = TRUE
         /\ Makes(Plan(patch), files, Applied(patch, files).ws)
<1>. DEFINE ops == patch.ops
            goal == Applied(patch, files).ws
            plan == PlanUnified(ops)
<1>1. /\ Applied(patch, files).ok = TRUE
      /\ \A i \in DOMAIN ops : goal[ops[i].path] = SectionResult(ops[i])
      /\ \A p \in Paths : (\A i \in DOMAIN ops : ops[i].path # p) => goal[p] = files[p]
  BY SectionsTogether
<1>2. \A i \in DOMAIN ops : ops[i].path \in Paths
  <2>1. \A i \in DOMAIN ops : ops[i] \in Ops
    OBVIOUS
  <2>. QED  BY <2>1 DEF Ops
<1>3. /\ \A i \in DOMAIN ops : ops[i].op # "delete"
      /\ \A i, j \in DOMAIN ops : ops[i].path = ops[j].path => i = j
  BY DEF IsTidy
<1>4. Plan(patch) = plan /\ DOMAIN plan = DOMAIN ops
  BY DEF Plan, PlanUnified
<1>5. ASSUME NEW i \in DOMAIN ops
      PROVE  plan[i].path = ops[i].path /\ Prior(plan[i]) = files[ops[i].path]
             /\ plan[i].after = SectionResult(ops[i])
  <2>. DEFINE p == ops[i].path
  <2>1. plan[i] = Change(p, files[p], SectionResult(ops[i]))
    BY <1>3 DEF PlanUnified, SectionResult
  <2>2. files[p] \in File
    BY <1>2 DEF Workspaces
  <2>. HIDE DEF p, plan
  <2>3. plan[i].path = p /\ plan[i].after = SectionResult(ops[i])
    BY <2>1 DEF Change
  <2>4. Prior(plan[i]) = files[p]
    BY <2>1, <2>2, ChangeIsFresh
  <2>. QED  BY <2>3, <2>4 DEF p
<1>. HIDE DEF plan, goal, ops
<1>6. Makes(plan, files, goal)
  BY <1>1, <1>2, <1>3, <1>4, <1>5 DEF Makes
<1>. QED  BY <1>1, <1>4, <1>6 DEF goal

LEMMA PlanMakes ==
  ASSUME files \in Workspaces, NEW patch \in Patches, IsTidy(patch), Plannable(patch)
  PROVE  /\ Applied(patch, files) = [ok |-> TRUE, ws |-> Applied(patch, files).ws]
         /\ Applied(patch, files).ws \in Workspaces
         /\ Makes(Plan(patch), files, Applied(patch, files).ws)
<1>1. patch \in [format : Formats, ops : Seq(Ops)] /\ patch.format \in {"v4a", "unified"}
  BY ConstantsAssumption DEF Formats
<1>2. /\ Applied(patch, files).ok = TRUE
      /\ Makes(Plan(patch), files, Applied(patch, files).ws)
  BY <1>1, V4APlanMakes, UnifiedPlanMakes
<1>3. Applied(patch, files) \in [ok : BOOLEAN, ws : Workspaces]
  <2>1. PICK f : IsApplying(f, patch, files) /\ Applied(patch, files) = f[Len(patch.ops)]
    BY <1>1, PatchApplies
  <2>2. Len(patch.ops) \in 0..Len(patch.ops)
    <3>1. Len(patch.ops) \in Nat
      BY <1>1
    <3>. QED  BY <3>1
  <2>. QED  BY <2>1, <2>2 DEF IsApplying
<1>. QED  BY <1>2, <1>3

-----------------------------------------------------------------------------
(***************************************************************************)
(* A patch is all or nothing.  The invariant says what a call that is      *)
(* under way has done so far: a patch makes, of the files it found, what   *)
(* it means; while it writes, the files of the changes done are as they    *)
(* are to be and all others as they were; and while it is unwound without  *)
(* a repair having failed, the files that need no repair are as they were. *)
(***************************************************************************)

Kinds ==
  /\ tx.kind \in {"none", "patch", "sync"}
  /\ tx.kind = "none" <=> tx.pc = "idle"
  /\ tx.kind = "patch" => tx.pc \in {"next", "write", "undo"}
  /\ tx.kind = "sync" => tx.pc \in {"asked", "next", "write"}

\* A planned change is of a file, from a file, to a file.
IsChange(c) == c.path \in Paths /\ c.after \in File /\ Prior(c) \in File

FilesTyped == files \in Workspaces /\ origin \in Workspaces /\ damages \in Nat
PlanTyped == \A i \in DOMAIN tx.planned : IsChange(tx.planned[i])

PatchPlanned ==
  /\ tx.from \in Workspaces /\ tx.goal \in Workspaces
  /\ \E patch \in Patches : Applied(patch, tx.from) = [ok |-> TRUE, ws |-> tx.goal]
  /\ Makes(tx.planned, tx.from, tx.goal)

\* The files of some changes of the plan.
PathsOf(S) == {tx.planned[i].path : i \in S}

PartWritten ==
  tx.pc \in {"next", "write"} =>
    \A p \in Paths : files[p] = IF p \in PathsOf(tx.done) THEN tx.goal[p] ELSE tx.from[p]

PartUndone ==
  tx.pc = "undo" /\ ~tx.damaged =>
    \A p \in Paths : p \notin PathsOf(tx.undo) => files[p] = tx.from[p]

OnTheWay == tx.kind = "patch" => PatchPlanned /\ PartWritten /\ PartUndone

Typed == Kinds /\ FilesTyped /\ PlanTyped

LEMMA NoTxIsTyped ==
  ASSUME tx' = NoTx
  PROVE  Kinds' /\ PlanTyped' /\ OnTheWay'
<1>1. tx'.pc = "idle" /\ tx'.kind = "none" /\ DOMAIN tx'.planned = {}
  BY DEF NoTx
<1>. QED  BY <1>1 DEF Kinds, PlanTyped, OnTheWay

LEMMA FileIsChanged ==
  ASSUME NEW path \in Paths, NEW file \in File, NEW after \in File
  PROVE  IsChange(Change(path, file, after))
<1>1. Change(path, file, after).path = path /\ Change(path, file, after).after = after
  BY DEF Change
<1>. QED  BY <1>1, ChangeIsFresh DEF IsChange

\* What a write in the middle leaves is a file.
LEMMA HalfIsFile ==
  ASSUME files \in Workspaces, NEW path \in Paths, NEW after \in File
  PROVE  \A file \in HalfWritten(path, after) : file \in File
<1>1. FileWith({Torn}) \in File
  BY DEF FileWith, File, Texts
<1>2. files[path] \in File
  BY DEF Workspaces
<1>. QED  BY <1>1, <1>2 DEF HalfWritten

LEMMA CurrentIsChange ==
  ASSUME Shape, PlanTyped, tx.pc = "write"
  PROVE  Least(Todo) \in DOMAIN tx.planned /\ IsChange(Current)
<1>1. Least(Todo) \in DOMAIN tx.planned
  BY CurrentIsLeft DEF Shape, SoundTx, Todo, Left
<1>. QED  BY <1>1 DEF PlanTyped, Current

LEMMA UndoingIsChange ==
  ASSUME Shape, PlanTyped, tx.pc = "undo"
  PROVE  /\ Greatest(tx.undo) \in tx.undo /\ Greatest(tx.undo) \in DOMAIN tx.planned
         /\ IsChange(Undoing)
<1>1. Greatest(tx.undo) \in tx.undo /\ tx.undo \subseteq DOMAIN tx.planned
  BY UndoingIsUndone DEF Shape, SoundTx
<1>. QED  BY <1>1 DEF PlanTyped, Undoing

LEMMA InitIsTyped == Init => Typed /\ OnTheWay
<1>. SUFFICES ASSUME Init  PROVE Typed /\ OnTheWay
  OBVIOUS
<1>1. tx.pc = "idle" /\ tx.kind = "none" /\ DOMAIN tx.planned = {}
  BY DEF Init, NoTx
<1>2. FilesTyped
  BY ConstantsAssumption DEF Init, FilesTyped
<1>. QED  BY <1>1, <1>2 DEF Typed, Kinds, PlanTyped, OnTheWay

LEMMA BeginPatchIsTyped ==
  ASSUME Typed, NEW patch \in Patches, IsTidy(patch), BeginPatch(patch)
  PROVE  Typed' /\ OnTheWay'
<1>. DEFINE goal == Applied(patch, files).ws
            plan == Plan(patch)
<1>1. /\ tx' = [pc |-> "next", kind |-> "patch", planned |-> plan, done |-> {},
                undo |-> {}, from |-> files, goal |-> goal, damaged |-> FALSE]
      /\ UNCHANGED <<files, origin, damages>> /\ Plannable(patch)
  BY DEF BeginPatch, NoTx
<1>2. /\ Applied(patch, files) = [ok |-> TRUE, ws |-> goal]
      /\ goal \in Workspaces /\ files \in Workspaces
      /\ Makes(plan, files, goal)
  BY <1>1, PlanMakes DEF Typed, FilesTyped
<1>. HIDE DEF goal, plan
<1>3. /\ tx'.pc = "next" /\ tx'.kind = "patch" /\ tx'.planned = plan /\ tx'.done = {}
      /\ tx'.from = files /\ tx'.goal = goal
  BY <1>1
<1>4. Kinds'
  BY <1>3 DEF Kinds
<1>5. FilesTyped'
  BY <1>1 DEF Typed, FilesTyped
<1>6. PlanTyped'
  BY <1>2, <1>3 DEF PlanTyped, IsChange, Makes, Workspaces
<1>7. PatchPlanned'
  BY <1>2, <1>3 DEF PatchPlanned
<1>8. PartWritten'
  BY <1>1, <1>3 DEF PartWritten, PathsOf
<1>9. PartUndone'
  BY <1>3 DEF PartUndone
<1>. QED  BY <1>4, <1>5, <1>6, <1>7, <1>8, <1>9 DEF Typed, OnTheWay

LEMMA BeginSyncIsTyped ==
  ASSUME Typed, NEW target \in SyncTargets, BeginSync(target)
  PROVE  Typed' /\ OnTheWay'
<1>. DEFINE order == SetToSeq(Paths)
            changed == {i \in DOMAIN order : target[order[i]] # files[order[i]]}
            plan == [i \in changed |-> Change(order[i], files[order[i]], target[order[i]])]
<1>1. /\ tx'.pc \in {"asked", "next"} /\ tx'.kind = "sync" /\ tx'.planned = plan
      /\ UNCHANGED <<files, origin, damages>>
  BY DEF BeginSync, NoTx
<1>2. files \in Workspaces /\ target \in Workspaces
  BY ConstantsAssumption DEF Typed, FilesTyped
<1>3. ASSUME NEW i \in changed  PROVE IsChange(plan[i])
  <2>. DEFINE p == order[i]
  <2>1. p \in Paths
    BY OrderIsNumbered
  <2>2. files[p] \in File /\ target[p] \in File
    BY <1>2, <2>1 DEF Workspaces
  <2>3. plan[i] = Change(p, files[p], target[p])
    OBVIOUS
  <2>. HIDE DEF plan, p
  <2>. QED  BY <2>1, <2>2, <2>3, FileIsChanged
<1>4. DOMAIN plan = changed
  OBVIOUS
<1>. HIDE DEF plan, changed
<1>5. PlanTyped'
  BY <1>1, <1>3, <1>4 DEF PlanTyped
<1>6. Kinds' /\ OnTheWay'
  BY <1>1 DEF Kinds, OnTheWay
<1>7. FilesTyped'
  BY <1>1 DEF Typed, FilesTyped
<1>. QED  BY <1>5, <1>6, <1>7 DEF Typed

\* Steps that change no file and, of the call, at most where it is.
LEMMA QuietIsTyped ==
  ASSUME Shape, Typed, OnTheWay,
         Snapshot \/ SnapshotRefused \/ Answer \/ Landed \/ ClearRuns
  PROVE  Typed' /\ OnTheWay'
<1>1. UNCHANGED <<files, origin>> /\ damages' \in {damages, damages + 1}
  BY DEF Snapshot, SnapshotRefused, Answer, Landed, ClearRuns
<1>2. FilesTyped'
  BY <1>1 DEF Typed, FilesTyped
<1>3. \/ tx' = NoTx \/ tx' = tx
      \/ tx.pc = "next" /\ tx' = [tx EXCEPT !.pc = "write"]
      \/ tx.pc = "asked" /\ tx' = [tx EXCEPT !.pc = "next"]
  BY DEF Snapshot, SnapshotRefused, Answer, Landed, ClearRuns
<1>4. CASE tx' = NoTx
  BY <1>2, <1>4, NoTxIsTyped DEF Typed
<1>5. ASSUME NEW pc \in {"next", "write"}, tx.pc \in {"asked", "next"}, tx' = [tx EXCEPT !.pc = pc]
      PROVE  Typed' /\ OnTheWay'
  <2>1. /\ tx'.pc = pc /\ tx'.kind = tx.kind /\ tx'.planned = tx.planned
        /\ tx'.done = tx.done /\ tx'.from = tx.from /\ tx'.goal = tx.goal
    BY <1>5 DEF Shape, SoundTx, IsTx
  <2>2. Kinds' /\ PlanTyped'
    BY <1>5, <2>1 DEF Typed, Kinds, PlanTyped
  <2>3. OnTheWay'
    <3>1. ASSUME tx.kind = "patch"  PROVE (PatchPlanned /\ PartWritten /\ PartUndone)'
      <4>1. tx.pc = "next" /\ PatchPlanned /\ PartWritten
        BY <1>5, <3>1 DEF OnTheWay, Typed, Kinds
      <4>2. PatchPlanned'
        BY <2>1, <4>1 DEF PatchPlanned
      <4>3. PartWritten'
        BY <1>1, <2>1, <4>1 DEF PartWritten, PathsOf
      <4>4. PartUndone'
        BY <2>1 DEF PartUndone
      <4>. QED  BY <4>2, <4>3, <4>4
    <3>. QED  BY <2>1, <3>1 DEF OnTheWay
  <2>. QED  BY <1>2, <2>2, <2>3 DEF Typed
<1>6. CASE tx' = tx
  <2>1. Kinds' /\ PlanTyped'
    BY <1>6 DEF Typed, Kinds, PlanTyped
  <2>2. OnTheWay'
    BY <1>1, <1>6 DEF OnTheWay, PatchPlanned, PartWritten, PartUndone, PathsOf
  <2>. QED  BY <1>2, <2>1, <2>2 DEF Typed
<1>. QED  BY <1>3, <1>4, <1>5, <1>6

LEMMA WriteDoneIsTyped ==
  ASSUME Shape, Typed, OnTheWay, WriteDone
  PROVE  Typed' /\ OnTheWay'
<1>. DEFINE i == Least(Todo)
            p == Current.path
            file == Current.after
<1>1. i \in DOMAIN tx.planned /\ p \in Paths /\ file \in File
  BY CurrentIsChange DEF Typed, WriteDone, IsChange
<1>2. Current = tx.planned[i]
  BY DEF Current
<1>3. /\ tx.pc = "write" /\ files' = [files EXCEPT ![p] = file]
      /\ tx' = [tx EXCEPT !.pc = "next", !.done = tx.done \cup {i}]
      /\ UNCHANGED <<origin, damages>>
  BY DEF WriteDone, Written
<1>. HIDE DEF i
<1>4. /\ tx'.pc = "next" /\ tx'.kind = tx.kind /\ tx'.planned = tx.planned
      /\ tx'.done = tx.done \cup {i} /\ tx'.from = tx.from /\ tx'.goal = tx.goal
  BY <1>3 DEF Shape, SoundTx, IsTx
<1>5. /\ files' \in Workspaces /\ files'[p] = file
      /\ \A q \in Paths : q # p => files'[q] = files[q]
  <2>1. files \in Workspaces
    BY DEF Typed, FilesTyped
  <2>. HIDE DEF p, file
  <2>. QED  BY <1>1, <1>3, <2>1 DEF Workspaces
<1>6. FilesTyped'
  BY <1>3, <1>5 DEF Typed, FilesTyped
<1>7. Kinds' /\ PlanTyped'
  BY <1>3, <1>4 DEF Typed, Kinds, PlanTyped
<1>8. ASSUME tx.kind = "patch"  PROVE (PatchPlanned /\ PartWritten /\ PartUndone)'
  <2>1. PatchPlanned /\ PartWritten
    BY <1>8 DEF OnTheWay
  <2>2. PatchPlanned'
    BY <1>4, <2>1 DEF PatchPlanned
  <2>3. file = tx.goal[p]
    BY <1>1, <1>2, <2>1 DEF PatchPlanned, Makes
  <2>4. \A q : q \in PathsOf(tx.done)' <=> q \in PathsOf(tx.done) \/ q = p
    BY <1>2, <1>4 DEF PathsOf
  <2>5. \A q \in Paths : files[q] = IF q \in PathsOf(tx.done) THEN tx.goal[q] ELSE tx.from[q]
    BY <1>3, <2>1 DEF PartWritten
  <2>6. \A q \in Paths : files'[q] = IF q \in PathsOf(tx.done)' THEN tx.goal[q] ELSE tx.from[q]
    <3>. HIDE DEF p, file
    <3>. QED  BY <1>5, <2>3, <2>4, <2>5
  <2>7. PartWritten'
    BY <1>4, <2>6 DEF PartWritten
  <2>8. PartUndone'
    BY <1>4 DEF PartUndone
  <2>. QED  BY <2>2, <2>7, <2>8
<1>9. OnTheWay'
  BY <1>4, <1>8 DEF OnTheWay
<1>. QED  BY <1>6, <1>7, <1>9 DEF Typed

LEMMA WriteFailsIsTyped ==
  ASSUME Shape, Typed, OnTheWay, WriteFails
  PROVE  Typed' /\ OnTheWay'
<1>. DEFINE i == Least(Todo)
            p == Current.path
<1>1. i \in DOMAIN tx.planned /\ p \in Paths /\ Current.after \in File /\ tx.pc = "write"
  BY CurrentIsChange DEF Typed, WriteFails, IsChange
<1>2. Current = tx.planned[i]
  BY DEF Current
<1>3. PICK file \in HalfWritten(p, Current.after) : files' = [files EXCEPT ![p] = file]
  BY DEF WriteFails, Written
<1>4. /\ tx' = IF tx.kind = "patch"
               THEN [tx EXCEPT !.pc = "undo", !.undo = tx.done \cup {i}] ELSE NoTx
      /\ UNCHANGED <<origin, damages>>
  BY DEF WriteFails
<1>5. file \in File
  BY <1>1, HalfIsFile DEF Typed, FilesTyped
<1>6. files' \in Workspaces /\ \A q \in Paths : q # p => files'[q] = files[q]
  <2>1. files \in Workspaces
    BY DEF Typed, FilesTyped
  <2>. HIDE DEF p
  <2>. QED  BY <1>1, <1>3, <1>5, <2>1 DEF Workspaces
<1>7. FilesTyped'
  BY <1>4, <1>6 DEF Typed, FilesTyped
<1>8. CASE tx.kind # "patch"
  BY <1>4, <1>7, <1>8, NoTxIsTyped DEF Typed
<1>9. CASE tx.kind = "patch"
  <2>. HIDE DEF i, p
  <2>1. /\ tx'.pc = "undo" /\ tx'.kind = tx.kind /\ tx'.planned = tx.planned
        /\ tx'.undo = tx.done \cup {i} /\ tx'.from = tx.from /\ tx'.goal = tx.goal
    BY <1>4, <1>9 DEF Shape, SoundTx, IsTx
  <2>2. Kinds' /\ PlanTyped'
    BY <1>9, <2>1 DEF Typed, Kinds, PlanTyped
  <2>3. PatchPlanned /\ PartWritten
    BY <1>9 DEF OnTheWay
  <2>4. PatchPlanned'
    BY <2>1, <2>3 DEF PatchPlanned
  <2>5. \A q : q \in PathsOf(tx.undo)' <=> q \in PathsOf(tx.done) \/ q = p
    BY <1>2, <2>1 DEF PathsOf, p
  <2>6. PartUndone'
    BY <1>1, <1>6, <2>1, <2>3, <2>5 DEF PartWritten, PartUndone
  <2>7. PartWritten'
    BY <2>1 DEF PartWritten
  <2>. QED  BY <1>7, <2>2, <2>4, <2>6, <2>7 DEF Typed, OnTheWay
<1>. QED  BY <1>8, <1>9

\* A repair that is made brings back its file; a repair that fails damages.
LEMMA RepairDoes ==
  ASSUME Shape, Typed, UndoFile \/ UndoFails
  PROVE  \E file \in File :
           /\ tx.pc = "undo" /\ Undoing.path \in Paths
           /\ files' = [files EXCEPT ![Undoing.path] = file]
           /\ UNCHANGED origin
           /\ \/ file = Prior(Undoing) /\ Undone(TRUE)
              \/ Undone(FALSE)
<1>1. tx.pc = "undo" /\ UNCHANGED origin
  BY DEF UndoFile, UndoFails
<1>2. Undoing.path \in Paths /\ Prior(Undoing) \in File
  BY <1>1, UndoingIsChange DEF Typed, IsChange
<1>3. CASE UndoFile
  BY <1>1, <1>2, <1>3 DEF UndoFile
<1>4. CASE UndoFails
  <2>1. PICK file \in HalfWritten(Undoing.path, Prior(Undoing)) :
          files' = [files EXCEPT ![Undoing.path] = file]
    BY <1>4 DEF UndoFails
  <2>2. file \in File
    BY <1>2, HalfIsFile DEF Typed, FilesTyped
  <2>3. Undone(FALSE)
    BY <1>4 DEF UndoFails
  <2>. QED  BY <1>1, <1>2, <2>1, <2>2, <2>3
<1>. QED  BY <1>3, <1>4

LEMMA RepairsAreTyped ==
  ASSUME Shape, Typed, OnTheWay, UndoFile \/ UndoFails
  PROVE  Typed' /\ OnTheWay'
<1>. DEFINE g == Greatest(tx.undo)
            p == Undoing.path
            rest == tx.undo \ {g}
<1>1. PICK file \in File :
        /\ tx.pc = "undo" /\ p \in Paths
        /\ files' = [files EXCEPT ![p] = file]
        /\ UNCHANGED origin
        /\ \/ file = Prior(Undoing) /\ Undone(TRUE)
           \/ Undone(FALSE)
  BY RepairDoes
<1>2. g \in tx.undo /\ g \in DOMAIN tx.planned /\ Undoing = tx.planned[g]
  BY <1>1, UndoingIsChange DEF Typed, Undoing
<1>3. files' \in Workspaces /\ files'[p] = file /\ \A q \in Paths : q # p => files'[q] = files[q]
  <2>1. files \in Workspaces
    BY DEF Typed, FilesTyped
  <2>. HIDE DEF p
  <2>. QED  BY <1>1, <2>1 DEF Workspaces
<1>4. FilesTyped'
  <2>1. damages' \in {damages, damages + 1}
    BY <1>1 DEF Undone
  <2>. QED  BY <1>1, <1>3, <2>1 DEF Typed, FilesTyped
<1>5. CASE tx' = NoTx
  BY <1>4, <1>5, NoTxIsTyped DEF Typed
<1>6. CASE tx' # NoTx
  <2>1. PICK repaired \in BOOLEAN :
          /\ tx' = [tx EXCEPT !.undo = rest, !.damaged = tx.damaged \/ ~repaired]
          /\ repaired => file = Prior(Undoing)
    BY <1>1, <1>6 DEF Undone
  <2>. HIDE DEF rest
  <2>2. /\ tx'.pc = "undo" /\ tx'.kind = tx.kind /\ tx'.planned = tx.planned
        /\ tx'.undo = rest /\ tx'.from = tx.from /\ tx'.goal = tx.goal
    BY <1>1, <2>1 DEF Shape, SoundTx, IsTx
  <2>3. ~tx'.damaged => ~tx.damaged /\ repaired
    BY <2>1 DEF Shape, SoundTx, IsTx
  <2>4. Kinds' /\ PlanTyped'
    BY <1>1, <2>2 DEF Typed, Kinds, PlanTyped
  <2>5. tx.kind = "patch" /\ PatchPlanned /\ PartUndone
    BY <1>1 DEF Typed, Kinds, OnTheWay
  <2>6. PatchPlanned'
    BY <2>2, <2>5 DEF PatchPlanned
  <2>7. PartWritten'
    BY <2>2 DEF PartWritten
  <2>8. Prior(Undoing) = tx.from[p]
    BY <1>2, <2>5 DEF PatchPlanned, Makes
  <2>9. \A q : q \in PathsOf(tx.undo) => q \in PathsOf(tx.undo)' \/ q = p
    BY <1>2, <2>2 DEF PathsOf, rest
  <2>10. ASSUME ~tx'.damaged, NEW q \in Paths, q \notin PathsOf(tx.undo)'
         PROVE  files'[q] = tx.from[q]
    <3>1. CASE q = p
      BY <1>3, <2>1, <2>3, <2>8, <2>10, <3>1
    <3>2. CASE q # p
      <4>1. files[q] = tx.from[q]
        BY <1>1, <2>3, <2>5, <2>9, <2>10, <3>2 DEF PartUndone
      <4>. QED  BY <1>3, <3>2, <4>1
    <3>. QED  BY <3>1, <3>2
  <2>11. PartUndone'
    BY <2>2, <2>10 DEF PartUndone
  <2>. QED  BY <1>4, <2>4, <2>6, <2>7, <2>11 DEF Typed, OnTheWay
<1>. QED  BY <1>5, <1>6

\* The snapshots hold files.
SnapsTyped == \A i \in DOMAIN snaps : Prior(snaps[i]) \in File

LEMMA TargetIsFile ==
  ASSUME Shape, SnapsTyped, NEW p \in Snapshotted
  PROVE  Prior(Target(p)) \in File
<1>1. PICK S : snaps \in Seq(S)
  BY DEF Shape
<1>2. OfPath(p) \subseteq Nat /\ OfPath(p) # {} /\ OfPath(p) \subseteq DOMAIN snaps
  BY <1>1 DEF OfPath, Snapshotted
<1>3. Least(OfPath(p)) \in OfPath(p)
  BY <1>2, LeastIs
<1>. QED  BY <1>2, <1>3 DEF Target, SnapsTyped

LEMMA RestoredIsWorkspace ==
  ASSUME Shape, SnapsTyped, files \in Workspaces, NEW paths \in SUBSET Snapshotted
  PROVE  Restored(paths) \in Workspaces
<1>1. \A p \in paths : Prior(Target(p)) \in File
  BY TargetIsFile
<1>2. \A p \in Paths : files[p] \in File
  BY DEF Workspaces
<1>3. \A p \in Paths : (IF p \in paths THEN Prior(Target(p)) ELSE files[p]) \in File
  BY <1>1, <1>2
<1>. QED  BY <1>3 DEF Restored, Workspaces

LEMMA SnapsStayTyped ==
  ASSUME Shape, Typed, SnapsTyped, [Next]_vars
  PROVE  SnapsTyped'
<1>1. CASE Snapshot
  <2>1. PICK S : snaps \in Seq(S)
    BY DEF Shape
  <2>. DEFINE n == Len(snaps) + 1
  <2>2. /\ DOMAIN snaps' = DOMAIN snaps \cup {n}
        /\ \A i \in DOMAIN snaps : snaps'[i] = snaps[i]
        /\ snaps'[n] = SnapshotOf(Current)
    BY <1>1, <2>1 DEF Snapshot
  <2>3. Prior(SnapshotOf(Current)) \in File
    <3>1. Least(Todo) \in Todo
      BY <1>1, CurrentIsLeft DEF Shape, Snapshot
    <3>2. Prior(Current) \in File
      BY <3>1 DEF Typed, PlanTyped, IsChange, Current, Todo
    <3>. QED  BY <3>2, SnapshotIsTrue
  <2>. HIDE DEF n
  <2>. QED  BY <2>2, <2>3 DEF SnapsTyped
<1>2. CASE ClearRuns
  BY <1>2 DEF ClearRuns, SnapsTyped
<1>3. CASE UNCHANGED snaps
  BY <1>3 DEF SnapsTyped
<1>4. Snapshot \/ ClearRuns \/ UNCHANGED snaps
  BY DEF Next, vars, BeginPatch, BeginSync, Answer, SnapshotRefused, WriteDone,
         WriteFails, Landed, UndoFile, UndoFails, Rollback, RollbackFails, Crash, UserEdit
<1>. QED  BY <1>1, <1>2, <1>3, <1>4

LEMMA EditIsFile ==
  ASSUME files \in Workspaces, NEW p \in Paths, NEW edit \in Edits, files[p].exists
  PROVE  FileWith(files[p].text \cup {edit}) \in File
<1>1. files[p] \in File
  BY DEF Workspaces
<1>2. files[p] \in [exists : {TRUE}, text : Texts]
  <2>1. ~Absent.exists
    BY DEF Absent
  <2>. QED  BY <1>1, <2>1 DEF File
<1>3. files[p].text \cup {edit} \in Texts
  BY <1>2 DEF Texts
<1>. QED  BY <1>3 DEF File, FileWith

LEMMA RestIsTyped ==
  ASSUME Shape, Typed, OnTheWay, SnapsTyped, Rollback \/ RollbackFails \/ UserEdit
  PROVE  Typed' /\ OnTheWay'
<1>1. UNCHANGED tx /\ tx.pc \in {"idle", "asked"}
  BY ConstantsAssumption DEF Rollback, RollbackFails, UserEdit
<1>2. Kinds' /\ PlanTyped'
  BY <1>1 DEF Typed, Kinds, PlanTyped
<1>3. OnTheWay'
  BY <1>1 DEF Typed, Kinds, OnTheWay
<1>4. files \in Workspaces /\ origin \in Workspaces /\ damages \in Nat
  BY DEF Typed, FilesTyped
<1>5. CASE Rollback
  <2>1. files' = Restored(Snapshotted) /\ UNCHANGED <<origin, damages>>
    BY <1>5 DEF Rollback
  <2>. QED  BY <1>2, <1>3, <1>4, <2>1, RestoredIsWorkspace DEF Typed, FilesTyped
<1>6. CASE RollbackFails
  <2>1. PICK stuck \in SUBSET Snapshotted : files' = Restored(stuck)
    BY <1>6 DEF RollbackFails
  <2>2. UNCHANGED origin /\ damages' = damages + 1
    BY <1>6 DEF RollbackFails
  <2>3. files' \in Workspaces
    BY <1>4, <2>1, RestoredIsWorkspace
  <2>. QED  BY <1>2, <1>3, <1>4, <2>2, <2>3 DEF Typed, FilesTyped
<1>7. CASE UserEdit
  <2>1. PICK p \in Paths, edit \in Edits :
          /\ files[p].exists
          /\ files' = [files EXCEPT ![p] = FileWith(files[p].text \cup {edit})]
          /\ origin' \in {origin, [origin EXCEPT ![p] = FileWith(files[p].text \cup {edit})]}
    BY <1>7 DEF UserEdit
  <2>2. FileWith(files[p].text \cup {edit}) \in File
    BY <1>4, <2>1, EditIsFile
  <2>3. files' \in Workspaces /\ origin' \in Workspaces
    BY <1>4, <2>1, <2>2 DEF Workspaces
  <2>4. UNCHANGED damages
    BY <1>7 DEF UserEdit
  <2>. QED  BY <1>2, <1>3, <1>4, <2>3, <2>4 DEF Typed, FilesTyped
<1>. QED  BY <1>5, <1>6, <1>7

LEMMA CrashIsTyped ==
  ASSUME Shape, Typed, Crash
  PROVE  Typed' /\ OnTheWay'
<1>1. tx' = NoTx /\ UNCHANGED origin /\ damages' = damages + 1
  BY DEF Crash
<1>2. files \in Workspaces /\ origin \in Workspaces /\ damages \in Nat
  BY DEF Typed, FilesTyped
<1>3. files' \in Workspaces
  <2>1. CASE tx.pc = "write"
    <3>1. PICK file \in HalfWritten(Current.path, Current.after) :
            files' = [files EXCEPT ![Current.path] = file]
      BY <2>1 DEF Crash, Written
    <3>2. Current.path \in Paths /\ Current.after \in File
      BY <2>1, CurrentIsChange DEF Typed, IsChange
    <3>3. file \in File
      BY <1>2, <3>2, HalfIsFile
    <3>. QED  BY <1>2, <3>1, <3>2, <3>3 DEF Workspaces
  <2>2. CASE tx.pc = "undo"
    <3>1. PICK file \in HalfWritten(Undoing.path, Prior(Undoing)) :
            files' = [files EXCEPT ![Undoing.path] = file]
      BY <2>2 DEF Crash, Written
    <3>2. Undoing.path \in Paths /\ Prior(Undoing) \in File
      BY <2>2, UndoingIsChange DEF Typed, IsChange
    <3>3. file \in File
      BY <1>2, <3>2, HalfIsFile
    <3>. QED  BY <1>2, <3>1, <3>2, <3>3 DEF Workspaces
  <2>3. CASE tx.pc \notin {"write", "undo"}
    BY <1>2, <2>3 DEF Crash
  <2>. QED  BY <2>1, <2>2, <2>3
<1>. QED  BY <1>1, <1>2, <1>3, NoTxIsTyped DEF Typed, FilesTyped

EditInv == Shape /\ Typed /\ OnTheWay /\ SnapsTyped

PatchesAreTidy == \A patch \in Patches : IsTidy(patch)

LEMMA EditInvStarts == Init => EditInv
<1>. SUFFICES ASSUME Init  PROVE EditInv
  OBVIOUS
<1>1. SnapsTyped
  BY DEF Init, SnapsTyped
<1>. QED  BY <1>1, InitIsSecured, InitIsTyped DEF EditInv

LEMMA EditInvIsKept ==
  ASSUME EditInv, PatchesAreTidy, [Next]_vars
  PROVE  EditInv'
<1>. USE DEF EditInv
<1>1. Shape' /\ SnapsTyped'
  BY ShapeIsKept, SnapsStayTyped
<1>2. CASE UNCHANGED vars
  <2>1. Typed'
    BY <1>2 DEF vars, Typed, Kinds, FilesTyped, PlanTyped
  <2>2. OnTheWay'
    BY <1>2 DEF vars, OnTheWay, PatchPlanned, PartWritten, PartUndone, PathsOf
  <2>. QED  BY <1>1, <2>1, <2>2
<1>3. CASE \E patch \in Patches : BeginPatch(patch)
  BY <1>1, <1>3, BeginPatchIsTyped DEF PatchesAreTidy
<1>4. CASE \E target \in SyncTargets : BeginSync(target)
  BY <1>1, <1>4, BeginSyncIsTyped
<1>5. CASE Snapshot \/ SnapshotRefused \/ Answer \/ Landed \/ ClearRuns
  BY <1>1, <1>5, QuietIsTyped
<1>6. CASE WriteDone \/ WriteFails
  BY <1>1, <1>6, WriteDoneIsTyped, WriteFailsIsTyped
<1>7. CASE UndoFile \/ UndoFails
  BY <1>1, <1>7, RepairsAreTyped
<1>8. CASE Rollback \/ RollbackFails \/ UserEdit
  BY <1>1, <1>8, RestIsTyped
<1>9. CASE Crash
  BY <1>1, <1>9, CrashIsTyped
<1>. QED  BY <1>2, <1>3, <1>4, <1>5, <1>6, <1>7, <1>8, <1>9 DEF Next

-----------------------------------------------------------------------------
\* Where a patch ends without damage, and how.
LEMMA PatchEnds ==
  ASSUME EditInv, Next, tx.kind = "patch", tx'.pc = "idle", damages' = damages
  PROVE  \/ Landed /\ files = tx.goal /\ files' = tx.goal
         \/ UndoFile /\ files' = tx.from
<1>1. tx.pc \in {"next", "write", "undo"} /\ damages \in Nat /\ PatchPlanned /\ PartWritten /\ PartUndone
  BY DEF EditInv, Typed, Kinds, FilesTyped, OnTheWay
<1>2. files \in Workspaces /\ tx.goal \in Workspaces /\ tx.from \in Workspaces
  BY <1>1 DEF EditInv, Typed, FilesTyped, PatchPlanned
<1>3. SoundTx(tx)
  BY DEF EditInv, Shape
<1>4. Landed \/ UndoFile \/ UndoFails
  <2>1. damages' # damages + 1
    BY <1>1
  <2>2. ~SnapshotRefused /\ ~Crash /\ ~RollbackFails
    BY <2>1 DEF SnapshotRefused, Crash, RollbackFails
  <2>3. ~(\E patch \in Patches : BeginPatch(patch)) /\ ~(\E target \in SyncTargets : BeginSync(target))
    BY <1>1 DEF BeginPatch, BeginSync
  <2>4. ~Answer /\ ~Rollback /\ ~UserEdit
    BY <1>1, ConstantsAssumption DEF Answer, Rollback, UserEdit
  <2>5. ~Snapshot /\ ~WriteDone
    <3>1. ASSUME NEW pc \in {"next", "write"}, NEW done, tx' = [tx EXCEPT !.pc = pc, !.done = done]
          PROVE  FALSE
      BY <1>3, <3>1 DEF SoundTx, IsTx
    <3>2. Snapshot => tx' = [tx EXCEPT !.pc = "write", !.done = tx.done]
      BY <1>3 DEF Snapshot, SoundTx, IsTx
    <3>3. WriteDone => tx' = [tx EXCEPT !.pc = "next", !.done = tx.done \cup {Least(Todo)}]
      BY DEF WriteDone
    <3>. QED  BY <3>1, <3>2, <3>3
  <2>6. ~WriteFails
    <3>1. WriteFails => tx' = [tx EXCEPT !.pc = "undo", !.undo = tx.done \cup {Least(Todo)}]
      BY DEF WriteFails
    <3>. QED  BY <1>3, <3>1 DEF SoundTx, IsTx
  <2>7. ~ClearRuns
    BY <1>1 DEF ClearRuns
  <2>. QED  BY <2>2, <2>3, <2>4, <2>5, <2>6, <2>7 DEF Next
<1>5. CASE Landed
  <2>1. tx.pc = "next" /\ tx.done = DOMAIN tx.planned /\ files' = files
    BY <1>3, <1>5 DEF Landed, Todo, SoundTx
  <2>2. ASSUME NEW p \in Paths  PROVE files[p] = tx.goal[p]
    <3>1. files[p] = IF p \in PathsOf(tx.done) THEN tx.goal[p] ELSE tx.from[p]
      BY <1>1, <2>1 DEF PartWritten
    <3>2. p \notin PathsOf(tx.done) => tx.goal[p] = tx.from[p]
      BY <1>1, <2>1 DEF PathsOf, PatchPlanned, Makes
    <3>. QED  BY <3>1, <3>2
  <2>. QED  BY <1>2, <1>5, <2>1, <2>2 DEF Workspaces
<1>6. CASE UndoFile \/ UndoFails
  <2>. DEFINE g == Greatest(tx.undo)
              p == Undoing.path
  <2>1. PICK file \in File :
          /\ tx.pc = "undo" /\ p \in Paths
          /\ files' = [files EXCEPT ![p] = file]
          /\ UNCHANGED origin
          /\ \/ file = Prior(Undoing) /\ Undone(TRUE)
             \/ Undone(FALSE)
    BY <1>6, RepairDoes DEF EditInv
  <2>2. g \in tx.undo /\ g \in DOMAIN tx.planned /\ Undoing = tx.planned[g]
    BY <2>1, UndoingIsChange DEF EditInv, Typed, Undoing
  <2>3. ASSUME tx.undo \ {g} # {}  PROVE FALSE
    <3>1. PICK repaired \in BOOLEAN :
            tx' = [tx EXCEPT !.undo = tx.undo \ {g}, !.damaged = tx.damaged \/ ~repaired]
      BY <2>1, <2>3 DEF Undone
    <3>. QED  BY <1>3, <2>1, <3>1 DEF SoundTx, IsTx
  <2>4. ~Undone(FALSE) /\ Undone(TRUE) /\ ~tx.damaged
    BY <1>1, <2>1, <2>3 DEF Undone
  <2>5. UndoFile /\ file = Prior(Undoing)
    BY <1>6, <2>1, <2>4 DEF UndoFails
  <2>6. Prior(Undoing) = tx.from[p]
    BY <1>1, <2>2 DEF PatchPlanned, Makes
  <2>7. ASSUME NEW q \in Paths, q # p  PROVE files[q] = tx.from[q]
    <3>1. q \notin PathsOf(tx.undo)
      BY <2>2, <2>3, <2>7 DEF PathsOf
    <3>. QED  BY <1>1, <2>1, <2>4, <3>1 DEF PartUndone
  <2>8. files' = tx.from
    <3>. HIDE DEF p
    <3>. QED  BY <1>2, <2>1, <2>5, <2>6, <2>7 DEF Workspaces
  <2>. QED  BY <2>5, <2>8
<1>. QED  BY <1>4, <1>5, <1>6

\* For any files, and any V4A patches of any length: a patch that ends without a
\* crash, a deleted record or a failed repair has left all of what it means or
\* nothing, whatever writes fail (apply-patch.ts:36-107, 138-223).  Unified diffs
\* have to be tidy: of two sections of one file, the second undoes the first.
THEOREM PatchesAreAtomic ==
  ASSUME PatchesAreTidy
  PROVE  Spec => AllOrNothing
<1>1. Init => EditInv
  BY EditInvStarts
<1>2. EditInv /\ [Next]_vars => EditInv'
  BY EditInvIsKept
<1>3. EditInv /\ [Next]_vars
        => [tx.kind = "patch" /\ tx'.pc = "idle" /\ damages' = damages
              => files' \in {tx.from, tx.goal}]_vars
  BY PatchEnds
<1>. QED  BY <1>1, <1>2, <1>3, PTL DEF Spec, AllOrNothing

-----------------------------------------------------------------------------
(***************************************************************************)
(* The tools do what AtomicEdits promises.  Every step of a call is a step *)
(* of the promise or none: seen from outside a patch happens where it ends. *)
(***************************************************************************)

\* The workspace as the promise sees it.
Seen == IF tx.kind = "patch" THEN tx.from ELSE files

LEMMA SameMeaning ==
  ASSUME NEW patch, NEW ws
  PROVE  Promise!Applied(patch, ws) = Applied(patch, ws)
  BY DEF Promise!Applied, Applied, Promise!OpApplies, OpApplies, Promise!OpResult, OpResult,
         Promise!Absent, Absent, Promise!FileWith, FileWith

LEMMA SameWorkspaces == Promise!Workspaces = Workspaces
  BY DEF Promise!Workspaces, Workspaces, Promise!File, File, Promise!Absent, Absent,
         Promise!Texts, Texts, Promise!Torn, Torn

\* What the run found and the user's edits stay as they are.
Calm == UNCHANGED <<origin, edits>>

LEMMA StutterIsPromised ==
  ASSUME Calm, UNCHANGED damages, Seen' = Seen, tx'.kind = "sync" <=> tx.kind = "sync"
  PROVE  UNCHANGED Promise!vars
  BY DEF Promise!vars, Seen, Calm

LEMMA LandIsPromised ==
  ASSUME Calm, UNCHANGED damages, tx.kind # "sync", tx'.kind # "sync",
         NEW patch \in Patches, Applied(patch, Seen) = [ok |-> TRUE, ws |-> Seen']
  PROVE  Promise!Next
<1>1. Promise!Applied(patch, Seen) = [ok |-> TRUE, ws |-> Seen']
  BY SameMeaning
<1>. QED  BY <1>1 DEF Promise!Next, Promise!Land, Seen, Calm

LEMMA StartSyncIsPromised ==
  ASSUME Calm, UNCHANGED damages, Seen' = Seen, tx'.kind = "sync"
  PROVE  Promise!Next
  BY DEF Promise!Next, Promise!StartSync, Seen, Calm

LEMMA EndSyncIsPromised ==
  ASSUME Calm, UNCHANGED damages, Seen' = Seen, tx'.kind # "sync"
  PROVE  Promise!Next
  BY DEF Promise!Next, Promise!EndSync, Seen, Calm

LEMMA SyncFileIsPromised ==
  ASSUME Calm, UNCHANGED damages, tx.kind = "sync", NEW p \in Paths,
         Seen' \in Workspaces, Seen' = [Seen EXCEPT ![p] = Seen'[p]]
  PROVE  Promise!Next
<1>1. Promise!Rewritten(p)
  BY SameWorkspaces DEF Promise!Rewritten, Seen
<1>. QED  BY <1>1 DEF Promise!Next, Promise!SyncFile, Seen, Calm

LEMMA RollbackIsPromised ==
  ASSUME Calm, UNCHANGED damages, Seen' = origin, tx'.kind = "sync" <=> tx.kind = "sync"
  PROVE  Promise!Next
  BY DEF Promise!Next, Promise!Rollback, Seen, Calm

LEMMA DamageIsPromised ==
  ASSUME Calm, damages' = damages + 1, Seen' \in Workspaces, tx'.kind # "sync"
  PROVE  Promise!Next
  BY SameWorkspaces DEF Promise!Next, Promise!Damage, Seen, Calm

LEMMA UserEditIsPromised ==
  ASSUME edits' = edits + 1, UNCHANGED damages, NEW p \in Paths,
         Seen' \in Workspaces, Seen' = [Seen EXCEPT ![p] = Seen'[p]],
         origin' \in {origin, [origin EXCEPT ![p] = Seen'[p]]},
         tx'.kind = "sync" <=> tx.kind = "sync"
  PROVE  Promise!Next
<1>1. Promise!Rewritten(p)
  BY SameWorkspaces DEF Promise!Rewritten, Seen
<1>. QED  BY <1>1 DEF Promise!Next, Promise!UserEdit, Seen

LEMMA BeginIsPromised ==
  ASSUME EditInv, (\E patch \in Patches : BeginPatch(patch)) \/ (\E target \in SyncTargets : BeginSync(target))
  PROVE  Promise!Next \/ UNCHANGED Promise!vars
<1>1. tx.kind = "none" /\ UNCHANGED <<files, origin, edits, damages>>
  BY DEF BeginPatch, BeginSync, EditInv, Typed, Kinds
<1>2. ASSUME NEW patch \in Patches, BeginPatch(patch)  PROVE UNCHANGED Promise!vars
  <2>1. tx'.kind = "patch" /\ tx'.from = files
    BY <1>2 DEF BeginPatch, NoTx
  <2>2. Seen' = Seen
    BY <1>1, <2>1 DEF Seen
  <2>. QED  BY <1>1, <2>1, <2>2, StutterIsPromised DEF Calm
<1>3. ASSUME NEW target \in SyncTargets, BeginSync(target)  PROVE Promise!Next
  <2>1. tx'.kind = "sync"
    BY <1>3 DEF BeginSync, NoTx
  <2>2. Seen' = Seen
    BY <1>1, <2>1 DEF Seen
  <2>. QED  BY <1>1, <2>1, <2>2, StartSyncIsPromised DEF Calm
<1>. QED  BY <1>2, <1>3

\* Steps that leave the call what it is, or end a synchronisation.
LEMMA QuietIsPromised ==
  ASSUME EditInv, Snapshot \/ Answer \/ ClearRuns
  PROVE  Promise!Next \/ UNCHANGED Promise!vars
<1>1. UNCHANGED <<files, origin, edits, damages>> /\ SoundTx(tx)
  BY DEF Snapshot, Answer, ClearRuns, EditInv, Shape
<1>2. \/ tx.kind = "sync" /\ tx' = NoTx
      \/ tx'.kind = tx.kind /\ tx'.from = tx.from
  <2>1. CASE Snapshot
    BY <1>1, <2>1 DEF Snapshot, SoundTx, IsTx
  <2>2. CASE Answer
    <3>1. tx.kind = "sync"
      BY <2>2 DEF Answer, EditInv, Typed, Kinds
    <3>. QED  BY <1>1, <2>2, <3>1 DEF Answer, SoundTx, IsTx
  <2>3. CASE ClearRuns
    BY <2>3 DEF ClearRuns, EditInv, Typed, Kinds
  <2>. QED  BY <2>1, <2>2, <2>3
<1>3. CASE tx.kind = "sync" /\ tx' = NoTx
  <2>1. tx'.kind = "none"
    BY <1>3 DEF NoTx
  <2>2. Seen' = Seen
    BY <1>1, <1>3, <2>1 DEF Seen
  <2>. QED  BY <1>1, <2>1, <2>2, EndSyncIsPromised DEF Calm
<1>4. CASE tx'.kind = tx.kind /\ tx'.from = tx.from
  <2>1. Seen' = Seen
    BY <1>1, <1>4 DEF Seen
  <2>. QED  BY <1>1, <1>4, <2>1, StutterIsPromised DEF Calm
<1>. QED  BY <1>2, <1>3, <1>4

LEMMA DamagesArePromised ==
  ASSUME EditInv, EditInv', SnapshotRefused \/ Crash \/ RollbackFails
  PROVE  Promise!Next
<1>1. UNCHANGED <<origin, edits>> /\ damages' = damages + 1
  BY DEF SnapshotRefused, Crash, RollbackFails
<1>2. tx'.kind = "none"
  <2>1. CASE SnapshotRefused \/ Crash
    BY <2>1 DEF SnapshotRefused, Crash, NoTx
  <2>2. CASE RollbackFails
    BY <2>2 DEF RollbackFails, EditInv, Typed, Kinds
  <2>. QED  BY <2>1, <2>2
<1>3. files' \in Workspaces
  BY DEF EditInv, Typed, FilesTyped
<1>4. Seen' \in Workspaces
  BY <1>2, <1>3 DEF Seen
<1>. QED  BY <1>1, <1>2, <1>4, DamageIsPromised DEF Calm

LEMMA WritesArePromised ==
  ASSUME EditInv, EditInv', WriteDone \/ WriteFails
  PROVE  Promise!Next \/ UNCHANGED Promise!vars
<1>. DEFINE p == Current.path
<1>1. tx.pc = "write" /\ UNCHANGED <<origin, edits, damages>> /\ SoundTx(tx)
      /\ \E file : files' = [files EXCEPT ![p] = file]
  BY DEF WriteDone, WriteFails, Written, EditInv, Shape
<1>2. CASE tx.kind = "patch"
  <2>1. \/ tx' = [tx EXCEPT !.pc = "next", !.done = tx.done \cup {Least(Todo)}]
        \/ tx' = [tx EXCEPT !.pc = "undo", !.undo = tx.done \cup {Least(Todo)}]
    BY <1>2 DEF WriteDone, WriteFails
  <2>2. tx'.kind = "patch" /\ tx'.from = tx.from
    BY <1>1, <1>2, <2>1 DEF SoundTx, IsTx
  <2>3. Seen' = Seen
    BY <1>2, <2>2 DEF Seen
  <2>. QED  BY <1>1, <1>2, <2>2, <2>3, StutterIsPromised DEF Calm
<1>3. CASE tx.kind # "patch"
  <2>1. tx.kind = "sync"
    BY <1>1, <1>3 DEF EditInv, Typed, Kinds
  <2>2. tx' = NoTx \/ tx' = [tx EXCEPT !.pc = "next", !.done = tx.done \cup {Least(Todo)}]
    BY <1>3 DEF WriteDone, WriteFails
  <2>3. tx'.kind # "patch"
    <3>1. NoTx.kind = "none"
      BY DEF NoTx
    <3>. QED  BY <1>1, <1>3, <2>2, <3>1 DEF SoundTx, IsTx
  <2>4. files \in Workspaces /\ files' \in Workspaces /\ p \in Paths
    BY <1>1, CurrentIsChange DEF EditInv, Typed, FilesTyped, IsChange
  <2>. HIDE DEF p
  <2>5. files' = [files EXCEPT ![p] = files'[p]]
    BY <1>1, <2>4 DEF Workspaces
  <2>6. Seen' = files' /\ Seen = files
    BY <1>3, <2>3 DEF Seen
  <2>7. Seen' \in Workspaces /\ Seen' = [Seen EXCEPT ![p] = Seen'[p]]
    BY <2>4, <2>5, <2>6
  <2>. QED  BY <1>1, <2>1, <2>4, <2>7, SyncFileIsPromised DEF Calm
<1>. QED  BY <1>2, <1>3

LEMMA LandingIsPromised ==
  ASSUME EditInv, Landed
  PROVE  Promise!Next
<1>1. /\ tx.pc = "next" /\ tx' = NoTx /\ tx'.kind = "none" /\ tx'.pc = "idle"
      /\ UNCHANGED <<files, origin, edits, damages>>
  BY DEF Landed, NoTx
<1>2. CASE tx.kind = "patch"
  <2>1. files' = tx.goal
    <3>1. files' = tx.goal \/ (UndoFile /\ files' = tx.from)
      BY <1>1, <1>2, PatchEnds DEF Next
    <3>. QED  BY <1>1, <3>1 DEF UndoFile
  <2>2. PICK patch \in Patches : Applied(patch, tx.from) = [ok |-> TRUE, ws |-> tx.goal]
    BY <1>2 DEF EditInv, OnTheWay, PatchPlanned
  <2>3. Seen = tx.from /\ Seen' = tx.goal
    BY <1>1, <1>2, <2>1 DEF Seen
  <2>4. Applied(patch, Seen) = [ok |-> TRUE, ws |-> Seen']
    BY <2>2, <2>3
  <2>. QED  BY <1>1, <1>2, <2>4, LandIsPromised DEF Calm
<1>3. CASE tx.kind # "patch"
  <2>1. Seen' = Seen
    BY <1>1, <1>3 DEF Seen
  <2>. QED  BY <1>1, <2>1, EndSyncIsPromised DEF Calm
<1>. QED  BY <1>2, <1>3

LEMMA RepairsArePromised ==
  ASSUME EditInv, EditInv', UndoFile \/ UndoFails
  PROVE  Promise!Next \/ UNCHANGED Promise!vars
<1>1. /\ tx.pc = "undo" /\ tx.kind = "patch" /\ UNCHANGED <<origin, edits>>
      /\ SoundTx(tx) /\ \E repaired \in BOOLEAN : Undone(repaired)
  BY DEF UndoFile, UndoFails, EditInv, Shape, Typed, Kinds
<1>2. CASE tx' # NoTx
  <2>1. PICK repaired \in BOOLEAN :
          /\ tx' = [tx EXCEPT !.undo = tx.undo \ {Greatest(tx.undo)},
                              !.damaged = tx.damaged \/ ~repaired]
          /\ UNCHANGED damages
    BY <1>1, <1>2 DEF Undone
  <2>2. tx'.kind = "patch" /\ tx'.from = tx.from
    BY <1>1, <2>1 DEF SoundTx, IsTx
  <2>3. Seen' = Seen
    BY <1>1, <2>2 DEF Seen
  <2>. QED  BY <1>1, <2>1, <2>2, <2>3, StutterIsPromised DEF Calm
<1>3. CASE tx' = NoTx
  <2>1. tx'.kind = "none" /\ tx'.pc = "idle" /\ damages' \in {damages, damages + 1}
    BY <1>1, <1>3 DEF Undone, NoTx
  <2>2. Seen' = files' /\ files' \in Workspaces /\ Seen = tx.from
    BY <1>1, <2>1 DEF Seen, EditInv, Typed, FilesTyped
  <2>3. CASE damages' = damages + 1
    BY <1>1, <2>1, <2>2, <2>3, DamageIsPromised DEF Calm
  <2>4. CASE damages' = damages
    <3>1. files' = tx.from
      <4>1. files' = tx.from \/ Landed
        BY <1>1, <2>1, <2>4, PatchEnds DEF Next
      <4>. QED  BY <1>1, <4>1 DEF Landed
    <3>. QED  BY <1>1, <2>1, <2>2, <2>4, <3>1, StutterIsPromised DEF Calm
  <2>. QED  BY <2>1, <2>3, <2>4
<1>. QED  BY <1>2, <1>3

LEMMA RollbackIsWhole ==
  ASSUME EditInv, Secured, Rollback
  PROVE  Promise!Next
<1>1. row /\ files' = Restored(Snapshotted) /\ UNCHANGED <<tx, origin, edits, damages>>
      /\ tx.kind = "none"
  BY DEF Rollback, EditInv, Typed, Kinds
<1>2. ASSUME NEW p \in Paths
      PROVE  (IF p \in Snapshotted THEN Prior(Target(p)) ELSE files[p]) = origin[p]
  BY <1>1 DEF Secured, SecuredFiles, Told, Found
<1>3. origin \in Workspaces
  BY DEF EditInv, Typed, FilesTyped
<1>4. files' = origin
  BY <1>1, <1>2, <1>3 DEF Restored, Workspaces
<1>5. Seen' = origin
  BY <1>1, <1>4 DEF Seen
<1>. QED  BY <1>1, <1>5, RollbackIsPromised DEF Calm

LEMMA EditIsPromised ==
  ASSUME EditInv, EditInv', "asked" \notin UserEditsAt, UserEdit
  PROVE  Promise!Next
<1>1. tx.kind = "none" /\ UNCHANGED <<tx, damages>> /\ edits' = edits + 1
  BY ConstantsAssumption DEF UserEdit, EditInv, Typed, Kinds
<1>2. PICK p \in Paths :
        \E file : /\ files' = [files EXCEPT ![p] = file]
                  /\ origin' \in {origin, [origin EXCEPT ![p] = file]}
  BY DEF UserEdit
<1>3. PICK file :
        /\ files' = [files EXCEPT ![p] = file]
        /\ origin' \in {origin, [origin EXCEPT ![p] = file]}
  BY <1>2
<1>4. files \in Workspaces /\ files' \in Workspaces
  BY DEF EditInv, Typed, FilesTyped
<1>5. files'[p] = file /\ files' = [files EXCEPT ![p] = files'[p]]
  BY <1>3, <1>4 DEF Workspaces
<1>6. Seen = files /\ Seen' = files'
  BY <1>1 DEF Seen
<1>7. /\ Seen' \in Workspaces /\ Seen' = [Seen EXCEPT ![p] = Seen'[p]]
      /\ origin' \in {origin, [origin EXCEPT ![p] = Seen'[p]]}
  BY <1>3, <1>4, <1>5, <1>6
<1>. QED  BY <1>1, <1>7, UserEditIsPromised

LEMMA StepIsPromised ==
  ASSUME EditInv, EditInv', Secured, "asked" \notin UserEditsAt, [Next]_vars
  PROVE  [Promise!Next]_Promise!vars
<1>1. CASE UNCHANGED vars
  <2>1. Seen' = Seen
    BY <1>1 DEF vars, Seen
  <2>. QED  BY <1>1, <2>1, StutterIsPromised DEF vars, Calm
<1>. QED  BY <1>1, BeginIsPromised, QuietIsPromised, DamagesArePromised, WritesArePromised,
            LandingIsPromised, RepairsArePromised, RollbackIsWhole, EditIsPromised DEF Next

LEMMA StartIsPromised == Init => Promise!Init
<1>. SUFFICES ASSUME Init  PROVE Promise!Init
  OBVIOUS
<1>1. /\ tx.kind = "none" /\ origin = files /\ edits = 0 /\ damages = 0
      /\ files \in Workspaces
  BY ConstantsAssumption DEF Init, NoTx
<1>. QED  BY <1>1, SameWorkspaces DEF Promise!Init

\* The patch tool, the write-back of sandboxed commands and the rollback implement
\* AtomicEdits: a patch lands as a whole or not at all and a rollback brings back
\* the workspace as the run found it, whatever is written, fails, crashes or is
\* deleted in between (apply-patch.ts:36-107, run-command-routed.ts:248-279,
\* rollback.ts:54-146) - for tidy patches, and as long as the user leaves the files
\* alone while a synchronisation waits for the answer.
THEOREM ToolsKeepPromise ==
  ASSUME PatchesAreTidy, "asked" \notin UserEditsAt
  PROVE  Spec => KeepsPromise
<1>1. Init => EditInv /\ Secured /\ Promise!Init
  BY EditInvStarts, InitIsSecured, StartIsPromised
<1>2. EditInv /\ Secured /\ [Next]_vars => (EditInv /\ Secured)'
  BY EditInvIsKept, SecuredIsKept DEF EditInv
<1>3. EditInv /\ EditInv' /\ Secured /\ [Next]_vars => [Promise!Next]_Promise!vars
  BY StepIsPromised
<1>. QED  BY <1>1, <1>2, <1>3, PTL DEF Spec, KeepsPromise, Promise!Spec

=============================================================================
