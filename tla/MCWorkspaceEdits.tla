-------------------------- MODULE MCWorkspaceEdits --------------------------
(***************************************************************************)
(* Instances of WorkspaceEdits for TLC.                                    *)
(***************************************************************************)
EXTENDS WorkspaceEdits

CONSTANTS a, b, e1, e2

\* One of the files is there when the run starts.
OneFile == {[p \in Paths |-> IF p = a THEN FileWith({}) ELSE Absent]}

\* An operation of each kind on each path.
OpsWith(edit) == {x \in Ops : x.edit = edit}

\* Patches of one or two operations: of V4A, every one; of unified diffs, those
\* whose sections edit or create different files.
V4APatches ==
  [format : {"v4a"},
   ops : {<<x>> : x \in OpsWith(e1)} \cup {<<x, y>> : x \in OpsWith(e1), y \in OpsWith(e2)}]

UnifiedPatches ==
  {p \in [format : {"unified"},
          ops : {<<x, y>> : x \in OpsWith(e1), y \in OpsWith(e2)}] :
     \A i \in {1, 2} : p.ops[i].op # "delete"}

TidyPatches == V4APatches \cup {p \in UnifiedPatches : p.ops[1].path # p.ops[2].path}

StagedTargets == [Paths -> {Absent, FileWith({}), FileWith({e2})}]

=============================================================================
