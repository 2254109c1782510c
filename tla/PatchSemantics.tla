--------------------------- MODULE PatchSemantics ---------------------------
(***************************************************************************)
(* What a patch means: the files of a workspace, the operations of a patch *)
(* and their effect, one after the other, on the whole workspace.          *)
(*                                                                         *)
(* A file's text is the set of edits it contains: an edit applies to a     *)
(* text that does not have it yet, whatever else was edited before.  Torn  *)
(* is what an interrupted write leaves.                                    *)
(***************************************************************************)
EXTENDS Naturals, Sequences, SequencesExt

CONSTANTS
  Paths,     \* the files a run may touch
  Edits      \* the edits a patch may make

Torn == "torn"
Texts == SUBSET (Edits \cup {Torn})

Absent == [exists |-> FALSE, text |-> {}]
File == {Absent} \cup [exists : {TRUE}, text : Texts]
FileWith(text) == [exists |-> TRUE, text |-> text]

Workspaces == [Paths -> File]

Ops == [op : {"update", "add", "delete"}, path : Paths, edit : Edits]
Formats == {"v4a", "unified"}

\* A V4A operation names what it expects; a unified section that creates a file
\* has no context, so it applies to a file that exists, too.
OpApplies(format, op, file) ==
  CASE op.op = "delete" -> file.exists
    [] op.op = "update" -> file.exists /\ op.edit \notin file.text
    [] op.op = "add"    -> IF format = "v4a" THEN ~file.exists ELSE op.edit \notin file.text

\* The file after the operation.
OpResult(op, file) ==
  CASE op.op = "delete" -> Absent
    [] OTHER            -> FileWith(file.text \cup {op.edit})

\* The operations of a patch, in order, each on what the ones before it left.
Applied(patch, ws) ==
  LET after[i \in 0..Len(patch.ops)] ==
        IF i = 0 THEN [ok |-> TRUE, ws |-> ws]
        ELSE LET r == after[i - 1]
                 op == patch.ops[i]
             IN [ok |-> r.ok /\ OpApplies(patch.format, op, r.ws[op.path]),
                 ws |-> [r.ws EXCEPT ![op.path] = OpResult(op, @)]]
  IN after[Len(patch.ops)]

=============================================================================
