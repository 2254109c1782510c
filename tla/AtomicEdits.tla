----------------------------- MODULE AtomicEdits -----------------------------
(***************************************************************************)
(* What editing a workspace promises the user: a patch lands as a whole or *)
(* not at all, a rollback brings back the workspace as the run found it or *)
(* leaves it as it is, and only the synchronisation of a sandboxed command *)
(* goes file by file.  A damage - the process dies in the middle, the      *)
(* record of the run is deleted under it, a repair write fails - may leave *)
(* anything, and is counted.                                               *)
(***************************************************************************)
EXTENDS PatchSemantics

CONSTANTS Patches

VARIABLES
  ws,        \* the workspace
  base,      \* the workspace as the run found it
  syncing,   \* a sandboxed command's changes are being written
  edits,     \* how often the user edited a file
  damages    \* how often something beyond repair happened

vars == <<ws, base, syncing, edits, damages>>

\* At most one file changes, in any way.
Rewritten(p) ==
  /\ ws' \in Workspaces
  /\ ws' = [ws EXCEPT ![p] = ws'[p]]

Init ==
  /\ ws \in Workspaces
  /\ base = ws
  /\ syncing = FALSE
  /\ edits = 0
  /\ damages = 0

Land ==
  /\ \E patch \in Patches : Applied(patch, ws) = [ok |-> TRUE, ws |-> ws']
  /\ UNCHANGED <<base, syncing, edits, damages>>

StartSync ==
  /\ syncing' = TRUE
  /\ UNCHANGED <<ws, base, edits, damages>>

SyncFile ==
  /\ syncing
  /\ \E p \in Paths : Rewritten(p)
  /\ syncing' \in BOOLEAN
  /\ UNCHANGED <<base, edits, damages>>

EndSync ==
  /\ syncing' = FALSE
  /\ UNCHANGED <<ws, base, edits, damages>>

Rollback ==
  /\ ws' = base
  /\ UNCHANGED <<base, syncing, edits, damages>>

Damage ==
  /\ damages' = damages + 1
  /\ ws' \in Workspaces
  /\ syncing' = FALSE
  /\ UNCHANGED <<base, edits>>

\* A file the run has not written is found as the user leaves it.
UserEdit ==
  /\ edits' = edits + 1
  /\ \E p \in Paths :
       /\ Rewritten(p)
       /\ base' \in {base, [base EXCEPT ![p] = ws'[p]]}
  /\ UNCHANGED <<syncing, damages>>

Next == Land \/ StartSync \/ SyncFile \/ EndSync \/ Rollback \/ Damage \/ UserEdit

Spec == Init /\ [][Next]_vars

=============================================================================
