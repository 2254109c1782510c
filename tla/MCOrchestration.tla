--------------------------- MODULE MCOrchestration ---------------------------
(***************************************************************************)
(* Instances of Orchestration for TLC.                                     *)
(***************************************************************************)
EXTENDS Orchestration

AllChoices == {"retry", "skip", "cancel"}

=============================================================================
