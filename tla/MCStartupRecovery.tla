-------------------------- MODULE MCStartupRecovery --------------------------
(***************************************************************************)
(* Instances of StartupRecovery for TLC.  Runs, processes and identifiers  *)
(* are interchangeable.                                                    *)
(***************************************************************************)
EXTENDS StartupRecovery, TLC

Symmetric == Permutations(Runs) \cup Permutations(Processes) \cup Permutations(Pids)

=============================================================================
