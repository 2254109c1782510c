--------------------------- MODULE MCAgentService ---------------------------
(***************************************************************************)
(* Instances of AgentService for TLC.                                      *)
(***************************************************************************)
EXTENDS AgentService

Setting(readOnly, shell, sandbox, confirm) ==
  [readOnly |-> readOnly, shell |-> shell, sandbox |-> sandbox, confirm |-> confirm]

\* Every setting that makes a difference: a read-only loop needs no confirmation.
EverySetting == {s \in AllSettings : s.readOnly => ~s.confirm}

\* Commands run on the host behind the allowlist.
HostOnly == {Setting(FALSE, TRUE, FALSE, FALSE)}

=============================================================================
