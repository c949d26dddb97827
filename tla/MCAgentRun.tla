----------------------------- MODULE MCAgentRun -----------------------------
(* A tool bare, behind an approval, guarded, guarded in the documented     *)
(* order, and with the guard hidden behind the approval.                   *)
EXTENDS AgentRun

CONSTANTS flow, noid

MCTowers == {<<>>, <<"approval">>, <<"guard">>, <<"guard", "approval">>, <<"approval", "guard">>}
=============================================================================
