--------------------------- MODULE MCAgentApproval ---------------------------
(* One call, the decisions that race on it and the registry's other users.     *)
EXTENDS AgentApproval
=============================================================================
