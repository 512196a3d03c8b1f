----------------------------- MODULE MCAgentSync -----------------------------
(* AgentSync on small instances: two targets, such as a certificate and its  *)
(* key; the configurations give the bounds.                                  *)
EXTENDS AgentSync

MCIncomplete == {2}
=============================================================================
