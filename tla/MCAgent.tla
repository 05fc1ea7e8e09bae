------------------------------- MODULE MCAgent -------------------------------
(* Instances of Agent for TLC; the constants are in the cfg files. *)
EXTENDS Agent

(* The server is up from the start and, with MaxFailures = 0, for good. *)
ReliableInit == AgentInit /\ serverUp = TRUE
ReliableSpec == ReliableInit /\ [][AgentNext]_agentVars /\ AgentFairness
=============================================================================
