---------------------------- MODULE MCAgentCalls ----------------------------
(* Instances of AgentCalls for TLC.                                        *)
EXTENDS AgentCalls
=============================================================================
