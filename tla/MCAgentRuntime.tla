---------------------------- MODULE MCAgentRuntime ----------------------------
(* The instance of AgentRuntime for TLC.  Its run checks liveness, which rules *)
(* symmetry out.                                                               *)
EXTENDS AgentRuntime, TLC
=============================================================================
