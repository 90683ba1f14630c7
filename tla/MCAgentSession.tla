--------------------------- MODULE MCAgentSession ---------------------------
(***************************************************************************)
(* Instances of AgentSession.                                              *)
(***************************************************************************)
EXTENDS AgentSession, TLC

ThreadSymmetry == Permutations(Prompts) \cup Permutations(Notes)
=============================================================================
