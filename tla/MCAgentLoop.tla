----------------------------- MODULE MCAgentLoop -----------------------------
(***************************************************************************)
(* Instances of AgentLoop.                                                 *)
(***************************************************************************)
EXTENDS AgentLoop, TLC

MsgSymmetry == Permutations(Msgs)

\* Bound of the runs: an exception or a reset(), not one after the other.
OneUpset == failures + resets <= 1
=============================================================================
