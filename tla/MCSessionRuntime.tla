------------------------- MODULE MCSessionRuntime --------------------------
(***************************************************************************)
(* Instances of SessionRuntime.                                            *)
(***************************************************************************)
EXTENDS SessionRuntime, TLC

Symmetry == Permutations(Commands)
=============================================================================
