--------------------------- MODULE MCSessionTree ---------------------------
(***************************************************************************)
(* Instances of SessionTree.                                               *)
(***************************************************************************)
EXTENDS SessionTree, TLC

ProcSymmetry == Permutations(Procs)
=============================================================================
