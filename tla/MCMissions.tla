----------------------------- MODULE MCMissions -----------------------------
(***************************************************************************)
(* Instances of Missions.                                                  *)
(***************************************************************************)
EXTENDS Missions, TLC

Symmetry == Permutations(Procs) \cup Permutations(Workspaces)
=============================================================================
