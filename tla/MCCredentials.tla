--------------------------- MODULE MCCredentials ---------------------------
(***************************************************************************)
(* Instances of Credentials.                                               *)
(***************************************************************************)
EXTENDS Credentials, TLC

Symmetry == Permutations(Procs) \cup Permutations(Providers)
=============================================================================
