--------------------------- MODULE MCJobScheduler ---------------------------
(***************************************************************************)
(* Instances of JobScheduler.                                              *)
(***************************************************************************)
EXTENDS JobScheduler, TLC
=============================================================================
