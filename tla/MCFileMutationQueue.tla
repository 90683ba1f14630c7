------------------------ MODULE MCFileMutationQueue ------------------------
(***************************************************************************)
(* Instances of FileMutationQueue: three calls on two files, one of which  *)
(* is also reachable through a symbolic link.                              *)
(***************************************************************************)
EXTENDS FileMutationQueue

\* "link" is an alias of "real"; "other" is another file.
AliasPaths == {"real", "link", "other"}
AliasCanon == [p \in AliasPaths |-> IF p = "link" THEN "real" ELSE p]
=============================================================================
