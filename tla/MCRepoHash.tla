----------------------------- MODULE MCRepoHash -----------------------------
(***************************************************************************)
(* Two callers and two files, one of them ignored by git; two writes       *)
(* suffice to change a file between its stat and its read, in a later      *)
(* computation, and between two calls.                                     *)
(***************************************************************************)
EXTENDS RepoHash, TLC

CONSTANTS code, local, old, empty

Symmetry == Permutations(Callers)
=============================================================================
