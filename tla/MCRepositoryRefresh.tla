------------------------ MODULE MCRepositoryRefresh ------------------------
(***************************************************************************)
(* Two files, one of them in the self-map; two workers; two writes and one *)
(* error.                                                                  *)
(***************************************************************************)
EXTENDS RepositoryRefresh

CONSTANTS f1, f2, old, new, foreign
=============================================================================
