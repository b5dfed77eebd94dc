---------------------------- MODULE MCStateStore ----------------------------
(***************************************************************************)
(* Two processes that save two states into one file.                       *)
(***************************************************************************)
EXTENDS StateStore

CONSTANTS p1, p2, a, b
=============================================================================
