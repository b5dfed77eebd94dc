---------------------------- MODULE MCCacheStore ----------------------------
(***************************************************************************)
(* A queue of one place and three putters, so that two can wait in the     *)
(* line beside _STOP; writes of one key with two values, and of both keys. *)
(***************************************************************************)
EXTENDS CacheStore, TLC

CONSTANTS k1, k2, v1, v2

MCPuts == {k1 :> v1, (k1 :> v2) @@ (k2 :> v1)}
MCLegacy == (k1 :> v1) @@ (k2 :> NoValue)
=============================================================================
