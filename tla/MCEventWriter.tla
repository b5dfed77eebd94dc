--------------------------- MODULE MCEventWriter ---------------------------
(***************************************************************************)
(* Two coroutines that log while a third one stops the writer.             *)
(***************************************************************************)
EXTENDS EventWriter

CONSTANTS c1, c2
=============================================================================
