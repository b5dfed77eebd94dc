---------------------------- MODULE MCVersioning ----------------------------
(***************************************************************************)
(* Three files in two slices: p3 is alone in the first gather, p1 and p2   *)
(* share the next, so that one of them can still run when a rollback that  *)
(* has something to undo begins.  All exist at first, with one content.    *)
(* An earlier process published v1, a version with the second content of   *)
(* both files of the slice; v2 is not there yet.  So a task that a restore *)
(* of one leaves behind can spoil a restore of the other, and an edit can  *)
(* remove what v1 then creates.                                            *)
(***************************************************************************)
EXTENDS Versioning

CONSTANTS p1, p2, p3, v1, v2, old, new

MCBatchOf == [p \in Paths |-> IF p = p3 THEN 0 ELSE 1]

MCInit ==
  /\ Init
  /\ repo = [p \in Paths |-> old]
  /\ published = {v1}
  /\ snapshot[v1] = [p \in Paths |-> IF p = p3 THEN Absent ELSE new]

\* The edit between two calls is of p1.
MCNext == Next /\ (edits' # edits => \A p \in Paths \ {p1} : repo'[p] = repo[p])

MCSpec == MCInit /\ [][MCNext]_vars /\ Fairness
=============================================================================
