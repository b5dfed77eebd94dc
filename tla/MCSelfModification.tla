------------------------- MODULE MCSelfModification -------------------------
(***************************************************************************)
(* Two files.  One batch changes the first, one the second and one both;   *)
(* the first may exist at the start or be created.                         *)
(***************************************************************************)
EXTENDS SelfModification

CONSTANTS p1, p2, x, y

MCBatches == {
  [p \in Paths |-> IF p = p1 THEN y ELSE None],
  [p \in Paths |-> IF p = p2 THEN y ELSE None],
  [p \in Paths |-> y]}

MCInit == Init /\ tree[p1] \in {x, Absent} /\ tree[p2] = x

MCSpec == MCInit /\ [][Next]_vars
=============================================================================
