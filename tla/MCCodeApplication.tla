-------------------------- MODULE MCCodeApplication --------------------------
(***************************************************************************)
(* Two permitted files and one that is not.  The batches repeat a path,    *)
(* return to what the file held, name the forbidden path, or write what is *)
(* there already.                                                          *)
(***************************************************************************)
EXTENDS CodeApplication

CONSTANTS p1, p2, p3, x, y

To(p, c) == [path |-> p, content |-> c]

MCBatches == {
  <<To(p1, y)>>,
  <<To(p1, y), To(p2, y)>>,
  <<To(p1, y), To(p1, x)>>,
  <<To(p2, x), To(p3, y), To(p1, y), To(p2, y)>>}

MCInit == Init /\ \A p \in Paths : tree[p] \in {x, Absent}

MCSpec == MCInit /\ [][Next]_vars
=============================================================================
