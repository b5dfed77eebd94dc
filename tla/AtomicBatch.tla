----------------------------- MODULE AtomicBatch -----------------------------
(***************************************************************************)
(* What src/src/core/evolution.py promises its caller: a batch of code     *)
(* changes takes effect at once or not at all, and the last one can be     *)
(* taken back at once.  An operator's edit, an interrupt, or an error in   *)
(* the repair of a failed batch disturbs the tree; taking a batch back     *)
(* may stop half way, and can then be tried again.                         *)
(***************************************************************************)
EXTENDS Naturals, Sequences

CONSTANTS Paths, Allowed, Contents, Batches, Absent, Torn

VARIABLES
  tree,      \* path -> what it holds, as the caller sees it between calls
  undo,      \* {the tree before the batch that can be taken back}, or {}
  disturbed  \* the tree was changed by other means since that batch

Trees == [Paths -> Contents \cup {Absent, Torn}]

Init ==
  /\ tree \in [Paths -> Contents \cup {Absent}]
  /\ undo = {} /\ disturbed = FALSE

\* after is the tree once every permitted change of b is made in order.
Result(b, after) ==
  \A p \in Paths :
    \/ /\ \A j \in 1..Len(b) : b[j].path # p \/ p \notin Allowed
       /\ after[p] = tree[p]
    \/ \E j \in 1..Len(b) :
         /\ b[j].path = p /\ p \in Allowed /\ after[p] = b[j].content
         /\ \A k \in 1..Len(b) : k > j => b[k].path # p

Commit ==
  /\ tree' \in Trees
  /\ \E b \in Batches : Result(b, tree')
  /\ \/ undo' = {tree} /\ disturbed' = FALSE
     \/ tree' = tree /\ UNCHANGED <<undo, disturbed>>

TakeBack ==
  /\ undo # {} /\ undo' = {}
  /\ tree' \in Trees /\ (disturbed \/ tree' \in undo)
  /\ UNCHANGED disturbed

\* The files are old, restored, or the one that was being written.
TakePartBack ==
  /\ undo # {}
  /\ tree' \in Trees
  /\ \/ disturbed
     \/ \E u \in undo, q \in Paths : \A p \in Paths :
          tree'[p] \in {tree[p], u[p]} \cup (IF p = q THEN {Torn} ELSE {})
  /\ UNCHANGED <<undo, disturbed>>

Disturb ==
  /\ tree' \in Trees
  /\ disturbed' = TRUE
  /\ UNCHANGED undo

Next == Commit \/ TakeBack \/ TakePartBack \/ Disturb

Spec == Init /\ [][Next]_<<tree, undo, disturbed>>
=============================================================================
