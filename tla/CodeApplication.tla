--------------------------- MODULE CodeApplication ---------------------------
(***************************************************************************)
(* Applying a batch of code changes to the repository and taking it back,  *)
(* from src/src/core/evolution.py.                                         *)
(*                                                                         *)
(* apply_code_changes_to_root_async reads every target first (what it      *)
(* finds becomes the backup), then writes one file after the other, and on *)
(* an error writes the backups back in reverse order.  The backups of the  *)
(* last batch stay in the kernel's memory as code_change_backups, from     *)
(* which rollback_code_changes_async can take the batch back cycles later. *)
(* A write truncates the file before it fills it: two steps.  The          *)
(* experiments apply their candidates to workspaces, with no kernel; they  *)
(* are calls of the same handler on another tree and are not repeated.     *)
(* Contents are texts without carriage returns: read_text and write_text   *)
(* translate line ends (lines 170 and 304), so that a file with others     *)
(* would be compared, recorded and written back without them.              *)
(***************************************************************************)
EXTENDS Naturals, Sequences

CONSTANTS
  Paths,        \* the targets that a change may name
  Allowed,      \* those inside the root and inside the policy
  Contents,     \* what a change may write
  Batches,      \* the lists of changes that the engine may pass
  Absent,       \* no such file
  Torn,         \* a file whose write was interrupted
  None,         \* no entry, no file
  MaxCalls,     \* bound on the batches
  MaxFailures,  \* bound on the file-system calls that raise, and interrupts
  MaxEdits      \* bound on the changes others make between calls

Change == [path : Paths, content : Contents]

ASSUME ApplicationAssumption ==
  /\ Allowed \subseteq Paths
  /\ Batches \subseteq Seq(Change)
  /\ {Absent, Torn, None} \cap Contents = {} /\ None \notin Paths
  /\ Absent # Torn /\ Absent # None /\ Torn # None
  /\ MaxCalls \in Nat /\ MaxFailures \in Nat /\ MaxEdits \in Nat

VARIABLES
  tree,      \* path -> what the repository holds
  phase,     \* where the caller is
  batch,     \* the changes of the latest apply
  position,  \* index into the batch (preflight) or the plan (mutation)
  virtual,   \* virtual_content_by_path
  backups,   \* backups_by_path: Absent stands for "created"
  plan,      \* write_plan
  current,   \* the file that is being written
  record,    \* code_change_backups in the kernel's memory
  todo,      \* the entries rollback_code_changes_async still has to restore
  calls, failures, edits,
  before,    \* history: the tree when the latest call began
  base,      \* history: the tree before the batch the record belongs to
  intact     \* history: since then, only this module's completed calls wrote

callVars == <<batch, position, virtual, backups, plan>>
historyVars == <<before, base, intact>>
boundVars == <<calls, failures, edits>>
vars == <<tree, phase, callVars, current, record, todo, boundVars,
          historyVars>>

NoEntry == [p \in Paths |-> None]
File == Contents \cup {Torn}
Held == File \cup {Absent}

Returned == {"idle", "applied", "rejected", "unrepaired", "unread",
             "reverted", "revert_raised"}
Phases == Returned \cup {"preflight", "write", "repair", "revert"}

Entries(m) == {p \in Paths : m[p] # None}

Init ==
  /\ tree \in [Paths -> Contents \cup {Absent}]
  /\ phase = "idle"
  /\ batch = <<>> /\ position = 1 /\ plan = <<>>
  /\ virtual = NoEntry /\ backups = NoEntry /\ record = NoEntry
  /\ current = None /\ todo = {}
  /\ calls = 0 /\ failures = 0 /\ edits = 0
  /\ before = tree /\ base = tree /\ intact = TRUE

Fault == failures < MaxFailures /\ failures' = failures + 1

\* Between two calls an operator or a restore of a version changes a file.
Edit(p) ==
  /\ phase \in Returned /\ edits < MaxEdits
  /\ edits' = edits + 1
  /\ \E c \in (Contents \cup {Absent}) \ {tree[p]} :
       tree' = [tree EXCEPT ![p] = c]
  /\ phase' = "idle" /\ intact' = FALSE
  /\ UNCHANGED <<callVars, current, record, todo, calls, failures, before,
                 base>>

-----------------------------------------------------------------------------
(* apply_code_changes_to_root_async: the preflight *)

ApplyBegin(b) ==
  /\ phase \in Returned /\ calls < MaxCalls
  /\ calls' = calls + 1
  /\ phase' = "preflight" /\ batch' = b /\ position' = 1
  /\ virtual' = NoEntry /\ backups' = NoEntry /\ plan' = <<>>
  /\ before' = tree
  /\ UNCHANGED <<tree, current, record, todo, failures, edits, base, intact>>

\* What the target holds once the earlier changes of the batch are written.
Existing(p) == IF virtual[p] # None THEN virtual[p] ELSE tree[p]

Examines(change) ==
  /\ phase = "preflight" /\ position <= Len(batch)
  /\ change = batch[position]
  /\ position' = position + 1
  /\ UNCHANGED <<tree, phase, batch, current, record, todo, boundVars,
                 historyVars>>

\* Outside the root or the policy, or nothing to write.
Skip(change) ==
  /\ Examines(change)
  /\ change.path \notin Allowed \/ Existing(change.path) = change.content
  /\ UNCHANGED <<virtual, backups, plan>>

Plan(change) ==
  /\ Examines(change)
  /\ change.path \in Allowed /\ Existing(change.path) # change.content
  /\ virtual' = [virtual EXCEPT ![change.path] = change.content]
  /\ backups' = [backups EXCEPT ![change.path] =
                   IF @ = None THEN Existing(change.path) ELSE @]
  /\ plan' = Append(plan, change)

PreflightRaises ==
  /\ phase = "preflight" /\ position <= Len(batch) /\ Fault
  /\ phase' = "unread"
  /\ UNCHANGED <<tree, callVars, current, record, todo, calls, edits,
                 historyVars>>

PreflightEnds ==
  /\ phase = "preflight" /\ position > Len(batch)
  /\ phase' = "write" /\ position' = 1
  /\ UNCHANGED <<tree, batch, virtual, backups, plan, current, record, todo,
                 boundVars, historyVars>>

-----------------------------------------------------------------------------
(* ... the mutation *)

Truncates(p) == tree' = [tree EXCEPT ![p] = Torn] /\ current' = p

Fills(c) == tree' = [tree EXCEPT ![current] = c] /\ current' = None

WriteBegin ==
  /\ phase = "write" /\ current = None /\ position <= Len(plan)
  /\ Truncates(plan[position].path)
  /\ UNCHANGED <<phase, callVars, record, todo, boundVars, historyVars>>

WriteEnd ==
  /\ phase = "write" /\ current # None
  /\ Fills(plan[position].content)
  /\ position' = position + 1
  /\ UNCHANGED <<phase, batch, virtual, backups, plan, record, todo,
                 boundVars, historyVars>>

\* The path of the plan's i-th write is among the ones before it.
Repeated(i) == \E j \in 1..(i - 1) : plan[j].path = plan[i].path

\* rollback_targets: written_targets, then current_target unless it is there.
\* The loop goes through them from the last to the first.
WriteRaises ==
  /\ phase = "write" /\ position <= Len(plan) /\ Fault
  /\ phase' = "repair" /\ current' = None
  /\ position' = IF Repeated(position) THEN position - 1 ELSE position
  /\ UNCHANGED <<tree, batch, virtual, backups, plan, record, todo, calls,
                 edits, historyVars>>

\* Restoring a created file deletes it, if it is there.
Deletes(p) == tree' = [tree EXCEPT ![p] = Absent]

RepairDelete ==
  /\ phase = "repair" /\ current = None /\ position > 0
  /\ backups[plan[position].path] = Absent
  /\ Deletes(plan[position].path)
  /\ position' = position - 1
  /\ UNCHANGED <<phase, batch, virtual, backups, plan, current, record, todo,
                 boundVars, historyVars>>

RepairBegin ==
  /\ phase = "repair" /\ current = None /\ position > 0
  /\ backups[plan[position].path] # Absent
  /\ Truncates(plan[position].path)
  /\ UNCHANGED <<phase, callVars, record, todo, boundVars, historyVars>>

RepairEnd ==
  /\ phase = "repair" /\ current # None
  /\ Fills(backups[current])
  /\ position' = position - 1
  /\ UNCHANGED <<phase, batch, virtual, backups, plan, record, todo,
                 boundVars, historyVars>>

\* "... and rollback was unsuccessful"
RepairRaises ==
  /\ phase = "repair" /\ position > 0 /\ Fault
  /\ phase' = "unrepaired" /\ current' = None /\ intact' = FALSE
  /\ UNCHANGED <<tree, callVars, record, todo, calls, edits, before, base>>

RepairEnds ==
  /\ phase = "repair" /\ position = 0
  /\ phase' = "rejected"
  /\ UNCHANGED <<tree, callVars, current, record, todo, boundVars,
                 historyVars>>

\* Mutant of Returns: a batch with nothing to write clears the record.
ReturnsAlways ==
  /\ phase = "write" /\ current = None /\ position > Len(plan)
  /\ phase' = "applied"
  /\ record' = backups
  /\ UNCHANGED <<tree, callVars, current, todo, boundVars, historyVars>>

\* The batch is written.  The backups replace the record unless there are
\* none.
Returns ==
  /\ phase = "write" /\ current = None /\ position > Len(plan)
  /\ phase' = "applied"
  /\ \/ /\ Entries(backups) # {}
        /\ record' = backups /\ base' = before /\ intact' = TRUE
     \/ /\ Entries(backups) = {}
        /\ UNCHANGED <<record, base, intact>>
  /\ UNCHANGED <<tree, callVars, current, todo, boundVars, before>>

-----------------------------------------------------------------------------
(* rollback_code_changes_async: the entries in the order of their paths,   *)
(* which is any order here, and no handler for an error.                   *)

RevertBegin ==
  /\ phase \in Returned /\ Entries(record) # {}
  /\ phase' = "revert" /\ todo' = Entries(record) \cap Allowed
  /\ before' = tree
  /\ UNCHANGED <<tree, callVars, current, record, boundVars, base, intact>>

RevertDelete(p) ==
  /\ phase = "revert" /\ current = None /\ p \in todo
  /\ record[p] = Absent
  /\ Deletes(p)
  /\ todo' = todo \ {p}
  /\ UNCHANGED <<phase, callVars, current, record, boundVars, historyVars>>

RevertWriteBegin(p) ==
  /\ phase = "revert" /\ current = None /\ p \in todo
  /\ record[p] # Absent
  /\ Truncates(p)
  /\ UNCHANGED <<phase, callVars, record, todo, boundVars, historyVars>>

RevertWriteEnd ==
  /\ phase = "revert" /\ current # None
  /\ Fills(record[current])
  /\ todo' = todo \ {current}
  /\ UNCHANGED <<phase, callVars, record, boundVars, historyVars>>

\* The error propagates: the record stays, and a later call starts over.
RevertRaises ==
  /\ phase = "revert" /\ todo # {} /\ Fault
  /\ phase' = "revert_raised" /\ current' = None /\ todo' = {}
  /\ UNCHANGED <<tree, callVars, record, calls, edits, historyVars>>

RevertEnds ==
  /\ phase = "revert" /\ todo = {}
  /\ phase' = "reverted" /\ record' = NoEntry
  /\ UNCHANGED <<tree, callVars, current, todo, boundVars, historyVars>>

\* A cancellation is not an Exception: neither call has a handler for it.
Interrupt ==
  /\ phase \notin Returned /\ Fault
  /\ phase' = "idle" /\ current' = None /\ todo' = {}
  /\ intact' = (intact /\ phase \in {"preflight", "revert"})
  /\ UNCHANGED <<tree, callVars, record, calls, edits, before, base>>

Apply ==
  \/ \E change \in Change : Skip(change) \/ Plan(change)
  \/ PreflightEnds \/ WriteBegin \/ WriteEnd \/ Returns
  \/ RepairDelete \/ RepairBegin \/ RepairEnd \/ RepairEnds

Revert ==
  \/ \E p \in Paths : RevertDelete(p) \/ RevertWriteBegin(p)
  \/ RevertWriteEnd \/ RevertEnds

Failure ==
  PreflightRaises \/ WriteRaises \/ RepairRaises \/ RevertRaises \/ Interrupt

Call ==
  \/ \E p \in Paths : Edit(p)
  \/ \E b \in Batches : ApplyBegin(b)
  \/ RevertBegin

Next == Apply \/ Revert \/ Failure \/ Call

Spec == Init /\ [][Next]_vars

-----------------------------------------------------------------------------
TypeOK ==
  /\ tree \in [Paths -> Held]
  /\ phase \in Phases
  /\ batch \in Seq(Change) /\ plan \in Seq(Change) /\ position \in Nat
  /\ virtual \in [Paths -> Contents \cup {None}]
  /\ backups \in [Paths -> Held \cup {None}]
  /\ current \in Paths \cup {None}
  /\ record \in [Paths -> Held \cup {None}]
  /\ todo \subseteq Paths
  /\ calls \in 0..MaxCalls /\ failures \in 0..MaxFailures
  /\ edits \in 0..MaxEdits
  /\ before \in [Paths -> Held] /\ base \in [Paths -> Held]
  /\ intact \in BOOLEAN

\* "Failed to apply code changes atomically": whichever write raised, of
\* whichever repetition of a path, the tree is as it was before the batch.
FailedBatchLeavesNothing == phase = "rejected" => tree = before

\* c is what the last of the first n changes to p writes.
LastIs(changes, n, p, c) ==
  \E j \in 1..n :
    /\ changes[j] = [path |-> p, content |-> c]
    /\ \A k \in 1..n : k > j => changes[k].path # p

Names(changes, n, p) == \E j \in 1..n : changes[j].path = p

\* A batch that returned gave every permitted path the content of its last
\* change, though some writes were found unnecessary, and no other path
\* anything.
AppliedIsLastWrite ==
  phase = "applied" =>
    \A p \in Paths :
      IF p \in Allowed /\ Names(batch, Len(batch), p)
        THEN LastIs(batch, Len(batch), p, tree[p])
        ELSE tree[p] = before[p]

\* Taking the record back gives the tree from before the batch it belongs
\* to: after batches that failed or wrote nothing, and after attempts at it
\* that raised or were interrupted, unless something else changed the tree.
RevertRestores == phase = "reverted" /\ intact => tree = base

-----------------------------------------------------------------------------
(* The abstract specification: calls that take effect at once. *)

InCall == phase \in {"preflight", "write", "repair", "revert"}

Atomic == INSTANCE AtomicBatch WITH
  tree <- IF InCall THEN before ELSE tree,
  undo <- IF Entries(record) = {} THEN {} ELSE {base},
  disturbed <- ~intact

\* The caller sees whole batches and whole rollbacks: a part of one only
\* after an interrupt or an error that was reported as such.
IsAtomicBatch == Atomic!Spec
=============================================================================
