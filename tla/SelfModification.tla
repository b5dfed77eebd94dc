-------------------------- MODULE SelfModification --------------------------
(***************************************************************************)
(* How a cycle changes the repository it runs from, and takes the change   *)
(* back: SpiralEngine.step and SpiralEngine.evolve of                      *)
(* src/src/core/spiral_engine.py.                                          *)
(*                                                                         *)
(* A cycle whose evaluation raises an alarm takes the last batch back from *)
(* code_change_backups.  Otherwise it tries a batch in an experiment,      *)
(* snapshots the tree, applies the batch, evaluates the tree, and either   *)
(* makes a snapshot of it the last known good version or restores the one  *)
(* it has (the newest version when there is none).  The references to      *)
(* versions and the backups live in the kernel's memory, which reaches the *)
(* disk at the end of a cycle; the tree and the versions are on the disk   *)
(* at once, so a crash separates them.                                     *)
(*                                                                         *)
(* A version, a batch, a rollback and a restore are single steps here, and *)
(* leave a mixture when they fail or are cut short: what they do inside is *)
(* in Versioning and CodeApplication.                                      *)
(***************************************************************************)
EXTENDS Naturals, Sequences

CONSTANTS
  Paths, Contents,
  Batches,      \* the changes that a cycle may propose: path -> new content
  Absent,       \* no such file
  Torn,         \* part of a content
  None,         \* not changed, no entry
  MaxCycles,    \* bound on the cycles
  MaxFailures,  \* bound on the operations that fail and the crashes
  MaxEdits      \* bound on what the operator does between the cycles

Held == Contents \cup {Absent, Torn}
Trees == [Paths -> Held]
Unchanged == [p \in Paths |-> None]

ASSUME SelfModificationAssumption ==
  /\ Batches \subseteq [Paths -> Contents \cup {None}]
  /\ {None, Absent, Torn} \cap Contents = {}
  /\ None # Absent /\ None # Torn /\ Absent # Torn
  /\ MaxCycles \in Nat /\ MaxFailures \in Nat /\ MaxEdits \in Nat

VARIABLES
  tree,     \* path -> what the repository holds
  version,  \* the versions in the order of their timestamps
  pruned,   \* those whose directory the operator removed
  phase,    \* where the cycle is
  change,   \* the batch of the cycle
  outcome,  \* what this cycle wrote to last_code_changes_applied
  memory,   \* the kernel's memory, as far as it is used here
  saved,    \* the memory in the state file
  cycles, failures, edits,
  before,   \* history: the tree when evolve took its snapshot
  passed    \* history: the trees that a post-apply evaluation passed

boundVars == <<cycles, failures, edits>>
historyVars == <<before, passed>>
vars == <<tree, version, pruned, phase, change, outcome, memory, saved,
          boundVars, historyVars>>

\* lkg, pre: lkg_version_id and last_pre_apply_version_id, 0 for none;
\* backups: code_change_backups; failed: rollback_failed.
Memory == [lkg : Nat, pre : Nat, backups : [Paths -> Held \cup {None}],
           failed : BOOLEAN]

Outcomes == {"none", "rejected", "skipped", "no-op", "applied", "rolled_back"}
Phases == {"idle", "revert", "experiment", "snapshot", "apply", "evaluate",
           "promote", "restore_lkg", "restore_latest", "finish", "error"}

Init ==
  /\ tree \in Trees
  /\ version = <<>> /\ pruned = {}
  /\ phase = "idle" /\ change = Unchanged /\ outcome = "none"
  /\ memory = [lkg |-> 0, pre |-> 0, backups |-> Unchanged, failed |-> FALSE]
  /\ saved = memory
  /\ cycles = 0 /\ failures = 0 /\ edits = 0
  /\ before = tree /\ passed = {}

Fault == failures < MaxFailures /\ failures' = failures + 1

Overlay(new, old) == [p \in Paths |-> IF new[p] # None THEN new[p] ELSE old[p]]

\* Some of the files of new were written when the operation stopped; a copy
\* or a write that was cut short leaves a torn one.
Mixture(new) ==
  /\ tree' \in Trees
  /\ \A p \in Paths :
       \/ tree'[p] \in {tree[p], Overlay(new, tree)[p]}
       \/ tree'[p] = Torn /\ new[p] \notin {None, Absent}

\* A soft restore leaves the files alone that the version does not have.
Files(v) ==
  [p \in Paths |-> IF version[v][p] # Absent THEN version[v][p] ELSE None]

SoftRestored(v) == Overlay(Files(v), tree)

Available == DOMAIN version \ pruned

\* latest_version_async
IsLatest(v) == v \in Available /\ \A w \in Available : w <= v

-----------------------------------------------------------------------------
(* step: the decision to roll back *)

\* alarm: the alignment is at risk or the accuracy signal dropped.
CycleBegin(c, alarm) ==
  /\ phase = "idle" /\ cycles < MaxCycles
  /\ cycles' = cycles + 1
  /\ change' = c /\ outcome' = "none"
  /\ phase' = IF alarm /\ memory.backups # Unchanged THEN "revert"
              ELSE IF c # Unchanged THEN "experiment" ELSE "finish"
  /\ UNCHANGED <<tree, version, pruned, memory, saved, failures, edits,
                 historyVars>>

\* Mutant of Revert: the entry is set to null.
RevertSetsNull ==
  /\ phase = "revert"
  /\ tree' = Overlay(memory.backups, tree)
  /\ memory' = [memory EXCEPT !.backups = None]
  /\ change' = Unchanged /\ phase' = "finish"
  /\ UNCHANGED <<version, pruned, outcome, saved, boundVars, historyVars>>

\* The cycle proposes nothing after a rollback.
Revert ==
  /\ phase = "revert"
  /\ tree' = Overlay(memory.backups, tree)
  /\ memory' = [memory EXCEPT !.backups = Unchanged]
  /\ change' = Unchanged /\ phase' = "finish"
  /\ UNCHANGED <<version, pruned, outcome, saved, boundVars, before, passed>>

RevertRaises ==
  /\ phase = "revert" /\ Fault
  /\ Mixture(memory.backups)
  /\ phase' = "error"
  /\ UNCHANGED <<version, pruned, change, outcome, memory, saved, cycles,
                 edits, historyVars>>

-----------------------------------------------------------------------------
(* evolve *)

Rejected ==
  /\ phase = "experiment"
  /\ outcome' = "rejected" /\ phase' = "finish"
  /\ UNCHANGED <<tree, version, pruned, change, memory, saved, boundVars,
                 historyVars>>

Accepted ==
  /\ phase = "experiment"
  /\ phase' = "snapshot"
  /\ UNCHANGED <<tree, version, pruned, change, outcome, memory, saved,
                 boundVars, historyVars>>

Snapshot ==
  /\ phase = "snapshot"
  /\ version' = Append(version, tree)
  /\ memory' = [memory EXCEPT !.pre = Len(version) + 1]
  /\ before' = tree /\ phase' = "apply"
  /\ UNCHANGED <<tree, pruned, change, outcome, saved, boundVars, passed>>

\* No snapshot, no change.
SnapshotFails ==
  /\ phase = "snapshot" /\ Fault
  /\ outcome' = "skipped" /\ phase' = "finish"
  /\ UNCHANGED <<tree, version, pruned, change, memory, saved, cycles, edits,
                 historyVars>>

\* A change to what the file already holds is passed over (evolution.py 172).
Writes == [p \in Paths |-> IF change[p] = tree[p] THEN None ELSE change[p]]

Backups == [p \in Paths |-> IF Writes[p] = None THEN None ELSE tree[p]]

Apply ==
  /\ phase = "apply"
  /\ tree' = Overlay(change, tree)
  /\ \/ /\ tree' # tree
        /\ memory' = [memory EXCEPT !.backups = Backups]
        /\ phase' = "evaluate" /\ UNCHANGED outcome
     \/ /\ tree' = tree
        /\ outcome' = "no-op" /\ phase' = "finish" /\ UNCHANGED memory
  /\ UNCHANGED <<version, pruned, change, saved, boundVars, before, passed>>

\* CodeApplicationError: the tree is as it was, or could not be repaired.
ApplyRaises ==
  /\ phase = "apply" /\ Fault
  /\ Mixture(Writes)
  /\ phase' = "error"
  /\ UNCHANGED <<version, pruned, change, outcome, memory, saved, cycles,
                 edits, historyVars>>

\* evaluate(REPO_ROOT) and _detect_post_apply_degradation
EvaluatePasses ==
  /\ phase = "evaluate"
  /\ passed' = passed \cup {tree} /\ phase' = "promote"
  /\ UNCHANGED <<tree, version, pruned, change, outcome, memory, saved,
                 boundVars, before>>

EvaluateDegrades ==
  /\ phase = "evaluate"
  /\ phase' = IF memory.lkg \in Available THEN "restore_lkg"
                                         ELSE "restore_latest"
  /\ UNCHANGED <<tree, version, pruned, change, outcome, memory, saved,
                 boundVars, historyVars>>

\* Mutant of Promote: the version before the batch becomes the good one.
PromotePreApply ==
  /\ phase = "promote"
  /\ version' = Append(version, tree)
  /\ memory' = [memory EXCEPT !.lkg = memory.pre]
  /\ outcome' = "applied" /\ phase' = "finish"
  /\ UNCHANGED <<tree, pruned, change, saved, boundVars, historyVars>>

Promote ==
  /\ phase = "promote"
  /\ version' = Append(version, tree)
  /\ memory' = [memory EXCEPT !.lkg = Len(version) + 1]
  /\ outcome' = "applied" /\ phase' = "finish"
  /\ UNCHANGED <<tree, pruned, change, saved, boundVars, historyVars>>

\* The experiment, evaluate or create_version raises out of the cycle.
Raises ==
  /\ phase \in {"experiment", "evaluate", "promote"} /\ Fault
  /\ phase' = "error"
  /\ UNCHANGED <<tree, version, pruned, change, outcome, memory, saved,
                 cycles, edits, historyVars>>

RolledBack(v) ==
  /\ tree' = SoftRestored(v)
  /\ memory' = [memory EXCEPT !.failed = FALSE]
  /\ outcome' = "rolled_back" /\ phase' = "finish"
  /\ UNCHANGED <<version, pruned, change, saved, boundVars, historyVars>>

RestoreLkg == phase = "restore_lkg" /\ RolledBack(memory.lkg)

RestoreLkgFails ==
  /\ phase = "restore_lkg" /\ Fault
  /\ Mixture(Files(memory.lkg))
  /\ phase' = "restore_latest"
  /\ UNCHANGED <<version, pruned, change, outcome, memory, saved, cycles,
                 edits, historyVars>>

\* Mutant of RestoreLatest: the versions are sorted the other way round.
RestoreOldest ==
  /\ phase = "restore_latest"
  /\ \E v \in Available : (\A w \in Available : v <= w) /\ RolledBack(v)

RestoreLatest ==
  phase = "restore_latest" /\ \E v \in Available : IsLatest(v) /\ RolledBack(v)

\* Mutant of RestoreLatestFails: the failure is not recorded.
RestoreLatestFailsUnnoticed ==
  /\ phase = "restore_latest" /\ Fault
  /\ \E v \in Available : IsLatest(v) /\ Mixture(Files(v))
  /\ outcome' = "applied" /\ phase' = "finish"
  /\ UNCHANGED <<version, pruned, change, memory, saved, cycles, edits,
                 historyVars>>

\* The change stays and is reported as applied.
RestoreLatestFails ==
  /\ phase = "restore_latest" /\ Fault
  /\ \E v \in Available : IsLatest(v) /\ Mixture(Files(v))
  /\ memory' = [memory EXCEPT !.failed = TRUE]
  /\ outcome' = "applied" /\ phase' = "finish"
  /\ UNCHANGED <<version, pruned, change, saved, cycles, edits, historyVars>>

-----------------------------------------------------------------------------
(* _run_main: the state is saved after a cycle and after an error *)

Save ==
  /\ phase \in {"finish", "error"}
  /\ saved' = memory /\ phase' = "idle"
  /\ UNCHANGED <<tree, version, pruned, change, outcome, memory, boundVars,
                 historyVars>>

\* save_state raises; the loop goes on with the memory it has.
SaveRaises ==
  /\ phase = "finish" /\ Fault
  /\ phase' = "error"
  /\ UNCHANGED <<tree, version, pruned, change, outcome, memory, saved,
                 cycles, edits, historyVars>>

\* The process ends; the next one loads the state file.
Crash ==
  /\ Fault
  /\ phase' = "idle" /\ memory' = saved
  /\ version' \in {version, Append(version, tree)}
  /\ version' # version => phase \in {"snapshot", "promote"}
  /\ CASE phase = "revert" -> Mixture(memory.backups)
       [] phase = "apply" -> Mixture(Writes)
       [] phase = "restore_lkg" -> Mixture(Files(memory.lkg))
       [] phase = "restore_latest" ->
            \E v \in Available : IsLatest(v) /\ Mixture(Files(v))
       [] OTHER -> UNCHANGED tree
  /\ UNCHANGED <<pruned, change, outcome, saved, cycles, edits, historyVars>>

-----------------------------------------------------------------------------
(* The operator, between two cycles *)

Operates ==
  /\ phase = "idle" /\ edits < MaxEdits /\ edits' = edits + 1
  /\ UNCHANGED <<version, phase, change, outcome, memory, saved, cycles,
                 failures, before, passed>>

Edit(p) ==
  /\ Operates
  /\ \E c \in Held \ {tree[p]} : tree' = [tree EXCEPT ![p] = c]
  /\ UNCHANGED pruned

\* --rollback, without and with --hard-restore
OperatorRestore(v) ==
  /\ Operates /\ v \in Available
  /\ tree' \in {SoftRestored(v), version[v]}
  /\ UNCHANGED pruned

Prune(v) ==
  /\ Operates /\ v \in Available
  /\ pruned' = pruned \cup {v}
  /\ UNCHANGED tree

Next ==
  \/ \E c \in Batches \cup {Unchanged}, alarm \in BOOLEAN : CycleBegin(c, alarm)
  \/ Revert \/ RevertRaises
  \/ Rejected \/ Accepted \/ Snapshot \/ SnapshotFails \/ Apply \/ ApplyRaises
  \/ EvaluatePasses \/ EvaluateDegrades \/ Promote \/ Raises
  \/ RestoreLkg \/ RestoreLkgFails \/ RestoreLatest \/ RestoreLatestFails
  \/ Save \/ SaveRaises \/ Crash
  \/ \E p \in Paths : Edit(p)
  \/ \E v \in Available : OperatorRestore(v) \/ Prune(v)

Spec == Init /\ [][Next]_vars

-----------------------------------------------------------------------------
TypeOK ==
  /\ tree \in Trees /\ version \in Seq(Trees)
  /\ pruned \subseteq DOMAIN version
  /\ phase \in Phases /\ outcome \in Outcomes
  /\ change \in [Paths -> Contents \cup {None}]
  /\ memory \in Memory /\ saved \in Memory
  /\ cycles \in 0..MaxCycles /\ failures \in 0..MaxFailures
  /\ edits \in 0..MaxEdits
  /\ before \in Trees /\ passed \subseteq Trees

\* The last known good version, of the running process and of the one that
\* loads the state file after a crash, is there and holds a tree that passed
\* a post-apply evaluation.
LkgPassed ==
  \A m \in {memory, saved} :
    m.lkg # 0 => m.lkg \in DOMAIN version /\ version[m.lkg] \in passed

\* When the cycle changes the repository, the newest version holds the tree
\* that is about to be changed, and the memory names it.
AppliedHasSnapshot ==
  [][phase = "apply" /\ tree' # tree =>
       IsLatest(memory.pre) /\ version[memory.pre] = tree]_vars

\* A restore of the newest version, though it comes after a restore of the
\* last known good one that stopped half way, gives every file back that
\* was there before the batch.
FallbackUndoes ==
  [][phase = "restore_latest" /\ outcome' = "rolled_back" =>
       \A p \in Paths : before[p] # Absent => tree'[p] = before[p]]_vars

\* A cycle that reports its change as applied left a tree that passed, or
\* the record of a failed rollback.
AppliedPassedOrFlagged ==
  phase = "finish" /\ outcome = "applied" => tree \in passed \/ memory.failed
=============================================================================
