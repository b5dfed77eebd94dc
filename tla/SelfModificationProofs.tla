----------------------- MODULE SelfModificationProofs -----------------------
(***************************************************************************)
(* What a cycle that changes its own repository can rely on, for every set *)
(* of files and batches and any number of cycles, failures, crashes and    *)
(* actions of the operator.                                                *)
(***************************************************************************)
EXTENDS SelfModification, TLAPS

\* From its snapshot to its outcome a cycle can get back to where it was:
\* the newest version holds the tree from before the batch.
Recoverable ==
  phase \in {"apply", "evaluate", "promote", "restore_lkg", "restore_latest"} =>
    IsLatest(memory.pre) /\ version[memory.pre] = before

\* What the phase says of the tree and of the versions.
Phased ==
  /\ phase = "apply" => tree = before
  /\ phase = "promote" => tree \in passed
  /\ phase = "restore_lkg" => memory.lkg \in DOMAIN version
  /\ phase \notin {"finish", "idle", "error"} => outcome = "none"

IInv == TypeOK /\ LkgPassed /\ Recoverable /\ Phased /\ AppliedPassedOrFlagged

\* A new version comes after the others and leaves them as they are.
LEMMA NewVersion ==
  ASSUME TypeOK, version' = Append(version, tree)
  PROVE  /\ version' \in Seq(Trees)
         /\ DOMAIN version = 1..Len(version) /\ Len(version) \in Nat
         /\ DOMAIN version' = 1..(Len(version) + 1)
         /\ version'[Len(version) + 1] = tree
         /\ \A v \in DOMAIN version : version'[v] = version[v]
  <1>1. version \in Seq(Trees) /\ tree \in Trees
    BY DEF TypeOK
  <1> QED
    BY <1>1

\* So does a process that ends while it makes one.
LEMMA KeepsVersions ==
  ASSUME TypeOK, version' \in {version, Append(version, tree)}
  PROVE  /\ version' \in Seq(Trees)
         /\ DOMAIN version \subseteq DOMAIN version'
         /\ \A v \in DOMAIN version : version'[v] = version[v]
  <1>1. CASE version' = version
    BY <1>1 DEF TypeOK
  <1>2. CASE version' = Append(version, tree)
    BY <1>2, NewVersion
  <1> QED
    BY <1>1, <1>2

\* What a mixture or an overlay of trees holds.
LEMMA Overlays ==
  ASSUME NEW new \in [Paths -> Held \cup {None}], NEW old \in Trees
  PROVE  Overlay(new, old) \in Trees
  BY SelfModificationAssumption DEF Overlay, Trees

LEMMA Restores ==
  ASSUME TypeOK, NEW v \in DOMAIN version
  PROVE  SoftRestored(v) \in Trees
  <1>1. version[v] \in Trees
    BY DEF TypeOK
  <1> QED
    BY <1>1 DEF TypeOK, SoftRestored, Files, Overlay, Trees

\* The invariant holds at the start.
LEMMA InitInv == Init => IInv
  <1> SUFFICES ASSUME Init PROVE IInv
    OBVIOUS
  <1>1. Unchanged \in [Paths -> Contents \cup {None}]
    BY DEF Unchanged
  <1>2. memory \in Memory
    BY <1>1 DEF Init, Memory, Held, Unchanged
  <1>3. Unchanged \in [Paths -> Held \cup {None}]
    BY DEF Unchanged
  <1>4. version \in Seq(Trees) /\ DOMAIN version = {}
    BY DEF Init
  <1>5. TypeOK
    BY <1>1, <1>2, <1>3, <1>4, SelfModificationAssumption
    DEF Init, TypeOK, Phases, Outcomes
  <1> QED
    BY <1>5 DEF Init, IInv, LkgPassed, Recoverable, Phased, AppliedPassedOrFlagged

\* Every step keeps the types.
LEMMA TypeStep ==
  ASSUME IInv, [Next]_vars
  PROVE  TypeOK'
  <1>1. ASSUME UNCHANGED <<vars>>
       PROVE  TypeOK'
    BY <1>1 DEF IInv, TypeOK, vars, boundVars, historyVars
  <1>2. ASSUME NEW c \in Batches \cup {Unchanged}, NEW alarm \in BOOLEAN, CycleBegin(c, alarm)
       PROVE  TypeOK'
    BY <1>2, SelfModificationAssumption DEF CycleBegin, IInv, TypeOK,
       Phases, Outcomes, Unchanged, boundVars, historyVars
  <1>3. ASSUME Revert
       PROVE  TypeOK'
    <2>1. memory.backups \in [Paths -> Held \cup {None}] /\ tree \in Trees
      BY DEF IInv, TypeOK, Memory
    <2>2. tree' \in Trees /\ Unchanged \in [Paths -> Held \cup {None}]
      BY <1>3, <2>1, Overlays DEF Revert, Unchanged
    <2>3. memory' \in Memory /\ change' \in [Paths -> Contents \cup {None}]
      BY <1>3, <2>2 DEF Revert, Memory, IInv, TypeOK, Unchanged
    <2> QED
      BY <1>3, <2>2, <2>3 DEF Revert, IInv, TypeOK, Phases, boundVars
  <1>4. ASSUME RevertRaises
       PROVE  TypeOK'
    BY <1>4, SelfModificationAssumption DEF RevertRaises, IInv, TypeOK,
       Mixture, Fault, Phases, historyVars
  <1>5. ASSUME ApplyRaises
       PROVE  TypeOK'
    BY <1>5, SelfModificationAssumption DEF ApplyRaises, IInv, TypeOK,
       Mixture, Fault, Phases, historyVars
  <1>6. ASSUME Rejected
       PROVE  TypeOK'
    BY <1>6, SelfModificationAssumption DEF Rejected, IInv, TypeOK, Fault,
       Phases, Outcomes, boundVars, historyVars
  <1>7. ASSUME Accepted
       PROVE  TypeOK'
    BY <1>7, SelfModificationAssumption DEF Accepted, IInv, TypeOK, Fault,
       Phases, Outcomes, boundVars, historyVars
  <1>8. ASSUME EvaluateDegrades
       PROVE  TypeOK'
    BY <1>8, SelfModificationAssumption DEF EvaluateDegrades, IInv, TypeOK,
       Fault, Phases, Outcomes, boundVars, historyVars
  <1>9. ASSUME SaveRaises
       PROVE  TypeOK'
    BY <1>9, SelfModificationAssumption DEF SaveRaises, IInv, TypeOK, Fault,
       Phases, Outcomes, boundVars, historyVars
  <1>10. ASSUME Raises
       PROVE  TypeOK'
    BY <1>10, SelfModificationAssumption DEF Raises, IInv, TypeOK, Fault,
       Phases, Outcomes, boundVars, historyVars
  <1>11. ASSUME SnapshotFails
       PROVE  TypeOK'
    BY <1>11, SelfModificationAssumption DEF SnapshotFails, IInv, TypeOK,
       Fault, Phases, Outcomes, boundVars, historyVars
  <1>12. ASSUME Snapshot
       PROVE  TypeOK'
    <2>1. /\ version' \in Seq(Trees) /\ DOMAIN version \subseteq DOMAIN version'
          /\ Len(version) \in Nat
      BY <1>12, NewVersion DEF Snapshot, IInv
    <2> DEFINE n == Len(version) + 1
    <2>3. n \in Nat
      BY <2>1
    <2>4. memory' = [memory EXCEPT !.pre = n]
      BY <1>12 DEF Snapshot
    <2>2. memory' \in Memory
      <3> HIDE DEF n
      <3> QED
        BY <2>3, <2>4 DEF IInv, TypeOK, Memory
    <2> QED
      BY <1>12, <2>1, <2>2 DEF Snapshot, IInv, TypeOK, Phases, Outcomes, boundVars,
         historyVars
  <1>13. ASSUME Promote
       PROVE  TypeOK'
    <2>1. /\ version' \in Seq(Trees) /\ DOMAIN version \subseteq DOMAIN version'
          /\ Len(version) \in Nat
      BY <1>13, NewVersion DEF Promote, IInv
    <2> DEFINE n == Len(version) + 1
    <2>3. n \in Nat
      BY <2>1
    <2>4. memory' = [memory EXCEPT !.lkg = n]
      BY <1>13 DEF Promote
    <2>2. memory' \in Memory
      <3> HIDE DEF n
      <3> QED
        BY <2>3, <2>4 DEF IInv, TypeOK, Memory
    <2> QED
      BY <1>13, <2>1, <2>2 DEF Promote, IInv, TypeOK, Phases, Outcomes, boundVars,
         historyVars
  <1>14. ASSUME Apply
       PROVE  TypeOK'
    <2>1. Overlay(change, tree) \in Trees
      BY Overlays DEF IInv, TypeOK, Held
    <2>2. Backups \in [Paths -> Held \cup {None}]
      BY DEF Backups, Writes, IInv, TypeOK, Trees
    <2>3. memory' \in Memory
      BY <1>14, <2>2 DEF Apply, IInv, TypeOK, Memory
    <2> QED
      BY <1>14, <2>1, <2>3
      DEF Apply, IInv, TypeOK, Phases, Outcomes, boundVars
  <1>15. ASSUME EvaluatePasses
       PROVE  TypeOK'
    BY <1>15 DEF EvaluatePasses, IInv, TypeOK, Phases, boundVars,
       historyVars
  <1>16. ASSUME RestoreLkg
       PROVE  TypeOK'
    <2>1. tree' \in Trees
      BY <1>16, Restores DEF RestoreLkg, RolledBack, IInv, Phased
    <2>2. memory' \in Memory
      BY <1>16 DEF RestoreLkg, RolledBack, IInv, TypeOK, Memory
    <2> QED
      BY <1>16, <2>1, <2>2
      DEF RestoreLkg, RolledBack, IInv, TypeOK, Phases, Outcomes, boundVars,
          historyVars
  <1>17. ASSUME RestoreLatest
       PROVE  TypeOK'
    <2>1. tree' \in Trees
      BY <1>17, Restores DEF RestoreLatest, RolledBack, Available, IInv
    <2>2. memory' \in Memory
      BY <1>17 DEF RestoreLatest, RolledBack, IInv, TypeOK, Memory
    <2> QED
      BY <1>17, <2>1, <2>2
      DEF RestoreLatest, RolledBack, IInv, TypeOK, Phases, Outcomes,
          boundVars, historyVars
  <1>18. ASSUME RestoreLkgFails
       PROVE  TypeOK'
    BY <1>18, SelfModificationAssumption DEF RestoreLkgFails, IInv, TypeOK,
       Mixture, Fault, Phases, historyVars
  <1>19. ASSUME RestoreLatestFails
       PROVE  TypeOK'
    <2>1. memory' \in Memory
      BY <1>19 DEF RestoreLatestFails, IInv, TypeOK, Memory
    <2> QED
      BY <1>19, <2>1, SelfModificationAssumption
      DEF RestoreLatestFails, Mixture, Fault, IInv, TypeOK, Phases, Outcomes,
          historyVars
  <1>20. ASSUME Save
       PROVE  TypeOK'
    BY <1>20 DEF Save, IInv, TypeOK, Phases, boundVars, historyVars
  <1>21. ASSUME Crash
       PROVE  TypeOK'
    <2>1. tree' \in Trees
      BY <1>21 DEF Crash, Mixture, IInv, TypeOK
    <2>2. version' \in Seq(Trees) /\ DOMAIN version \subseteq DOMAIN version'
      BY <1>21, KeepsVersions DEF Crash, IInv
    <2> QED
      BY <1>21, <2>1, <2>2, SelfModificationAssumption
      DEF Crash, Fault, IInv, TypeOK, Phases, historyVars
  <1>22. ASSUME NEW p \in Paths, Edit(p)
       PROVE  TypeOK'
    <2>1. tree' \in Trees
      BY <1>22 DEF Edit, IInv, TypeOK, Trees
    <2> QED
      BY <1>22, <2>1, SelfModificationAssumption
      DEF Edit, Operates, IInv, TypeOK
  <1>23. ASSUME NEW v \in Available, OperatorRestore(v)
       PROVE  TypeOK'
    <2>1. tree' \in Trees
      BY <1>23, Restores DEF OperatorRestore, Available, IInv, TypeOK
    <2> QED
      BY <1>23, <2>1, SelfModificationAssumption
      DEF OperatorRestore, Operates, IInv, TypeOK
  <1>24. ASSUME NEW v \in Available, Prune(v)
       PROVE  TypeOK'
    BY <1>24, SelfModificationAssumption DEF Prune, IInv, TypeOK, Operates,
       Available
  <1> QED
    BY <1>1, <1>2, <1>3, <1>4, <1>5, <1>6, <1>7, <1>8, <1>9, <1>10, <1>11,
       <1>12, <1>13, <1>14, <1>15, <1>16, <1>17, <1>18, <1>19, <1>20, <1>21,
       <1>22, <1>23, <1>24
    DEF Next, RolledBack, Operates, vars, boundVars, historyVars

\* The last known good version keeps holding a tree that passed.
LEMMA LkgStep ==
  ASSUME IInv, [Next]_vars
  PROVE  LkgPassed'
  <1>1. ASSUME UNCHANGED <<version, memory, saved, passed>>
       PROVE  LkgPassed'
    BY <1>1 DEF IInv, LkgPassed
  <1>2. ASSUME Revert
       PROVE  LkgPassed'
    BY <1>2 DEF Revert, IInv, LkgPassed, TypeOK, Memory, RolledBack,
       boundVars, historyVars
  <1>3. ASSUME RestoreLkg
       PROVE  LkgPassed'
    BY <1>3 DEF RestoreLkg, IInv, LkgPassed, TypeOK, Memory, RolledBack,
       boundVars, historyVars
  <1>4. ASSUME RestoreLatest
       PROVE  LkgPassed'
    BY <1>4 DEF RestoreLatest, IInv, LkgPassed, TypeOK, Memory, RolledBack,
       boundVars, historyVars
  <1>5. ASSUME RestoreLatestFails
       PROVE  LkgPassed'
    BY <1>5 DEF RestoreLatestFails, IInv, LkgPassed, TypeOK, Memory,
       RolledBack, boundVars, historyVars
  <1>6. ASSUME Snapshot
       PROVE  LkgPassed'
    BY <1>6, NewVersion DEF Snapshot, IInv, LkgPassed, TypeOK, Memory,
       boundVars, historyVars
  <1>7. ASSUME Promote
       PROVE  LkgPassed'
    BY <1>7, NewVersion DEF Promote, IInv, LkgPassed, TypeOK, Memory,
       Phased, boundVars, historyVars
  <1>8. ASSUME Apply
       PROVE  LkgPassed'
    BY <1>8 DEF Apply, IInv, LkgPassed, TypeOK, Memory, boundVars,
       historyVars
  <1>9. ASSUME EvaluatePasses
       PROVE  LkgPassed'
    BY <1>9 DEF EvaluatePasses, IInv, LkgPassed, boundVars, historyVars
  <1>10. ASSUME Save
       PROVE  LkgPassed'
    BY <1>10 DEF Save, IInv, LkgPassed, boundVars, historyVars
  <1>11. ASSUME Crash
       PROVE  LkgPassed'
    BY <1>11, KeepsVersions DEF Crash, IInv, LkgPassed, TypeOK, boundVars,
       historyVars
  <1> QED
    BY <1>1, <1>2, <1>3, <1>4, <1>5, <1>6, <1>7, <1>8, <1>9, <1>10, <1>11
    DEF Next, CycleBegin, RevertRaises, Rejected, Accepted, SnapshotFails,
        ApplyRaises, EvaluateDegrades, Raises, RestoreLkgFails, SaveRaises,
        Edit, OperatorRestore, Prune, RolledBack, Operates, vars, boundVars,
        historyVars

\* The way back stays the newest version until the cycle has its outcome.
LEMMA RecoverableStep ==
  ASSUME IInv, [Next]_vars
  PROVE  Recoverable'
  <1>1. ASSUME UNCHANGED <<version, pruned, memory, phase, before>>
       PROVE  Recoverable'
    BY <1>1 DEF IInv, Recoverable, IsLatest, Available
  <1>2. ASSUME NEW c \in Batches \cup {Unchanged}, NEW alarm \in BOOLEAN, CycleBegin(c, alarm)
       PROVE  Recoverable'
    BY <1>2 DEF CycleBegin, IInv, Recoverable, RolledBack
  <1>3. ASSUME Revert
       PROVE  Recoverable'
    BY <1>3 DEF Revert, IInv, Recoverable, RolledBack
  <1>4. ASSUME RevertRaises
       PROVE  Recoverable'
    BY <1>4 DEF RevertRaises, IInv, Recoverable, RolledBack
  <1>5. ASSUME Rejected
       PROVE  Recoverable'
    BY <1>5 DEF Rejected, IInv, Recoverable, RolledBack
  <1>6. ASSUME Accepted
       PROVE  Recoverable'
    BY <1>6 DEF Accepted, IInv, Recoverable, RolledBack
  <1>7. ASSUME SnapshotFails
       PROVE  Recoverable'
    BY <1>7 DEF SnapshotFails, IInv, Recoverable, RolledBack
  <1>8. ASSUME ApplyRaises
       PROVE  Recoverable'
    BY <1>8 DEF ApplyRaises, IInv, Recoverable, RolledBack
  <1>9. ASSUME Raises
       PROVE  Recoverable'
    BY <1>9 DEF Raises, IInv, Recoverable, RolledBack
  <1>10. ASSUME Promote
       PROVE  Recoverable'
    BY <1>10 DEF Promote, IInv, Recoverable, RolledBack
  <1>11. ASSUME RestoreLkg
       PROVE  Recoverable'
    BY <1>11 DEF RestoreLkg, IInv, Recoverable, RolledBack
  <1>12. ASSUME RestoreLatest
       PROVE  Recoverable'
    BY <1>12 DEF RestoreLatest, IInv, Recoverable, RolledBack
  <1>13. ASSUME RestoreLatestFails
       PROVE  Recoverable'
    BY <1>13 DEF RestoreLatestFails, IInv, Recoverable, RolledBack
  <1>14. ASSUME Save
       PROVE  Recoverable'
    BY <1>14 DEF Save, IInv, Recoverable, RolledBack
  <1>15. ASSUME SaveRaises
       PROVE  Recoverable'
    BY <1>15 DEF SaveRaises, IInv, Recoverable, RolledBack
  <1>16. ASSUME Crash
       PROVE  Recoverable'
    BY <1>16 DEF Crash, IInv, Recoverable, RolledBack
  <1>17. ASSUME Snapshot
       PROVE  Recoverable'
    BY <1>17, NewVersion DEF Snapshot, IInv, Recoverable, IsLatest,
       Available, TypeOK, Memory
  <1>18. ASSUME Apply
       PROVE  Recoverable'
    BY <1>18 DEF Apply, IInv, Recoverable, IsLatest, Available, TypeOK,
       Memory, boundVars, historyVars
  <1>19. ASSUME EvaluatePasses
       PROVE  Recoverable'
    BY <1>19 DEF EvaluatePasses, IInv, Recoverable, IsLatest, Available,
       TypeOK, Memory, boundVars, historyVars
  <1>20. ASSUME EvaluateDegrades
       PROVE  Recoverable'
    BY <1>20 DEF EvaluateDegrades, IInv, Recoverable, IsLatest, Available,
       TypeOK, Memory, boundVars, historyVars
  <1>21. ASSUME RestoreLkgFails
       PROVE  Recoverable'
    BY <1>21 DEF RestoreLkgFails, IInv, Recoverable, IsLatest, Available,
       TypeOK, Memory, boundVars, historyVars
  <1>22. ASSUME NEW p \in Paths, Edit(p)
       PROVE  Recoverable'
    BY <1>22 DEF Edit, IInv, Recoverable, Operates
  <1>23. ASSUME NEW v \in Available, OperatorRestore(v)
       PROVE  Recoverable'
    BY <1>23 DEF OperatorRestore, IInv, Recoverable, Operates
  <1>24. ASSUME NEW v \in Available, Prune(v)
       PROVE  Recoverable'
    BY <1>24 DEF Prune, IInv, Recoverable, Operates
  <1> QED
    BY <1>1, <1>2, <1>3, <1>4, <1>5, <1>6, <1>7, <1>8, <1>9, <1>10, <1>11,
       <1>12, <1>13, <1>14, <1>15, <1>16, <1>17, <1>18, <1>19, <1>20, <1>21,
       <1>22, <1>23, <1>24
    DEF Next, RolledBack, Operates, vars, boundVars, historyVars

\* Each phase is entered with what it relies on.
LEMMA PhasedStep ==
  ASSUME IInv, [Next]_vars
  PROVE  Phased'
  <1>1. ASSUME UNCHANGED <<version, memory, phase, outcome, before, tree,
         passed>>
       PROVE  Phased'
    BY <1>1 DEF IInv, Phased
  <1>2. ASSUME NEW c \in Batches \cup {Unchanged}, NEW alarm \in BOOLEAN, CycleBegin(c, alarm)
       PROVE  Phased'
    BY <1>2 DEF CycleBegin, IInv, Phased, RolledBack
  <1>3. ASSUME Revert
       PROVE  Phased'
    BY <1>3 DEF Revert, IInv, Phased, RolledBack
  <1>4. ASSUME RevertRaises
       PROVE  Phased'
    BY <1>4 DEF RevertRaises, IInv, Phased, RolledBack
  <1>5. ASSUME Rejected
       PROVE  Phased'
    BY <1>5 DEF Rejected, IInv, Phased, RolledBack
  <1>6. ASSUME Accepted
       PROVE  Phased'
    BY <1>6 DEF Accepted, IInv, Phased, RolledBack
  <1>7. ASSUME Snapshot
       PROVE  Phased'
    BY <1>7 DEF Snapshot, IInv, Phased, RolledBack
  <1>8. ASSUME SnapshotFails
       PROVE  Phased'
    BY <1>8 DEF SnapshotFails, IInv, Phased, RolledBack
  <1>9. ASSUME Apply
       PROVE  Phased'
    BY <1>9 DEF Apply, IInv, Phased, RolledBack
  <1>10. ASSUME ApplyRaises
       PROVE  Phased'
    BY <1>10 DEF ApplyRaises, IInv, Phased, RolledBack
  <1>11. ASSUME Raises
       PROVE  Phased'
    BY <1>11 DEF Raises, IInv, Phased, RolledBack
  <1>12. ASSUME Promote
       PROVE  Phased'
    BY <1>12 DEF Promote, IInv, Phased, RolledBack
  <1>13. ASSUME RestoreLkg
       PROVE  Phased'
    BY <1>13 DEF RestoreLkg, IInv, Phased, RolledBack
  <1>14. ASSUME RestoreLkgFails
       PROVE  Phased'
    BY <1>14 DEF RestoreLkgFails, IInv, Phased, RolledBack
  <1>15. ASSUME RestoreLatest
       PROVE  Phased'
    BY <1>15 DEF RestoreLatest, IInv, Phased, RolledBack
  <1>16. ASSUME RestoreLatestFails
       PROVE  Phased'
    BY <1>16 DEF RestoreLatestFails, IInv, Phased, RolledBack
  <1>17. ASSUME Save
       PROVE  Phased'
    BY <1>17 DEF Save, IInv, Phased, RolledBack
  <1>18. ASSUME SaveRaises
       PROVE  Phased'
    BY <1>18 DEF SaveRaises, IInv, Phased, RolledBack
  <1>19. ASSUME Crash
       PROVE  Phased'
    BY <1>19 DEF Crash, IInv, Phased, RolledBack
  <1>20. ASSUME EvaluatePasses
       PROVE  Phased'
    BY <1>20 DEF EvaluatePasses, IInv, Phased, RolledBack
  <1>21. ASSUME EvaluateDegrades
       PROVE  Phased'
    BY <1>21 DEF EvaluateDegrades, IInv, Phased, Available
  <1>22. ASSUME NEW p \in Paths, Edit(p)
       PROVE  Phased'
    BY <1>22 DEF Edit, IInv, Phased, Operates
  <1>23. ASSUME NEW v \in Available, OperatorRestore(v)
       PROVE  Phased'
    BY <1>23 DEF OperatorRestore, IInv, Phased, Operates
  <1>24. ASSUME NEW v \in Available, Prune(v)
       PROVE  Phased'
    BY <1>24 DEF Prune, IInv, Phased, Operates
  <1> QED
    BY <1>1, <1>2, <1>3, <1>4, <1>5, <1>6, <1>7, <1>8, <1>9, <1>10, <1>11,
       <1>12, <1>13, <1>14, <1>15, <1>16, <1>17, <1>18, <1>19, <1>20, <1>21,
       <1>22, <1>23, <1>24
    DEF Next, RolledBack, Operates, vars, boundVars, historyVars

\* A change is reported as applied when it passed or the failure is recorded.
LEMMA AppliedStep ==
  ASSUME IInv, [Next]_vars
  PROVE  AppliedPassedOrFlagged'
  <1>1. ASSUME UNCHANGED <<memory, phase, outcome, tree, passed>>
       PROVE  AppliedPassedOrFlagged'
    BY <1>1 DEF IInv, AppliedPassedOrFlagged
  <1>2. ASSUME NEW c \in Batches \cup {Unchanged}, NEW alarm \in BOOLEAN, CycleBegin(c, alarm)
       PROVE  AppliedPassedOrFlagged'
    BY <1>2 DEF CycleBegin, IInv, AppliedPassedOrFlagged, RolledBack,
       Outcomes, TypeOK, Phased
  <1>3. ASSUME Revert
       PROVE  AppliedPassedOrFlagged'
    BY <1>3 DEF Revert, IInv, AppliedPassedOrFlagged, RolledBack, Outcomes,
       TypeOK, Phased
  <1>4. ASSUME RevertRaises
       PROVE  AppliedPassedOrFlagged'
    BY <1>4 DEF RevertRaises, IInv, AppliedPassedOrFlagged, RolledBack,
       Outcomes, TypeOK, Phased
  <1>5. ASSUME Rejected
       PROVE  AppliedPassedOrFlagged'
    BY <1>5 DEF Rejected, IInv, AppliedPassedOrFlagged, RolledBack,
       Outcomes, TypeOK, Phased
  <1>6. ASSUME Accepted
       PROVE  AppliedPassedOrFlagged'
    BY <1>6 DEF Accepted, IInv, AppliedPassedOrFlagged, RolledBack,
       Outcomes, TypeOK, Phased
  <1>7. ASSUME Snapshot
       PROVE  AppliedPassedOrFlagged'
    BY <1>7 DEF Snapshot, IInv, AppliedPassedOrFlagged, RolledBack,
       Outcomes, TypeOK, Phased
  <1>8. ASSUME SnapshotFails
       PROVE  AppliedPassedOrFlagged'
    BY <1>8 DEF SnapshotFails, IInv, AppliedPassedOrFlagged, RolledBack,
       Outcomes, TypeOK, Phased
  <1>9. ASSUME Apply
       PROVE  AppliedPassedOrFlagged'
    BY <1>9 DEF Apply, IInv, AppliedPassedOrFlagged, RolledBack, Outcomes,
       TypeOK, Phased
  <1>10. ASSUME ApplyRaises
       PROVE  AppliedPassedOrFlagged'
    BY <1>10 DEF ApplyRaises, IInv, AppliedPassedOrFlagged, RolledBack,
       Outcomes, TypeOK, Phased
  <1>11. ASSUME Raises
       PROVE  AppliedPassedOrFlagged'
    BY <1>11 DEF Raises, IInv, AppliedPassedOrFlagged, RolledBack, Outcomes,
       TypeOK, Phased
  <1>12. ASSUME RestoreLkg
       PROVE  AppliedPassedOrFlagged'
    BY <1>12 DEF RestoreLkg, IInv, AppliedPassedOrFlagged, RolledBack,
       Outcomes, TypeOK, Phased
  <1>13. ASSUME RestoreLkgFails
       PROVE  AppliedPassedOrFlagged'
    BY <1>13 DEF RestoreLkgFails, IInv, AppliedPassedOrFlagged, RolledBack,
       Outcomes, TypeOK, Phased
  <1>14. ASSUME RestoreLatest
       PROVE  AppliedPassedOrFlagged'
    BY <1>14 DEF RestoreLatest, IInv, AppliedPassedOrFlagged, RolledBack,
       Outcomes, TypeOK, Phased
  <1>15. ASSUME Save
       PROVE  AppliedPassedOrFlagged'
    BY <1>15 DEF Save, IInv, AppliedPassedOrFlagged, RolledBack, Outcomes,
       TypeOK, Phased
  <1>16. ASSUME SaveRaises
       PROVE  AppliedPassedOrFlagged'
    BY <1>16 DEF SaveRaises, IInv, AppliedPassedOrFlagged, RolledBack,
       Outcomes, TypeOK, Phased
  <1>17. ASSUME Crash
       PROVE  AppliedPassedOrFlagged'
    BY <1>17 DEF Crash, IInv, AppliedPassedOrFlagged, RolledBack, Outcomes,
       TypeOK, Phased
  <1>18. ASSUME EvaluatePasses
       PROVE  AppliedPassedOrFlagged'
    BY <1>18 DEF EvaluatePasses, IInv, AppliedPassedOrFlagged, RolledBack,
       Outcomes, TypeOK, Phased
  <1>19. ASSUME EvaluateDegrades
       PROVE  AppliedPassedOrFlagged'
    BY <1>19 DEF EvaluateDegrades, IInv, AppliedPassedOrFlagged, RolledBack,
       Outcomes, TypeOK, Phased
  <1>20. ASSUME Promote
       PROVE  AppliedPassedOrFlagged'
    BY <1>20 DEF Promote, IInv, AppliedPassedOrFlagged, Phased, boundVars,
       historyVars
  <1>21. ASSUME RestoreLatestFails
       PROVE  AppliedPassedOrFlagged'
    BY <1>21 DEF RestoreLatestFails, IInv, AppliedPassedOrFlagged, TypeOK,
       Memory
  <1>22. ASSUME NEW p \in Paths, Edit(p)
       PROVE  AppliedPassedOrFlagged'
    BY <1>22 DEF Edit, IInv, AppliedPassedOrFlagged, Operates
  <1>23. ASSUME NEW v \in Available, OperatorRestore(v)
       PROVE  AppliedPassedOrFlagged'
    BY <1>23 DEF OperatorRestore, IInv, AppliedPassedOrFlagged, Operates
  <1>24. ASSUME NEW v \in Available, Prune(v)
       PROVE  AppliedPassedOrFlagged'
    BY <1>24 DEF Prune, IInv, AppliedPassedOrFlagged, Operates
  <1> QED
    BY <1>1, <1>2, <1>3, <1>4, <1>5, <1>6, <1>7, <1>8, <1>9, <1>10, <1>11,
       <1>12, <1>13, <1>14, <1>15, <1>16, <1>17, <1>18, <1>19, <1>20, <1>21,
       <1>22, <1>23, <1>24
    DEF Next, RolledBack, Operates, vars, boundVars, historyVars

\* Every step keeps the invariant.
LEMMA InvStep ==
  ASSUME IInv, [Next]_vars
  PROVE  IInv'
  BY TypeStep, LkgStep, RecoverableStep, PhasedStep, AppliedStep DEF IInv

\* Every reachable state satisfies the invariant.
THEOREM Invariant == Spec => []IInv
  BY InitInv, InvStep, PTL DEF Spec

\* What the variables of a self-modifying cycle may hold.
THEOREM TypeCorrect == Spec => []TypeOK
  <1>1. IInv => TypeOK
    BY DEF IInv
  <1> QED
    BY Invariant, <1>1, PTL

\* lkg_version_id, in memory and in the state file, names a version whose
\* tree passed a post-apply evaluation, through crashes and failed saves.
THEOREM LkgIsGood == Spec => []LkgPassed
  <1>1. IInv => LkgPassed
    BY DEF IInv
  <1> QED
    BY Invariant, <1>1, PTL

\* evolve reports a change as applied only when the tree passed, or with the
\* record that its rollback failed.
THEOREM AppliedIsHonest == Spec => []AppliedPassedOrFlagged
  <1>1. IInv => AppliedPassedOrFlagged
    BY DEF IInv
  <1> QED
    BY Invariant, <1>1, PTL

\* evolve never changes the tree without a version of it to go back to.
THEOREM SnapshotFirst == Spec => AppliedHasSnapshot
  <1>1. IInv => (phase = "apply" /\ tree' # tree =>
                   IsLatest(memory.pre) /\ version[memory.pre] = tree)
    BY DEF IInv, Recoverable, Phased
  <1> QED
    BY Invariant, <1>1, PTL DEF AppliedHasSnapshot

\* The fallback restore gives back every file from before the batch.
THEOREM FallbackIsExact == Spec => FallbackUndoes
  <1>1. ASSUME IInv, [Next]_vars, phase = "restore_latest",
               outcome' = "rolled_back", NEW p \in Paths, before[p] # Absent
        PROVE  tree'[p] = before[p]
    <2>1. outcome # "rolled_back"
      BY <1>1 DEF IInv, Phased
    <2>2. PICK v \in Available : IsLatest(v) /\ RolledBack(v)
      BY <1>1, <2>1 DEF Next, CycleBegin, Revert, RevertRaises, Rejected,
          Accepted, Snapshot, SnapshotFails, Apply, ApplyRaises,
          EvaluatePasses, EvaluateDegrades, Promote, Raises, RestoreLkg,
          RestoreLkgFails, RestoreLatest, RestoreLatestFails, Save,
          SaveRaises, Crash, Edit, OperatorRestore, Prune, Operates, vars,
          boundVars, historyVars
    <2>3. v = memory.pre
      BY <1>1, <2>2 DEF IInv, TypeOK, Recoverable, IsLatest, Available
    <2>4. before[p] # None
      BY <1>1, SelfModificationAssumption DEF IInv, TypeOK, Trees, Held
    <2>5. version[v] = before /\ tree'[p] = SoftRestored(v)[p]
      BY <1>1, <2>2, <2>3 DEF RolledBack, IInv, Recoverable
    <2> QED
      BY <1>1, <2>4, <2>5 DEF SoftRestored, Files, Overlay
  <1>2. IInv /\ [Next]_vars =>
          (phase = "restore_latest" /\ outcome' = "rolled_back" =>
             \A p \in Paths : before[p] # Absent => tree'[p] = before[p])
    BY <1>1
  <1> QED
    BY Invariant, <1>2, PTL DEF Spec, FallbackUndoes
=============================================================================
