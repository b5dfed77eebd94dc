-------------------------- MODULE VersioningProofs --------------------------
(***************************************************************************)
(* What restore_version_async promises, for every set of paths, every      *)
(* slicing of them into gathers and any number of attempts, failures,      *)
(* crashes and edits.                                                      *)
(***************************************************************************)
EXTENDS Versioning, TLAPS

\* A restore is between its first gather and the end of its hard delete.
Active == Jobs \cup {"undo", "sweep_true", "sweep_false", "purge"}

\* Attempts that began name a published version; the others have nothing; a
\* task belongs to a file of its snapshot.
Sources ==
  /\ \A a \in Attempts : a <= attempt => source[a] \in published
  /\ \A a \in Attempts : a > attempt =>
       /\ task[a] = NoTasks /\ job[a] = "stage" /\ littered[a] = {}
       /\ \A p \in Paths : manifest[a][p] = None
  /\ \A a \in Attempts, p \in Paths : task[a][p] # "none" => p \in FilesOf(a)

\* The phase agrees with the gather that was started last.
Phased ==
  /\ phase \in Active \cup {"true", "false"} => attempt \in Attempts
  /\ phase \in Jobs => job[attempt] = phase /\ copying = None
  /\ phase = "copy" => target \in Versions \ published
  /\ phase = "undo" /\ copying # None => manifest[attempt][copying] # None

\* A task that can still replace a file belongs to the running restore,
\* which has not swept its staging directory, or uses what a sweep left.
Barrier ==
  \A a \in Attempts, p \in Paths :
    task[a][p] = "queued" /\ job[a] = "apply" /\ p \in staged[a]
      => \/ a = attempt /\ phase \in {"apply", "undo", "sweep_false"}
         \/ p \in littered[a]

\* Replaced files stay replaced until the caller has its answer.
Restored ==
  /\ phase = "apply" =>
       \A p \in FilesOf(attempt) \ late : task[attempt][p] = "done" =>
         repo[p] = snapshot[source[attempt]][p]
  /\ phase \in {"sweep_true", "purge", "true"} =>
       \A p \in FilesOf(attempt) \ late :
         repo[p] = snapshot[source[attempt]][p]

\* The manifest is empty before the backup gathers, agrees with the tree
\* during them, and still does for the files that are not replaced yet.
Recorded ==
  /\ phase = "stage" => \A p \in Paths : manifest[attempt][p] = None
  /\ phase = "backup" =>
       \A p \in Paths \ late : manifest[attempt][p] \in {None, repo[p]}
  /\ phase = "apply" =>
       \A p \in Paths \ late : task[attempt][p] = "queued" =>
         manifest[attempt][p] = repo[p]

\* A version that is not published is empty, or is being copied and agrees
\* with the tree as far as the copy has come.
Copied ==
  /\ phase = "copy" =>
       /\ \A p \in Paths \ late :
            /\ snapshot[target][p] \in {Absent, repo[p]}
            /\ p \in listed <=> repo[p] # Absent
       /\ listed \subseteq Tracked(repo)
  /\ \A v \in Versions \ published :
       \/ phase = "copy" /\ v = target
       \/ \A p \in Paths : snapshot[v][p] = Absent

\* The hard delete has yet to visit every file it may not leave.
Purging ==
  phase = "purge" =>
    Tracked(repo) \subseteq FilesOf(attempt) \cup skipped \cup late \cup listed

IInv ==
  /\ TypeOK /\ Sources /\ Phased /\ Barrier /\ Restored
  /\ Recorded /\ Copied /\ Purging /\ OldOrNew /\ HardRestoreIsExact

\* The invariant holds before the first call.
LEMMA InitInv == Init => IInv
  <1> SUFFICES ASSUME Init PROVE IInv
    OBVIOUS
  <1> USE VersioningAssumption DEF Init
  <1>1. TypeOK
    BY DEF TypeOK, Entry, File, Phases, Returned, Jobs, NoTasks, Attempts
  <1>2. Sources
    BY DEF Sources, NoTasks, Attempts, FilesOf, Files, Tracked
  <1>3. Phased /\ Barrier /\ Restored
    BY DEF Phased, Barrier, Restored, Active, Jobs, NoTasks
  <1>4. Recorded /\ Copied /\ Purging /\ OldOrNew /\ HardRestoreIsExact
    BY DEF Recorded, Copied, Purging, OldOrNew, HardRestoreIsExact, Files,
       Tracked
  <1> QED
    BY <1>1, <1>2, <1>3, <1>4 DEF IInv

\* Every step keeps the types.  A task that runs names a version, so what it
\* copies is the content of a file.
LEMMA TypeStep ==
  ASSUME IInv, [Next]_vars
  PROVE  TypeOK'
  <1>1. ASSUME UNCHANGED <<vars>>
       PROVE  TypeOK'
    BY <1>1 DEF IInv, TypeOK, vars, restoreVars, undoVars, boundVars, strayVars
  <1>2. ASSUME NEW p \in Paths, Edit(p)
       PROVE  TypeOK'
    BY <1>2, VersioningAssumption DEF Edit, IInv, TypeOK, restoreVars,
       undoVars, boundVars, strayVars, Entry, File, Phases, Returned, Jobs
  <1>3. ASSUME NEW v \in Versions, CreateBegin(v)
       PROVE  TypeOK'
    BY <1>3 DEF CreateBegin, IInv, TypeOK, restoreVars, undoVars, boundVars,
       strayVars, Phases, Returned, Jobs, Tracked
  <1>4. ASSUME NEW p \in Paths, CopyFile(p)
       PROVE  TypeOK'
    BY <1>4 DEF CopyFile, IInv, TypeOK, restoreVars, undoVars, boundVars,
       strayVars, Phased, Tracked
  <1>5. ASSUME Publish
       PROVE  TypeOK'
    BY <1>5 DEF Publish, IInv, TypeOK, restoreVars, undoVars, boundVars,
       strayVars, Phased, Phases, Returned, Jobs
  <1>6. ASSUME CreateFails
       PROVE  TypeOK'
    BY <1>6, VersioningAssumption DEF CreateFails, IInv, TypeOK,
       restoreVars, undoVars, boundVars, strayVars, Phased, Entry, Fault,
          Phases,
       Returned, Jobs
  <1>7. ASSUME NEW v \in Versions, NEW m \in {"soft", "hard"},
              RestoreBegin(v, m)
       PROVE  TypeOK'
    <2>1. attempt + 1 \in Attempts /\ attempt' \in 0..MaxAttempts
      BY <1>7, VersioningAssumption DEF RestoreBegin, IInv, TypeOK, Attempts
    <2>2. phase' \in Phases
      BY <1>7 DEF RestoreBegin, Phases, Returned, Jobs
    <2>3. Fresh(v) \in [Paths -> {"none", "queued", "done", "failed"}]
      BY DEF Fresh
    <2>4. task' \in [Attempts -> [Paths -> {"none", "queued", "done", "failed"}]]
      BY <1>7, <2>1, <2>3 DEF RestoreBegin, IInv, TypeOK
    <2> QED
      BY <1>7, <2>1, <2>2, <2>4 DEF RestoreBegin, IInv, TypeOK, undoVars,
         boundVars, Tracked
  <1>8. ASSUME NEW v \in Versions, RestoreRejected(v)
       PROVE  TypeOK'
    BY <1>8, VersioningAssumption DEF RestoreRejected, IInv, TypeOK,
       restoreVars, undoVars, boundVars, strayVars, Attempts, Fault, Phases,
          Returned,
       Jobs
  <1>9. ASSUME NEW a \in Attempts, NEW p \in Paths, Stage(a, p)
       PROVE  TypeOK'
    BY <1>9 DEF Stage, IInv, TypeOK, restoreVars, undoVars, boundVars,
       strayVars, Runs, Ends
  <1>10. ASSUME NEW a \in Attempts, NEW p \in Paths, Backup(a, p)
       PROVE  TypeOK'
    BY <1>10 DEF Backup, IInv, TypeOK, restoreVars, undoVars, boundVars,
       strayVars, Runs, Ends
  <1>11. ASSUME NEW a \in Attempts, NEW p \in Paths, ApplyMissing(a, p)
       PROVE  TypeOK'
    BY <1>11 DEF ApplyMissing, IInv, TypeOK, restoreVars, undoVars,
       boundVars, strayVars, Runs, Ends
  <1>12. ASSUME NEW a \in Attempts, NEW p \in Paths, TaskRaises(a, p)
       PROVE  TypeOK'
    BY <1>12, VersioningAssumption DEF TaskRaises, IInv, TypeOK,
       restoreVars, undoVars, boundVars, strayVars, Runs, Ends, Fault
  <1>13. ASSUME NEW a \in Attempts, NEW p \in Paths, Apply(a, p)
       PROVE  TypeOK'
    BY <1>13, VersioningAssumption DEF Apply, IInv, TypeOK, restoreVars,
       undoVars, boundVars, strayVars, Runs, Ends, Sources, NoTasks, Attempts,
          FilesOf
  <1>14. ASSUME AllStaged
       PROVE  TypeOK'
    BY <1>14 DEF AllStaged, IInv, TypeOK, restoreVars, undoVars, boundVars,
       strayVars, Begins, Phased, Fresh, Active, Phases, Returned, Jobs
  <1>15. ASSUME AllBacked
       PROVE  TypeOK'
    BY <1>15 DEF AllBacked, IInv, TypeOK, restoreVars, undoVars, boundVars,
       strayVars, Begins, Phased, Fresh, Active, Phases, Returned, Jobs
  <1>16. ASSUME AllApplied
       PROVE  TypeOK'
    BY <1>16 DEF AllApplied, IInv, TypeOK, restoreVars, undoVars, boundVars,
       strayVars, Phases, Returned, Jobs
  <1>17. ASSUME GatherRaises
       PROVE  TypeOK'
    BY <1>17 DEF GatherRaises, IInv, TypeOK, restoreVars, undoVars,
       boundVars, strayVars, Backed, Phases, Returned, Jobs
  <1>18. ASSUME NEW p \in Paths, UndoCreated(p)
       PROVE  TypeOK'
    BY <1>18 DEF UndoCreated, IInv, TypeOK, restoreVars, undoVars,
       boundVars, strayVars, Turn, Entry
  <1>19. ASSUME NEW p \in Paths, UndoCopyBegin(p)
       PROVE  TypeOK'
    BY <1>19 DEF UndoCopyBegin, IInv, TypeOK, restoreVars, undoVars,
       boundVars, strayVars, Turn, Entry, File
  <1>20. ASSUME UndoCopyEnd
       PROVE  TypeOK'
    BY <1>20 DEF UndoCopyEnd, IInv, TypeOK, restoreVars, undoVars,
       boundVars, strayVars, Phased, Active
  <1>21. ASSUME UndoRaises
       PROVE  TypeOK'
    BY <1>21, VersioningAssumption DEF UndoRaises, IInv, TypeOK,
       restoreVars, undoVars, boundVars, strayVars, Fault, Phases, Returned,
          Jobs
  <1>22. ASSUME UndoEnds
       PROVE  TypeOK'
    BY <1>22 DEF UndoEnds, IInv, TypeOK, restoreVars, undoVars, boundVars,
       strayVars, Phases, Returned, Jobs
  <1>23. ASSUME Sweep
       PROVE  TypeOK'
    BY <1>23 DEF Sweep, IInv, TypeOK, restoreVars, undoVars, boundVars,
       strayVars, AfterSweep, ListsFor, Tracked, Phased, Active, Phases,
       Returned, Jobs
  <1>24. ASSUME NEW p \in Paths, Purge(p)
       PROVE  TypeOK'
    BY <1>24 DEF Purge, IInv, TypeOK, restoreVars, undoVars, boundVars,
       strayVars, Entry
  <1>25. ASSUME NEW p \in Paths, PurgeDenied(p)
       PROVE  TypeOK'
    BY <1>25, VersioningAssumption DEF PurgeDenied, IInv, TypeOK,
       restoreVars, undoVars, boundVars, strayVars, Fault
  <1>26. ASSUME PurgeEnds
       PROVE  TypeOK'
    BY <1>26, VersioningAssumption DEF PurgeEnds, IInv, TypeOK, restoreVars,
       undoVars, boundVars, strayVars, Fault, Phases, Returned, Jobs
  <1>27. ASSUME Crash
       PROVE  TypeOK'
    BY <1>27, VersioningAssumption DEF Crash, IInv, TypeOK, restoreVars,
       undoVars, boundVars, strayVars, Fault, NoTasks, Entry, Phases,
          Returned, Jobs
  <1>30. ASSUME SweepFails
       PROVE  TypeOK'
    BY <1>30, VersioningAssumption DEF SweepFails, AfterSweep, IInv, TypeOK,
       Fault, restoreVars, undoVars, boundVars, strayVars, ListsFor, Tracked,
          Phased, Active, Phases, Returned, Jobs
  <1> QED
    BY <1>1, <1>2, <1>3, <1>4, <1>5, <1>6, <1>7, <1>8, <1>9, <1>10, <1>11,
       <1>12, <1>13, <1>14, <1>15, <1>16, <1>17, <1>18, <1>19, <1>20, <1>21,
       <1>22, <1>23, <1>24, <1>25, <1>26, <1>27, <1>30
    DEF Next, Main, Create, Failure, Call, Task, vars, restoreVars,
        undoVars, boundVars, strayVars

\* What a step may not do to the published snapshots.
SnapshotsKept ==
  \A v \in published : v \in published' /\ snapshot'[v] = snapshot[v]

\* A published snapshot stays published and is not written.
LEMMA SnapshotStep ==
  ASSUME IInv, [Next]_vars
  PROVE  SnapshotsKept
  <1>1. ASSUME UNCHANGED <<published, snapshot>>
       PROVE  SnapshotsKept
    BY <1>1 DEF SnapshotsKept
  <1>2. ASSUME NEW p \in Paths, CopyFile(p)
       PROVE  SnapshotsKept
    BY <1>2 DEF CopyFile, SnapshotsKept, IInv, Phased, TypeOK
  <1>3. ASSUME CreateFails
       PROVE  SnapshotsKept
    BY <1>3 DEF CreateFails, SnapshotsKept, IInv, Phased, TypeOK
  <1>4. ASSUME Publish
       PROVE  SnapshotsKept
    BY <1>4 DEF Publish, SnapshotsKept
  <1>5. ASSUME Crash
       PROVE  SnapshotsKept
    BY <1>5 DEF Crash, SnapshotsKept, IInv, TypeOK
  <1> QED
    BY <1>1, <1>2, <1>3, <1>4, <1>5
    DEF Next, Main, Create, Failure, Call, Task, Edit, CreateBegin,
        RestoreBegin, RestoreRejected, Stage, Backup, Apply, ApplyMissing,
        TaskRaises, AllStaged, AllBacked, AllApplied, GatherRaises,
        UndoCopyEnd, UndoRaises, UndoEnds, Sweep, SweepFails, PurgeEnds,
        UndoCreated, UndoCopyBegin, Purge, PurgeDenied, Begins, vars,
        restoreVars, undoVars, boundVars, strayVars

\* A new attempt names a published version, and tasks keep to its files.
LEMMA SourcesStep ==
  ASSUME IInv, [Next]_vars
  PROVE  Sources'
  <1>1. ASSUME UNCHANGED <<published, snapshot, attempt, source, job, task,
     manifest, littered>>
       PROVE  Sources'
    BY <1>1 DEF IInv, Sources, FilesOf, Files, Tracked
  <1>2. ASSUME NEW p \in Paths, CopyFile(p)
       PROVE  Sources'
    BY <1>2, SnapshotStep DEF CopyFile, IInv, TypeOK, Sources, Attempts,
       SnapshotsKept, NoTasks, FilesOf, Files, Tracked, restoreVars,
       undoVars, boundVars, strayVars
  <1>3. ASSUME CreateFails
       PROVE  Sources'
    BY <1>3, SnapshotStep DEF CreateFails, IInv, TypeOK, Sources, Attempts,
       SnapshotsKept, NoTasks, FilesOf, Files, Tracked, restoreVars,
       undoVars, boundVars, strayVars
  <1>4. ASSUME Publish
       PROVE  Sources'
    BY <1>4, SnapshotStep DEF Publish, IInv, TypeOK, Sources, Attempts,
       SnapshotsKept, NoTasks, FilesOf, Files, Tracked, restoreVars,
       undoVars, boundVars, strayVars
  <1>5. ASSUME Crash
       PROVE  Sources'
    BY <1>5, SnapshotStep DEF Crash, IInv, TypeOK, Sources, Attempts,
       SnapshotsKept, NoTasks, FilesOf, Files, Tracked, restoreVars,
       undoVars, boundVars, strayVars
  <1>6. ASSUME NEW v \in Versions, NEW m \in {"soft", "hard"},
              RestoreBegin(v, m)
       PROVE  Sources'
    BY <1>6, VersioningAssumption DEF RestoreBegin, IInv, TypeOK, Sources,
       Attempts, Fresh, NoTasks, FilesOf, Files, Tracked, restoreVars,
       undoVars, boundVars, strayVars
  <1>7. ASSUME NEW v \in Versions, RestoreRejected(v)
       PROVE  Sources'
    BY <1>7, VersioningAssumption DEF RestoreRejected, IInv, TypeOK,
       Sources, Attempts, NoTasks, FilesOf, Files, Tracked
  <1>8. ASSUME NEW a \in Attempts, NEW p \in Paths, Stage(a, p)
       PROVE  Sources'
    BY <1>8 DEF Stage, IInv, TypeOK, Sources, Attempts, Runs, Ends, NoTasks,
       FilesOf, Files, Tracked, strayVars
  <1>9. ASSUME NEW a \in Attempts, NEW p \in Paths, Apply(a, p)
       PROVE  Sources'
    BY <1>9 DEF Apply, IInv, TypeOK, Sources, Attempts, Runs, Ends, NoTasks,
       FilesOf, Files, Tracked, strayVars
  <1>10. ASSUME NEW a \in Attempts, NEW p \in Paths, ApplyMissing(a, p)
       PROVE  Sources'
    BY <1>10 DEF ApplyMissing, IInv, TypeOK, Sources, Attempts, Runs, Ends,
       NoTasks, FilesOf, Files, Tracked, strayVars
  <1>11. ASSUME NEW a \in Attempts, NEW p \in Paths, TaskRaises(a, p)
       PROVE  Sources'
    BY <1>11 DEF TaskRaises, IInv, TypeOK, Sources, Attempts, Runs, Ends,
       NoTasks, FilesOf, Files, Tracked, strayVars
  <1>12. ASSUME NEW a \in Attempts, NEW p \in Paths, Backup(a, p)
       PROVE  Sources'
    BY <1>12 DEF Backup, IInv, TypeOK, Sources, Attempts, Runs, Ends,
       NoTasks, FilesOf, Files, Tracked, strayVars
  <1>13. ASSUME AllStaged
       PROVE  Sources'
    BY <1>13 DEF AllStaged, IInv, TypeOK, Sources, Attempts, Begins, Fresh,
       NoTasks, Phased, Active, Jobs, FilesOf, Files, Tracked, strayVars
  <1>14. ASSUME AllBacked
       PROVE  Sources'
    BY <1>14 DEF AllBacked, IInv, TypeOK, Sources, Attempts, Begins, Fresh,
       NoTasks, Phased, Active, Jobs, FilesOf, Files, Tracked, strayVars
  <1>30. ASSUME SweepFails
       PROVE  Sources'
    BY <1>30, VersioningAssumption DEF SweepFails, AfterSweep, IInv, TypeOK,
       Fault, restoreVars, undoVars, boundVars, strayVars, Sources, Attempts,
          Phased, Active, FilesOf, Files, Tracked
  <1> QED
    BY <1>1, <1>2, <1>3, <1>4, <1>5, <1>6, <1>7, <1>8, <1>9, <1>10, <1>11,
       <1>12, <1>13, <1>14, <1>30
    DEF Next, Main, Create, Failure, Call, Task, Edit, CreateBegin,
        AllApplied, GatherRaises, UndoCopyEnd, UndoRaises, UndoEnds, Sweep,
        PurgeEnds, UndoCreated, UndoCopyBegin, Purge, PurgeDenied, vars,
        restoreVars, undoVars, boundVars, strayVars

\* Each phase is entered with what it relies on.
LEMMA PhasedStep ==
  ASSUME IInv, [Next]_vars
  PROVE  Phased'
  <1>1. ASSUME UNCHANGED <<phase, attempt, job, target, published, copying,
     manifest>>
       PROVE  Phased'
    BY <1>1 DEF IInv, Phased
  <1>2. ASSUME NEW p \in Paths, Edit(p)
       PROVE  Phased'
    BY <1>2 DEF Edit, IInv, Phased, Active, Jobs, Returned, restoreVars,
       undoVars, boundVars, strayVars
  <1>3. ASSUME NEW v \in Versions, CreateBegin(v)
       PROVE  Phased'
    BY <1>3 DEF CreateBegin, IInv, Phased, Active, Jobs, Returned,
       restoreVars, undoVars, boundVars, strayVars
  <1>4. ASSUME Publish
       PROVE  Phased'
    BY <1>4 DEF Publish, IInv, Phased, Active, Jobs, Returned, restoreVars,
       undoVars, boundVars, strayVars
  <1>5. ASSUME CreateFails
       PROVE  Phased'
    BY <1>5 DEF CreateFails, IInv, Phased, Active, Jobs, Returned,
       restoreVars, undoVars, boundVars, strayVars
  <1>6. ASSUME Crash
       PROVE  Phased'
    BY <1>6 DEF Crash, IInv, Phased, Active, Jobs, Returned, restoreVars,
       undoVars, boundVars, strayVars
  <1>7. ASSUME NEW v \in Versions, NEW m \in {"soft", "hard"},
              RestoreBegin(v, m)
       PROVE  Phased'
    BY <1>7, VersioningAssumption DEF RestoreBegin, IInv, Phased, Active,
       Jobs, Returned, Sources, TypeOK, Attempts, restoreVars, undoVars,
       boundVars, strayVars
  <1>8. ASSUME NEW v \in Versions, RestoreRejected(v)
       PROVE  Phased'
    BY <1>8, VersioningAssumption DEF RestoreRejected, IInv, Phased, Active,
       Jobs, Returned, TypeOK, Attempts
  <1>9. ASSUME NEW a \in Attempts, NEW p \in Paths, Backup(a, p)
       PROVE  Phased'
    BY <1>9, VersioningAssumption DEF Backup, IInv, Phased, Runs, Ends,
       TypeOK, Entry, File, restoreVars, undoVars, boundVars, strayVars
  <1>10. ASSUME AllStaged
       PROVE  Phased'
    BY <1>10 DEF AllStaged, IInv, Phased, Begins, TypeOK, Active, Jobs,
       Returned, restoreVars, undoVars, boundVars, strayVars
  <1>11. ASSUME AllBacked
       PROVE  Phased'
    BY <1>11 DEF AllBacked, IInv, Phased, Begins, TypeOK, Active, Jobs,
       Returned, restoreVars, undoVars, boundVars, strayVars
  <1>12. ASSUME AllApplied
       PROVE  Phased'
    BY <1>12 DEF AllApplied, IInv, Phased, AfterSweep, Active, Jobs,
       Returned, restoreVars, undoVars, boundVars, strayVars
  <1>13. ASSUME GatherRaises
       PROVE  Phased'
    BY <1>13 DEF GatherRaises, IInv, Phased, AfterSweep, Active, Jobs,
       Returned, restoreVars, undoVars, boundVars, strayVars
  <1>14. ASSUME Sweep
       PROVE  Phased'
    BY <1>14 DEF Sweep, IInv, Phased, AfterSweep, Active, Jobs, Returned,
       restoreVars, undoVars, boundVars, strayVars
  <1>15. ASSUME PurgeEnds
       PROVE  Phased'
    BY <1>15 DEF PurgeEnds, IInv, Phased, AfterSweep, Active, Jobs,
       Returned, restoreVars, undoVars, boundVars, strayVars
  <1>16. ASSUME UndoRaises
       PROVE  Phased'
    BY <1>16 DEF UndoRaises, IInv, Phased, AfterSweep, Active, Jobs,
       Returned, restoreVars, undoVars, boundVars, strayVars
  <1>17. ASSUME UndoEnds
       PROVE  Phased'
    BY <1>17 DEF UndoEnds, IInv, Phased, AfterSweep, Active, Jobs, Returned,
       restoreVars, undoVars, boundVars, strayVars
  <1>18. ASSUME NEW p \in Paths, UndoCreated(p)
       PROVE  Phased'
    BY <1>18 DEF UndoCreated, IInv, Phased, Turn, KeysChanged, Backed,
       Active, Jobs, Returned, restoreVars, undoVars, boundVars, strayVars
  <1>19. ASSUME NEW p \in Paths, UndoCopyBegin(p)
       PROVE  Phased'
    BY <1>19 DEF UndoCopyBegin, IInv, Phased, Turn, KeysChanged, Backed,
       Active, Jobs, Returned, restoreVars, undoVars, boundVars, strayVars
  <1>20. ASSUME UndoCopyEnd
       PROVE  Phased'
    BY <1>20 DEF UndoCopyEnd, IInv, Phased, Turn, KeysChanged, Backed,
       Active, Jobs, Returned, restoreVars, undoVars, boundVars, strayVars
  <1>30. ASSUME SweepFails
       PROVE  Phased'
    BY <1>30 DEF SweepFails, AfterSweep, IInv, TypeOK, Fault, restoreVars,
       undoVars, boundVars, strayVars, Phased, Active, Jobs, Returned
  <1> QED
    BY <1>1, <1>2, <1>3, <1>4, <1>5, <1>6, <1>7, <1>8, <1>9, <1>10, <1>11,
       <1>12, <1>13, <1>14, <1>15, <1>16, <1>17, <1>18, <1>19, <1>20, <1>30
    DEF Next, Main, Create, Failure, Call, Task, CopyFile, Stage, Apply,
        ApplyMissing, TaskRaises, Purge, PurgeDenied, vars, restoreVars,
        undoVars, boundVars, strayVars

\* Only the running restore has tasks that can replace a file: the sweep of
\* the staging directory leaves none behind.
LEMMA BarrierStep ==
  ASSUME IInv, [Next]_vars
  PROVE  Barrier'
  <1>1. ASSUME UNCHANGED <<phase, attempt, job, task, staged, littered>>
       PROVE  Barrier'
    BY <1>1 DEF IInv, Barrier
  <1>2. ASSUME NEW p \in Paths, Edit(p)
       PROVE  Barrier'
    BY <1>2 DEF Edit, IInv, Barrier, TypeOK, Attempts, Returned, NoTasks,
       restoreVars, undoVars, boundVars, strayVars
  <1>3. ASSUME NEW v \in Versions, CreateBegin(v)
       PROVE  Barrier'
    BY <1>3 DEF CreateBegin, IInv, Barrier, TypeOK, Attempts, Returned,
       NoTasks, restoreVars, undoVars, boundVars, strayVars
  <1>4. ASSUME Publish
       PROVE  Barrier'
    BY <1>4 DEF Publish, IInv, Barrier, TypeOK, Attempts, Returned, NoTasks,
       restoreVars, undoVars, boundVars, strayVars
  <1>5. ASSUME CreateFails
       PROVE  Barrier'
    BY <1>5 DEF CreateFails, IInv, Barrier, TypeOK, Attempts, Returned,
       NoTasks, restoreVars, undoVars, boundVars, strayVars
  <1>6. ASSUME Crash
       PROVE  Barrier'
    BY <1>6 DEF Crash, IInv, Barrier, TypeOK, Attempts, Returned, NoTasks,
       restoreVars, undoVars, boundVars, strayVars
  <1>7. ASSUME NEW v \in Versions, NEW m \in {"soft", "hard"},
              RestoreBegin(v, m)
       PROVE  Barrier'
    BY <1>7, VersioningAssumption DEF RestoreBegin, IInv, Barrier, TypeOK,
       Attempts, Returned, Sources, restoreVars, undoVars, boundVars, strayVars
  <1>8. ASSUME NEW v \in Versions, RestoreRejected(v)
       PROVE  Barrier'
    BY <1>8, VersioningAssumption DEF RestoreRejected, IInv, Barrier,
       TypeOK, Attempts, Returned, restoreVars, undoVars, boundVars, strayVars
  <1>9. ASSUME NEW a \in Attempts, NEW p \in Paths, Stage(a, p)
       PROVE  Barrier'
    BY <1>9 DEF Stage, IInv, Barrier, TypeOK, Attempts, Runs, Ends,
       restoreVars, undoVars, boundVars, strayVars
  <1>10. ASSUME NEW a \in Attempts, NEW p \in Paths, Backup(a, p)
       PROVE  Barrier'
    BY <1>10 DEF Backup, IInv, Barrier, TypeOK, Attempts, Runs, Ends,
       restoreVars, undoVars, boundVars, strayVars
  <1>11. ASSUME NEW a \in Attempts, NEW p \in Paths, Apply(a, p)
       PROVE  Barrier'
    BY <1>11 DEF Apply, IInv, Barrier, TypeOK, Attempts, Runs, Ends,
       restoreVars, undoVars, boundVars, strayVars
  <1>12. ASSUME NEW a \in Attempts, NEW p \in Paths, ApplyMissing(a, p)
       PROVE  Barrier'
    BY <1>12 DEF ApplyMissing, IInv, Barrier, TypeOK, Attempts, Runs, Ends,
       restoreVars, undoVars, boundVars, strayVars
  <1>13. ASSUME NEW a \in Attempts, NEW p \in Paths, TaskRaises(a, p)
       PROVE  Barrier'
    BY <1>13 DEF TaskRaises, IInv, Barrier, TypeOK, Attempts, Runs, Ends,
       restoreVars, undoVars, boundVars, strayVars
  <1>14. ASSUME AllStaged
       PROVE  Barrier'
    BY <1>14 DEF AllStaged, IInv, Barrier, TypeOK, Attempts, Begins, Phased,
       Active, Jobs, restoreVars, undoVars, boundVars, strayVars
  <1>15. ASSUME AllBacked
       PROVE  Barrier'
    BY <1>15 DEF AllBacked, IInv, Barrier, TypeOK, Attempts, Begins, Phased,
       Active, Jobs, restoreVars, undoVars, boundVars, strayVars
  <1>16. ASSUME AllApplied
       PROVE  Barrier'
    BY <1>16 DEF AllApplied, IInv, Barrier, TypeOK, Attempts, AllDone,
       Sources, Phased, Active, restoreVars, undoVars, boundVars, strayVars
  <1>17. ASSUME GatherRaises
       PROVE  Barrier'
    BY <1>17 DEF GatherRaises, IInv, Barrier, TypeOK, Attempts, Jobs,
       Phased, restoreVars, undoVars, boundVars, strayVars
  <1>18. ASSUME Sweep
       PROVE  Barrier'
    BY <1>18 DEF Sweep, IInv, Barrier, TypeOK, Attempts, Phased, Active,
       restoreVars, undoVars, boundVars, strayVars
  <1>19. ASSUME PurgeEnds
       PROVE  Barrier'
    BY <1>19 DEF PurgeEnds, IInv, Barrier, TypeOK, Attempts, Phased, Active,
       restoreVars, undoVars, boundVars, strayVars
  <1>20. ASSUME UndoRaises
       PROVE  Barrier'
    BY <1>20 DEF UndoRaises, IInv, Barrier, TypeOK, Attempts, Phased,
       Active, restoreVars, undoVars, boundVars, strayVars
  <1>21. ASSUME UndoEnds
       PROVE  Barrier'
    BY <1>21 DEF UndoEnds, IInv, Barrier, TypeOK, Attempts, Phased, Active,
       restoreVars, undoVars, boundVars, strayVars
  <1>30. ASSUME SweepFails
       PROVE  Barrier'
    BY <1>30 DEF SweepFails, AfterSweep, IInv, TypeOK, Fault, restoreVars,
       undoVars, boundVars, strayVars, Barrier, Attempts, Phased, Active
  <1> QED
    BY <1>1, <1>2, <1>3, <1>4, <1>5, <1>6, <1>7, <1>8, <1>9, <1>10, <1>11,
       <1>12, <1>13, <1>14, <1>15, <1>16, <1>17, <1>18, <1>19, <1>20, <1>21,
          <1>30
    DEF Next, Main, Create, Failure, Call, Task, CopyFile, UndoCopyEnd,
        UndoCreated, UndoCopyBegin, Purge, PurgeDenied, vars, restoreVars,
        undoVars, boundVars, strayVars

\* A task that replaces a file is the running restore's, or works on what
\* the sweep of its attempt left, which makes its file late.
LEMMA ArmedTask ==
  ASSUME IInv, NEW a \in Attempts, NEW p \in Paths, Apply(a, p)
  PROVE  /\ p \in FilesOf(a)
         /\ \/ /\ a = attempt /\ phase \in {"apply", "undo", "sweep_false"}
               /\ attempt \in Attempts
            \/ p \in littered[a] /\ p \in late'
         /\ late \subseteq late'
         /\ \A q \in Paths \ {p} : repo'[q] = repo[q]
  BY DEF IInv, TypeOK, Barrier, Sources, Phased, Active, Apply, Runs

\* What was replaced stays so: nothing else writes to the tree meanwhile.
LEMMA RestoredStep ==
  ASSUME IInv, [Next]_vars
  PROVE  Restored'
  <1>1. ASSUME UNCHANGED <<phase, repo, snapshot, attempt, source, task, late>>
       PROVE  Restored'
    BY <1>1 DEF IInv, Restored, FilesOf, Files, Tracked
  <1>2. ASSUME NEW p \in Paths, Edit(p)
       PROVE  Restored'
    BY <1>2 DEF Edit, IInv, TypeOK, Restored, restoreVars, undoVars,
       boundVars, strayVars
  <1>3. ASSUME NEW v \in Versions, CreateBegin(v)
       PROVE  Restored'
    BY <1>3 DEF CreateBegin, IInv, TypeOK, Restored, restoreVars, undoVars,
       boundVars, strayVars
  <1>4. ASSUME Publish
       PROVE  Restored'
    BY <1>4 DEF Publish, IInv, TypeOK, Restored, restoreVars, undoVars,
       boundVars, strayVars
  <1>5. ASSUME CreateFails
       PROVE  Restored'
    BY <1>5 DEF CreateFails, IInv, TypeOK, Restored, restoreVars, undoVars,
       boundVars, strayVars
  <1>6. ASSUME Crash
       PROVE  Restored'
    BY <1>6 DEF Crash, IInv, TypeOK, Restored, restoreVars, undoVars,
       boundVars, strayVars
  <1>7. ASSUME NEW p \in Paths, CopyFile(p)
       PROVE  Restored'
    BY <1>7 DEF CopyFile, IInv, TypeOK, Restored, restoreVars, undoVars,
       boundVars, strayVars
  <1>8. ASSUME NEW v \in Versions, NEW m \in {"soft", "hard"},
              RestoreBegin(v, m)
       PROVE  Restored'
    BY <1>8, VersioningAssumption DEF RestoreBegin, IInv, TypeOK, FilesOf,
       Files, Tracked, Sources, Attempts, Restored, restoreVars, undoVars,
       boundVars, strayVars
  <1>9. ASSUME NEW v \in Versions, RestoreRejected(v)
       PROVE  Restored'
    BY <1>9, VersioningAssumption DEF RestoreRejected, IInv, TypeOK,
       Restored, restoreVars, undoVars, boundVars, strayVars
  <1>10. ASSUME NEW a \in Attempts, NEW p \in Paths, Stage(a, p)
       PROVE  Restored'
    BY <1>10 DEF Stage, IInv, TypeOK, Runs, Ends, Phased, Jobs, Restored,
       Attempts, FilesOf, Files, Tracked, restoreVars, undoVars, boundVars,
          strayVars
  <1>11. ASSUME NEW a \in Attempts, NEW p \in Paths, Backup(a, p)
       PROVE  Restored'
    BY <1>11 DEF Backup, IInv, TypeOK, Runs, Ends, Phased, Jobs, Restored,
       Attempts, FilesOf, Files, Tracked, restoreVars, undoVars, boundVars,
          strayVars
  <1>12. ASSUME NEW a \in Attempts, NEW p \in Paths, ApplyMissing(a, p)
       PROVE  Restored'
    BY <1>12 DEF ApplyMissing, IInv, TypeOK, Ends, Restored, Attempts,
       FilesOf, Files, Tracked, restoreVars, undoVars, boundVars, strayVars
  <1>13. ASSUME NEW a \in Attempts, NEW p \in Paths, TaskRaises(a, p)
       PROVE  Restored'
    BY <1>13 DEF TaskRaises, IInv, TypeOK, Ends, Restored, Attempts,
       FilesOf, Files, Tracked, restoreVars, undoVars, boundVars, strayVars
  <1>14. ASSUME NEW a \in Attempts, NEW p \in Paths, Apply(a, p)
       PROVE  Restored'
    <2>1. UNCHANGED <<phase, snapshot, attempt, source>>
      BY <1>14 DEF Apply
    <2>2. \A q \in Paths : q # p => task'[attempt][q] = task[attempt][q]
                                   /\ repo'[q] = repo[q]
      BY <1>14 DEF Apply, Ends, IInv, TypeOK
    <2>3. \/ p \in late'
          \/ phase \notin {"sweep_true", "purge", "true"}
             /\ repo'[p] = snapshot[source[attempt]][p]
      BY <1>14, ArmedTask DEF Apply, IInv, TypeOK
    <2>4. late \subseteq late'
      BY <1>14, ArmedTask
    <2> QED
      BY <2>1, <2>2, <2>3, <2>4 DEF IInv, Restored, FilesOf, Files, Tracked
  <1>15. ASSUME AllStaged
       PROVE  Restored'
    BY <1>15 DEF AllStaged, IInv, TypeOK, Begins, Fresh, Phased, Active,
       Jobs, Restored, FilesOf, Files, Tracked, restoreVars, undoVars,
       boundVars, strayVars
  <1>16. ASSUME AllBacked
       PROVE  Restored'
    BY <1>16 DEF AllBacked, IInv, TypeOK, Begins, Fresh, Phased, Active,
       Jobs, Restored, FilesOf, Files, Tracked, restoreVars, undoVars,
       boundVars, strayVars
  <1>17. ASSUME AllApplied
       PROVE  Restored'
    BY <1>17 DEF AllApplied, IInv, TypeOK, AllDone, Restored, FilesOf,
       Files, Tracked, restoreVars, undoVars, boundVars, strayVars
  <1>18. ASSUME GatherRaises
       PROVE  Restored'
    BY <1>18 DEF GatherRaises, IInv, TypeOK, Restored, restoreVars,
       undoVars, boundVars, strayVars
  <1>19. ASSUME UndoRaises
       PROVE  Restored'
    BY <1>19 DEF UndoRaises, IInv, TypeOK, Restored, restoreVars, undoVars,
       boundVars, strayVars
  <1>20. ASSUME UndoEnds
       PROVE  Restored'
    BY <1>20 DEF UndoEnds, IInv, TypeOK, Restored, restoreVars, undoVars,
       boundVars, strayVars
  <1>21. ASSUME NEW p \in Paths, UndoCreated(p)
       PROVE  Restored'
    BY <1>21 DEF UndoCreated, IInv, TypeOK, Turn, Restored, restoreVars,
       undoVars, boundVars, strayVars
  <1>22. ASSUME NEW p \in Paths, UndoCopyBegin(p)
       PROVE  Restored'
    BY <1>22 DEF UndoCopyBegin, IInv, TypeOK, Turn, Restored, restoreVars,
       undoVars, boundVars, strayVars
  <1>23. ASSUME UndoCopyEnd
       PROVE  Restored'
    BY <1>23 DEF UndoCopyEnd, IInv, TypeOK, Turn, Restored, restoreVars,
       undoVars, boundVars, strayVars
  <1>24. ASSUME Sweep
       PROVE  Restored'
    BY <1>24 DEF Sweep, IInv, TypeOK, AfterSweep, Restored, FilesOf, Files,
       Tracked, restoreVars, undoVars, boundVars, strayVars
  <1>25. ASSUME NEW p \in Paths, Purge(p)
       PROVE  Restored'
    BY <1>25 DEF Purge, IInv, TypeOK, Extra, Restored, FilesOf, Files,
       Tracked, restoreVars, undoVars, boundVars, strayVars
  <1>26. ASSUME PurgeEnds
       PROVE  Restored'
    BY <1>26 DEF PurgeEnds, IInv, TypeOK, Extra, Restored, FilesOf, Files,
       Tracked, restoreVars, undoVars, boundVars, strayVars
  <1>30. ASSUME SweepFails
       PROVE  Restored'
    BY <1>30 DEF SweepFails, AfterSweep, IInv, TypeOK, Fault, restoreVars,
       undoVars, boundVars, strayVars, Restored, FilesOf, Files, Tracked
  <1> QED
    BY <1>1, <1>2, <1>3, <1>4, <1>5, <1>6, <1>7, <1>8, <1>9, <1>10, <1>11,
       <1>12, <1>13, <1>14, <1>15, <1>16, <1>17, <1>18, <1>19, <1>20, <1>21,
       <1>22, <1>23, <1>24, <1>25, <1>26, <1>30
    DEF Next, Main, Create, Failure, Call, Task, PurgeDenied, vars,
        restoreVars, undoVars, boundVars, strayVars

\* The manifest agrees with the tree until a file is replaced.
LEMMA RecordedStep ==
  ASSUME IInv, [Next]_vars
  PROVE  Recorded'
  <1>1. ASSUME UNCHANGED <<phase, repo, attempt, manifest, task, late>>
       PROVE  Recorded'
    BY <1>1 DEF IInv, Recorded
  <1>2. ASSUME NEW p \in Paths, Edit(p)
       PROVE  Recorded'
    BY <1>2 DEF Edit, IInv, TypeOK, Recorded, Returned, Jobs, restoreVars,
       undoVars, boundVars, strayVars
  <1>3. ASSUME NEW v \in Versions, CreateBegin(v)
       PROVE  Recorded'
    BY <1>3 DEF CreateBegin, IInv, TypeOK, Recorded, Returned, Jobs,
       restoreVars, undoVars, boundVars, strayVars
  <1>4. ASSUME Publish
       PROVE  Recorded'
    BY <1>4 DEF Publish, IInv, TypeOK, Recorded, Returned, Jobs,
       restoreVars, undoVars, boundVars, strayVars
  <1>5. ASSUME CreateFails
       PROVE  Recorded'
    BY <1>5 DEF CreateFails, IInv, TypeOK, Recorded, Returned, Jobs,
       restoreVars, undoVars, boundVars, strayVars
  <1>6. ASSUME Crash
       PROVE  Recorded'
    BY <1>6 DEF Crash, IInv, TypeOK, Recorded, Returned, Jobs, restoreVars,
       undoVars, boundVars, strayVars
  <1>7. ASSUME NEW v \in Versions, NEW m \in {"soft", "hard"},
              RestoreBegin(v, m)
       PROVE  Recorded'
    BY <1>7, VersioningAssumption DEF RestoreBegin, IInv, TypeOK, Sources,
       Attempts, Recorded, restoreVars, undoVars, boundVars, strayVars
  <1>8. ASSUME NEW v \in Versions, RestoreRejected(v)
       PROVE  Recorded'
    BY <1>8 DEF RestoreRejected, IInv, TypeOK, Recorded, restoreVars,
       undoVars, boundVars, strayVars
  <1>9. ASSUME NEW a \in Attempts, NEW p \in Paths, Backup(a, p)
       PROVE  Recorded'
    BY <1>9 DEF Backup, IInv, TypeOK, Runs, Ends, Phased, Jobs, Recorded,
       Attempts, restoreVars, undoVars, boundVars, strayVars
  <1>10. ASSUME NEW a \in Attempts, NEW p \in Paths, Stage(a, p)
       PROVE  Recorded'
    BY <1>10 DEF Stage, IInv, TypeOK, Runs, Ends, Recorded, Attempts,
       restoreVars, undoVars, boundVars, strayVars
  <1>11. ASSUME NEW a \in Attempts, NEW p \in Paths, ApplyMissing(a, p)
       PROVE  Recorded'
    BY <1>11 DEF ApplyMissing, IInv, TypeOK, Runs, Ends, Recorded, Attempts,
       restoreVars, undoVars, boundVars, strayVars
  <1>12. ASSUME NEW a \in Attempts, NEW p \in Paths, TaskRaises(a, p)
       PROVE  Recorded'
    BY <1>12 DEF TaskRaises, IInv, TypeOK, Runs, Ends, Recorded, Attempts,
       restoreVars, undoVars, boundVars, strayVars
  <1>13. ASSUME NEW a \in Attempts, NEW p \in Paths, Apply(a, p)
       PROVE  Recorded'
    <2>1. UNCHANGED <<phase, attempt, manifest>> /\ late \subseteq late'
      BY <1>13, ArmedTask DEF Apply
    <2>2. \A q \in Paths : q # p => task'[attempt][q] = task[attempt][q]
                                   /\ repo'[q] = repo[q]
      BY <1>13 DEF Apply, Ends, IInv, TypeOK
    <2>3. \/ p \in late'
          \/ phase \notin {"stage", "backup"} /\ task'[attempt][p] = "done"
      BY <1>13, ArmedTask DEF Apply, Ends, IInv, TypeOK
    <2> QED
      BY <2>1, <2>2, <2>3 DEF IInv, Recorded
  <1>14. ASSUME AllStaged
       PROVE  Recorded'
    BY <1>14 DEF AllStaged, IInv, TypeOK, Begins, Recorded, restoreVars,
       undoVars, boundVars, strayVars
  <1>15. ASSUME AllBacked
       PROVE  Recorded'
    BY <1>15 DEF AllBacked, IInv, TypeOK, Begins, Backed, Fresh, FilesOf,
       Recorded, Phased, Active, Jobs, restoreVars, undoVars, boundVars,
          strayVars
  <1>16. ASSUME AllApplied
       PROVE  Recorded'
    BY <1>16 DEF AllApplied, IInv, TypeOK, AfterSweep, Recorded,
       restoreVars, undoVars, boundVars, strayVars
  <1>17. ASSUME GatherRaises
       PROVE  Recorded'
    BY <1>17 DEF GatherRaises, IInv, TypeOK, AfterSweep, Recorded,
       restoreVars, undoVars, boundVars, strayVars
  <1>18. ASSUME UndoRaises
       PROVE  Recorded'
    BY <1>18 DEF UndoRaises, IInv, TypeOK, AfterSweep, Recorded,
       restoreVars, undoVars, boundVars, strayVars
  <1>19. ASSUME UndoEnds
       PROVE  Recorded'
    BY <1>19 DEF UndoEnds, IInv, TypeOK, AfterSweep, Recorded, restoreVars,
       undoVars, boundVars, strayVars
  <1>20. ASSUME Sweep
       PROVE  Recorded'
    BY <1>20 DEF Sweep, IInv, TypeOK, AfterSweep, Recorded, restoreVars,
       undoVars, boundVars, strayVars
  <1>21. ASSUME PurgeEnds
       PROVE  Recorded'
    BY <1>21 DEF PurgeEnds, IInv, TypeOK, AfterSweep, Recorded, restoreVars,
       undoVars, boundVars, strayVars
  <1>22. ASSUME NEW p \in Paths, UndoCreated(p)
       PROVE  Recorded'
    BY <1>22 DEF UndoCreated, IInv, TypeOK, Turn, Recorded, restoreVars,
       undoVars, boundVars, strayVars
  <1>23. ASSUME NEW p \in Paths, UndoCopyBegin(p)
       PROVE  Recorded'
    BY <1>23 DEF UndoCopyBegin, IInv, TypeOK, Turn, Recorded, restoreVars,
       undoVars, boundVars, strayVars
  <1>24. ASSUME UndoCopyEnd
       PROVE  Recorded'
    BY <1>24 DEF UndoCopyEnd, IInv, TypeOK, Turn, Recorded, restoreVars,
       undoVars, boundVars, strayVars
  <1>25. ASSUME NEW p \in Paths, Purge(p)
       PROVE  Recorded'
    BY <1>25 DEF Purge, IInv, TypeOK, Turn, Recorded, restoreVars, undoVars,
       boundVars, strayVars
  <1>30. ASSUME SweepFails
       PROVE  Recorded'
    BY <1>30 DEF SweepFails, AfterSweep, IInv, TypeOK, Fault, restoreVars,
       undoVars, boundVars, strayVars, Recorded
  <1> QED
    BY <1>1, <1>2, <1>3, <1>4, <1>5, <1>6, <1>7, <1>8, <1>9, <1>10, <1>11,
       <1>12, <1>13, <1>14, <1>15, <1>16, <1>17, <1>18, <1>19, <1>20, <1>21,
       <1>22, <1>23, <1>24, <1>25, <1>30
    DEF Next, Main, Create, Failure, Call, Task, CopyFile, PurgeDenied,
        vars, restoreVars, undoVars, boundVars, strayVars

\* The copy under way is of the tree as it stands.
LEMMA CopiedStep ==
  ASSUME IInv, [Next]_vars
  PROVE  Copied'
  <1>1. ASSUME UNCHANGED <<phase, repo, snapshot, published, target, listed,
     late>>
       PROVE  Copied'
    BY <1>1 DEF IInv, Copied
  <1>2. ASSUME NEW p \in Paths, Edit(p)
       PROVE  Copied'
    BY <1>2, VersioningAssumption DEF Edit, IInv, TypeOK, Copied, Returned,
       Jobs, restoreVars, undoVars, boundVars, strayVars
  <1>3. ASSUME NEW v \in Versions, CreateBegin(v)
       PROVE  Copied'
    BY <1>3, VersioningAssumption DEF CreateBegin, IInv, TypeOK, Copied,
       Tracked, Returned, Jobs, restoreVars, undoVars, boundVars, strayVars
  <1>4. ASSUME Publish
       PROVE  Copied'
    BY <1>4, VersioningAssumption DEF Publish, IInv, TypeOK, Copied,
       Returned, Jobs, restoreVars, undoVars, boundVars, strayVars
  <1>5. ASSUME NEW p \in Paths, CopyFile(p)
       PROVE  Copied'
    BY <1>5 DEF CopyFile, IInv, TypeOK, Copied, Phased, Tracked,
       restoreVars, undoVars, boundVars, strayVars
  <1>6. ASSUME CreateFails
       PROVE  Copied'
    BY <1>6 DEF CreateFails, IInv, TypeOK, Copied, Phased, Tracked,
       restoreVars, undoVars, boundVars, strayVars
  <1>7. ASSUME Crash
       PROVE  Copied'
    BY <1>7 DEF Crash, IInv, TypeOK, Copied, Phased, Tracked, restoreVars,
       undoVars, boundVars, strayVars
  <1>8. ASSUME NEW v \in Versions, NEW m \in {"soft", "hard"},
              RestoreBegin(v, m)
       PROVE  Copied'
    BY <1>8, VersioningAssumption DEF RestoreBegin, IInv, TypeOK, Copied,
       Returned, Jobs, restoreVars, undoVars, boundVars, strayVars
  <1>9. ASSUME NEW v \in Versions, RestoreRejected(v)
       PROVE  Copied'
    BY <1>9, VersioningAssumption DEF RestoreRejected, IInv, TypeOK, Copied,
       Returned, Jobs, restoreVars, undoVars, boundVars, strayVars
  <1>10. ASSUME NEW a \in Attempts, NEW p \in Paths, Apply(a, p)
       PROVE  Copied'
    <2>1. UNCHANGED <<phase, snapshot, published, target, listed>>
          /\ late \subseteq late'
      BY <1>10, ArmedTask DEF Apply
    <2>2. \A q \in Paths : q # p => repo'[q] = repo[q]
      BY <1>10, ArmedTask
    <2>3. repo'[p] # Absent
      BY <1>10, ArmedTask DEF Apply, FilesOf, Files, Tracked, IInv, TypeOK
    <2>4. phase = "copy" => p \in late'
      BY <1>10, ArmedTask
    <2> QED
      BY <2>1, <2>2, <2>3, <2>4 DEF IInv, Copied, Tracked
  <1>11. ASSUME AllStaged
       PROVE  Copied'
    BY <1>11 DEF AllStaged, IInv, TypeOK, Begins, Copied, restoreVars,
       undoVars, boundVars, strayVars
  <1>12. ASSUME AllBacked
       PROVE  Copied'
    BY <1>12 DEF AllBacked, IInv, TypeOK, Begins, Copied, restoreVars,
       undoVars, boundVars, strayVars
  <1>13. ASSUME AllApplied
       PROVE  Copied'
    BY <1>13 DEF AllApplied, IInv, TypeOK, AfterSweep, Copied, Jobs,
       restoreVars, undoVars, boundVars, strayVars
  <1>14. ASSUME GatherRaises
       PROVE  Copied'
    BY <1>14 DEF GatherRaises, IInv, TypeOK, AfterSweep, Copied, Jobs,
       restoreVars, undoVars, boundVars, strayVars
  <1>15. ASSUME UndoRaises
       PROVE  Copied'
    BY <1>15 DEF UndoRaises, IInv, TypeOK, AfterSweep, Copied, Jobs,
       restoreVars, undoVars, boundVars, strayVars
  <1>16. ASSUME UndoEnds
       PROVE  Copied'
    BY <1>16 DEF UndoEnds, IInv, TypeOK, AfterSweep, Copied, Jobs,
       restoreVars, undoVars, boundVars, strayVars
  <1>17. ASSUME Sweep
       PROVE  Copied'
    BY <1>17 DEF Sweep, IInv, TypeOK, AfterSweep, Copied, Jobs, restoreVars,
       undoVars, boundVars, strayVars
  <1>18. ASSUME PurgeEnds
       PROVE  Copied'
    BY <1>18 DEF PurgeEnds, IInv, TypeOK, AfterSweep, Copied, Jobs,
       restoreVars, undoVars, boundVars, strayVars
  <1>19. ASSUME NEW p \in Paths, UndoCreated(p)
       PROVE  Copied'
    BY <1>19 DEF UndoCreated, IInv, TypeOK, Turn, Copied, restoreVars,
       undoVars, boundVars, strayVars
  <1>20. ASSUME NEW p \in Paths, UndoCopyBegin(p)
       PROVE  Copied'
    BY <1>20 DEF UndoCopyBegin, IInv, TypeOK, Turn, Copied, restoreVars,
       undoVars, boundVars, strayVars
  <1>21. ASSUME UndoCopyEnd
       PROVE  Copied'
    BY <1>21 DEF UndoCopyEnd, IInv, TypeOK, Turn, Copied, restoreVars,
       undoVars, boundVars, strayVars
  <1>22. ASSUME NEW p \in Paths, Purge(p)
       PROVE  Copied'
    BY <1>22 DEF Purge, IInv, TypeOK, Turn, Copied, restoreVars, undoVars,
       boundVars, strayVars
  <1>30. ASSUME SweepFails
       PROVE  Copied'
    BY <1>30 DEF SweepFails, AfterSweep, IInv, TypeOK, Fault, restoreVars,
       undoVars, boundVars, strayVars, Copied, Jobs
  <1>31. ASSUME NEW p \in Paths, PurgeDenied(p)
       PROVE  Copied'
    BY <1>31 DEF PurgeDenied, IInv, TypeOK, Copied, restoreVars, undoVars,
       boundVars, strayVars
  <1> QED
    BY <1>1, <1>2, <1>3, <1>4, <1>5, <1>6, <1>7, <1>8, <1>9, <1>10, <1>11,
       <1>12, <1>13, <1>14, <1>15, <1>16, <1>17, <1>18, <1>19, <1>20, <1>21,
       <1>22, <1>30, <1>31
    DEF Next, Main, Create, Failure, Call, Task, Stage, Backup,
        ApplyMissing, TaskRaises, vars, restoreVars, undoVars,
        boundVars, strayVars

\* A file with an entry in the manifest is old, new, or being copied back.
LEMMA OldOrNewStep ==
  ASSUME IInv, [Next]_vars
  PROVE  OldOrNew'
  <1>1. ASSUME UNCHANGED <<phase, repo, snapshot, attempt, source, manifest,
     copying, late>>
       PROVE  OldOrNew'
    BY <1>1 DEF IInv, OldOrNew
  <1>2. ASSUME NEW p \in Paths, Edit(p)
       PROVE  OldOrNew'
    BY <1>2 DEF Edit, IInv, TypeOK, OldOrNew, Returned, Jobs, restoreVars,
       undoVars, boundVars, strayVars
  <1>3. ASSUME NEW v \in Versions, CreateBegin(v)
       PROVE  OldOrNew'
    BY <1>3 DEF CreateBegin, IInv, TypeOK, OldOrNew, Returned, Jobs,
       restoreVars, undoVars, boundVars, strayVars
  <1>4. ASSUME Publish
       PROVE  OldOrNew'
    BY <1>4 DEF Publish, IInv, TypeOK, OldOrNew, Returned, Jobs,
       restoreVars, undoVars, boundVars, strayVars
  <1>5. ASSUME CreateFails
       PROVE  OldOrNew'
    BY <1>5 DEF CreateFails, IInv, TypeOK, OldOrNew, Returned, Jobs,
       restoreVars, undoVars, boundVars, strayVars
  <1>6. ASSUME Crash
       PROVE  OldOrNew'
    BY <1>6 DEF Crash, IInv, TypeOK, OldOrNew, Returned, Jobs, restoreVars,
       undoVars, boundVars, strayVars
  <1>7. ASSUME NEW p \in Paths, CopyFile(p)
       PROVE  OldOrNew'
    BY <1>7 DEF CopyFile, IInv, TypeOK, OldOrNew, restoreVars, undoVars,
       boundVars, strayVars
  <1>8. ASSUME NEW v \in Versions, NEW m \in {"soft", "hard"},
              RestoreBegin(v, m)
       PROVE  OldOrNew'
    BY <1>8 DEF RestoreBegin, IInv, TypeOK, OldOrNew, restoreVars, undoVars,
       boundVars, strayVars
  <1>9. ASSUME NEW v \in Versions, RestoreRejected(v)
       PROVE  OldOrNew'
    BY <1>9 DEF RestoreRejected, IInv, TypeOK, OldOrNew, restoreVars,
       undoVars, boundVars, strayVars
  <1>10. ASSUME NEW a \in Attempts, NEW p \in Paths, Backup(a, p)
       PROVE  OldOrNew'
    BY <1>10 DEF Backup, IInv, TypeOK, Runs, Ends, OldOrNew, Attempts,
       restoreVars, undoVars, boundVars, strayVars
  <1>11. ASSUME NEW a \in Attempts, NEW p \in Paths, Apply(a, p)
       PROVE  OldOrNew'
    BY <1>11, ArmedTask DEF Apply, IInv, TypeOK, Runs, Ends, OldOrNew,
       Attempts, restoreVars, undoVars, boundVars, strayVars
  <1>12. ASSUME AllStaged
       PROVE  OldOrNew'
    BY <1>12 DEF AllStaged, IInv, TypeOK, Begins, OldOrNew, Recorded,
       restoreVars, undoVars, boundVars, strayVars
  <1>13. ASSUME AllBacked
       PROVE  OldOrNew'
    BY <1>13 DEF AllBacked, IInv, TypeOK, Begins, OldOrNew, restoreVars,
       undoVars, boundVars, strayVars
  <1>14. ASSUME GatherRaises
       PROVE  OldOrNew'
    BY <1>14 DEF GatherRaises, IInv, TypeOK, OldOrNew, Recorded, Jobs,
       restoreVars, undoVars, boundVars, strayVars
  <1>15. ASSUME AllApplied
       PROVE  OldOrNew'
    BY <1>15 DEF AllApplied, IInv, TypeOK, OldOrNew, Phased, restoreVars,
       undoVars, boundVars, strayVars
  <1>16. ASSUME UndoRaises
       PROVE  OldOrNew'
    BY <1>16 DEF UndoRaises, IInv, TypeOK, OldOrNew, Phased, restoreVars,
       undoVars, boundVars, strayVars
  <1>17. ASSUME UndoEnds
       PROVE  OldOrNew'
    BY <1>17 DEF UndoEnds, IInv, TypeOK, OldOrNew, Phased, restoreVars,
       undoVars, boundVars, strayVars
  <1>18. ASSUME Sweep
       PROVE  OldOrNew'
    BY <1>18 DEF Sweep, IInv, TypeOK, AfterSweep, OldOrNew, restoreVars,
       undoVars, boundVars, strayVars
  <1>19. ASSUME PurgeEnds
       PROVE  OldOrNew'
    BY <1>19 DEF PurgeEnds, IInv, TypeOK, OldOrNew, restoreVars, undoVars,
       boundVars, strayVars
  <1>20. ASSUME NEW p \in Paths, Purge(p)
       PROVE  OldOrNew'
    BY <1>20 DEF Purge, IInv, TypeOK, OldOrNew, restoreVars, undoVars,
       boundVars, strayVars
  <1>21. ASSUME NEW p \in Paths, UndoCreated(p)
       PROVE  OldOrNew'
    BY <1>21, VersioningAssumption DEF UndoCreated, IInv, TypeOK, Turn,
       Phased, Active, OldOrNew, restoreVars, undoVars, boundVars, strayVars
  <1>22. ASSUME NEW p \in Paths, UndoCopyBegin(p)
       PROVE  OldOrNew'
    BY <1>22, VersioningAssumption DEF UndoCopyBegin, IInv, TypeOK, Turn,
       Phased, Active, OldOrNew, restoreVars, undoVars, boundVars, strayVars
  <1>23. ASSUME UndoCopyEnd
       PROVE  OldOrNew'
    BY <1>23, VersioningAssumption DEF UndoCopyEnd, IInv, TypeOK, Turn,
       Phased, Active, OldOrNew, restoreVars, undoVars, boundVars, strayVars
  <1>30. ASSUME SweepFails
       PROVE  OldOrNew'
    BY <1>30 DEF SweepFails, AfterSweep, IInv, TypeOK, Fault, restoreVars,
       undoVars, boundVars, strayVars, OldOrNew
  <1> QED
    BY <1>1, <1>2, <1>3, <1>4, <1>5, <1>6, <1>7, <1>8, <1>9, <1>10, <1>11,
       <1>12, <1>13, <1>14, <1>15, <1>16, <1>17, <1>18, <1>19, <1>20, <1>21,
       <1>22, <1>23, <1>30
    DEF Next, Main, Create, Failure, Call, Task, Stage, ApplyMissing,
        TaskRaises, PurgeDenied, vars, restoreVars, undoVars, boundVars,
           strayVars

\* A hard restore ends with nothing left to delete.
LEMMA HardStep ==
  ASSUME IInv, [Next]_vars
  PROVE  HardRestoreIsExact'
  <1>1. ASSUME UNCHANGED <<phase, repo, snapshot, attempt, source, mode,
     skipped, late>>
       PROVE  HardRestoreIsExact'
    BY <1>1 DEF IInv, HardRestoreIsExact, FilesOf, Files, Tracked
  <1>2. ASSUME NEW p \in Paths, Edit(p)
       PROVE  HardRestoreIsExact'
    BY <1>2 DEF Edit, IInv, TypeOK, HardRestoreIsExact, restoreVars,
       undoVars, boundVars, strayVars
  <1>3. ASSUME NEW v \in Versions, CreateBegin(v)
       PROVE  HardRestoreIsExact'
    BY <1>3 DEF CreateBegin, IInv, TypeOK, HardRestoreIsExact, restoreVars,
       undoVars, boundVars, strayVars
  <1>4. ASSUME Publish
       PROVE  HardRestoreIsExact'
    BY <1>4 DEF Publish, IInv, TypeOK, HardRestoreIsExact, restoreVars,
       undoVars, boundVars, strayVars
  <1>5. ASSUME CreateFails
       PROVE  HardRestoreIsExact'
    BY <1>5 DEF CreateFails, IInv, TypeOK, HardRestoreIsExact, restoreVars,
       undoVars, boundVars, strayVars
  <1>6. ASSUME Crash
       PROVE  HardRestoreIsExact'
    BY <1>6 DEF Crash, IInv, TypeOK, HardRestoreIsExact, restoreVars,
       undoVars, boundVars, strayVars
  <1>7. ASSUME NEW p \in Paths, CopyFile(p)
       PROVE  HardRestoreIsExact'
    BY <1>7 DEF CopyFile, IInv, TypeOK, HardRestoreIsExact, restoreVars,
       undoVars, boundVars, strayVars
  <1>8. ASSUME NEW v \in Versions, NEW m \in {"soft", "hard"},
              RestoreBegin(v, m)
       PROVE  HardRestoreIsExact'
    BY <1>8 DEF RestoreBegin, IInv, TypeOK, HardRestoreIsExact, restoreVars,
       undoVars, boundVars, strayVars
  <1>9. ASSUME NEW v \in Versions, RestoreRejected(v)
       PROVE  HardRestoreIsExact'
    BY <1>9 DEF RestoreRejected, IInv, TypeOK, HardRestoreIsExact,
       restoreVars, undoVars, boundVars, strayVars
  <1>10. ASSUME NEW a \in Attempts, NEW p \in Paths, Apply(a, p)
       PROVE  HardRestoreIsExact'
    <2>1. UNCHANGED <<phase, mode, snapshot, attempt, source, skipped>>
          /\ late \subseteq late' /\ (phase = "true" => p \in late')
      BY <1>10, ArmedTask DEF Apply, undoVars
    <2>2. \A q \in Paths : q # p => repo'[q] = repo[q]
      BY <1>10, ArmedTask
    <2> QED
      BY <2>1, <2>2 DEF IInv, HardRestoreIsExact, FilesOf, Files, Tracked
  <1>11. ASSUME AllStaged
       PROVE  HardRestoreIsExact'
    BY <1>11 DEF AllStaged, IInv, TypeOK, Begins, HardRestoreIsExact,
       restoreVars, undoVars, boundVars, strayVars
  <1>12. ASSUME AllBacked
       PROVE  HardRestoreIsExact'
    BY <1>12 DEF AllBacked, IInv, TypeOK, Begins, HardRestoreIsExact,
       restoreVars, undoVars, boundVars, strayVars
  <1>13. ASSUME AllApplied
       PROVE  HardRestoreIsExact'
    BY <1>13 DEF AllApplied, IInv, TypeOK, HardRestoreIsExact, restoreVars,
       undoVars, boundVars, strayVars
  <1>14. ASSUME GatherRaises
       PROVE  HardRestoreIsExact'
    BY <1>14 DEF GatherRaises, IInv, TypeOK, HardRestoreIsExact,
       restoreVars, undoVars, boundVars, strayVars
  <1>15. ASSUME UndoRaises
       PROVE  HardRestoreIsExact'
    BY <1>15 DEF UndoRaises, IInv, TypeOK, HardRestoreIsExact, restoreVars,
       undoVars, boundVars, strayVars
  <1>16. ASSUME UndoEnds
       PROVE  HardRestoreIsExact'
    BY <1>16 DEF UndoEnds, IInv, TypeOK, HardRestoreIsExact, restoreVars,
       undoVars, boundVars, strayVars
  <1>17. ASSUME Sweep
       PROVE  HardRestoreIsExact'
    BY <1>17 DEF Sweep, IInv, TypeOK, AfterSweep, HardRestoreIsExact,
       restoreVars, undoVars, boundVars, strayVars
  <1>18. ASSUME NEW p \in Paths, Purge(p)
       PROVE  HardRestoreIsExact'
    BY <1>18 DEF Purge, IInv, TypeOK, HardRestoreIsExact, restoreVars,
       undoVars, boundVars, strayVars
  <1>19. ASSUME NEW p \in Paths, PurgeDenied(p)
       PROVE  HardRestoreIsExact'
    BY <1>19 DEF PurgeDenied, IInv, TypeOK, HardRestoreIsExact, restoreVars,
       undoVars, boundVars, strayVars
  <1>20. ASSUME PurgeEnds
       PROVE  HardRestoreIsExact'
    BY <1>20 DEF PurgeEnds, IInv, TypeOK, Extra, HardRestoreIsExact,
       Purging, FilesOf, Files, Tracked, restoreVars, undoVars, boundVars,
       strayVars
  <1>21. ASSUME NEW p \in Paths, UndoCreated(p)
       PROVE  HardRestoreIsExact'
    BY <1>21 DEF UndoCreated, IInv, TypeOK, Turn, HardRestoreIsExact,
       restoreVars, undoVars, boundVars, strayVars
  <1>22. ASSUME NEW p \in Paths, UndoCopyBegin(p)
       PROVE  HardRestoreIsExact'
    BY <1>22 DEF UndoCopyBegin, IInv, TypeOK, Turn, HardRestoreIsExact,
       restoreVars, undoVars, boundVars, strayVars
  <1>23. ASSUME UndoCopyEnd
       PROVE  HardRestoreIsExact'
    BY <1>23 DEF UndoCopyEnd, IInv, TypeOK, Turn, HardRestoreIsExact,
       restoreVars, undoVars, boundVars, strayVars
  <1>30. ASSUME SweepFails
       PROVE  HardRestoreIsExact'
    BY <1>30 DEF SweepFails, AfterSweep, IInv, TypeOK, Fault, restoreVars,
       undoVars, boundVars, strayVars, HardRestoreIsExact
  <1> QED
    BY <1>1, <1>2, <1>3, <1>4, <1>5, <1>6, <1>7, <1>8, <1>9, <1>10, <1>11,
       <1>12, <1>13, <1>14, <1>15, <1>16, <1>17, <1>18, <1>19, <1>20, <1>21,
       <1>22, <1>23, <1>30
    DEF Next, Main, Create, Failure, Call, Task, Stage, Backup,
        ApplyMissing, TaskRaises, vars, restoreVars, undoVars, boundVars,
           strayVars

\* What the hard delete has listed and not visited covers what is left.
LEMMA PurgingStep ==
  ASSUME IInv, [Next]_vars
  PROVE  Purging'
  <1>1. ASSUME phase' # "purge" PROVE Purging'
    BY <1>1 DEF Purging
  <1>2. ASSUME UNCHANGED <<phase, repo, snapshot, attempt, source, skipped,
                           listed, late>>
        PROVE  Purging'
    BY <1>2 DEF IInv, Purging, FilesOf, Files, Tracked
  <1>3. ASSUME listed' = Tracked(repo), repo' = repo PROVE Purging'
    BY <1>3 DEF Purging, Tracked
  <1>4. ASSUME NEW v \in Versions, NEW m \in {"soft", "hard"},
               RestoreBegin(v, m)
        PROVE  Purging'
    BY <1>3, <1>4 DEF RestoreBegin
  <1>5. ASSUME Sweep \/ SweepFails PROVE Purging'
    BY <1>1, <1>3, <1>5 DEF Sweep, SweepFails, ListsFor
  <1>6. ASSUME NEW p \in Paths, Purge(p) \/ PurgeDenied(p) PROVE Purging'
    BY <1>6 DEF IInv, TypeOK, Purging, Purge, PurgeDenied, FilesOf, Files,
       Tracked, restoreVars, undoVars, strayVars
  <1>7. ASSUME NEW a \in Attempts, NEW p \in Paths, Apply(a, p)
        PROVE  Purging'
    <2>1. UNCHANGED <<phase, snapshot, attempt, source, skipped, listed>>
          /\ late \subseteq late' /\ (phase = "purge" => p \in late')
      BY <1>7, ArmedTask DEF Apply, undoVars
    <2>2. \A q \in Paths : q # p => repo'[q] = repo[q]
      BY <1>7, ArmedTask
    <2> QED
      BY <2>1, <2>2 DEF IInv, Purging, FilesOf, Files, Tracked
  <1>8. ASSUME NEW p \in Paths,
               Edit(p) \/ CopyFile(p) \/ UndoCreated(p) \/ UndoCopyBegin(p)
        PROVE  Purging'
    BY <1>1, <1>8 DEF Edit, CopyFile, UndoCreated, UndoCopyBegin, Turn
  <1>9. ASSUME NEW v \in Versions, CreateBegin(v) \/ RestoreRejected(v)
        PROVE  Purging'
    BY <1>1, <1>9 DEF CreateBegin, RestoreRejected
  <1>10. ASSUME \/ AllStaged \/ AllBacked \/ AllApplied \/ GatherRaises
                \/ UndoCopyEnd \/ UndoEnds \/ PurgeEnds \/ UndoRaises
                \/ Publish \/ CreateFails \/ Crash
         PROVE  Purging'
    BY <1>1, <1>10 DEF AllStaged, AllBacked, AllApplied, GatherRaises,
       UndoCopyEnd, UndoEnds, PurgeEnds, UndoRaises, Publish, CreateFails,
       Crash, Begins
  <1>11. ASSUME NEW a \in Attempts, NEW p \in Paths,
                \/ Stage(a, p) \/ Backup(a, p) \/ ApplyMissing(a, p)
                \/ TaskRaises(a, p)
         PROVE  Purging'
    BY <1>2, <1>11 DEF Stage, Backup, ApplyMissing, TaskRaises, undoVars,
       strayVars
  <1>12. CASE UNCHANGED vars
    BY <1>2, <1>12 DEF vars, restoreVars, undoVars, strayVars
  <1> QED
    BY <1>4, <1>5, <1>6, <1>7, <1>8, <1>9, <1>10, <1>11, <1>12
    DEF Next, Main, Create, Failure, Call, Task

\* Every step keeps the invariant.
LEMMA InvStep ==
  ASSUME IInv, [Next]_vars
  PROVE  IInv'
  BY TypeStep, SourcesStep, PhasedStep, BarrierStep, RestoredStep,
     RecordedStep, CopiedStep, PurgingStep, OldOrNewStep, HardStep DEF IInv

-----------------------------------------------------------------------------
(* The rollback.  Why the race with the tasks that a gather leaves behind  *)
(* stays in one slice: a task ends only after the earlier slices are done, *)
(* so while one has failed, all that can still run is in its slice.        *)

Ended == {"done", "failed"}

\* A task that ended found the earlier slices done.
Sliced ==
  \A a \in Attempts : a <= attempt =>
    \A p, q \in FilesOf(a) :
      task[a][p] \in Ended /\ BatchOf[q] < BatchOf[p] => task[a][q] = "done"

SliceFailed(p) ==
  \E q \in FilesOf(attempt) :
    BatchOf[q] = BatchOf[p] /\ task[attempt][q] = "failed"

\* A rollback follows a failed task; what it is done with, and what it is
\* copying back, is as it left it or shares the slice of the failed task.
Undoing ==
  /\ phase \in Jobs => undone = {}
  /\ phase \in {"undo", "sweep_false"} =>
       /\ \E q \in FilesOf(attempt) : task[attempt][q] = "failed"
       /\ copying # None => \/ repo[copying] = Torn
                            \/ SliceFailed(copying) \/ copying \in late
       /\ \A p \in undone \ late :
            repo[p] = manifest[attempt][p] \/ SliceFailed(p)

\* The snapshots that attempts restore are not touched.
LEMMA FilesKept ==
  ASSUME IInv, [Next]_vars, source' = source, NEW a \in Attempts, a <= attempt
  PROVE  FilesOf(a)' = FilesOf(a)
  BY SnapshotStep DEF IInv, Sources, SnapshotsKept, FilesOf, Files, Tracked

\* A task starts behind the barrier of the earlier slices and stays there.
LEMMA SlicedStep ==
  ASSUME IInv, Sliced, [Next]_vars
  PROVE  Sliced'
  <1>0. TypeOK /\ Sources
    BY DEF IInv
  <1>1. ASSUME UNCHANGED <<attempt, source, task>> PROVE Sliced'
    BY <1>1, FilesKept DEF Sliced
  <1>2. ASSUME NEW b \in Attempts, NEW r \in Paths, NEW state \in Ended,
               \E j \in Jobs : Runs(b, r, j), Ends(b, r, state),
               UNCHANGED <<attempt, source>>
        PROVE  Sliced'
    <2> SUFFICES ASSUME NEW a \in Attempts, a <= attempt,
                        NEW p \in FilesOf(a), NEW q \in FilesOf(a),
                        task'[a][p] \in Ended, BatchOf[q] < BatchOf[p]
                 PROVE  task'[a][q] = "done"
      BY <1>2, FilesKept DEF Sliced
    <2>1. task[b][r] = "queued"
      BY <1>2 DEF Runs
    <2>2. p \in Paths /\ q \in Paths /\ BatchOf[p] \in Nat /\ BatchOf[q] \in Nat
      BY VersioningAssumption DEF FilesOf, Files, Tracked
    <2>3. CASE a = b /\ p = r
      <3>1. p # q /\ task[a][q] = "done"
        BY <1>2, <2>2, <2>3 DEF Runs
      <3> QED
        BY <1>0, <1>2, <2>2, <2>3, <3>1 DEF Ends, TypeOK
    <2>4. CASE ~(a = b /\ p = r)
      <3>1. task'[a][p] = task[a][p]
        BY <1>0, <1>2, <2>2, <2>4 DEF Ends, TypeOK
      <3>2. task[a][q] = "done"
        BY <3>1 DEF Sliced
      <3> QED
        BY <1>0, <1>2, <2>1, <2>2, <3>2 DEF Ends, TypeOK
    <2> QED
      BY <2>3, <2>4
  <1>3. ASSUME NEW j \in Jobs, phase \in Jobs, Begins(j) PROVE Sliced'
    <2>1. UNCHANGED <<attempt, source>> /\ attempt \in Attempts
      BY <1>0, <1>3 DEF Begins, IInv, Phased, Active
    <2>2. \A p \in Paths : task'[attempt][p] \notin Ended
      BY <1>0, <1>3, <2>1 DEF Begins, Fresh, TypeOK, Ended
    <2>3. \A a \in Attempts : a # attempt => task'[a] = task[a]
      BY <1>0, <1>3 DEF Begins, TypeOK
    <2> QED
      BY <2>1, <2>2, <2>3, FilesKept DEF Sliced, FilesOf, Files, Tracked
  <1>4. ASSUME NEW v \in Versions, attempt < MaxAttempts,
               attempt' = attempt + 1,
               source' = [source EXCEPT ![attempt + 1] = v],
               snapshot' = snapshot,
               \/ task' = [task EXCEPT ![attempt + 1] = Fresh(v)]
               \/ task' = task
        PROVE  Sliced'
    <2>1. attempt + 1 \in Attempts /\ attempt \in Nat
      BY <1>0, <1>4, VersioningAssumption DEF TypeOK, Attempts
    <2>2. \A a \in Attempts : a <= attempt => a # attempt + 1
      BY <2>1 DEF Attempts
    <2>3. attempt + 1 > attempt
      BY <2>1
    <2>4. task[attempt + 1] = NoTasks
      BY <1>0, <2>1, <2>3 DEF Sources
    <2>5. task'[attempt + 1] \in {Fresh(v), NoTasks}
      BY <1>0, <1>4, <2>1, <2>4 DEF TypeOK
    <2>6. \A p \in Paths : task'[attempt + 1][p] \notin Ended
      BY <2>5 DEF NoTasks, Fresh, Ended
    <2>7. \A a \in Attempts : a <= attempt =>
            task'[a] = task[a] /\ source'[a] = source[a]
      BY <1>0, <1>4, <2>1, <2>2 DEF TypeOK
    <2>8. \A a \in Attempts : a <= attempt => FilesOf(a)' = FilesOf(a)
      BY <1>4, <2>7 DEF FilesOf, Files, Tracked
    <2>9. \A a \in Attempts : a <= attempt + 1 => a <= attempt \/ a = attempt + 1
      BY <2>1 DEF Attempts
    <2> QED
      BY <1>4, <2>1, <2>6, <2>7, <2>8, <2>9 DEF Sliced, FilesOf, Files, Tracked
  <1>5. ASSUME Crash PROVE Sliced'
    BY <1>5 DEF Crash, NoTasks, Sliced, FilesOf, Files, Tracked, Ended
  <1>6. ASSUME NEW v \in Versions, NEW m \in {"soft", "hard"},
               RestoreBegin(v, m)
        PROVE  Sliced'
    BY <1>4, <1>6 DEF RestoreBegin
  <1>7. ASSUME NEW v \in Versions, RestoreRejected(v) PROVE Sliced'
    BY <1>4, <1>7 DEF RestoreRejected
  <1>8. ASSUME NEW a \in Attempts, NEW p \in Paths,
               Task(a, p) \/ TaskRaises(a, p)
        PROVE  Sliced'
    BY <1>2, <1>8 DEF Task, Stage, Backup, Apply, ApplyMissing, TaskRaises,
       Jobs, Ended
  <1>9. ASSUME AllStaged \/ AllBacked PROVE Sliced'
    BY <1>3, <1>9 DEF AllStaged, AllBacked, Jobs
  <1> QED
    BY <1>1, <1>5, <1>6, <1>7, <1>8, <1>9
    DEF Next, Main, Create, Failure, Call, Edit, CreateBegin, CopyFile,
        Publish, CreateFails, AllApplied, GatherRaises, UndoCopyEnd,
        UndoRaises, UndoEnds, Sweep, SweepFails, PurgeEnds, UndoCreated,
        UndoCopyBegin, Purge, PurgeDenied, vars, restoreVars, undoVars,
        boundVars, strayVars

\* While a task has failed, one that can still run is in the same slice.
LEMMA SameSlice ==
  ASSUME IInv, Sliced, attempt \in Attempts, NEW p \in Paths, NEW j \in Jobs,
         Runs(attempt, p, j),
         \E q \in FilesOf(attempt) : task[attempt][q] = "failed"
  PROVE  SliceFailed(p)
  <1>1. PICK q \in FilesOf(attempt) : task[attempt][q] = "failed"
    OBVIOUS
  <1>2. p \in FilesOf(attempt) /\ task[attempt][p] = "queued"
    BY DEF IInv, Sources, Runs
  <1>3. BatchOf[p] \in Nat /\ BatchOf[q] \in Nat
    BY <1>1, VersioningAssumption DEF FilesOf, Files, Tracked
  <1>4. ~(BatchOf[q] < BatchOf[p])
    BY <1>1 DEF Runs
  <1>5. attempt <= attempt
    BY DEF IInv, TypeOK
  <1>6. ~(BatchOf[p] < BatchOf[q])
    BY <1>1, <1>2, <1>5 DEF Sliced, Ended
  <1>7. BatchOf[p] = BatchOf[q]
    BY <1>3, <1>4, <1>6
  <1> QED
    BY <1>1, <1>7 DEF SliceFailed

\* What the rollback is done with stays as it left it, but for the replaces
\* of the tasks in the slice of the one that failed.
LEMMA UndoingStep ==
  ASSUME IInv, Sliced, Undoing, [Next]_vars
  PROVE  Undoing'
  <1>0. TypeOK /\ Phased /\ (phase \in Active => attempt \in Attempts)
    BY DEF IInv, Phased
  <1>1. ASSUME phase' \notin Jobs \cup {"undo", "sweep_false"} PROVE Undoing'
    BY <1>1 DEF Undoing
  <1>2. ASSUME phase' \in Jobs, undone' = {} PROVE Undoing'
    BY <1>2 DEF Undoing, Jobs
  <1>3. ASSUME UNCHANGED <<repo, attempt, source, task, manifest, undone,
                           copying, late>>,
               \/ phase' = phase
               \/ phase = "undo" /\ phase' = "sweep_false"
        PROVE  Undoing'
    <2>1. CASE phase' \in Jobs
      BY <1>2, <1>3, <2>1 DEF Undoing, Jobs
    <2>2. CASE phase' \in {"undo", "sweep_false"}
      <3>1. phase \in {"undo", "sweep_false"} /\ attempt \in Attempts
            /\ attempt <= attempt
        BY <1>0, <1>3, <2>2 DEF Active, TypeOK
      <3>2. FilesOf(attempt)' = FilesOf(attempt)
        BY <1>3, <3>1, FilesKept
      <3> QED
        BY <1>3, <2>2, <3>1, <3>2 DEF Undoing, SliceFailed, Jobs
    <2> QED
      BY <1>1, <2>1, <2>2
  <1>4. ASSUME NEW a \in Attempts, NEW p \in Paths, NEW j \in Jobs,
               NEW state \in Ended, Runs(a, p, j), Ends(a, p, state),
               UNCHANGED <<phase, attempt, source, snapshot, undone, copying>>,
               \/ UNCHANGED <<repo, manifest, late>>
               \/ /\ UNCHANGED <<repo, late>>
                  /\ manifest' = [manifest EXCEPT ![a][p] = repo[p]]
               \/ /\ Apply(a, p) /\ manifest' = manifest
        PROVE  Undoing'
    <2>1. CASE phase \notin {"undo", "sweep_false"}
      BY <1>1, <1>2, <1>4, <2>1 DEF Undoing
    <2>2. CASE phase \in {"undo", "sweep_false"}
      <3>1. attempt \in Attempts /\ FilesOf(attempt)' = FilesOf(attempt)
        BY <1>0, <1>4, <2>2 DEF Active, FilesOf, Files, Tracked
      <3>2. \A q \in FilesOf(attempt) : task[attempt][q] = "failed"
                                          => task'[attempt][q] = "failed"
        BY <1>0, <1>4, <3>1 DEF Runs, Ends, TypeOK, FilesOf, Files, Tracked
      <3>3. \E q \in FilesOf(attempt)' : task'[attempt'][q] = "failed"
        BY <1>4, <2>2, <3>1, <3>2 DEF Undoing
      <3>4. \A r \in Paths : SliceFailed(r) => SliceFailed(r)'
        BY <1>4, <3>1, <3>2 DEF SliceFailed
      <3>5. ASSUME Apply(a, p) PROVE SliceFailed(p)' \/ p \in late'
        <4>1. CASE p \in late'
          BY <4>1
        <4>2. CASE a = attempt
          BY <1>4, <2>2, <3>1, <3>4, <4>2, SameSlice DEF Undoing
        <4> QED
          BY <3>5, <4>1, <4>2, ArmedTask
      <3>8. late \subseteq late'
        BY <1>4, ArmedTask
      <3>6. ASSUME NEW r \in Paths,
                   \/ repo[r] = manifest[attempt][r] \/ SliceFailed(r)
                   \/ r \in late
            PROVE  \/ repo'[r] = manifest'[attempt'][r] \/ SliceFailed(r)'
                   \/ r \in late'
        BY <1>0, <1>4, <3>1, <3>4, <3>5, <3>6, <3>8 DEF TypeOK, Apply
      <3>7. ASSUME NEW r \in Paths,
                   repo[r] = Torn \/ SliceFailed(r) \/ r \in late
            PROVE  repo'[r] = Torn \/ SliceFailed(r)' \/ r \in late'
        BY <1>0, <1>4, <3>4, <3>5, <3>7, <3>8 DEF TypeOK, Apply
      <3> QED
        BY <1>0, <1>4, <2>2, <3>3, <3>6, <3>7 DEF Undoing, TypeOK, Jobs
    <2> QED
      BY <2>1, <2>2
  <1>5. ASSUME GatherRaises PROVE Undoing'
    <2>1. UNCHANGED <<snapshot, attempt, source, task, undone, copying>>
          /\ undone = {} /\ copying = None /\ phase' = "undo"
          /\ \E p \in FilesOf(attempt) : task[attempt][p] = "failed"
      BY <1>0, <1>5 DEF GatherRaises, Undoing, Phased, restoreVars
    <2> QED
      BY <2>1 DEF Undoing, Jobs, FilesOf, Files, Tracked
  <1>6. ASSUME UNCHANGED <<snapshot, attempt, source, task, manifest, phase,
                           late>>,
               phase = "undo", NEW p \in Paths,
               NEW c \in Entry, repo' = [repo EXCEPT ![p] = c],
               \/ c = manifest[attempt][p] \/ c = Torn
               \/ copying = p /\ repo[p] # Torn /\ c = repo[p],
               \/ /\ c = Torn /\ p \notin undone
                  /\ copying = None /\ copying' = p /\ undone' = undone
               \/ /\ c # Torn \/ c = manifest[attempt][p]
                  /\ copying \in {None, p} /\ copying' = None
                  /\ undone' = undone \cup {p}
        PROVE  Undoing'
    <2>1. FilesOf(attempt)' = FilesOf(attempt)
      BY <1>6 DEF FilesOf, Files, Tracked
    <2>2. \A r \in Paths : SliceFailed(r)' <=> SliceFailed(r)
      BY <1>6, <2>1 DEF SliceFailed
    <2>3. \E q \in FilesOf(attempt)' : task'[attempt'][q] = "failed"
      BY <1>6, <2>1 DEF Undoing
    <2>4. repo'[p] = c /\ \A r \in Paths \ {p} : repo'[r] = repo[r]
      BY <1>0, <1>6 DEF TypeOK
    <2>5. copying' # None => repo'[copying'] = Torn
      BY <1>6, <2>4
    <2>6. ASSUME NEW r \in undone' \ late'
          PROVE  repo'[r] = manifest'[attempt'][r] \/ SliceFailed(r)'
      <3>1. r \in Paths
        BY <1>0, <1>6 DEF TypeOK
      <3>2. CASE r # p
        BY <1>6, <2>2, <2>4, <3>1, <3>2 DEF Undoing
      <3>3. CASE r = p /\ p \notin undone /\ undone' = undone
        BY <2>6, <3>3
      <3>4. CASE r = p /\ c = manifest[attempt][p]
        BY <1>6, <2>4, <3>4
      <3>5. CASE r = p /\ copying = p /\ repo[p] # Torn
        BY <1>6, <2>2, <3>5, VersioningAssumption DEF Undoing
      <3> QED
        BY <1>6, <3>2, <3>3, <3>4, <3>5
    <2> QED
      BY <1>6, <2>3, <2>5, <2>6 DEF Undoing, Jobs
  <1>7. ASSUME NEW p \in Paths, UndoCreated(p) PROVE Undoing'
    BY <1>0, <1>6, <1>7 DEF UndoCreated, Turn, Entry, restoreVars, strayVars
  <1>8. ASSUME NEW p \in Paths, UndoCopyBegin(p) PROVE Undoing'
    BY <1>0, <1>6, <1>8 DEF UndoCopyBegin, Turn, Entry, File,
       restoreVars, strayVars
  <1>9. ASSUME UndoCopyEnd PROVE Undoing'
    <2>1. copying \in Paths /\ attempt \in Attempts
          /\ manifest[attempt][copying] \in Entry
          /\ repo[copying] \in Entry
      BY <1>0, <1>9 DEF UndoCopyEnd, Phased, Active, TypeOK
    <2> DEFINE c == IF repo[copying] = Torn THEN manifest[attempt][copying]
                    ELSE repo[copying]
    <2>2. c \in Entry /\ repo' = [repo EXCEPT ![copying] = c]
      BY <1>9, <2>1 DEF UndoCopyEnd
    <2>3. UNCHANGED <<snapshot, attempt, source, task, manifest, phase, late>>
          /\ phase = "undo" /\ copying' = None
          /\ undone' = undone \cup {copying}
      BY <1>9 DEF UndoCopyEnd, restoreVars, strayVars
    <2>4. \/ c = manifest[attempt][copying]
          \/ repo[copying] # Torn /\ c = repo[copying] /\ c # Torn
      OBVIOUS
    <2> HIDE DEF c
    <2> QED
      BY <1>6, <2>1, <2>2, <2>3, <2>4
  <1>10. ASSUME NEW a \in Attempts, NEW p \in Paths,
                Task(a, p) \/ TaskRaises(a, p)
         PROVE  Undoing'
    BY <1>4, <1>10 DEF Task, Stage, Backup, Apply, ApplyMissing, TaskRaises,
       Jobs, Ended, undoVars, strayVars
  <1>11. ASSUME AllStaged \/ AllBacked PROVE Undoing'
    BY <1>2, <1>11 DEF AllStaged, AllBacked, Begins, Undoing, Jobs, undoVars
  <1>12. ASSUME NEW v \in Versions, NEW m \in {"soft", "hard"},
                RestoreBegin(v, m)
         PROVE  Undoing'
    BY <1>1, <1>2, <1>12 DEF RestoreBegin, Jobs
  <1>13. ASSUME NEW v \in Versions, RestoreRejected(v) PROVE Undoing'
    BY <1>1, <1>13 DEF RestoreRejected, Jobs
  <1>14. ASSUME UndoRaises \/ UndoEnds PROVE Undoing'
    BY <1>3, <1>14 DEF UndoRaises, UndoEnds, restoreVars, undoVars,
       strayVars
  <1>15. ASSUME Sweep \/ SweepFails \/ PurgeEnds \/ AllApplied \/ Crash
                \/ CreateFails
                \/ Publish
         PROVE  Undoing'
    BY <1>1, <1>15 DEF Sweep, SweepFails, AfterSweep, PurgeEnds, AllApplied,
       Crash, CreateFails, Publish, Jobs
  <1>16. ASSUME NEW p \in Paths,
                Edit(p) \/ CopyFile(p) \/ Purge(p) \/ PurgeDenied(p)
         PROVE  Undoing'
    BY <1>1, <1>16 DEF Edit, CopyFile, Purge, PurgeDenied, Jobs
  <1>17. ASSUME NEW v \in Versions, CreateBegin(v) PROVE Undoing'
    BY <1>1, <1>17 DEF CreateBegin, Jobs
  <1>18. CASE UNCHANGED vars
    BY <1>3, <1>18 DEF vars, restoreVars, undoVars, strayVars
  <1> QED
    BY <1>5, <1>7, <1>8, <1>9, <1>10, <1>11, <1>12, <1>13, <1>14, <1>15,
       <1>16, <1>17, <1>18
    DEF Next, Main, Create, Failure, Call

\* Every reachable state of restores and snapshots satisfies the invariant.
THEOREM Invariant == Spec => []IInv
  BY InitInv, InvStep, PTL DEF Spec

\* What the variables of versioning.py's model may hold.
THEOREM TypeCorrect == Spec => []TypeOK
  <1>1. IInv => TypeOK
    BY DEF IInv
  <1> QED
    BY Invariant, <1>1, PTL

\* restore_version_async returns True only when every file of the snapshot
\* is back, and no left-over task of an earlier attempt takes that away.
THEOREM TrueIsRestored == Spec => []TrueMeansRestored
  <1>1. IInv => TrueMeansRestored
    BY DEF IInv, Restored, TrueMeansRestored
  <1> QED
    BY Invariant, <1>1, PTL

\* A hard restore that returned True left only the snapshot's files and the
\* ones it was denied to remove.
THEOREM HardIsExact == Spec => []HardRestoreIsExact
  <1>1. IInv => HardRestoreIsExact
    BY DEF IInv
  <1> QED
    BY Invariant, <1>1, PTL

\* Throughout a restore and after its failure, a file with a backup is old,
\* new or the one interrupted copy.
THEOREM NothingElse == Spec => []OldOrNew
  <1>1. IInv => OldOrNew
    BY DEF IInv
  <1> QED
    BY Invariant, <1>1, PTL

\* A rollback that went through its whole manifest put back every file, but
\* for those that share their slice with a failed replace: the race with the
\* tasks that gather leaves running reaches no further.
THEOREM RollbackConfined == Spec => []RollbackOutsideSlice
  <1>1. Init => Sliced /\ Undoing
    BY VersioningAssumption DEF Init, Sliced, Undoing, Jobs, NoTasks, Ended,
       FilesOf, Files, Tracked
  <1>2. IInv /\ Sliced /\ Undoing /\ [Next]_vars => Sliced' /\ Undoing'
    BY SlicedStep, UndoingStep
  <1>3. Sliced /\ Undoing => RollbackOutsideSlice
    BY DEF Undoing, SliceFailed, RollbackOutsideSlice
  <1> QED
    BY Invariant, <1>1, <1>2, <1>3, PTL DEF Spec

\* After its call returned, a task writes to the working tree only what the
\* sweep of its attempt left behind.
THEOREM NoLateWrite == Spec => NoWriteAfterReturn
  <1> DEFINE Late == \E a \in Attempts : \E p \in littered[a] : Apply(a, p)
  <1>1. ASSUME IInv, [Next]_vars, phase \in Returned, edits' = edits
        PROVE  repo' = repo \/ Late
    <2>1. CASE UNCHANGED vars
      BY <2>1 DEF vars
    <2>2. ASSUME NEW p \in Paths, Edit(p) PROVE FALSE
      BY <1>1, <2>2 DEF Edit, IInv, TypeOK
    <2>3. ASSUME NEW a \in Attempts, NEW p \in Paths, Apply(a, p) PROVE Late
      BY <1>1, <2>3, ArmedTask DEF Returned
    <2> HIDE DEF Late
    <2> QED
      BY <1>1, <2>1, <2>2, <2>3 DEF Returned, Jobs, Turn, Next, Main,
         Create, Failure, Call, Task, CreateBegin, CopyFile, Publish,
         CreateFails, RestoreBegin, RestoreRejected, Stage, Backup,
         ApplyMissing, TaskRaises, AllStaged, AllBacked, AllApplied,
         GatherRaises, UndoCopyEnd, UndoRaises, UndoEnds, Sweep, SweepFails,
         PurgeEnds, Crash, UndoCreated, UndoCopyBegin, Purge, PurgeDenied,
         Begins, vars, restoreVars, undoVars, boundVars, strayVars
  <1>2. IInv /\ [Next]_vars =>
          ((phase \in Returned /\ edits' = edits) => repo' = repo \/ Late)
    BY <1>1
  <1> QED
    BY Invariant, <1>2, PTL DEF Spec, NoWriteAfterReturn

\* A destination is replaced only when the manifest holds what it holds.
THEOREM BackedUpFirst == Spec => BackupIsCurrent
  <1>1. ASSUME IInv, NEW p \in Paths \ late, phase = "apply", Apply(attempt, p)
        PROVE  manifest[attempt][p] = repo[p]
    BY <1>1 DEF IInv, Recorded, Apply, Runs
  <1>2. IInv => \A p \in Paths \ late : phase = "apply" /\ Apply(attempt, p) =>
                  manifest[attempt][p] = repo[p]
    BY <1>1
  <1> QED
    BY Invariant, <1>2, PTL DEF BackupIsCurrent

\* What is published is the whole tree of that moment.
THEOREM PublishedWhole == Spec => PublishIsComplete
  <1>1. ASSUME IInv, [Next]_vars, NEW v \in published' \ published,
               NEW p \in Paths \ late
        PROVE  snapshot'[v][p] = repo[p]
    <2>1. Publish /\ v = target
      BY <1>1 DEF Next, Main, Create, Failure, Call, Task, Edit,
         CreateBegin, CopyFile, Publish, CreateFails, RestoreBegin,
         RestoreRejected, Stage, Backup, Apply, ApplyMissing, TaskRaises,
         AllStaged, AllBacked, AllApplied, GatherRaises, UndoCopyEnd,
         UndoRaises, UndoEnds, Sweep, SweepFails, PurgeEnds, Crash,
         UndoCreated, UndoCopyBegin, Purge, PurgeDenied, Begins, vars, restoreVars,
         undoVars, boundVars, strayVars
    <2> QED
      BY <1>1, <2>1 DEF Publish, IInv, TypeOK, Copied, Phased, Files,
         Tracked
  <1>2. IInv /\ [Next]_vars =>
          \A v \in published' \ published :
            \A p \in Paths \ late : snapshot'[v][p] = repo[p]
    BY <1>1
  <1> QED
    BY Invariant, <1>2, PTL DEF Spec, PublishIsComplete

\* Whatever fails or crashes, a published snapshot stays what it was.
THEOREM SnapshotsKeptAlways == Spec => SnapshotsAreImmutable
  <1>1. IInv /\ [Next]_vars =>
          \A v \in published : v \in published' /\ snapshot'[v] = snapshot[v]
    BY SnapshotStep DEF SnapshotsKept
  <1> QED
    BY Invariant, <1>1, PTL DEF Spec, SnapshotsAreImmutable
=============================================================================
