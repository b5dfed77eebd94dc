----------------------------- MODULE Versioning -----------------------------
(***************************************************************************)
(* Snapshots of the working tree and their restoration, from               *)
(* src/src/core/versioning.py.                                             *)
(*                                                                         *)
(* create_version_async copies the tracked files into a temporary          *)
(* directory and publishes it with one rename.  restore_version_async      *)
(* runs three gathers over the files of the snapshot (stage a copy, back   *)
(* the destination up, replace the destination) and, when one raises,      *)
(* copies the backups over the destinations.  A gather raises as soon as   *)
(* one of its tasks does and leaves the others running, so a task of the   *)
(* apply gather may still replace its destination during the rollback.     *)
(* Attempts are numbered: each has its own staging and rollback directory  *)
(* (the nonce in their names), so the tasks an attempt leaves behind only  *)
(* use that attempt's directories.                                         *)
(*                                                                         *)
(* The semaphores that bound the tasks running at once are left out: a     *)
(* task has one file-system call that matters, so they restrict no order   *)
(* of these calls that is not already a behaviour.                         *)
(***************************************************************************)
EXTENDS Naturals

CONSTANTS
  Paths,        \* the tracked files of the working tree
  Contents,     \* what a file may hold
  Versions,     \* the version identifiers that create_version_async draws
  BatchOf,      \* path -> index of the slice of _BATCH_SIZE paths it falls in
  Absent,       \* no such file
  Torn,         \* a file whose copy was interrupted
  None,         \* no entry in the rollback manifest, no path, no version
  MaxAttempts,  \* bound on the calls of restore_version_async
  MaxFailures,  \* bound on the file-system calls that raise and the crashes
  MaxEdits      \* bound on the changes made between two calls

ASSUME VersioningAssumption ==
  /\ BatchOf \in [Paths -> Nat]
  /\ {Absent, Torn, None} \cap Contents = {}
  /\ Absent # Torn /\ Absent # None /\ Torn # None
  /\ None \notin Paths /\ None \notin Versions
  /\ MaxAttempts \in Nat /\ MaxFailures \in Nat /\ MaxEdits \in Nat

VARIABLES
  repo,       \* path -> what the working tree holds there
  published,  \* the versions whose directory was renamed into place
  snapshot,   \* version -> path -> the copy it holds (Absent: not in "paths")
  phase,      \* where the one caller of this module is
  target,     \* the version being created
  mode,       \* "soft" or "hard"
  attempt,    \* the number of the latest restore
  source,     \* attempt -> the version it restores
  job,        \* attempt -> the gather it started last
  task,       \* attempt -> path -> state of that path's task in the gather
  staged,     \* attempt -> the paths with a copy in its staging directory
  manifest,   \* attempt -> path -> rollback_manifest, None when no entry
  keys,       \* the manifest's keys when the rollback loop began
  undone,     \* the keys the rollback loop is done with
  copying,    \* the path whose backup is being copied back
  skipped,    \* the files a hard restore could not unlink
  listed,     \* the files a creation copies or a hard restore has yet to visit
  littered,   \* history: attempt -> the staged files its clean-up left behind
  late,       \* history: the files that a task of an earlier call, working on
              \* what littered holds, wrote since the latest call began
  failures,   \* calls that raised and crashes so far
  edits       \* changes made between calls so far

restoreVars == <<mode, attempt, source, job, task, staged, manifest>>
undoVars == <<keys, undone, copying, skipped>>
strayVars == <<littered, late>>
boundVars == <<failures, edits>>
vars == <<repo, published, snapshot, phase, target, restoreVars, undoVars,
          listed, strayVars, boundVars>>

Attempts == 1..MaxAttempts
Jobs == {"stage", "backup", "apply"}
File == Contents \cup {Torn}
Entry == File \cup {Absent}

\* The caller is outside create_version_async and restore_version_async.
Returned == {"idle", "created", "create_raised", "true", "false", "raised"}
Phases == Returned \cup Jobs
            \cup {"copy", "undo", "sweep_true", "sweep_false", "purge"}

Tracked(tree) == {p \in Paths : tree[p] # Absent}
Files(v) == Tracked(snapshot[v])
FilesOf(a) == Files(source[a])
NoTasks == [p \in Paths |-> "none"]
Fresh(v) == [p \in Paths |-> IF p \in Files(v) THEN "queued" ELSE "none"]

\* Earlier processes may have published versions of other trees.
Init ==
  /\ repo \in [Paths -> Contents \cup {Absent}]
  /\ published \in SUBSET Versions
  /\ snapshot \in [Versions -> [Paths -> Contents \cup {Absent}]]
  /\ \A v \in Versions \ published : Files(v) = {}
  /\ phase = "idle" /\ target = None /\ mode = "soft" /\ attempt = 0
  /\ source = [a \in Attempts |-> None]
  /\ job = [a \in Attempts |-> "stage"]
  /\ task = [a \in Attempts |-> NoTasks]
  /\ staged = [a \in Attempts |-> {}]
  /\ manifest = [a \in Attempts |-> [p \in Paths |-> None]]
  /\ keys = {} /\ undone = {} /\ copying = None /\ skipped = {}
  /\ listed = {} /\ late = {} /\ littered = [a \in Attempts |-> {}]
  /\ failures = 0 /\ edits = 0

Fault == failures < MaxFailures /\ failures' = failures + 1

\* Between two calls the evolution code or an operator changes a file.
Edit(p) ==
  /\ phase \in Returned /\ edits < MaxEdits
  /\ edits' = edits + 1
  /\ \E c \in (Contents \cup {Absent}) \ {repo[p]} :
       repo' = [repo EXCEPT ![p] = c]
  /\ phase' = "idle"
  /\ UNCHANGED <<published, snapshot, target, restoreVars, undoVars, listed,
                 strayVars, failures>>

-----------------------------------------------------------------------------
(* create_version_async: the temporary directory is the snapshot of a      *)
(* version that is not published yet.  The files are listed once, before   *)
(* the first copy.                                                         *)

CreateBegin(v) ==
  /\ phase \in Returned /\ v \notin published
  /\ phase' = "copy" /\ target' = v
  /\ listed' = Tracked(repo) /\ late' = {}
  /\ UNCHANGED <<repo, published, snapshot, restoreVars, undoVars, littered,
                 boundVars>>

CopyFile(p) ==
  /\ phase = "copy" /\ p \in listed
  /\ snapshot[target][p] = Absent
  /\ snapshot' = [snapshot EXCEPT ![target][p] = repo[p]]
  /\ UNCHANGED <<repo, published, phase, target, restoreVars, undoVars, listed,
                 strayVars, boundVars>>

\* Mutant of Publish: the rename does not wait for the gather.
PublishEarly ==
  /\ phase = "copy"
  /\ published' = published \cup {target}
  /\ phase' = "created"
  /\ UNCHANGED <<repo, snapshot, target, restoreVars, undoVars, listed,
                 strayVars, boundVars>>

\* Every copy is there: write metadata.json and rename the directory.
Publish ==
  /\ phase = "copy" /\ Files(target) = listed
  /\ published' = published \cup {target}
  /\ phase' = "created"
  /\ UNCHANGED <<repo, snapshot, target, restoreVars, undoVars, listed,
                 strayVars, boundVars>>

\* Any step before the rename raises: the temporary directory is removed.
CreateFails ==
  /\ phase = "copy" /\ Fault
  /\ snapshot' = [snapshot EXCEPT ![target] = [p \in Paths |-> Absent]]
  /\ phase' = "create_raised"
  /\ UNCHANGED <<repo, published, target, restoreVars, undoVars, listed,
                 strayVars, edits>>

-----------------------------------------------------------------------------
(* restore_version_async *)

RestoreBegin(v, m) ==
  /\ phase \in Returned /\ v \in published /\ attempt < MaxAttempts
  /\ attempt' = attempt + 1 /\ mode' = m
  /\ source' = [source EXCEPT ![attempt + 1] = v]
  /\ keys' = {} /\ undone' = {} /\ copying' = None /\ skipped' = {}
  /\ late' = {}
  /\ \/ /\ Files(v) # {}
        /\ phase' = "stage"
        /\ task' = [task EXCEPT ![attempt + 1] = Fresh(v)]
     \/ \* an empty snapshot: nothing to copy
        /\ Files(v) = {}
        /\ phase' = IF m = "hard" THEN "purge" ELSE "true"
        /\ UNCHANGED task
  /\ listed' = Tracked(repo)
  /\ UNCHANGED <<repo, published, snapshot, target, job, staged, manifest,
                 littered, boundVars>>

\* The early returns of False: the directory, metadata.json or a file of the
\* snapshot is missing or malformed, or the staging directory cannot be made.
RestoreRejected(v) ==
  /\ phase \in Returned /\ v \in published /\ attempt < MaxAttempts
  /\ Fault
  /\ attempt' = attempt + 1
  /\ source' = [source EXCEPT ![attempt + 1] = v]
  /\ keys' = {} /\ undone' = {} /\ copying' = None /\ skipped' = {}
  /\ late' = {}
  /\ phase' = "false"
  /\ UNCHANGED <<repo, published, snapshot, target, mode, job, task, staged,
                 manifest, listed, littered, edits>>

\* Mutant of Runs: one gather for all the slices.
RunsUnsliced(a, p, j) == job[a] = j /\ task[a][p] = "queued"

\* The task of p exists: the gathers of the earlier slices have returned.
Runs(a, p, j) ==
  /\ job[a] = j /\ task[a][p] = "queued"
  /\ \A q \in FilesOf(a) : BatchOf[q] < BatchOf[p] => task[a][q] = "done"

Ends(a, p, state) == task' = [task EXCEPT ![a][p] = state]

Stage(a, p) ==
  /\ Runs(a, p, "stage") /\ Ends(a, p, "done")
  /\ staged' = [staged EXCEPT ![a] = @ \cup {p}]
  /\ UNCHANGED <<repo, published, snapshot, phase, target, mode, attempt,
                 source, job, manifest, undoVars, listed, strayVars,
                 boundVars>>

\* The entry is Absent where _backup_single records rollback_path None.
Backup(a, p) ==
  /\ Runs(a, p, "backup") /\ Ends(a, p, "done")
  /\ manifest' = [manifest EXCEPT ![a][p] = repo[p]]
  /\ UNCHANGED <<repo, published, snapshot, phase, target, mode, attempt,
                 source, job, staged, undoVars, listed, strayVars, boundVars>>

\* os.replace of the staged file onto the destination.
Apply(a, p) ==
  /\ Runs(a, p, "apply") /\ p \in staged[a] /\ Ends(a, p, "done")
  /\ repo' = [repo EXCEPT ![p] = snapshot[source[a]][p]]
  /\ staged' = [staged EXCEPT ![a] = @ \ {p}]
  /\ late' = IF p \in littered[a] THEN late \cup {p} ELSE late
  /\ UNCHANGED <<published, snapshot, phase, target, mode, attempt, source,
                 job, manifest, undoVars, listed, littered, boundVars>>

\* The staged file is gone: _cleanup_temp_artifacts came first.
ApplyMissing(a, p) ==
  /\ Runs(a, p, "apply") /\ p \notin staged[a] /\ Ends(a, p, "failed")
  /\ UNCHANGED <<repo, published, snapshot, phase, target, mode, attempt,
                 source, job, staged, manifest, undoVars, listed, strayVars,
                 boundVars>>

TaskRaises(a, p) ==
  /\ \E j \in Jobs : Runs(a, p, j)
  /\ Fault /\ Ends(a, p, "failed")
  /\ UNCHANGED <<repo, published, snapshot, phase, target, mode, attempt,
                 source, job, staged, manifest, undoVars, listed, strayVars,
                 edits>>

\* Mutant of AllDone: gather(..., return_exceptions=True).
AllEnded(a) == \A p \in FilesOf(a) : task[a][p] \in {"done", "failed"}

AllDone(a) == \A p \in FilesOf(a) : task[a][p] = "done"

Backed(a) == {p \in Paths : manifest[a][p] # None}

\* The last gather of a job returns and the next job's gathers begin.
Begins(j) ==
  /\ phase' = j /\ job' = [job EXCEPT ![attempt] = j]
  /\ task' = [task EXCEPT ![attempt] = Fresh(source[attempt])]
  /\ UNCHANGED <<repo, published, snapshot, target, mode, attempt, source,
                 staged, manifest, undoVars, listed, strayVars, boundVars>>

AllStaged == phase = "stage" /\ AllDone(attempt) /\ Begins("backup")

\* The manifest's keys must be the destinations before the first replace.
AllBacked ==
  /\ phase = "backup" /\ AllDone(attempt)
  /\ Backed(attempt) = FilesOf(attempt)
  /\ Begins("apply")

AllApplied ==
  /\ phase = "apply" /\ AllDone(attempt)
  /\ phase' = "sweep_true"
  /\ UNCHANGED <<repo, published, snapshot, target, restoreVars, undoVars,
                 listed, strayVars, boundVars>>

\* One task raised: the await of gather raises while the others run on.
GatherRaises ==
  /\ phase \in Jobs
  /\ \E p \in FilesOf(attempt) : task[attempt][p] = "failed"
  /\ phase' = "undo"
  /\ keys' = Backed(attempt)
  /\ UNCHANGED <<repo, published, snapshot, target, restoreVars, undone,
                 copying, skipped, listed, strayVars, boundVars>>

\* A task of the backup gather added an entry: iterating a dict whose size
\* changed raises RuntimeError, which ends the rollback.
KeysChanged == Backed(attempt) # keys

\* Mutant of Turn: the backups are copied back concurrently.
TurnOfAny(p) == phase = "undo" /\ p \in keys \ undone /\ ~KeysChanged

Turn(p) == phase = "undo" /\ copying = None /\ p \in keys \ undone
             /\ ~KeysChanged

UndoCreated(p) ==
  /\ Turn(p) /\ manifest[attempt][p] = Absent
  /\ repo' = [repo EXCEPT ![p] = Absent]
  /\ undone' = undone \cup {p}
  /\ UNCHANGED <<published, snapshot, phase, target, restoreVars, keys,
                 copying, skipped, listed, strayVars, boundVars>>

\* copy_file truncates the destination before it writes.
UndoCopyBegin(p) ==
  /\ Turn(p) /\ manifest[attempt][p] # Absent
  /\ repo' = [repo EXCEPT ![p] = Torn]
  /\ copying' = p
  /\ UNCHANGED <<published, snapshot, phase, target, restoreVars, keys, undone,
                 skipped, listed, strayVars, boundVars>>

\* A replace between the two steps gave the path another inode: the copy
\* then ends in the old one.
UndoCopyEnd ==
  /\ phase = "undo" /\ copying # None
  /\ repo' = [repo EXCEPT ![copying] =
                IF @ = Torn THEN manifest[attempt][copying] ELSE @]
  /\ undone' = undone \cup {copying}
  /\ copying' = None
  /\ UNCHANGED <<published, snapshot, phase, target, restoreVars, keys,
                 skipped, listed, strayVars, boundVars>>

UndoRaises ==
  /\ phase = "undo" /\ undone # keys /\ Fault
  /\ phase' = "sweep_false"
  /\ UNCHANGED <<repo, published, snapshot, target, restoreVars, undoVars,
                 listed, strayVars, edits>>

\* Mutant of UndoEnds: the changed size is not noticed.
UndoEndsAtLast ==
  /\ phase = "undo" /\ copying = None
  /\ undone = keys
  /\ phase' = "sweep_false"
  /\ UNCHANGED <<repo, published, snapshot, target, restoreVars, undoVars,
                 listed, strayVars, boundVars>>

UndoEnds ==
  /\ phase = "undo" /\ copying = None
  /\ undone = keys \/ KeysChanged
  /\ phase' = "sweep_false"
  /\ UNCHANGED <<repo, published, snapshot, target, restoreVars, undoVars,
                 listed, strayVars, boundVars>>

AfterSweep == CASE phase = "sweep_false" -> "false"
                [] phase = "sweep_true" /\ mode = "hard" -> "purge"
                [] OTHER -> "true"

\* What the hard delete will visit.
ListsFor(next) == listed' = IF next = "purge" THEN Tracked(repo) ELSE listed

\* Mutants of Sweep: the staging directory stays; the mode is ignored.
SweepKeepsStaging ==
  /\ phase \in {"sweep_true", "sweep_false"}
  /\ phase' = AfterSweep /\ ListsFor(AfterSweep)
  /\ UNCHANGED <<repo, published, snapshot, target, restoreVars, undoVars,
                 strayVars, boundVars>>

SweepSoft ==
  /\ phase \in {"sweep_true", "sweep_false"}
  /\ staged' = [staged EXCEPT ![attempt] = {}]
  /\ phase' = IF phase = "sweep_true" THEN "true" ELSE "false"
  /\ UNCHANGED <<repo, published, snapshot, target, mode, attempt, source, job,
                 task, manifest, undoVars, listed, strayVars, boundVars>>

\* _cleanup_temp_artifacts: the finally clause, on both outcomes.
Sweep ==
  /\ phase \in {"sweep_true", "sweep_false"}
  /\ staged' = [staged EXCEPT ![attempt] = {}]
  /\ phase' = AfterSweep /\ ListsFor(AfterSweep)
  /\ UNCHANGED <<repo, published, snapshot, target, mode, attempt, source, job,
                 task, manifest, undoVars, strayVars, boundVars>>

\* rmtree passes over what it cannot remove, and fs_exists may raise out of
\* the finally clause: staged files stay behind.
SweepFails ==
  /\ phase \in {"sweep_true", "sweep_false"} /\ Fault
  /\ \E left \in SUBSET staged[attempt] :
       /\ staged' = [staged EXCEPT ![attempt] = left]
       /\ littered' = [littered EXCEPT ![attempt] = left]
  /\ phase' \in {AfterSweep, "raised"} /\ ListsFor(phase')
  /\ UNCHANGED <<repo, published, snapshot, target, mode, attempt, source, job,
                 task, manifest, undoVars, late, edits>>

\* _hard_delete_tracked_files_async
Extra == listed \ FilesOf(attempt)

Purge(p) ==
  /\ phase = "purge" /\ p \in Extra
  /\ repo' = [repo EXCEPT ![p] = Absent]
  /\ listed' = listed \ {p}
  /\ UNCHANGED <<published, snapshot, phase, target, restoreVars, undoVars,
                 strayVars, boundVars>>

\* PermissionError: the file is kept and the loop goes on.
PurgeDenied(p) ==
  /\ phase = "purge" /\ p \in Extra /\ Fault
  /\ skipped' = skipped \cup {p} /\ listed' = listed \ {p}
  /\ UNCHANGED <<repo, published, snapshot, phase, target, restoreVars, keys,
                 undone, copying, strayVars, edits>>

PurgeEnds ==
  /\ phase = "purge"
  /\ \/ Extra = {} /\ phase' = "true" /\ UNCHANGED failures
     \/ phase' = "raised" /\ Fault
  /\ UNCHANGED <<repo, published, snapshot, target, restoreVars, undoVars,
                 listed, strayVars, edits>>

-----------------------------------------------------------------------------
\* The process dies with all its tasks.  The directories of the unfinished
\* call stay under names that no later call uses.
Crash ==
  /\ phase # "idle" /\ Fault
  /\ phase' = "idle"
  /\ task' = [a \in Attempts |-> NoTasks]
  /\ littered' = [a \in Attempts |-> {}]
  /\ snapshot' = [v \in Versions |->
                    IF v \in published THEN snapshot[v]
                                       ELSE [p \in Paths |-> Absent]]
  /\ UNCHANGED <<repo, published, target, mode, attempt, source, job, staged,
                 manifest, undoVars, listed, late, edits>>

Task(a, p) ==
  Stage(a, p) \/ Backup(a, p) \/ Apply(a, p) \/ ApplyMissing(a, p)

Main ==
  \/ AllStaged \/ AllBacked \/ AllApplied \/ GatherRaises
  \/ UndoCopyEnd \/ UndoEnds \/ Sweep \/ PurgeEnds
  \/ \E p \in Paths : UndoCreated(p) \/ UndoCopyBegin(p) \/ Purge(p)

Create == (\E p \in Paths : CopyFile(p)) \/ Publish

Failure ==
  \/ CreateFails \/ UndoRaises \/ SweepFails \/ Crash
  \/ \E p \in Paths : PurgeDenied(p)
  \/ \E a \in Attempts, p \in Paths : TaskRaises(a, p)

Call ==
  \/ \E p \in Paths : Edit(p)
  \/ \E v \in Versions : CreateBegin(v) \/ RestoreRejected(v)
  \/ \E v \in Versions, m \in {"soft", "hard"} : RestoreBegin(v, m)

Next ==
  \/ Main \/ Create \/ Failure \/ Call
  \/ \E a \in Attempts, p \in Paths : Task(a, p)

Spec == Init /\ [][Next]_vars

\* The event loop and the file-system threads run what is ready.
Fairness ==
  /\ WF_vars(Main) /\ WF_vars(Create)
  /\ \A a \in Attempts, p \in Paths : WF_vars(Task(a, p))

FairSpec == Spec /\ Fairness

-----------------------------------------------------------------------------
TypeOK ==
  /\ repo \in [Paths -> Entry]
  /\ published \subseteq Versions
  /\ snapshot \in [Versions -> [Paths -> Entry]]
  /\ phase \in Phases
  /\ target \in Versions \cup {None}
  /\ mode \in {"soft", "hard"}
  /\ attempt \in 0..MaxAttempts
  /\ source \in [Attempts -> Versions \cup {None}]
  /\ job \in [Attempts -> Jobs]
  /\ task \in [Attempts -> [Paths -> {"none", "queued", "done", "failed"}]]
  /\ staged \in [Attempts -> SUBSET Paths]
  /\ manifest \in [Attempts -> [Paths -> Entry \cup {None}]]
  /\ keys \subseteq Paths /\ undone \subseteq Paths
  /\ copying \in Paths \cup {None}
  /\ skipped \subseteq Paths
  /\ listed \subseteq Paths
  /\ littered \in [Attempts -> SUBSET Paths]
  /\ late \subseteq Paths
  /\ failures \in 0..MaxFailures
  /\ edits \in 0..MaxEdits

\* A restore that returned True left every file of the snapshot exactly as
\* the snapshot holds it, whatever an earlier failed attempt of this or of
\* another version left running: a file that is not so was overwritten
\* meanwhile by a task whose staged copy an earlier clean-up could not
\* remove (versioning.py 255-259 passes over the error).
TrueMeansRestored ==
  phase = "true" =>
    \A p \in FilesOf(attempt) \ late :
      repo[p] = snapshot[source[attempt]][p]

\* A hard restore that returned True left no other tracked file, but for the
\* ones it was not permitted to remove (and those of late).
HardRestoreIsExact ==
  phase = "true" /\ mode = "hard" =>
    Tracked(repo) \subseteq FilesOf(attempt) \cup skipped \cup late

\* Once a call has returned, a task it left behind writes to the working
\* tree only what the clean-up of its attempt failed to remove: where the
\* removal succeeds, it disarms the stragglers.
NoWriteAfterReturn ==
  [][(phase \in Returned /\ edits' = edits) =>
       \/ repo' = repo
       \/ \E a \in Attempts : \E p \in littered[a] : Apply(a, p)]_vars

\* When a destination is replaced, the manifest holds what it held: the
\* backup gather saw every file, and nothing of this call changed one since.
BackupIsCurrent ==
  [][\A p \in Paths \ late : phase = "apply" /\ Apply(attempt, p) =>
       manifest[attempt][p] = repo[p]]_vars

\* While a restore runs, and when it has failed, a file it backed up holds
\* what it held before, what the snapshot holds, or (the one file whose
\* backup was being copied back) an interrupted copy.
OldOrNew ==
  phase \in {"backup", "apply", "undo", "sweep_true", "sweep_false"} =>
    \A p \in Paths \ late : manifest[attempt][p] # None =>
      \/ repo[p] \in {manifest[attempt][p], snapshot[source[attempt]][p]}
      \/ repo[p] = Torn /\ copying = p

\* A completed rollback put back every file outside the slice in which the
\* replace failed; the straggler race is confined to that slice.
RollbackOutsideSlice ==
  phase = "sweep_false" /\ undone = keys /\ ~KeysChanged =>
    \A p \in keys \ late :
      \/ repo[p] = manifest[attempt][p]
      \/ \E q \in FilesOf(attempt) :
           BatchOf[q] = BatchOf[p] /\ task[attempt][q] = "failed"

\* A published version is the whole tree it was taken of: no crash or
\* failure publishes a partial copy.
PublishIsComplete ==
  [][\A v \in published' \ published :
       \A p \in Paths \ late : snapshot'[v][p] = repo[p]]_vars

\* Published snapshots are never modified.
SnapshotsAreImmutable ==
  [][\A v \in published : v \in published' /\ snapshot'[v] = snapshot[v]]_vars

\* Every call of create_version_async and restore_version_async returns.
EveryCallReturns == []<>(phase \in Returned)
=============================================================================
