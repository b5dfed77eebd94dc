# SpiralAutonomyKernel in TLA+

SpiralAutonomyKernel is a Python program (asyncio, threads for the file system,
processes for CPU work) that runs improvement cycles over the repository it
lives in. A cycle observes, plans, collects signals from components, evaluates,
reflects, and may change the repository's own code; a change is tried in a
workspace, applied, evaluated again, and kept or taken back. The state lives in
one JSON file and in numbered snapshots of the tree.

This directory holds the TLA+ models of that program, their TLC configurations
and the proofs that TLAPS checks. File names without a directory are under
`src/src/core/` of the repository, and line numbers are those of its files.

- [Inventory](#inventory): parts, state, operations, interactions, what is hard
- [Modules](#modules): which module is which code, and how they fit together
- [Runs](#runs): what each run checks, its bounds, why they are enough
- [Fairness](#fairness)
- [Proofs](#proofs)
- [Where the code disagrees with its documents](#where-the-code-disagrees-with-its-documents)
- [Not modelled](#not-modelled)
- [Plan](#plan)

To repeat a check: `tlc -workers 2 -config MCVersioning.cfg MCVersioning`, and
`tlapm VersioningProofs.tla`, for each module below.

## Inventory

| part | code | state it keeps | operations |
|---|---|---|---|
| supervision | `src/src/sif/cli.py` | counters of cycles, failures, restarts; `mode` in the state | sessions of cycles, continue on error, restart on a fatal error, saves before, between and after |
| engine | `spiral_engine.py`, `llm.py` | the kernel's memory (a string map in the state file) | `step`: observe, plan, evaluate, reflect, decide, `evolve`, feedback, reports |
| code changes | `evolution.py` | `code_change_backups` in the memory | apply a batch to a root; take the last batch back |
| versions | `versioning.py` | `.sif/versions/<id>` | create, restore soft or hard, list; the hash of the repository, with `.sif/repo_hash_state.json` |
| state store | `state_store.py` | the state file, its `.lock` and `.tmp` | load, save |
| events | `events.py` | two queues, two tasks, `events.jsonl`, `events.queue/` | append, flush, stop, restart after an unexpected end, drain |
| experiments | `experiment_manager.py`, `workspace.py`, `evaluator.py`, `selector.py` | seed and candidate workspaces | evaluate candidates in parallel, accept, choose the best |
| experiment cache | `cache_store.py` | an SQLite table, a copy in memory, a queue and its writer | start, get, put_many, stop |
| code index, self-map | `static_analysis.py`, `code_intelligence.py`, `spiral_engine.py` | snapshot of times, index, self-map, in the memory | refresh at the start of a cycle |
| autonomous evolution | `autonomous_evolution.py`, `bandit.py` | active method, its trial, weights, in the memory | try a method, judge it a cycle later, roll it back |
| pools | `async_fs.py`, `async_cpu.py` | a thread and a process executor per event loop | run, start again after a shutdown, shut down |
| tools, policy | `tools/base.py`, `policy.py` | calls used in this cycle | call a tool within budget and time; is a path allowed |
| model client | `openai_client.py` | none | a request with a timeout and three attempts |
| components, skills | `src/src/components/`, `src/src/evolvable/` | none | signals and proposals from observations |

How they interact. `cli.py` opens an engine per session and awaits one `step`
after the other, with a save of the state after each. `step` awaits everything
it needs, so within a process there is one cycle at a time; what runs beside it
are the two loops of the event writer, the tasks that a `gather` started and
did not wait for, the threads of calls whose await was cancelled, and other
processes, which share the state file, `events.jsonl` and the tree. The tree
and the versions are on disk at once, the memory that refers to them only with
the next save.

What is hard, part by part, and what makes the part correct:

- **Versions.** A restore is three gathers over many files, whose first
  exception leaves the other tasks running, beside the rollback and beside
  the next restore, and are stopped only by the removal of their staged files.
  Correct: True means restored, no task writes after its call unless that
  removal failed, a file is old or new, snapshots are whole and immutable.
- **Code changes.** The third write of a batch fails after it truncated the
  file; a path occurs twice in a batch; a rollback stops half way and is tried
  again, cycles later. Correct: a batch takes effect at once or not at all,
  and the last one can be taken back exactly.
- **Engine, self-modification.** Every one of snapshot, apply, evaluate,
  promote and two restores may fail, and a crash separates the tree from the
  memory. Correct: the last known good version did pass, a change is applied
  only behind a snapshot of the tree before it, the fallback restore undoes it.
- **Engine, feedback, and supervision.** What a failed cycle leaves in memory
  is the next one's input; some saves are outside the handlers that count
  failures. Correct: cycles start from saved states, the final state tells
  the truth, failures in a row are bounded, safe mode outlives everything.
- **State store.** Processes meet on one lock and one `.tmp`; holders die or
  hang. Correct: the file is a register of whole states and no save waits for
  ever.
- **Events.** Two bounded queues that spill into each other, writers that are
  cancelled, die and are restarted while callers put and a third coroutine
  stops. Correct: what was accepted is on disk or in hand, in order, and what is
  lost is counted. (The code promises more than that, see
  [below](#where-the-code-disagrees-with-its-documents).)
- **Experiments and their cache.** Parallel evaluations under one semaphore,
  copies in threads, child processes with timeouts, and a write-behind queue
  with a stop. Correct: a verdict is about the tree and the change it is used
  for and is in the database when the run returns; no task outlives its run,
  and every run ends.
- **Hash of the repository, code index, self-map.** Each is brought up to date from
  what an earlier computation saved, by comparing times; files are looked at and
  read in different steps, and computations fail or are shared half way.
  Correct: what is handed out describes the tree.
- **Autonomous evolution.** A trial is judged by another cycle than the one
  that began it. Correct: every trial is judged, a worse method is rolled back.
  (Its memory does not survive the cycle, see [Not modelled](#not-modelled).)

`PROJECT.json` lists each hazard with its line and the properties that cover
it, or the reason why none does yet.

## Modules

Each component has a specification with its constants, assumptions, actions and
properties; `MC<module>` and the `.cfg` files give it values; `<module>Proofs`
holds its theorems (those about `CacheStore` are in `ExperimentsProofs`, which relies
on it, those about `EventWriter` in `ImprovementLoopProofs`). The definitions called
"mutants" in a module are plausible faults of an operation, one of which must break
each property; no specification uses them.

```
                       ImprovementLoop              sessions, cycles, memory, saves
             /            |         \          \
  RepositoryRefresh  SelfModification  StateStore  EventWriter
                     /      |     \        |
           Versioning       |   Experiments      StateRegister
                     CodeApplication  |   \
                            |         |   RepoHash
                       AtomicBatch    |
                                 ResultCache  <-  CacheStore
```

An upper module takes a lower one as a step with an outcome that is a choice, failed
halves included. What the choice leaves out is said with the module: the late writes of a
failed clean-up (`Versioning`) are not in `SelfModification`, and calls that never end are
not in `ImprovementLoop`. The outcomes of the hash in `Experiments` are those that
`HashIsCurrent` of `RepoHash` leaves: the tree's name, another one when the tree
was edited meanwhile (also by way of a computation that a cancelled run left under way), or
one that git or the state file has falsified. `CodeApplication` and `StateStore` each
implement an abstract specification (`AtomicBatch`, `StateRegister`) by a
refinement mapping, checked by TLC and proved. `ResultCache` is the contract
between two models: `Experiments` runs over it by `INSTANCE`, and `CacheStore`
implements it by a refinement mapping, checked by TLC and proved as well. The
other levels are related by what the properties below say.

**`Versioning`** is `create_version_async` and `restore_version_async`. The
variables are the tree, the published and the growing snapshots, and per restore
attempt its tasks, staging directory and rollback manifest. An action is one
file-system call of one task, or what the caller does when a gather ends
(`AllStaged`, `AllBacked`, `AllApplied`) or raises (`GatherRaises`). Attempts have
directories of their own (the nonce in their names), so tasks that an attempt
leaves behind are bound to its index. `UndoCopyBegin`/`UndoCopyEnd` split the copy
of a backup, `Sweep` removes the staging directory, `SweepFails` leaves any part of it
(`rmtree` ignores errors, and `fs_exists` may raise), `Purge` is the hard delete of
what was `listed` at its start. `littered` records what sweeps left, and `late` the files
that a task of an earlier call, armed with that, has written since the present call began.
Semaphores are left out: a task has one call that matters, so they restrict no
order of calls that is not already a behaviour.

**`CodeApplication`** is `apply_code_changes_to_root_async` (preflight with a
virtual view of the files, writes, repair in reverse order) and
`rollback_code_changes_async`. A write truncates and then fills, in two steps.
**`AtomicBatch`** is what the engine relies on: a batch commits at once or leaves
no trace, and can be taken back at once, as long as nobody else disturbs the tree.
The mapping shows the tree of before the call while a call runs.

**`SelfModification`** is `evolve` and the rollback in `step`. A version, a batch,
a rollback, a restore are single steps, and leave a mixture of old, new and torn
files when they fail. `memory` and `saved` are the references in the process and
on the disk; `before` and `passed` are history variables for the
properties. The operator may edit, restore and prune between cycles.

**`StateStore`** is `load_state` and `save_state` of processes that share a file.
Files are inodes with two names, so that an open handle keeps its file when the
name goes away; the lock's windows, stale pids and retries are in it, and so is
the unlink of `.tmp` after the release, which meets other processes' files.
**`StateRegister`** is an atomic register whose saves take effect at one moment
between call and return.

**`EventWriter`** is `append_event`, both loops, `stop` and
`_handle_unexpected_task_exit`. An action is what happens on the event loop between
two points where a coroutine really waits. `tasks` keeps every loop ever started,
because a restart may leave two pairs of loops on the same queues; `open` is the
count behind `queue.join()`.

**`ImprovementLoop`** is `_run_main` and what `step` carries from one cycle to the
next: the stored answers of the model, the last accuracy, safe mode, whether
there is a batch to take back. `main` holds `_run_main`'s counters. Every
awaited call may raise, any number of times, and the process may be killed
between any two steps. `calm`, in the memory, and `streak`, the failures in a
row, are counted for the properties only.

**`RepoHash`** is `get_repo_hash_async`: callers that share the computation in the
registry, git's two answers or their absence, the walk that compares each file's
time with the state file, the reading of the rest, and the save of the new
state file. Other processes write and commit between any two steps; the engine
restores versions, which brings old times back.

**`CacheStore`** is `AsyncCacheStore`. An action runs from one suspension to the
next, so a `put_many` is one step unless it waits in the queue's line; `line` and
`awake` are that line as `asyncio.Queue` keeps it. `memory` is the copy that `get`
reads. `over` says which calls were under way when another began; from it follow the
three accidents of overlapping calls (`Overtaken`, `Stale`, `Twin`). **`ResultCache`** is
what users of the store rely on: accepted writes are owed, are saved in their order,
and whoever closes the store learns of a loss.

**`Experiments`** is `ExperimentManager.run_async`. Each candidate has a task
(`LookUp`, `Acquire`, `Made`, `Filled`, `Evaluated`, ...), a workspace and perhaps a child
process; `busy` and `removing` are the threads that copy and remove trees, and go
on when their await is cancelled; a removal may fail without a word (`left`). The tree is
edited meanwhile. `adrift` is a computation of the hash that a cancelled run has left
behind and the next one joins. A cancellation may come in two rounds. A run's
verdicts go into `ResultCache`, with the store's failures.

**`RepositoryRefresh`** is `_refresh_repository_artifacts` with the stages of
`static_analysis.py` and `code_intelligence.py`: take the times (`Stat`), index the
files whose time differs (`Indexed`), read the imports of those in the self-map
(`Imports`), store all artifacts at once (`MapEnds`). `left` is the queue of a stage,
`crew` the workers it began with and `alive` those that are left: `queue.join()`
returns when both are equal and the queue is empty.

## Runs

Every constant named `Max...` or `...Bound` bounds the input or the faults, never
what the code decides. TLC fires every action of every passing run. Deadlock is
not checked: every specification ends when its bounds are used up.

| run | shows | bounds |
|---|---|---|
| `versioning` | `TrueMeansRestored`, `HardRestoreIsExact`, `OldOrNew`, `NoWriteAfterReturn`, `RollbackOutsideSlice`, `PublishIsComplete`, `EveryCallReturns` (705,965) | three files in two slices: two in one slice are the fewest for a task to run on while the other's failure is rolled back, the third is the rollback's work; two versions, one of them published at the start with other contents, so that a straggler of one writes what a restore of the other does not want; two attempts, so that tasks of one meet the next; two failures: one for the gather, one for its rollback or its clean-up; one edit, of one file |
| `code_application` | refinement `IsAtomicBatch` (509,279) | batches of one to four changes: a repeated path, a path that returns to its content, a forbidden path, contents that are there already; two calls, so that a failed one comes between a batch and its rollback; two failures, one in the write and one in its repair or the rollback |
| `self_modification` | `LkgPassed`, `AppliedPassedOrFlagged`, `FallbackUndoes` (1,897,320) | two files, one of which may be created; three batches (either file, both); three cycles: one to earn a good version, one to be taken back, one to degrade; two failures or crashes; one act of the operator |
| `state_store` | `LockWaitEnds`, refinement `IsStateRegister` (182,612) | two processes, two states, two saves, two I/O errors or deaths; one stale retry and one attempt per window, as each is a counter that only delays the end |
| `event_writer` | `NothingVanishes`, `LogOrder`, `StopFlushes`, `StopReturns` (403,960) | queues of one item, so that every put meets a full queue; batches of two; two callers and a stopper; four events, four failed writes: two end a loop, and two more meet its restart |
| `improvement_loop` | `CyclesStartSaved`, `EndIsHonest`, `StreakBounded`, `CalmBeforeChange`, `RunEnds` (553,489) | three command lines (all recoveries with limits 2 and 1, no limits, not continuous), two processes after each other, any number of exceptions, two calm cycles to leave safe mode; one cycle and one restart where the code sets no limit |
| `repo_hash` | `HashIsCurrent` (1,884,902) | two callers, so that one joins the other's computation; three calls: one to fill the state file, one to keep from it, one that meets both; one file that git ignores and one that it tracks; two writes: one between stat and read, one between the calls |
| `cache_store` | `ServedIsSaved`, `EveryStopEnds`, refinement `IsResultCache` (352,866) | a queue of one place and three writers, so that two wait in its line and one overtakes; two keys, two values, so that overlapping writes differ; two stores one after the other over one database |
| `experiments` | `VerdictFits`, `RunKeepsVerdicts`, `WorkspacesRemoved`, `TasksEndFirst`, `RunEnds` (632,343) | two candidates, one evaluated at a time, so that one waits for the semaphore when the other fails; a third with an id that is taken; two runs, so that the second meets the entries of the first; one mishap (an edit, a hash that was misled, or a removal that failed), one cancelled run, in one round or two; any number of failures |
| `repository_refresh` | `ArtifactsAreCurrent`, `RefreshEnds` (286,057) | two files, one of them in the self-map; two workers, so that one is left when the other is gone; two writes: one between stat and read, one between two refreshes; one error or broken pool; any number of refreshes, cancellations and deaths |

The state counts are those of distinct states. Seven of the runs also check the type
invariant of their module, which is a theorem of every module. The two other
runs show a disagreement each; they are below.

What the properties are for:

- `TrueMeansRestored`, `NoWriteAfterReturn` and `RollbackOutsideSlice` are about the
  tasks that `gather` leaves behind: what the removal of the staging directory
  disarms, what they may still write where it failed, and how far the race
  with the rollback reaches.
- `OldOrNew` is what the engine's second restore attempt starts from.
- `IsAtomicBatch` covers the whole life of a batch, its rollback several calls
  later included.
- `LkgPassed` speaks of the memory and of the state file, because a crash makes
  the second one the first.
- `FallbackUndoes` says that a restore of the newest version is exact even when
  it starts from a half-done restore of another one.
- `LockWaitEnds` is the one liveness promise of the lock: a holder that hangs is
  waited for a bounded number of windows.
- `NothingVanishes`, `StopFlushes` and `StopReturns` hold up to the first loop that an
  error ended (`WriterDied`); `restarted_writer` shows why. The first two say that an event
  is on disk (or in hand) unless it was counted as `dropped`: no loss is silent.
  They do not say what the contract of the module says, that there is none.
- `CyclesStartSaved` says that a kill costs at most one cycle, whatever failed
  before it. `CalmBeforeChange` says that safe mode cannot be left early by
  failed cycles, restarts or a second process.
- `HashIsCurrent` and `ArtifactsAreCurrent` say of two incremental computations what
  a computation from nothing would give, whatever the earlier ones went through.
- `IsResultCache` says that a lost write is never silent; `RunKeepsVerdicts` is what
  the experiments make of it. `ServedIsSaved` is about the copy in memory after calls that
  overlap on a key: a cancelled one takes its own value out and leaves what another has
  written since (`cache_store.py` 282), but for the three accidents below.
- `TasksEndFirst` is what the seed workspace needs: nobody copies from it while it
  is removed, however the `gather` ended.

Some hold only up to a named accident. Each name is a definition or a variable
of the module, and TLC finds a counterexample when it is left out:

| property | unless | the accident |
|---|---|---|
| all of `versioning` but `EveryCallReturns` | `late`, `littered` | the clean-up could not remove a staged file (`versioning.py` 255-259 passes over that) and a task of that call used it after the call had returned |
| `RollbackOutsideSlice` | the slice of the failed replace | a replace that lands after its file was rolled back (`versioning.py` 313): the restore returns False and is half done there |
| `FallbackUndoes` | files that the batch created | a soft restore deletes nothing (`spiral_engine.py` 892) |
| `HashIsCurrent` | `disturbed`; `lost`; `torn` with `turnedBack` | a write while the hash is computed; git killed after it printed its answer and before it exited (line 577), taken for a clean tree; a file written between its stat and its read and later restored with its old time |
| `ArtifactsAreCurrent` | `disturbed`; `Poisoned`; `Nothing` | the same two; an I/O error leaves an empty entry until the file's time changes |
| `ServedIsSaved` | the keys of an `Overtaken` call; `Stale`; `Twin` | a call enters the queue after a later call on the key, so the table ends with the older value; a cancelled call puts back a value that another had written and taken back meanwhile; a cancelled call takes back a value that a later call has written too, which line 282 cannot tell from its own |
| `EveryStopEnds` | `Jammed` | the writer died with the queue full: nobody makes room for `_STOP` (`cache_store.py` 120) |
| `VerdictFits` | `moved`; `misled` | the tree was edited between the beginning of the hash (also of one that a cancelled run had begun and this one joined) and the end of the seed's copy (`experiment_manager.py` 180 and 330); the hash is one that `HashIsCurrent` excepts |
| `WorkspacesRemoved` | `died`; `cut`; `left` | the process died; a cancellation or the error of another copy abandoned a copy that goes on writing while its directory is removed; `rmtree` failed (`workspace.py` 172 and 206 pass over that) |
| `RunEnds` of `Experiments` | `Stuck` | the child was killed and a grandchild holds its pipes: `communicate` is awaited again without a timeout (`evaluator.py` 44) |
| `RefreshEnds` | `Stalled` | a worker of the self-map raised something other than `OSError` (a broken pool, a file that is no UTF-8 since it was indexed): its end of the queue is never taken, and `queue.join()` waits for ever (`static_analysis.py` 212) |
| `NothingVanishes`, `StopFlushes`, `StopReturns` | `WriterDied` | see `restarted_writer` |
| `NothingVanishes`, `StopFlushes` | `dropped` | the safe queue is full as well: the line is counted and gone (`events.py` 357-376) |
| `EndIsHonest` | the final save raised | the mode in the state file is still "running" |

## Fairness

Fairness is stated where a liveness property needs it, and is as weak as the
code justifies.

- `Versioning`: weak fairness of each task and of the caller. The event loop and
  the threads run what is ready; a file-system call ends. `EveryCallReturns`.
- `StateStore`: weak fairness of a waiting process's own attempts and timers
  only. The holder of the lock may stop for ever. `LockWaitEnds`.
- `EventWriter`: one weak fairness condition on everything that is under way:
  some coroutine that is ready runs. It does not say which, and the stopper and
  the callers begin when they like. `StopReturns`.
- `ImprovementLoop`: weak fairness of `Works`. Each call that `_run_main` and `step`
  await ends with a result or an exception. That is what `EveryCallReturns`,
  `LockWaitEnds` and `StopReturns` check inside those calls, the model client has
  a timeout and three attempts, and the evaluator has timeouts; the exceptions
  are the writer after `restarted_writer` and what the table above names
  `Stuck`, `Jammed` and `Stalled`. `RunEnds` also allows a kill, which is no progress condition.
- `CacheStore`: weak fairness of the writer's get, of its transaction, of the
  coroutines that were woken, and of `stop` when the writer task is done: the event
  loop runs what is ready, and a database call ends. Nothing is assumed of new
  calls. `EveryStopEnds`.
- `Experiments`: one weak fairness condition on `Progress`, everything that a run
  itself does; some call that is under way ends. A child that drains its pipes is
  only part of it when the pipes close. `RunEnds`.
- `RepositoryRefresh`: weak fairness of `Progress`, the steps of a refresh. Beginning
  one, writes, saves, cancellation and death are free. `RefreshEnds`.

## Proofs

The theorems hold for every set of files, contents, batches, processes, payloads,
command lines and answers, and for every value of the bounds, under the
assumption named in each module (the special values are different from each
other and from the data, bounds are naturals). TLC evaluates these assumptions in
the runs. Each specification has an inductive invariant of named parts; TLC was asked for it
on the run's instance before it was proved (for `Tickets`, with the sum instead of its witness).

**`VersioningProofs`.** `TypeCorrect`, `TrueIsRestored`, `HardIsExact`, `NothingElse`
(`OldOrNew`), `NoLateWrite`, `BackedUpFirst`, `PublishedWhole`, `SnapshotsKeptAlways`.
Three of them are checked by no run: the types, that the manifest records what a
replace replaces, and that snapshots are immutable.
The key conjunct is `Barrier`: a task that can still replace a file belongs to
the running restore, before its sweep, or uses what a sweep left. From it follows that
nothing but the restore's own tasks, its rollback and those late tasks change the
tree while it runs (`Restored`, `Recorded`), and that nothing but the late ones does after it.
`Purging` says that the hard delete has yet to visit every file that it may not leave. `Sources`, `Phased` and `Copied` tie the
attempts to published snapshots, the caller's phase to the gather it started,
and the snapshot being copied to the tree.

`RollbackConfined` is `RollbackOutsideSlice`, which fixes a history of several gathers:
one replace fails, the others of its gather run on, the rollback goes through the
manifest beside them. Two more invariants carry it. `Sliced`: whoever can still
replace a file when a replace has failed works in the slice of that failure.
`Undoing`: the rollback goes through the manifest's files once, and a file it is
through with is as it was before the call, unless it lies in that slice or a late task
wrote it.

**`CodeApplicationProofs`.** `TypeCorrect`, `RejectedIsUnchanged`, `AppliedIsWhole`,
`RevertIsExact`, `ImplementsAtomicBatch`. The core is `Holds(changes, n, p, c0, c)`: a
file that held `c0` holds `c` after the first `n` changes. `Examined` says it of the
batch and the virtual view, `Planned` of the plan, `Written` of the plan and the tree;
three lemmas on `Holds` carry them along. The refinement maps each step to one
of the four steps of `AtomicBatch` or to a stutter; an undo value is a set of at
most one tree, so that no operator has to choose.

**`SelfModificationProofs`.** `TypeCorrect`, `LkgIsGood`, `AppliedIsHonest`,
`SnapshotFirst`, `FallbackIsExact`. The strengthening is `Recoverable`: from its
snapshot to its outcome a cycle's newest version holds the tree from before the
batch, over failed restores and up to the outcome. Versions are only appended.

**`StateStoreProofs`.** `TypeCorrect`, `AlwaysWhole`, `ImplementsRegister`. `Names` says
that a `.tmp` is never the state file and that a writer's handle goes by the name
`.tmp` or by none: removing another process's `.tmp` can make its rename fail,
and never makes it publish something else. With `Calls` (who has the lock) and
`Written` (what is about to be renamed is whole) that gives `StateWhole` and the
refinement.

**`ImprovementLoopProofs`.** `TypeCorrect`, `NothingUnsavedBehind`, `HonestEnd`,
`FailuresBounded`, `ChangesWhenCalm`. `Counted` is the accounting of failures over
sessions (a product of two parameters, split into lemmas without it), `Ending`
what a run on its way out knows, `Calm` that safe mode's counter is the number of
calm cycles, in the memory and in the file. These hold without a limit on
cycles, restarts, processes or exceptions.

**`RepoHashProofs`.** `TypeCorrect`, `EntriesFitAlways` (checked by no run), `HashesAreCurrent`.
An entry that is kept is right because of three facts about times: no entry is younger
than the clock, time 0 is that of the first content (`Dated`), and an entry whose time
is the file's now holds what the file holds (`Recorded`, of the state file and of
the computation under way). A write gives a time that no entry has, a restore the time 0.
`Knows` says what an undisturbed computation has looked at, `Named` what it hands out.

**`RepositoryRefreshProofs`.** `TypeCorrect`, `StoredArtifactsAreCurrent`. The same argument, with
`Fits` for an entry under its time. `Remembered` says it of the artifacts in the memory and in the
state file, `Indexes` and `Maps` of those under way as far as the queue has been
taken: a path that is neither in the queue nor done belongs to a worker that is
gone, and then the stage does not end. `Drawn` ties the snapshot under way to the tree.

**`ExperimentsProofs`.** `TypeCorrect`, `VerdictsFit`, `ReturnedIsKept`, `NoWorkspaceLeft`,
`TasksEndBefore`. Every step of a task is shown to be about its own candidate
and workspace (`Moves`), so that one argument covers the thirteen of them. `Phased`
says which runs have tasks, `Copied` what the seed holds, and with `Sound` (of
results and of the table) that gives the verdicts. `Owes`: what the store
still has to save are exactly the fresh verdicts of the run that is ending; the proof
uses no more of the store than the actions of `ResultCache`. `Housed`: a workspace
that exists is in use, being removed, or known as cut or left.

The same module holds the proofs about the cache, `StoreTyped`, `ServesWhatIsSaved` and
`StoreKeepsItsPromise` (`IsResultCache`), so that what the experiments take for granted is a
theorem about the code that provides it. `Lined`: the putters that wait are, each once,
those who were woken followed by the line, so a wake-up skips and repeats nobody.
`Behind`: nothing that was accepted lies behind `_STOP`. `Coming` is what the table
will be once everything owed is saved, by its last writer. `InOrder`: calls that overlap are
ordered by when they began. `Served` says of each key outside the accidents: the copy in memory
shows the value of the last call that waits to write it and was not overtaken, or `Coming`
if there is none; what such a call would put back is the same of those before it, unless
one of them was taken back meanwhile. Both are kept by a call that begins, enters the
queue, or is taken back, which is where line 282 is needed (`ServedWhenItWaits`,
`ServedWhenItEnters`, `ServedWhenItResumes`, `ServedWhenCancelled`). The refinement maps the flush to a
save of the batch. A step of the writer that takes only items none of which was accepted
(rejected writes, `_STOP`) is a save of nothing, and a rejected call accepts the empty update. Lemmas on `Overlaid`
(a table with a sequence of updates on top) and `Due` (what a sequence of queue items
owes) do the work; each is about the greatest position that mentions a key.

The second part of `ImprovementLoopProofs` is about the event writer that every run logs
through: `WriterTyped`, `EventsAreKept`, `LogIsOrdered`, `StopLeavesNothing`, that is
`WriterTypeOK`, `NothingVanishes`, `LogOrder` and `StopFlushes`. They hold for all sizes of
the queues and batches and all numbers of coroutines, events and failed writes, with as
many restarts as there are failures. Three invariants carry them, one on top of the other.

- `Sorted`: the types, what a task can hold where it waits (`Roles`), and `Tickets`: the
  tasks put and not yet marked are at least the items in the queue and those in the batches
  of all the tasks that read it. Only with `Tickets` is it known that `task_done` is never
  called too often. It bounds a sum over a growing number of tasks; a sum is a recursion,
  so `Reserved` says it with a witness, the partial sums.
- `Single`: no event is twice in the log, in the batches of all main loops and in the main
  queue taken together, nor is the event of a call that waits for the end of the old loops.
  This holds also after loops died and several pairs read one queue, and it is the first
  half of `LogOrder`.
- `Healthy`: as long as no loop was ended by an error there is one pair of loops that nobody
  cancelled (`Pair`), the events are ordered along the log, the batch and the queue
  (`InOrder`), each is somewhere (`Complete`), and `stop` is where the queues it has joined
  are empty but for stop items (`Staged`). What a step does is proved once, as a change of
  queue and task (`CollectEffect` and the like), and used by all three.

`SpillLines` is a recursive function; that a spill loses no line (`SpillAll`) is proved by
the least index at which it would. What holds after a loop died is limited to `Sorted` and
`Single`, as `restarted_writer` shows.

Only model-checked: the liveness properties (`EveryCallReturns`, `LockWaitEnds`,
`StopReturns`, `RunEnds`, `EveryStopEnds`, `RefreshEnds`), which the prover does not do, and
the two violations. Every invariant and every action property of the passing runs is a
theorem. `ImplementsAtomicBatch`, `ImplementsRegister` and `StoreKeepsItsPromise` are the
refinements.

## Where the code disagrees with its documents

The first two are runs in which TLC finds such a behaviour. `PROJECT.json` quotes the sentence
of the README, a doc or a comment that it contradicts. The third is visible in every run of
`event_writer`, whose properties set it apart.

1. `restarted_writer` (`events.py:402`): a restart cancels the loop that is gathering a
   batch; the batch is in no queue and in no handler.
2. `frozen_evaluation` (`spiral_engine.py:1982`): the first cycle's evaluation is stored
   and used by all later ones, so the alarm compares constants and a harmful
   change is never taken back for what the signals report.
3. `dropped` (`events.py:357`): when the safe queue is full too, a line is dropped for good.
   Lines 40-44 say that every dropped event is appended to fail-safe storage and that
   replay durability is kept, lines 661-663 that a stop moves unwritten accepted entries
   to `events.queue`. `NothingVanishes` and `StopFlushes` show that the counted lines are
   the only ones that this happens to, before a loop dies.

The other accidents in the table of exceptions above contradict no sentence that we found. Two more that no property names: an alarm takes a batch back but
leaves `lkg_version_id` at the version with that batch in it (`spiral_engine.py` 884), so
the next rollback brings the batch back; and Ctrl-C in a save releases the lock under a thread
that still writes (`state_store.py` 254), whose rename can publish another process's
unfinished `.tmp`.

## Not modelled

- **Autonomous evolution** (`autonomous_evolution.py`, `bandit.py`): `run_cpu` pickles the
  kernel to another process, so that the method, its trial and the weights
  that a cycle writes are lost with the copy (line 506). No step of it can
  be met by a later one; what is left is a pure function to a report.
- **The cancellation of a save** (`state_store.py` 236-255): `StateStore` has errors and deaths
  at every step, and no coroutine that goes while its thread stays.
- **A snapshot number that is used twice** (`spiral_engine.py` 1548): a cycle that was not
  saved gives its number to the next one; the files are texts that nothing reads back.
- **`drain_fail_safe_events`** and the overflow policies other than `drop_oldest`
  (`events.py`): nothing under `src/` uses them.
- **The index with separate limits** (`code_intelligence.py` 143-212): nothing under `src/`
  uses it. **The report of the static analysis** is a pure function of what the refresh read.
- **Pools and the model client** are in the modules that call them: a call is a
  step, may raise, and its thread outlives the await.
- **Tools and policy**: a budget that is counted within one cycle; the constant
  `Allowed`.
- **Plan, reflection, reports, snapshots of a cycle, components, skills, strategies**:
  pure functions and texts, whose results are choices here.
- **Formats**: JSON is whole or not; timestamps, ids and wording are left out.
  Sizes are left out of both comparisons of times: all contents have one size. Texts have
  one kind of line end: `CodeApplication` does not model that reading and writing a file in
  text mode translates them (`evolution.py` 170 and 304). Every event has a JSON form: an
  event that has none would raise inside a handler of the event writer (`events.py` 345
  and 428-432) and end its loop.
- **Two writes within one tick of the file system's clock**: in `RepoHash` and
  `RepositoryRefresh` every write of a file gets a time of its own, which is what both
  comparisons rely on. A write of the same size in the tick of the former one
  would stay unseen, by the code and by the models. `HashIsCurrent` and `ArtifactsAreCurrent` hold
  under this assumption, in the runs and in the theorems.
- **Late writes under `SelfModification`**: its steps are over when they return; that a task
  may go on after a clean-up that failed is in `Versioning` alone.
- **Errors of `close`** in the stop of the cache (`cache_store.py` 143): the stop ends with
  another exception; a caller that sees a failed stop learns no less.

## Plan

Done: versions, code changes, self-modification, state store, events, the loop
around them, the hash of the repository, the refresh of index and self-map, and the
experiments, the contract of their cache and the cache itself, with their proofs.

Left, in this order:

1. `SelfModification` over the abstract versions and `AtomicBatch` by `INSTANCE`, so
   that the link between the levels is a theorem instead of a reading.
