---------------------------- MODULE Experiments ----------------------------
(***************************************************************************)
(* Experiments with candidate changes, from                                *)
(* src/src/core/experiment_manager.py (ExperimentManager.run_async), with  *)
(* the workspaces of workspace.py, the evaluation of evaluator.py and the  *)
(* decision of selector.py, over a store of results that keeps the         *)
(* contract of ResultCache.                                                *)
(*                                                                         *)
(* A run opens the store, reads the hash of the tree, copies the tree into *)
(* a seed workspace and starts one task per candidate.  A task looks the   *)
(* candidate up in the cache or, one of max_parallel_evaluations at a      *)
(* time, copies the seed into a workspace of its own, applies the change   *)
(* and evaluates it in child processes.  The verdicts are put into the     *)
(* store, the best candidate is chosen, and the store is stopped.  All the *)
(* while the tree may be edited, the run cancelled, the process die.       *)
(*                                                                         *)
(* A copy runs in a thread that a cancellation does not stop; the removal  *)
(* of the workspace then runs beside it, and says nothing when it fails.   *)
(* The hash is what RepoHash!HashIsCurrent makes of it: the name of the    *)
(* tree, unless that was edited since its computation began, which may be  *)
(* one that a cancelled run has left, or git or the state file misled it.  *)
(***************************************************************************)
EXTENDS Naturals, Sequences, FiniteSets

CONSTANTS
  Candidates, None,
  Seed,             \* the seed workspace; each candidate names its own
  Id,               \* candidate -> Candidate.id
  Lists,            \* what run_async may be called with
  Settings,         \* baseline metrics and evaluator of a run
  Versions, First,  \* contents of the tree, and the one at the start
  Old,              \* candidates with an entry of an earlier program
  Measured,         \* what evaluate_async may find
  MaxCandidates,    \* max_candidates
  Parallel,         \* max_parallel_evaluations
  MaxRuns, MaxCancels,  \* bounds
  MaxMishaps            \* bound on edits, misled hashes and failed removals

Metrics == [compile : BOOLEAN, tests : BOOLEAN, skipped : BOOLEAN]
Malformed == [missing |-> TRUE]   \* a dict without the required fields

\* What compile and pytest allow: the tests are skipped when the compilation
\* failed, and within another evaluation.
Measurements == {m \in Metrics : /\ m.tests => m.compile /\ ~m.skipped
                                 /\ ~m.compile => m.skipped}

ASSUME ExperimentsAssumption ==
  /\ First \in Versions /\ Old \subseteq Candidates
  /\ None \notin Candidates /\ Seed \notin Candidates
  /\ Lists \subseteq Seq(Candidates) /\ Settings # {}
  /\ \A s \in Settings : s.baseline \in Metrics \cup {None}
  /\ Measured \subseteq Measurements
  /\ MaxCandidates \in Nat \ {0} /\ Parallel \in Nat \ {0}
  /\ MaxRuns \in Nat /\ MaxCancels \in Nat /\ MaxMishaps \in Nat

VARIABLES
  tree, mishaps,                      \* the content of the repository, and the
                                      \* mishaps so far
  saved, owed, open, broken, told,    \* the store, see ResultCache
  run,                                \* where run_async is
  outcome,                            \* how it ends, or ended
  best,                               \* the candidate it chose
  list, setting, hash,                \* its candidates, setting, repo_hash
  seed,                               \* versions the seed copy has parts of
  moved,                              \* the tree was edited since the computation
                                      \* of the hash began
  misled,                             \* git's answer was lost, or the state file
                                      \* of the hash is poisoned
  adrift,                             \* the computation a cancelled run has left
  runs, cancels,                      \* runs begun, cancellations asked for
  task, result,                       \* candidate -> its task, and its result
  held,                               \* candidates whose pipes a grandchild holds
  there, busy, removing,              \* workspaces that exist, are being
                                      \* filled by a thread, are being removed
  cut,                                \* workspaces abandoned while being filled,
  left                                \* and those whose removal failed

treeVars == <<tree, mishaps>>
cacheVars == <<saved, owed, open, broken, told>>
runVars == <<run, outcome, best>>
planVars == <<list, setting, hash, runs>>
seedVars == <<seed, moved, misled, adrift>>
taskVars == <<task, result, held>>
spaceVars == <<there, busy, removing, cut, left>>
vars == <<treeVars, cacheVars, runVars, planVars, seedVars, cancels, taskVars,
          spaceVars>>

Entries == [metrics : Metrics \cup {Malformed}, repo : Versions,
            setting : Settings, sees : SUBSET Versions,
            moved : BOOLEAN, misled : BOOLEAN]
Spaces == Candidates \cup {Seed}

NoResult == [kind |-> "none"]
Refused == [kind |-> "refused"]      \* blocked, unchanged, failed, malformed, timed out
Raised == [kind |-> "raised"]
Stopped == [kind |-> "cancelled"]
Verdicts == [kind : {"verdict"}, fresh : BOOLEAN, entry : Entries]
Results == {NoResult, Refused, Raised, Stopped} \cup Verdicts
Verdict(e, fresh) == [kind |-> "verdict", fresh |-> fresh, entry |-> e]

TypeOK ==
  /\ tree \in Versions /\ mishaps \in 0..MaxMishaps
  /\ saved \in [Candidates -> Entries \cup {None}] /\ Len(owed) <= 1
  /\ open \in BOOLEAN /\ broken \in BOOLEAN
  /\ told \in {"nothing", "kept", "failed", "cancelled"}
  /\ run \in {"idle", "starting", "hashing", "making", "filling", "waiting",
              "cancelling", "aborting", "clearing", "stopping"}
  /\ outcome \in {"none", "returned", "raised", "cancelled", "died"}
  /\ best \in Candidates \cup {None}
  /\ list \in Seq(Candidates) /\ setting \in Settings /\ hash \in Versions
  /\ seed \subseteq Versions /\ moved \in BOOLEAN /\ misled \in BOOLEAN
  /\ adrift \in {"none", "current", "edited"}
  /\ runs \in 0..MaxRuns /\ cancels \in 0..MaxCancels
  /\ task \in [Candidates -> {"none", "new", "queued", "making", "filling",
       "evaluating", "killing", "draining", "clearing", "done"}]
  /\ result \in [Candidates -> Results]
  /\ held \subseteq Candidates
  /\ there \cup busy \cup removing \cup cut \cup left \subseteq Spaces
  /\ open <=> run \notin {"idle", "starting"}

\* What an earlier version of the program may have left in the database.
Leftover == CHOOSE e \in Entries : /\ e.metrics = Malformed /\ e.repo = First
                                  /\ e.sees = {First} /\ ~e.moved /\ ~e.misled

Init ==
  /\ tree = First /\ mishaps = 0
  /\ saved \in {[c \in Candidates |-> IF c \in S THEN Leftover ELSE None]
                : S \in {{}, Old}}
  /\ owed = <<>> /\ open = FALSE /\ broken = FALSE /\ told = "nothing"
  /\ run = "idle" /\ outcome = "none" /\ best = None
  /\ list = <<>> /\ setting = Leftover.setting /\ hash = tree
  /\ seed = {} /\ moved = FALSE /\ misled = FALSE /\ adrift = "none"
  /\ runs = 0 /\ cancels = 0
  /\ task = [c \in Candidates |-> "none"]
  /\ result = [c \in Candidates |-> NoResult] /\ held = {}
  /\ there = {} /\ busy = {} /\ removing = {} /\ cut = {} /\ left = {}

Cache == INSTANCE ResultCache WITH
  Keys <- Candidates, Values <- Entries, NoValue <- None

Mishap == mishaps < MaxMishaps /\ mishaps' = mishaps + 1

\* Somebody edits or restores the tree.
Edit(v) ==
  /\ Mishap /\ v # tree
  /\ tree' = v
  /\ seed' = IF run = "filling" THEN seed \cup {v} ELSE seed
  /\ moved' = (moved \/ run \in {"hashing", "making", "filling"})
  /\ adrift' = IF adrift = "none" THEN "none" ELSE "edited"
  /\ UNCHANGED <<misled, cacheVars, runVars, planVars, cancels, taskVars, spaceVars>>

-----------------------------------------------------------------------------
(* The run, up to its tasks.                                               *)

Begin(l, s) ==
  /\ run = "idle" /\ runs < MaxRuns
  /\ busy = {} /\ removing = {}   \* what a former run left behind is its own
  /\ runs' = runs + 1 /\ list' = l /\ setting' = s
  /\ run' = "starting" /\ outcome' = "none" /\ best' = None
  /\ seed' = {} /\ moved' = FALSE /\ misled' = FALSE
  /\ task' = [c \in Candidates |-> "none"]
  /\ result' = [c \in Candidates |-> NoResult] /\ held' = {}
  /\ there' = {} /\ cut' = {} /\ left' = {}
  /\ UNCHANGED <<treeVars, cacheVars, hash, cancels, adrift, busy, removing>>

Fails(next) == run' = next /\ outcome' = "raised" /\ UNCHANGED best

\* The store cannot be opened: it is not stopped either.
StartFails ==
  /\ run = "starting" /\ Fails("idle")
  /\ UNCHANGED <<treeVars, cacheVars, planVars, seedVars, cancels, taskVars,
                 spaceVars>>

Duplicates == \E i, j \in DOMAIN list : i # j /\ Id[list[i]] = Id[list[j]]

\* The hash is asked for: a computation that is under way is waited for.
Started ==
  /\ run = "starting" /\ Cache!Open
  /\ IF Duplicates
     THEN Fails("stopping") /\ UNCHANGED <<moved, adrift>>
     ELSE /\ run' = "hashing" /\ UNCHANGED <<outcome, best>>
          /\ moved' = (adrift = "edited") /\ adrift' = "none"
  /\ UNCHANGED <<treeVars, planVars, seed, misled, cancels, taskVars, spaceVars>>

\* The hash is there.  The last disjunct is an accident of RepoHash: lost, or
\* torn and turnedBack.
Hashed ==
  /\ run = "hashing"
  /\ hash' \in Versions /\ run' = "making" /\ busy' = busy \cup {Seed}
  /\ \/ (hash' = tree \/ moved) /\ UNCHANGED <<misled, mishaps>>
     \/ Mishap /\ misled' = TRUE
  /\ UNCHANGED <<tree, cacheVars, outcome, best, list, setting, runs, seed,
                 moved, adrift, cancels, taskVars, there, removing, cut, left>>

\* The computation that was left comes to its end.
AdriftEnds ==
  /\ adrift # "none" /\ adrift' = "none"
  /\ UNCHANGED <<treeVars, cacheVars, runVars, planVars, seed, moved, misled,
                 cancels, taskVars, spaceVars>>

\* Mutant of HashFails: the store is not stopped after an error.
HashFailsUnstopped ==
  /\ run = "hashing" /\ Fails("idle")
  /\ UNCHANGED <<treeVars, cacheVars, planVars, seedVars, cancels, taskVars,
                 spaceVars>>

\* The hash cannot be computed.
HashFails ==
  /\ run = "hashing" /\ Fails("stopping")
  /\ UNCHANGED <<treeVars, cacheVars, planVars, seedVars, cancels, taskVars,
                 spaceVars>>

SeedMade ==
  /\ run = "making"
  /\ run' = "filling" /\ there' = there \cup {Seed} /\ seed' = {tree}
  /\ UNCHANGED <<treeVars, cacheVars, outcome, best, planVars, moved, misled,
                 adrift, cancels, taskVars, busy, removing, cut, left>>

Chosen == {list[i] : i \in {n \in DOMAIN list : n <= MaxCandidates}}

\* The copy is complete, and the tasks are created.
SeedFilled ==
  /\ run = "filling"
  /\ run' = "waiting" /\ busy' = busy \ {Seed}
  /\ task' = [c \in Candidates |-> IF c \in Chosen THEN "new" ELSE "none"]
  /\ UNCHANGED <<treeVars, cacheVars, outcome, best, planVars, seedVars, cancels,
                 result, held, there, removing, cut, left>>

\* mkdtemp or the copy fails.
SeedFails ==
  /\ busy' = busy \ {Seed}
  /\ \/ run = "making" /\ Fails("stopping") /\ UNCHANGED removing
     \/ run = "filling" /\ Fails("clearing") /\ removing' = removing \cup {Seed}
  /\ UNCHANGED <<treeVars, cacheVars, planVars, seedVars, cancels, taskVars,
                 there, cut, left>>

-----------------------------------------------------------------------------
(* The task of a candidate, _evaluate_candidate.                           *)

\* Mutant of Reusable: the tree does not count.
ReusableAnyTree(e) == e # None /\ e.setting = setting

\* The key holds the candidate and its code_hash.
Reusable(e) == e # None /\ e.setting = setting /\ e.repo = hash

LookUp(c) ==
  /\ task[c] = "new"
  /\ IF Reusable(saved[c])
     THEN /\ task' = [task EXCEPT ![c] = "done"]
          /\ result' = [result EXCEPT ![c] =
               IF saved[c].metrics = Malformed THEN Refused
               ELSE Verdict(saved[c], FALSE)]
     ELSE task' = [task EXCEPT ![c] = "queued"] /\ UNCHANGED result
  /\ UNCHANGED <<treeVars, cacheVars, runVars, planVars, seedVars, cancels, held,
                 spaceVars>>

\* Mutant of Working: a refusal does not give its place back.
WorkingOrRefused ==
  {c \in Candidates : \/ task[c] \notin {"none", "new", "queued", "done"}
                      \/ task[c] = "done" /\ result[c] = Refused}

\* Those who hold a place of the semaphore.
Working == {c \in Candidates : task[c] \notin {"none", "new", "queued", "done"}}

Acquire(c) ==
  /\ task[c] = "queued" /\ Cardinality(Working) < Parallel
  /\ task' = [task EXCEPT ![c] = "making"] /\ busy' = busy \cup {c}
  /\ UNCHANGED <<treeVars, cacheVars, runVars, planVars, seedVars, cancels,
                 result, held, there, removing, cut, left>>

Made(c) ==
  /\ task[c] = "making"
  /\ task' = [task EXCEPT ![c] = "filling"] /\ there' = there \cup {c}
  /\ UNCHANGED <<treeVars, cacheVars, runVars, planVars, seedVars, cancels,
                 result, held, busy, removing, cut, left>>

MakeFails(c) ==
  /\ task[c] = "making"
  /\ task' = [task EXCEPT ![c] = "done"] /\ busy' = busy \ {c}
  /\ result' = [result EXCEPT ![c] = Raised]
  /\ UNCHANGED <<treeVars, cacheVars, runVars, planVars, seedVars, cancels,
                 held, there, removing, cut, left>>

\* c leaves its workspace with result r.
Leave(c, r) ==
  /\ task' = [task EXCEPT ![c] = "clearing"]
  /\ result' = [result EXCEPT ![c] = r]
  /\ removing' = removing \cup {c}

\* The paths are copied from the seed and the change is applied.
Filled(c) ==
  /\ task[c] = "filling"
  /\ task' = [task EXCEPT ![c] = "evaluating"] /\ busy' = busy \ {c}
  /\ UNCHANGED <<treeVars, cacheVars, runVars, planVars, seedVars, cancels,
                 result, held, there, removing, cut, left>>

\* A part of the change is blocked, or nothing of it was applied.
Blocked(c) ==
  /\ task[c] = "filling" /\ Leave(c, Refused) /\ busy' = busy \ {c}
  /\ UNCHANGED <<treeVars, cacheVars, runVars, planVars, seedVars, cancels,
                 held, there, cut, left>>

\* Mutant of FillFails: the workspace is removed after a good end only.
FillFailsUncleared(c) ==
  /\ task[c] = "filling" /\ busy' = busy \ {c}
  /\ task' = [task EXCEPT ![c] = "done"]
  /\ result' = [result EXCEPT ![c] = Raised]
  /\ UNCHANGED <<treeVars, cacheVars, runVars, planVars, seedVars, cancels,
                 held, there, removing, cut, left>>

\* A path cannot be copied: the threads that copy the others may go on.
FillFails(c) ==
  /\ task[c] = "filling" /\ Leave(c, Raised)
  /\ \/ busy' = busy \ {c} /\ UNCHANGED cut
     \/ cut' = cut \cup {c} /\ UNCHANGED busy
  /\ UNCHANGED <<treeVars, cacheVars, runVars, planVars, seedVars, cancels,
                 held, there, left>>

-----------------------------------------------------------------------------
(* evaluate_async: compile, then pytest, then benchmarks.  A child past    *)
(* its own timeout is killed, and its output is read to the end before the *)
(* evaluation goes on; when the whole evaluation is cancelled, because of  *)
(* timeout_per_candidate or with the task, the child is killed and its     *)
(* output read first.  Neither ends while a grandchild holds the pipes.    *)

NewEntry(m) == [metrics |-> m, repo |-> hash, setting |-> setting,
                sees |-> seed, moved |-> moved, misled |-> misled]

Evaluated(c) ==
  /\ task[c] = "evaluating"
  /\ \E r \in {Refused} \cup {Verdict(NewEntry(m), TRUE) : m \in Measured} :
       Leave(c, r)
  /\ UNCHANGED <<treeVars, cacheVars, runVars, planVars, seedVars, cancels,
                 held, there, busy, cut, left>>

\* The children of S are killed: some of them have children that live on.
Kill(S) == \E h \in SUBSET S : held' = held \cup h

ChildTimesOut(c) ==
  /\ task[c] = "evaluating"
  /\ task' = [task EXCEPT ![c] = "killing"] /\ Kill({c})
  /\ UNCHANGED <<treeVars, cacheVars, runVars, planVars, seedVars, cancels,
                 result, spaceVars>>

\* A timeout of a child is a verdict like another.
Killed(c) ==
  /\ task[c] = "killing" /\ c \notin held
  /\ \E m \in Measured : ~m.tests /\ Leave(c, Verdict(NewEntry(m), TRUE))
  /\ UNCHANGED <<treeVars, cacheVars, runVars, planVars, seedVars, cancels,
                 held, there, busy, cut, left>>

\* timeout_per_candidate: a child still running is killed first; one killed
\* before is not waited for any longer.
TimesOut(c) ==
  /\ \/ /\ task[c] = "evaluating" /\ Kill({c})
        /\ task' = [task EXCEPT ![c] = "draining"]
        /\ result' = [result EXCEPT ![c] = Refused]
        /\ UNCHANGED removing
     \/ task[c] = "killing" /\ Leave(c, Refused) /\ UNCHANGED held
  /\ UNCHANGED <<treeVars, cacheVars, runVars, planVars, seedVars, cancels,
                 there, busy, cut, left>>

Drained(c) ==
  /\ task[c] = "draining" /\ c \notin held
  /\ Leave(c, result[c])
  /\ UNCHANGED <<treeVars, cacheVars, runVars, planVars, seedVars, cancels,
                 held, there, busy, cut, left>>

\* The workspace is removed; errors are ignored.
Cleared(c) ==
  /\ task[c] = "clearing" /\ c \notin removing
  /\ task' = [task EXCEPT ![c] = "done"]
  /\ UNCHANGED <<treeVars, cacheVars, runVars, planVars, seedVars, cancels,
                 result, held, spaceVars>>

-----------------------------------------------------------------------------
(* Threads: rmtree, and a copy that nobody waits for any more.             *)

\* rmtree ends.  What a copy writes meanwhile may survive, and an error of the
\* removal is ignored.
Removed(d) ==
  /\ d \in removing /\ removing' = removing \ {d}
  /\ \/ there' = there \ {d} /\ UNCHANGED <<left, mishaps>>
     \/ d \in busy /\ UNCHANGED <<there, left, mishaps>>
     \/ Mishap /\ left' = left \cup {d} /\ UNCHANGED there
  /\ UNCHANGED <<tree, cacheVars, runVars, planVars, seedVars, cancels,
                 taskVars, busy, cut>>

\* It may create the directory, or the parts of it that were removed, again.
CopyEnds(d) ==
  /\ d \in busy \cap cut
  /\ busy' = busy \ {d}
  /\ there' \in {there, there \cup {d}}
  /\ UNCHANGED <<treeVars, cacheVars, runVars, planVars, seedVars, cancels,
                 taskVars, removing, cut, left>>

-----------------------------------------------------------------------------
(* The end of a run.                                                       *)

CacheRest == UNCHANGED <<treeVars, planVars, seedVars, cancels, taskVars>>

Failed(c) == result[c] \in {Raised, Stopped}
AllDone == \A c \in Chosen : task[c] = "done"
Fresh == {c \in Chosen : result[c].kind = "verdict" /\ result[c].fresh}

\* should_accept: the reason, in the order of its tests.
Reason(m, baseline) ==
  CASE baseline # None /\ baseline.compile /\ ~m.compile -> "compile_regression"
    [] baseline # None /\ baseline.tests /\ (~m.tests \/ m.skipped)
         -> "tests_regression"
    [] ~m.compile -> "compile_failed"
    [] m.skipped -> "tests_skipped"
    [] ~m.tests -> "tests_failed"
    [] OTHER -> "accepted"

Accepted == {c \in Chosen : /\ result[c].kind = "verdict"
                            /\ Reason(result[c].entry.metrics, setting.baseline)
                                 = "accepted"}

\* gather has all results: the fresh verdicts go to the store, the fastest
\* accepted candidate is chosen, and the seed workspace is left.
Judge ==
  /\ run = "waiting" /\ AllDone /\ \A c \in Chosen : ~Failed(c)
  /\ run' = "clearing" /\ outcome' = "returned" /\ removing' = removing \cup {Seed}
  /\ IF Accepted = {} THEN best' = None ELSE best' \in Accepted
  /\ IF Fresh = {} THEN UNCHANGED cacheVars
     ELSE Cache!Accept([c \in Fresh |-> result[c].entry])
  /\ CacheRest /\ UNCHANGED <<there, busy, cut, left>>

\* What Task.cancel does to the tasks that are not done; a task that is left
\* in the middle of a copy abandons it.
CancelTasks ==
  LET at(pcs) == {c \in Candidates : task[c] \in pcs}
      leaving == at({"filling", "killing", "draining"})
      copying == at({"making", "filling"})
  IN /\ task' = [c \in Candidates |->
          CASE c \in leaving -> "clearing"
            [] task[c] = "evaluating" -> "draining"
            [] task[c] = "none" -> "none"
            [] OTHER -> "done"]
     /\ result' = [c \in Candidates |->
          IF task[c] \in {"none", "done"} THEN result[c] ELSE Stopped]
     /\ removing' = removing \cup leaving
     /\ cut' = cut \cup copying
     /\ \E b \in SUBSET copying : busy' = busy \ b
     /\ Kill(at({"evaluating"}))

\* Mutant of Abort: nobody waits for the cancelled tasks.
AbortAtOnce ==
  /\ run = "waiting" /\ \E c \in Chosen : task[c] = "done" /\ result[c] = Raised
  /\ run' = "stopping" /\ outcome' = "raised" /\ UNCHANGED best
  /\ CancelTasks
  /\ UNCHANGED <<treeVars, cacheVars, planVars, seedVars, cancels, there, left>>

\* A task raised: the others are cancelled.
Abort ==
  /\ run = "waiting" /\ \E c \in Chosen : task[c] = "done" /\ result[c] = Raised
  /\ run' = "aborting" /\ outcome' = "raised" /\ UNCHANGED best
  /\ CancelTasks
  /\ UNCHANGED <<treeVars, cacheVars, planVars, seedVars, cancels, there, left>>

\* gather was cancelled and with it all tasks: it ends with the first of them
\* that does, or with the last when all had ended well, and run_async cancels
\* those that are still draining or clearing once more.
CancelAgain ==
  /\ run = "cancelling"
  /\ AllDone \/ \E c \in Chosen : task[c] = "done" /\ Failed(c)
  /\ run' = "aborting" /\ UNCHANGED <<outcome, best>>
  /\ CancelTasks
  /\ UNCHANGED <<treeVars, cacheVars, planVars, seedVars, cancels, there, left>>

\* All tasks have ended: the seed workspace is left.
Aborted ==
  /\ run = "aborting" /\ AllDone
  /\ run' = "clearing" /\ removing' = removing \cup {Seed}
  /\ UNCHANGED <<cacheVars, outcome, best, there, busy, cut, left>> /\ CacheRest

SeedCleared ==
  /\ run = "clearing" /\ Seed \notin removing
  /\ run' = "stopping"
  /\ UNCHANGED <<cacheVars, outcome, best, spaceVars>> /\ CacheRest

\* Mutant of StopEnds: the end of the run does not depend on the store's.
StopEndsMute ==
  /\ run = "stopping" /\ Cache!Close
  /\ told' = "cancelled" => outcome = "cancelled"
  /\ run' = "idle" /\ UNCHANGED <<outcome, best, spaceVars>> /\ CacheRest

\* stop: its error is raised instead of what the run was going to end with.
StopEnds ==
  /\ run = "stopping" /\ Cache!Close
  /\ told' = "cancelled" => outcome = "cancelled"
  /\ run' = "idle"
  /\ outcome' = IF told' = "failed" THEN "raised" ELSE outcome
  /\ UNCHANGED <<best, spaceVars>> /\ CacheRest

-----------------------------------------------------------------------------
(* Cancellation of the run, death of the process, the store at work.       *)

Cancel ==
  /\ run # "idle" /\ cancels < MaxCancels
  /\ cancels' = cancels + 1 /\ outcome' = "cancelled"
  /\ CASE run = "starting" ->
            run' = "idle" /\ UNCHANGED <<taskVars, busy, removing, cut, left>>
       [] run \in {"hashing", "clearing", "stopping"} ->
            run' = "stopping" /\ UNCHANGED <<taskVars, busy, removing, cut, left>>
       [] run \in {"making", "filling"} ->
            /\ run' = IF run = "making" THEN "stopping" ELSE "clearing"
            /\ removing' = IF run = "making" THEN removing
                           ELSE removing \cup {Seed}
            /\ cut' = cut \cup {Seed} /\ busy' \in {busy, busy \ {Seed}}
            /\ UNCHANGED taskVars
       [] OTHER ->
            /\ run' = IF run = "aborting" THEN "aborting" ELSE "cancelling"
            /\ CancelTasks
  /\ adrift' = IF run # "hashing" THEN adrift
               ELSE IF moved THEN "edited" ELSE "current"
  /\ UNCHANGED <<treeVars, cacheVars, best, planVars, seed, moved, misled, there,
                 left>>

Die ==
  /\ run # "idle"
  /\ run' = "idle" /\ outcome' = "died" /\ UNCHANGED best /\ Cache!Die
  /\ task' = [c \in Candidates |-> "none"]
  /\ busy' = {} /\ removing' = {} /\ adrift' = "none"
  /\ UNCHANGED <<treeVars, planVars, seed, moved, misled, cancels, result, held,
                 there, cut, left>>

StoreRest ==
  UNCHANGED <<treeVars, runVars, planVars, seedVars, cancels, taskVars, spaceVars>>
StoreSaves == Len(owed) > 0 /\ Cache!Save(Len(owed)) /\ StoreRest
StoreBreaks == Len(owed) > 0 /\ Cache!Break /\ StoreRest

-----------------------------------------------------------------------------
TaskStep(c) ==
  \/ LookUp(c) \/ Acquire(c) \/ Made(c) \/ MakeFails(c) \/ Filled(c)
  \/ Blocked(c) \/ FillFails(c) \/ Evaluated(c) \/ ChildTimesOut(c)
  \/ Killed(c) \/ TimesOut(c) \/ Drained(c) \/ Cleared(c)

RunStep ==
  \/ StartFails \/ Started \/ Hashed \/ HashFails \/ SeedMade \/ SeedFilled
  \/ SeedFails \/ Judge \/ Abort \/ CancelAgain \/ Aborted \/ SeedCleared
  \/ StopEnds

\* The event loop and the threads go on, timeouts expire, and the store is at
\* work (CacheStore!EveryStopEnds); no step of these can repeat within a run.
Progress ==
  \/ RunStep \/ AdriftEnds \/ StoreSaves \/ StoreBreaks
  \/ \E c \in Candidates : TaskStep(c)
  \/ \E d \in Spaces : Removed(d) \/ CopyEnds(d)

Next ==
  \/ \E v \in Versions : Edit(v)
  \/ \E l \in Lists, s \in Settings : Begin(l, s)
  \/ Cancel \/ Die
  \/ Progress

Spec == Init /\ [][Next]_vars /\ WF_vars(Progress)

-----------------------------------------------------------------------------
\* A verdict that a run uses, fresh or from the cache, was measured on a copy
\* of the very tree that the run's hash names, and the chosen candidate
\* compiled there and passed its tests; unless, in the run that measured it,
\* the tree was edited between the begin of the hash and the end of the copy
\* (lines 180 and 330) or the hash was misled, which nobody notices: then the
\* entry is kept under a hash of another tree.
VerdictFits ==
  /\ \A c \in Candidates : result[c].kind = "verdict" =>
       LET e == result[c].entry IN e.sees = {hash} \/ e.moved \/ e.misled
  /\ outcome = "returned" /\ best # None =>
       result[best].entry.metrics = [compile |-> TRUE, tests |-> TRUE,
                                     skipped |-> FALSE]

\* A run that returns has its fresh verdicts in the database: a write that
\* fails after put_many has returned still fails the run (lines 351-361, and
\* cache_store.py lines 120-150).
RunKeepsVerdicts ==
  run = "idle" /\ outcome = "returned" =>
    \A c \in Fresh : saved[c] = result[c].entry

\* However a run and its candidates end, no workspace is forgotten: when the
\* run has ended and its threads too, one is there only where the process
\* died, rmtree failed (workspace.py lines 172 and 206 ignore that), or a copy
\* was abandoned by a cancellation or by the error of another copy (lines
\* 128-174 and 197-208).
WorkspacesRemoved ==
  run = "idle" /\ outcome # "died" /\ busy = {} /\ removing = {} =>
    there \subseteq cut \cup left

\* No task outlives its run, and none uses the seed workspace while that is
\* removed, however many fail or are cancelled (lines 330-343).
TasksEndFirst ==
  run \in {"idle", "clearing", "stopping"} =>
    \A c \in Candidates : task[c] \in {"none", "done"}

\* A child is killed and a process it has started keeps the pipes open.
Stuck == \E c \in held : task[c] = "draining"

\* Every run ends, however its candidates fail, time out or are cancelled;
\* only a grandchild that holds the pipes of a child killed by a cancellation
\* keeps it waiting for good (evaluator.py lines 42-45).
RunEnds == run # "idle" ~> run = "idle" \/ Stuck
=============================================================================
