-------------------------- MODULE ExperimentsProofs --------------------------
(***************************************************************************)
(* Proofs about the experiments, for every set of candidates and versions, *)
(* every limit on parallel evaluations and every number of runs, edits and *)
(* cancellations: what a verdict is about, what is in the store when a run *)
(* has returned, which workspaces stay, and that no task outlives its run. *)
(*                                                                         *)
(* And about the cache that they are kept in (CacheStore), for every set   *)
(* of keys, entries, writes and putters, and every size of its queue.      *)
(***************************************************************************)
EXTENDS Experiments, CacheStore, SequenceTheorems, WellFoundedInduction, TLAPS

Early == {"starting", "hashing", "making", "filling"}
Passing == [compile |-> TRUE, tests |-> TRUE, skipped |-> FALSE]

\* The entry was measured on a copy of the tree that it is kept under.
EntryFits(e) == e.sees = {e.repo} \/ e.moved \/ e.misled

\* Tasks belong to a run that waits for them, and to its candidates.
Phased ==
  /\ run \notin {"waiting", "cancelling", "aborting"} =>
       \A c \in Candidates : task[c] \in {"none", "done"}
  /\ run \in Early => \A c \in Candidates : task[c] = "none" /\ result[c] = NoResult
  /\ \A c \in Candidates : task[c] # "none" => c \in Chosen

\* The seed is a copy of the tree that was hashed.
Copied ==
  /\ run = "making" => tree = hash \/ moved \/ misled
  /\ run \in {"filling", "waiting", "cancelling", "aborting"} =>
       seed = {hash} \/ moved \/ misled

Sound ==
  /\ \A c \in Candidates : saved[c] # None => EntryFits(saved[c])
  /\ \A c \in Candidates : result[c].kind = "verdict" =>
       /\ EntryFits(result[c].entry) /\ result[c].entry.repo = hash
       /\ result[c].entry.metrics \in Metrics

Judged ==
  outcome = "returned" =>
    /\ run \in {"idle", "clearing", "stopping"}
    /\ best # None => /\ result[best].kind = "verdict"
                      /\ result[best].entry.metrics = Passing

FreshWrite == [c \in Fresh |-> result[c].entry]

\* What a run owes to the store are its fresh verdicts, or nothing.
Owes ==
  /\ owed # <<>> => run \in {"clearing", "stopping"} /\ owed = <<FreshWrite>>
  /\ outcome = "returned" =>
       owed = <<FreshWrite>> \/ \A c \in Fresh : saved[c] = result[c].entry

\* The workspace d is in use, is being filled, is given up.
InUse(d) == IF d = Seed THEN run \in {"filling", "waiting", "cancelling", "aborting"}
            ELSE task[d] \in {"filling", "evaluating", "killing", "draining"}
Filling(d) == IF d = Seed THEN run \in {"making", "filling"}
              ELSE task[d] \in {"making", "filling"}
Over(d) == IF d = Seed THEN run \in {"clearing", "stopping", "idle"}
           ELSE task[d] \in {"none", "clearing", "done"}

\* A workspace that exists is in use or about to go; a thread that fills one
\* is waited for or abandoned.
Housed ==
  /\ \A d \in there : \/ d \in cut \/ d \in left \/ d \in removing \/ InUse(d)
                      \/ run = "idle" /\ outcome = "died"
  /\ \A d \in busy : d \in cut \/ Filling(d)
  /\ \A d \in removing : Over(d)
  /\ run \in Early => removing = {}

IInv == TypeOK /\ Phased /\ Copied /\ Sound /\ Judged /\ Owes /\ Housed

-----------------------------------------------------------------------------
(* What the actions do.                                                    *)

LEMMA ChosenTyped ==
  ASSUME TypeOK
  PROVE  Chosen \subseteq Candidates
  BY DEF TypeOK, Chosen

\* An entry of an earlier program is found under the tree it is kept under.
LEMMA LeftoverTyped ==
  /\ Leftover \in Entries /\ Leftover.metrics = Malformed /\ EntryFits(Leftover)
  /\ Leftover.setting \in Settings
  <1>1. PICK s \in Settings : TRUE
    BY ExperimentsAssumption
  <1> DEFINE e == [metrics |-> Malformed, repo |-> First, setting |-> s,
                   sees |-> {First}, moved |-> FALSE, misled |-> FALSE]
  <1>2. /\ e \in Entries /\ e.metrics = Malformed /\ e.repo = First
        /\ e.sees = {First} /\ ~e.moved /\ ~e.misled
    BY <1>1, ExperimentsAssumption DEF Entries
  <1>3. /\ Leftover \in Entries /\ Leftover.metrics = Malformed
        /\ Leftover.repo = First /\ Leftover.sees = {First} /\ ~Leftover.moved
        /\ ~Leftover.misled
    BY <1>2 DEF Leftover
  <1> QED
    BY <1>3 DEF Entries, EntryFits

\* How the task of c may end, or go on.
CanEnd(c, r) ==
  \/ r \in {result[c], Refused, Raised}
  \/ /\ r = Verdict(saved[c], FALSE) /\ Reusable(saved[c])
     /\ saved[c].metrics # Malformed
  \/ \E m \in Measured : r = Verdict(NewEntry(m), TRUE)

Stages == {"queued", "making", "filling", "evaluating", "killing", "draining",
           "clearing", "done"}

\* A step of a task is about its own candidate and workspace.
Moves(c) ==
  /\ UNCHANGED <<treeVars, cacheVars, runVars, planVars, seedVars, cancels>>
  /\ task[c] \notin {"none", "done"}
  /\ \E t \in Stages : task' = [task EXCEPT ![c] = t]
  /\ \E r : CanEnd(c, r) /\ result' = [result EXCEPT ![c] = r]
  /\ held' \subseteq held \cup {c} /\ there' \subseteq there \cup {c}
  /\ busy' \subseteq busy \cup {c} /\ removing' \subseteq removing \cup {c}
  /\ cut' \subseteq cut \cup {c} /\ left' = left

LEMMA TaskMoves ==
  ASSUME TypeOK, NEW c \in Candidates, TaskStep(c)
  PROVE  Moves(c)
  <1>1. /\ result = [result EXCEPT ![c] = result[c]] /\ CanEnd(c, result[c])
        /\ CanEnd(c, Refused) /\ CanEnd(c, Raised)
    BY DEF TypeOK, CanEnd
  <1>2. CASE LookUp(c)
    <2>1. \E r : CanEnd(c, r) /\ result' = [result EXCEPT ![c] = r]
      BY <1>1, <1>2 DEF LookUp, CanEnd
    <2> QED
      BY <1>2, <2>1 DEF LookUp, Moves, Stages, spaceVars
  <1>3. CASE Acquire(c) \/ Made(c) \/ Filled(c) \/ ChildTimesOut(c) \/ Cleared(c)
    <2>1. result' = result
      BY <1>3 DEF Acquire, Made, Filled, ChildTimesOut, Cleared
    <2>2. held' \subseteq held \cup {c}
      BY <1>3 DEF Acquire, Made, Filled, ChildTimesOut, Cleared, Kill
    <2> QED
      BY <1>1, <1>3, <2>1, <2>2
      DEF Acquire, Made, Filled, ChildTimesOut, Cleared, Moves, Stages, spaceVars
  <1>4. CASE MakeFails(c)
    BY <1>1, <1>4 DEF MakeFails, Moves, Stages
  <1>5. CASE Blocked(c) \/ FillFails(c)
    BY <1>1, <1>5 DEF Blocked, FillFails, Leave, Moves, Stages
  <1>6. CASE Evaluated(c) \/ Killed(c)
    <2>1. PICK r : CanEnd(c, r) /\ Leave(c, r)
      BY <1>1, <1>6 DEF Evaluated, Killed, CanEnd
    <2> QED
      BY <1>6, <2>1 DEF Evaluated, Killed, Leave, Moves, Stages
  <1>7. CASE TimesOut(c)
    <2>1. held' \subseteq held \cup {c}
      BY <1>7 DEF TimesOut, Kill
    <2> QED
      BY <1>1, <1>7, <2>1 DEF TimesOut, Leave, Moves, Stages
  <1>8. CASE Drained(c)
    BY <1>1, <1>8 DEF Drained, Leave, Moves, Stages
  <1> QED
    BY <1>2, <1>3, <1>4, <1>5, <1>6, <1>7, <1>8 DEF TaskStep

\* What such a step leaves as the result of c.
LEMMA EndTyped ==
  ASSUME IInv, NEW c \in Candidates, task[c] \notin {"none", "done"},
         NEW r, CanEnd(c, r)
  PROVE  /\ r \in Results
         /\ r.kind = "verdict" => /\ EntryFits(r.entry) /\ r.entry.repo = hash
                                  /\ r.entry.metrics \in Metrics
  <1>1. /\ result[c] \in Results /\ saved[c] \in Entries \cup {None}
        /\ hash \in Versions /\ setting \in Settings /\ seed \subseteq Versions
        /\ moved \in BOOLEAN /\ misled \in BOOLEAN
    BY DEF IInv, TypeOK
  <1>2. CASE r = result[c]
    BY <1>1, <1>2 DEF IInv, Sound
  <1>3. CASE r \in {Refused, Raised}
    BY <1>3 DEF Results, Refused, Raised
  <1>4. CASE /\ r = Verdict(saved[c], FALSE) /\ Reusable(saved[c])
             /\ saved[c].metrics # Malformed
    <2>1. saved[c] \in Entries /\ saved[c].repo = hash /\ EntryFits(saved[c])
      BY <1>1, <1>4 DEF Reusable, IInv, Sound
    <2>2. saved[c].metrics \in Metrics
      BY <1>4, <2>1 DEF Entries
    <2> QED
      BY <1>4, <2>1, <2>2 DEF Verdict, Results, Verdicts
  <1>5. ASSUME NEW m \in Measured, r = Verdict(NewEntry(m), TRUE)
       PROVE  /\ r \in Results /\ EntryFits(r.entry) /\ r.entry.repo = hash
              /\ r.entry.metrics \in Metrics
    <2>1. m \in Metrics
      BY ExperimentsAssumption DEF Measurements
    <2>2. seed = {hash} \/ moved \/ misled
      BY DEF IInv, Phased, Copied
    <2>3. NewEntry(m) \in Entries
      BY <1>1, <2>1 DEF NewEntry, Entries
    <2> QED
      BY <1>5, <2>1, <2>2, <2>3 DEF Verdict, Results, Verdicts, NewEntry, EntryFits
  <1> QED
    BY <1>2, <1>3, <1>4, <1>5 DEF CanEnd

\* What the cancellation of the tasks does to each of them.
LEMMA CancelsEach ==
  ASSUME TypeOK, CancelTasks
  PROVE  /\ task' \in [Candidates -> {"none", "draining", "clearing", "done"}]
         /\ result' \in [Candidates -> Results]
         /\ \A c \in Candidates :
              /\ task'[c] = "none" <=> task[c] = "none"
              /\ task'[c] = "draining" <=> task[c] = "evaluating"
              /\ task'[c] = "clearing" <=> task[c] \in {"filling", "killing", "draining"}
              /\ result'[c] \in {result[c], Stopped}
         /\ held' \subseteq Candidates
         /\ removing' = removing \cup
              {c \in Candidates : task[c] \in {"filling", "killing", "draining"}}
         /\ cut' = cut \cup {c \in Candidates : task[c] \in {"making", "filling"}}
         /\ busy' \subseteq busy
  <1> DEFINE at(pcs) == {c \in Candidates : task[c] \in pcs}
             leaving == at({"filling", "killing", "draining"})
  <1>1. /\ task' = [c \in Candidates |->
             CASE c \in leaving -> "clearing"
               [] task[c] = "evaluating" -> "draining"
               [] task[c] = "none" -> "none"
               [] OTHER -> "done"]
        /\ result' = [c \in Candidates |->
             IF task[c] \in {"none", "done"} THEN result[c] ELSE Stopped]
        /\ removing' = removing \cup leaving
        /\ cut' = cut \cup at({"making", "filling"})
        /\ \E b \in SUBSET at({"making", "filling"}) : busy' = busy \ b
        /\ Kill(at({"evaluating"}))
    BY DEF CancelTasks
  <1>2. held' \subseteq Candidates
    BY <1>1 DEF Kill, TypeOK
  <1>3. Stopped \in Results /\ result \in [Candidates -> Results]
    BY DEF Results, TypeOK
  <1>4. result' \in [Candidates -> Results]
        /\ \A c \in Candidates : result'[c] \in {result[c], Stopped}
    BY <1>1, <1>3
  <1>5. ASSUME NEW c \in Candidates
       PROVE  /\ task'[c] \in {"none", "draining", "clearing", "done"}
              /\ task'[c] = "none" <=> task[c] = "none"
              /\ task'[c] = "draining" <=> task[c] = "evaluating"
              /\ task'[c] = "clearing" <=> task[c] \in {"filling", "killing", "draining"}
    BY <1>1
  <1>6. task' \in [Candidates -> {"none", "draining", "clearing", "done"}]
    BY <1>1, <1>5
  <1> QED
    BY <1>1, <1>2, <1>4, <1>5, <1>6

-----------------------------------------------------------------------------
(* Types.                                                                  *)

LEMMA InitInv ==
  ASSUME Init
  PROVE  IInv
  <1>1. /\ Leftover \in Entries /\ EntryFits(Leftover)
        /\ Leftover.setting \in Settings
    BY LeftoverTyped
  <1>2. /\ saved \in [Candidates -> Entries \cup {None}]
        /\ \A c \in Candidates : saved[c] # None => EntryFits(saved[c])
    BY <1>1 DEF Init
  <1>3. list \in Seq(Candidates) /\ Len(owed) <= 1
    BY DEF Init
  <1>4. NoResult \in Results /\ NoResult.kind # "verdict"
    BY DEF Results, NoResult
  <1>5. result \in [Candidates -> Results] /\ \A c \in Candidates : result[c] = NoResult
    BY <1>4 DEF Init
  <1>6. mishaps \in 0..MaxMishaps /\ runs \in 0..MaxRuns /\ cancels \in 0..MaxCancels
    BY ExperimentsAssumption DEF Init
  <1>7. TypeOK
    BY <1>1, <1>2, <1>3, <1>5, <1>6, ExperimentsAssumption DEF Init, TypeOK
  <1>8. Phased /\ Copied /\ Judged /\ Housed
    BY DEF Init, Phased, Early, Copied, Judged, Housed
  <1>9. Sound
    BY <1>2, <1>4, <1>5 DEF Sound
  <1>10. Owes
    BY DEF Init, Owes
  <1> QED
    BY <1>7, <1>8, <1>9, <1>10 DEF IInv

\* A step of a task keeps the types.
LEMMA MovesTyped ==
  ASSUME IInv, NEW c \in Candidates, Moves(c)
  PROVE  TypeOK'
  <1>1. PICK r : CanEnd(c, r) /\ result' = [result EXCEPT ![c] = r]
    BY DEF Moves
  <1>2. r \in Results
    BY <1>1, EndTyped DEF Moves
  <1>3. result' \in [Candidates -> Results]
    BY <1>1, <1>2 DEF IInv, TypeOK
  <1>4. task' \in [Candidates -> {"none", "new", "queued", "making", "filling",
               "evaluating", "killing", "draining", "clearing", "done"}]
    BY DEF IInv, TypeOK, Moves, Stages
  <1>5. /\ held' \subseteq Candidates
        /\ there' \cup busy' \cup removing' \cup cut' \cup left' \subseteq Spaces
    BY DEF IInv, TypeOK, Moves, Spaces
  <1>6. UNCHANGED <<treeVars, cacheVars, runVars, planVars, seedVars, cancels>>
    BY DEF Moves
  <1> QED
    BY <1>3, <1>4, <1>5, <1>6
    DEF IInv, TypeOK, treeVars, cacheVars, runVars, planVars, seedVars

\* A write to the store that the run owes.
LEMMA SaveIs ==
  ASSUME IInv, StoreSaves
  PROVE  /\ run \in {"clearing", "stopping"} /\ owed = <<FreshWrite>> /\ owed' = <<>>
         /\ saved' = [c \in Candidates |->
              IF c \in Fresh THEN result[c].entry ELSE saved[c]]
  <1>1. owed = <<FreshWrite>> /\ run \in {"clearing", "stopping"}
    BY DEF StoreSaves, IInv, Owes
  <1>2. Len(owed) = 1
    BY <1>1
  <1>3. saved' = Cache!Overlaid(saved, SubSeq(owed, 1, 1)) /\ owed' = SubSeq(owed, 2, 1)
    BY <1>2 DEF StoreSaves, Cache!Save
  <1>4. SubSeq(owed, 1, 1) = <<FreshWrite>> /\ owed' = <<>>
    <2>1. owed \in Seq({FreshWrite})
      BY <1>1
    <2>2. SubSeq(owed, 1, Len(owed)) = owed
      BY <2>1, SubSeqFull
    <2>3. SubSeq(owed, 2, 1) = <<>>
      BY SubSeqEmpty
    <2> QED
      BY <1>1, <1>2, <1>3, <2>2, <2>3
  <1>5. \A c \in Candidates :
          Cache!Mentions(<<FreshWrite>>, c) = IF c \in Fresh THEN {1} ELSE {}
    BY DEF Cache!Mentions, FreshWrite
  <1>6. Cache!LastOf({1}) = 1
    <2>1. \E i \in {1} : \A j \in {1} : j <= i
      OBVIOUS
    <2> QED
      BY <2>1 DEF Cache!LastOf
  <1>7. \A c \in Fresh : <<FreshWrite>>[1][c] = result[c].entry
    BY DEF FreshWrite
  <1> QED
    BY <1>1, <1>3, <1>4, <1>5, <1>6, <1>7 DEF Cache!Overlaid

\* The entry of a fresh verdict.
LEMMA FreshTyped ==
  ASSUME IInv, NEW c \in Fresh
  PROVE  /\ c \in Candidates /\ result[c].entry \in Entries
         /\ EntryFits(result[c].entry)
  <1>1. c \in Candidates /\ result[c] \in Results /\ result[c].kind = "verdict"
    BY ChosenTyped DEF Fresh, IInv, TypeOK
  <1>2. result[c].entry \in Entries
    BY <1>1 DEF Results, Verdicts, NoResult, Refused, Raised, Stopped
  <1> QED
    BY <1>1, <1>2 DEF IInv, Sound

\* Every step keeps the types.
LEMMA TypeStep ==
  ASSUME IInv, [Next]_vars
  PROVE  TypeOK'
  <1>0. TypeOK /\ Leftover.setting \in Settings
    BY LeftoverTyped DEF IInv
  <1>1. CASE UNCHANGED vars
    BY <1>0, <1>1 DEF TypeOK, vars, treeVars, cacheVars, runVars, planVars, seedVars,
                      taskVars, spaceVars
  <1>2. ASSUME NEW v \in Versions, Edit(v)
       PROVE  TypeOK'
    <2>1. mishaps' \in 0..MaxMishaps
      BY <1>0, <1>2, ExperimentsAssumption DEF Edit, Mishap, TypeOK
    <2>2. tree' \in Versions /\ seed' \subseteq Versions /\ moved' \in BOOLEAN
      BY <1>0, <1>2 DEF Edit, Mishap, TypeOK
    <2>3. /\ misled' = misled /\ adrift' \in {"none", "edited"}
          /\ UNCHANGED <<cacheVars, runVars, planVars, cancels, taskVars, spaceVars>>
      BY <1>2 DEF Edit
    <2> QED
      BY <1>0, <2>1, <2>2, <2>3
      DEF TypeOK, cacheVars, runVars, planVars, taskVars, spaceVars
  <1>3. ASSUME NEW l \in Lists, NEW s \in Settings, Begin(l, s)
       PROVE  TypeOK'
    <2>1. runs' \in 0..MaxRuns
      BY <1>0, <1>3, ExperimentsAssumption DEF Begin, TypeOK
    <2>2. list' \in Seq(Candidates) /\ setting' \in Settings
      BY <1>3, ExperimentsAssumption DEF Begin
    <2>3. result' \in [Candidates -> Results]
      BY <1>3 DEF Begin, Results
    <2>4. /\ run' = "starting" /\ outcome' = "none" /\ best' = None
          /\ seed' = {} /\ moved' = FALSE /\ misled' = FALSE
          /\ task' = [c \in Candidates |-> "none"] /\ held' = {}
          /\ there' = {} /\ cut' = {} /\ left' = {} /\ run = "idle"
          /\ UNCHANGED <<treeVars, cacheVars, hash, cancels, adrift, busy, removing>>
      BY <1>3 DEF Begin
    <2> QED
      BY <1>0, <2>1, <2>2, <2>3, <2>4 DEF TypeOK, treeVars, cacheVars, Spaces
  <1>4. CASE StartFails \/ HashFails
    BY <1>0, <1>4
    DEF TypeOK, StartFails, HashFails, Fails, treeVars, cacheVars, planVars, seedVars,
        taskVars, spaceVars
  <1>5. CASE Started
    <2>1. /\ run' \in {"stopping", "hashing"} /\ outcome' \in {"raised", outcome}
          /\ best' = best /\ open' = TRUE /\ broken' = FALSE /\ told' = "nothing"
          /\ UNCHANGED <<saved, owed>>
      BY <1>5 DEF Started, Fails, Cache!Open
    <2>2. UNCHANGED <<treeVars, planVars, seed, misled, cancels, taskVars, spaceVars>>
      BY <1>5 DEF Started
    <2>3. moved' \in BOOLEAN /\ adrift' \in {"none", "current", "edited"}
      BY <1>0, <1>5 DEF Started, TypeOK
    <2> QED
      BY <1>0, <2>1, <2>2, <2>3 DEF TypeOK, treeVars, planVars, taskVars, spaceVars
  <1>6. CASE Hashed
    <2>1. mishaps' \in 0..MaxMishaps /\ misled' \in BOOLEAN
      <3>1. \/ UNCHANGED <<misled, mishaps>>
            \/ /\ mishaps < MaxMishaps /\ mishaps' = mishaps + 1
               /\ misled' = TRUE
        BY <1>6 DEF Hashed, Mishap
      <3>2. mishaps \in 0..MaxMishaps /\ misled \in BOOLEAN /\ MaxMishaps \in Nat
        BY <1>0, ExperimentsAssumption DEF TypeOK
      <3>3. mishaps' \in 0..MaxMishaps
        BY <3>1, <3>2
      <3>4. misled' \in BOOLEAN
        BY <3>1, <3>2, Zenon
      <3> QED
        BY <3>3, <3>4
    <2>2. /\ hash' \in Versions /\ run' = "making" /\ run = "hashing"
          /\ busy' = busy \cup {Seed}
          /\ UNCHANGED <<tree, cacheVars, outcome, best, list, setting, runs, seed,
                         moved, adrift, cancels, taskVars, there, removing, cut, left>>
      BY <1>6 DEF Hashed
    <2> QED
      BY <1>0, <2>1, <2>2 DEF TypeOK, cacheVars, taskVars, Spaces
  <1>21. CASE SeedMade
    BY <1>0, <1>21
    DEF TypeOK, SeedMade, treeVars, cacheVars, planVars, taskVars, Spaces
  <1>7. CASE SeedFilled
    <2>1. task' \in [Candidates -> {"none", "new"}]
      BY <1>7 DEF SeedFilled
    <2>2. task' \in [Candidates -> {"none", "new", "queued", "making", "filling",
                 "evaluating", "killing", "draining", "clearing", "done"}]
      BY <2>1
    <2> QED
      BY <1>0, <1>7, <2>2
      DEF TypeOK, SeedFilled, treeVars, cacheVars, planVars, seedVars, Spaces
  <1>8. CASE SeedFails
    BY <1>0, <1>8
    DEF TypeOK, SeedFails, Fails, treeVars, cacheVars, planVars, seedVars, taskVars,
        Spaces
  <1>9. ASSUME NEW c \in Candidates, TaskStep(c)
       PROVE  TypeOK'
    BY <1>0, <1>9, TaskMoves, MovesTyped
  <1>10. ASSUME NEW d \in Spaces, Removed(d) \/ CopyEnds(d)
       PROVE  TypeOK'
    <2>1. there' \cup busy' \cup removing' \cup cut' \cup left' \subseteq Spaces
      BY <1>0, <1>10 DEF TypeOK, Removed, CopyEnds
    <2>2. UNCHANGED <<tree, cacheVars, runVars, planVars, seedVars, cancels,
                      taskVars>>
      BY <1>10 DEF Removed, CopyEnds, treeVars
    <2>3. mishaps' \in 0..MaxMishaps
      BY <1>0, <1>10, ExperimentsAssumption
      DEF Removed, CopyEnds, Mishap, treeVars, TypeOK
    <2> QED
      BY <1>0, <2>1, <2>2, <2>3
      DEF TypeOK, treeVars, cacheVars, runVars, planVars, seedVars, taskVars
  <1>11. CASE Judge
    <2>1. owed = <<>> /\ run = "waiting" /\ run' = "clearing"
      BY <1>11 DEF Judge, IInv, Owes
    <2>2. Len(owed') <= 1 /\ UNCHANGED <<saved, open, broken, told>>
      <3>1. CASE Fresh = {}
        BY <1>0, <1>11, <3>1 DEF Judge, cacheVars, TypeOK
      <3>2. CASE Fresh # {}
        <4>1. owed' = <<FreshWrite>> /\ UNCHANGED <<saved, open, broken, told>>
          BY <1>11, <2>1, <3>2 DEF Judge, Cache!Accept, FreshWrite
        <4> QED
          BY <4>1
      <3> QED
        BY <3>1, <3>2
    <2>3. best' \in Candidates \cup {None}
      BY <1>0, <1>11, ChosenTyped DEF Judge, Accepted
    <2>4. /\ outcome' = "returned" /\ removing' = removing \cup {Seed}
          /\ UNCHANGED <<treeVars, planVars, seedVars, cancels, taskVars, there, busy,
                         cut, left>>
      BY <1>11 DEF Judge, CacheRest
    <2> QED
      BY <1>0, <2>1, <2>2, <2>3, <2>4
      DEF TypeOK, treeVars, planVars, seedVars, taskVars, Spaces
  <1>12. CASE Aborted \/ SeedCleared
    BY <1>0, <1>12
    DEF TypeOK, Aborted, SeedCleared, CacheRest, treeVars, cacheVars, planVars, seedVars,
        taskVars, spaceVars, Spaces
  <1>13. ASSUME CancelTasks, run \in {"waiting", "cancelling", "aborting"},
                run' \in {"cancelling", "aborting"},
                outcome' \in {outcome, "raised", "cancelled"}, cancels' \in 0..MaxCancels,
                adrift' = adrift,
                UNCHANGED <<treeVars, cacheVars, best, planVars, seed, moved, misled,
                            there, left>>
       PROVE  TypeOK'
    <2>1. /\ task' \in [Candidates -> {"none", "draining", "clearing", "done"}]
          /\ result' \in [Candidates -> Results] /\ held' \subseteq Candidates
          /\ there' \cup busy' \cup removing' \cup cut' \cup left' \subseteq Spaces
      BY <1>0, <1>13, CancelsEach DEF TypeOK, Spaces
    <2>2. task' \in [Candidates -> {"none", "new", "queued", "making", "filling",
                 "evaluating", "killing", "draining", "clearing", "done"}]
      BY <2>1
    <2> QED
      BY <1>0, <1>13, <2>1, <2>2 DEF TypeOK, treeVars, cacheVars, planVars, seedVars
  <1>14. CASE Abort \/ CancelAgain
    BY <1>0, <1>13, <1>14 DEF Abort, CancelAgain, seedVars, TypeOK
  <1>15. CASE Cancel
    <2>1. /\ cancels' \in 0..MaxCancels /\ outcome' = "cancelled" /\ run # "idle"
          /\ UNCHANGED <<treeVars, cacheVars, best, planVars, seed, moved, misled,
                         there, left>>
          /\ adrift' \in {"none", "current", "edited"}
          /\ run # "hashing" => adrift' = adrift
      BY <1>0, <1>15, ExperimentsAssumption DEF Cancel, TypeOK
    <2>2. CASE run \in {"waiting", "cancelling", "aborting"}
      BY <1>13, <1>15, <2>1, <2>2 DEF Cancel
    <2>3. CASE run \notin {"waiting", "cancelling", "aborting"}
      <3>1. /\ run' \in {"idle", "clearing", "stopping"} /\ taskVars' = taskVars
            /\ run' = "idle" <=> run = "starting"
            /\ busy' \cup removing' \cup cut' \subseteq Spaces
        BY <1>0, <1>15, <2>3 DEF Cancel, TypeOK, Spaces
      <3> QED
        BY <1>0, <2>1, <3>1
        DEF TypeOK, treeVars, cacheVars, planVars, taskVars
    <2> QED
      BY <2>2, <2>3
  <1>16. CASE StopEnds
    <2>1. /\ run' = "idle" /\ open' = FALSE /\ broken' = FALSE /\ owed' = <<>>
          /\ told' \in {"kept", "failed", "cancelled"} /\ saved' = saved
          /\ outcome' \in {"raised", outcome} /\ best' = best
          /\ UNCHANGED <<treeVars, planVars, seedVars, cancels, taskVars, spaceVars>>
      BY <1>16 DEF StopEnds, Cache!Close, CacheRest
    <2>2. Len(owed') <= 1
      BY <2>1
    <2> QED
      BY <1>0, <2>1, <2>2 DEF TypeOK, treeVars, planVars, seedVars, taskVars, spaceVars
  <1>17. CASE Die
    <2>1. /\ run' = "idle" /\ open' = FALSE /\ broken' = FALSE /\ owed' = <<>>
          /\ told' = "nothing" /\ saved' = saved /\ outcome' = "died" /\ best' = best
          /\ task' = [c \in Candidates |-> "none"] /\ busy' = {} /\ removing' = {}
          /\ adrift' = "none"
          /\ UNCHANGED <<treeVars, planVars, seed, moved, misled, cancels, result, held,
                         there, cut, left>>
      BY <1>17 DEF Die, Cache!Die
    <2>2. Len(owed') <= 1
      BY <2>1
    <2> QED
      BY <1>0, <2>1, <2>2 DEF TypeOK, treeVars, planVars
  <1>20. CASE AdriftEnds
    BY <1>0, <1>20
    DEF TypeOK, AdriftEnds, treeVars, cacheVars, runVars, planVars, taskVars, spaceVars
  <1>18. CASE StoreSaves
    <2>1. /\ owed' = <<>> /\ UNCHANGED <<open, broken, told>>
          /\ saved' = [c \in Candidates |->
               IF c \in Fresh THEN result[c].entry ELSE saved[c]]
      BY <1>18, SaveIs DEF StoreSaves, Cache!Save
    <2>2. saved' \in [Candidates -> Entries \cup {None}]
      BY <1>0, <2>1, FreshTyped DEF TypeOK
    <2>3. UNCHANGED <<treeVars, runVars, planVars, seedVars, cancels, taskVars, spaceVars>>
      BY <1>18 DEF StoreSaves, StoreRest
    <2> QED
      BY <1>0, <2>1, <2>2, <2>3
      DEF TypeOK, treeVars, runVars, planVars, seedVars, taskVars, spaceVars
  <1>19. CASE StoreBreaks
    BY <1>0, <1>19
    DEF TypeOK, StoreBreaks, StoreRest, Cache!Break, treeVars, runVars, planVars,
        seedVars, taskVars, spaceVars
  <1> QED
    BY <1>1, <1>2, <1>3, <1>4, <1>5, <1>6, <1>7, <1>8, <1>9, <1>10, <1>11, <1>12,
       <1>14, <1>15, <1>16, <1>17, <1>18, <1>19, <1>20,
       <1>21 DEF Next, Progress, RunStep
-----------------------------------------------------------------------------
(* Tasks and runs.                                                         *)

\* Only a run with tasks has steps of tasks.
LEMMA MovesInRun ==
  ASSUME Phased, NEW c \in Candidates, Moves(c)
  PROVE  run \in {"waiting", "cancelling", "aborting"} /\ run' = run /\ c \in Chosen
  BY DEF Phased, Moves, runVars

\* Steps that are nobody's in particular.
Quiet ==
  \/ \E v \in Versions : Edit(v)
  \/ \E d \in Spaces : Removed(d) \/ CopyEnds(d)
  \/ AdriftEnds \/ StoreSaves \/ StoreBreaks \/ UNCHANGED vars

LEMMA QuietIs ==
  ASSUME Quiet
  PROVE  UNCHANGED <<runVars, planVars, taskVars, cancels>>
  BY DEF Quiet, Edit, Removed, CopyEnds, AdriftEnds, StoreSaves, StoreBreaks, StoreRest, vars

\* Steps of the run that change no task.
Proceeds ==
  \/ StartFails \/ Started \/ Hashed \/ HashFails \/ SeedMade \/ SeedFails
  \/ Judge \/ Aborted \/ SeedCleared \/ StopEnds
  \/ Cancel /\ run \notin {"waiting", "cancelling", "aborting"}

LEMMA ProceedsIs ==
  ASSUME TypeOK, Proceeds
  PROVE  /\ UNCHANGED <<taskVars, list>>
         /\ run' \notin {"waiting", "cancelling", "aborting"}
         /\ run' \in Early => run \in Early
         /\ run \in {"waiting", "cancelling", "aborting"} => AllDone
  <1>1. CASE StartFails \/ Started \/ Hashed \/ HashFails \/ SeedMade \/ SeedFails
    BY <1>1 DEF StartFails, Started, Hashed, HashFails, SeedMade, SeedFails, Fails,
                planVars, Early
  <1>2. CASE Judge \/ Aborted \/ SeedCleared \/ StopEnds
    BY <1>2 DEF Judge, Aborted, SeedCleared, StopEnds, CacheRest, planVars, Early
  <1>3. CASE Cancel /\ run \notin {"waiting", "cancelling", "aborting"}
    BY <1>3 DEF Cancel, planVars, Early, TypeOK
  <1> QED
    BY <1>1, <1>2, <1>3 DEF Proceeds

\* The ways to cancel the tasks.
CancelsAll ==
  Abort \/ CancelAgain \/ (Cancel /\ run \in {"waiting", "cancelling", "aborting"})

LEMMA CancelsAllIs ==
  ASSUME CancelsAll
  PROVE  /\ CancelTasks /\ run \in {"waiting", "cancelling", "aborting"}
         /\ run' \in {"cancelling", "aborting"}
         /\ outcome' \in {outcome, "raised", "cancelled"}
         /\ UNCHANGED <<treeVars, cacheVars, best, planVars, seedVars, there, left>>
  BY DEF CancelsAll, Abort, CancelAgain, Cancel, seedVars

\* The steps there are.
LEMMA Steps ==
  ASSUME TypeOK, [Next]_vars
  PROVE  \/ Quiet \/ Proceeds \/ CancelsAll \/ SeedFilled \/ Die
         \/ \E l \in Lists, s \in Settings : Begin(l, s)
         \/ \E c \in Candidates : TaskStep(c) /\ Moves(c)
  <1>1. \A c \in Candidates : TaskStep(c) => Moves(c)
    BY TaskMoves
  <1>2. ASSUME RunStep \/ Cancel
       PROVE  Proceeds \/ CancelsAll \/ SeedFilled
    BY <1>2 DEF RunStep, Proceeds, CancelsAll
  <1>3. ASSUME \/ \E v \in Versions : Edit(v)
               \/ \E d \in Spaces : Removed(d) \/ CopyEnds(d)
               \/ AdriftEnds \/ StoreSaves \/ StoreBreaks \/ UNCHANGED vars
       PROVE  Quiet
    BY <1>3 DEF Quiet
  <1> QED
    BY <1>1, <1>2, <1>3 DEF Next, Progress

LEMMA PhasedStep ==
  ASSUME IInv, [Next]_vars
  PROVE  Phased'
  <1>0. TypeOK /\ Phased
    BY DEF IInv
  <1>1. CASE Quiet
    BY <1>0, <1>1, QuietIs
    DEF Phased, runVars, planVars, taskVars, Chosen, NoResult
  <1>2. CASE Proceeds
    <2>1. /\ UNCHANGED <<taskVars, list>> /\ run' \notin {"waiting", "cancelling", "aborting"}
          /\ run' \in Early => run \in Early
          /\ run \in {"waiting", "cancelling", "aborting"} => AllDone
      BY <1>0, <1>2, ProceedsIs
    <2>2. \A c \in Candidates : task[c] \in {"none", "done"}
      BY <1>0, <2>1 DEF Phased, AllDone
    <2> QED
      BY <1>0, <2>1, <2>2 DEF Phased, taskVars, Chosen
  <1>3. CASE CancelsAll
    <2>1. /\ \A c \in Candidates : task'[c] = "none" <=> task[c] = "none"
          /\ run' \in {"cancelling", "aborting"} /\ list' = list
      BY <1>0, <1>3, CancelsAllIs, CancelsEach DEF planVars
    <2> QED
      BY <1>0, <2>1 DEF Phased, Early, Chosen
  <1>4. CASE SeedFilled
    BY <1>4 DEF SeedFilled, Phased, Early, Chosen, planVars
  <1>5. CASE Die
    BY <1>5 DEF Die, Phased, Early
  <1>6. ASSUME NEW l \in Lists, NEW s \in Settings, Begin(l, s)
       PROVE  Phased'
    BY <1>6 DEF Begin, Phased
  <1>7. ASSUME NEW c \in Candidates, Moves(c)
       PROVE  Phased'
    <2>1. run' \in {"waiting", "cancelling", "aborting"} /\ c \in Chosen
      BY <1>0, <1>7, MovesInRun
    <2>3. Chosen' = Chosen
      BY <1>7 DEF Moves, planVars, Chosen
    <2>2. \A d \in Candidates : d # c => task'[d] = task[d]
      BY <1>0, <1>7 DEF Moves, TypeOK
    <2> QED
      BY <1>0, <2>1, <2>2, <2>3 DEF Phased, Early
  <1> QED
    BY <1>0, <1>1, <1>2, <1>3, <1>4, <1>5, <1>6, <1>7, Steps

\* The seed stays what it is, or the tree was edited meanwhile.
LEMMA CopiedStep ==
  ASSUME IInv, [Next]_vars
  PROVE  Copied'
  <1>0. TypeOK /\ Copied
    BY DEF IInv
  <1>1. CASE Quiet
    <2>1. ASSUME NEW v \in Versions, Edit(v)
         PROVE  Copied'
      BY <1>0, <2>1 DEF Edit, Copied, runVars, planVars
    <2>2. ASSUME \/ \E d \in Spaces : Removed(d) \/ CopyEnds(d)
                 \/ AdriftEnds \/ StoreSaves \/ StoreBreaks \/ UNCHANGED vars
         PROVE  UNCHANGED <<tree, seed, moved, misled, run, hash>>
      BY <2>2 DEF Removed, CopyEnds, AdriftEnds, StoreSaves, StoreBreaks, StoreRest,
                  vars, treeVars, seedVars, runVars, planVars
    <2> QED
      BY <1>0, <1>1, <2>1, <2>2 DEF Quiet, Copied
  <1>2. CASE Proceeds
    <2>1. run' \notin {"waiting", "cancelling", "aborting"}
      BY <1>0, <1>2, ProceedsIs
    <2>2. CASE Hashed
      BY <2>2 DEF Hashed, Copied, treeVars
    <2>3. CASE SeedMade
      BY <1>0, <2>3 DEF SeedMade, Copied, planVars
    <2>4. CASE \/ StartFails \/ Started \/ HashFails \/ SeedFails \/ Judge
               \/ Aborted \/ SeedCleared \/ StopEnds \/ Cancel
      <3>1. run' \notin {"making", "filling"}
        BY <1>2, <2>1, <2>4
        DEF StartFails, Started, HashFails, SeedFails, Fails, Judge, Aborted,
            SeedCleared, StopEnds, Cancel
      <3> QED
        BY <2>1, <3>1 DEF Copied
    <2> QED
      BY <1>2, <2>2, <2>3, <2>4 DEF Proceeds
  <1>3. CASE CancelsAll
    BY <1>0, <1>3, CancelsAllIs DEF Copied, planVars, seedVars
  <1>4. CASE SeedFilled
    BY <1>0, <1>4 DEF SeedFilled, Copied, planVars, seedVars
  <1>5. CASE Die \/ \E l \in Lists, s \in Settings : Begin(l, s)
    BY <1>5 DEF Die, Begin, Copied
  <1>6. ASSUME NEW c \in Candidates, Moves(c)
       PROVE  Copied'
    BY <1>0, <1>6 DEF Moves, Copied, treeVars, runVars, planVars, seedVars
  <1> QED
    BY <1>0, <1>1, <1>2, <1>3, <1>4, <1>5, <1>6, Steps

-----------------------------------------------------------------------------
(* Verdicts.                                                               *)

\* The hash changes only when there is no verdict.
LEMMA HashStays ==
  ASSUME TypeOK, [Next]_vars
  PROVE  hash' = hash \/ Hashed
  <1>1. CASE Proceeds
    BY <1>1 DEF Proceeds, StartFails, Started, HashFails, SeedMade, SeedFails, Judge,
                Aborted, SeedCleared, StopEnds, Cancel, CacheRest, planVars
  <1>2. CASE CancelsAll \/ SeedFilled \/ Die \/ \E l \in Lists, s \in Settings : Begin(l, s)
    BY <1>2, CancelsAllIs DEF SeedFilled, Die, Begin, planVars
  <1> QED
    BY <1>1, <1>2, Steps, QuietIs DEF planVars, Moves

LEMMA SoundStep ==
  ASSUME IInv, [Next]_vars
  PROVE  Sound'
  <1>0. TypeOK /\ Phased /\ Sound
    BY DEF IInv
  <1>1. \A c \in Candidates : saved'[c] # None => EntryFits(saved'[c])
    <2>1. CASE StoreSaves
      <3>1. saved' = [c \in Candidates |->
                      IF c \in Fresh THEN result[c].entry ELSE saved[c]]
        BY <2>1, SaveIs
      <3> QED
        BY <1>0, <3>1, FreshTyped DEF Sound
    <2>2. CASE saved' = saved
      BY <1>0, <2>2 DEF Sound
    <2>3. CASE Quiet /\ ~StoreSaves
      BY <2>2, <2>3 DEF Quiet, Edit, Removed, CopyEnds, AdriftEnds, StoreBreaks, StoreRest, vars,
                        cacheVars, Cache!Break
    <2>4. CASE Proceeds
      BY <2>2, <2>4
      DEF Proceeds, StartFails, Started, Hashed, HashFails, SeedMade, SeedFails, Judge,
          Aborted, SeedCleared, StopEnds, Cancel, cacheVars, Cache!Open, Cache!Accept,
          Cache!Close
    <2>5. CASE CancelsAll \/ SeedFilled \/ Die \/ \E l \in Lists, s \in Settings : Begin(l, s)
      BY <2>2, <2>5, CancelsAllIs DEF SeedFilled, Die, Begin, cacheVars, Cache!Die
    <2>6. CASE \E c \in Candidates : Moves(c)
      BY <2>2, <2>6 DEF Moves, cacheVars
    <2> QED
      BY <1>0, <2>1, <2>3, <2>4, <2>5, <2>6, Steps
  <1>2. ASSUME NEW c \in Candidates, result'[c].kind = "verdict"
       PROVE  /\ EntryFits(result'[c].entry) /\ result'[c].entry.repo = hash'
              /\ result'[c].entry.metrics \in Metrics
    <2>1. NoResult.kind # "verdict" /\ Stopped.kind # "verdict"
      BY DEF NoResult, Stopped
    <2>2. CASE \E d \in Candidates : Moves(d)
      <3>1. PICK d \in Candidates : Moves(d)
        BY <2>2
      <3>2. hash' = hash
        BY <3>1 DEF Moves, planVars
      <3>3. PICK r : CanEnd(d, r) /\ result' = [result EXCEPT ![d] = r]
        BY <3>1 DEF Moves
      <3>4. CASE c = d
        <4>1. result'[c] = r
          BY <1>0, <3>3, <3>4 DEF TypeOK
        <4> QED
          BY <1>2, <3>1, <3>2, <3>3, <4>1, EndTyped DEF Moves
      <3>5. CASE c # d
        BY <1>0, <1>2, <3>2, <3>3, <3>5 DEF TypeOK, Sound
      <3> QED
        BY <3>4, <3>5
    <2>3. CASE Hashed
      BY <1>0, <1>2, <2>1, <2>3 DEF Hashed, taskVars, Phased, Early
    <2>4. CASE CancelsAll
      <3>1. result'[c] \in {result[c], Stopped} /\ hash' = hash
        BY <1>0, <2>4, CancelsAllIs, CancelsEach DEF planVars
      <3> QED
        BY <1>0, <1>2, <2>1, <3>1 DEF Sound
    <2>5. CASE \E l \in Lists, s \in Settings : Begin(l, s)
      BY <1>2, <2>1, <2>5 DEF Begin
    <2>6. CASE Quiet \/ Proceeds \/ SeedFilled \/ Die
      <3>1. result' = result
        BY <1>0, <2>6, QuietIs, ProceedsIs DEF taskVars, SeedFilled, Die
      <3> QED
        BY <1>0, <1>2, <2>3, <3>1, HashStays DEF Sound
    <2> QED
      BY <1>0, <2>2, <2>4, <2>5, <2>6, Steps
  <1> QED
    BY <1>1, <1>2 DEF Sound, EntryFits

\* should_accept accepts only what compiled and passed its tests.
LEMMA AcceptedPasses ==
  ASSUME NEW m \in Metrics, NEW b, Reason(m, b) = "accepted"
  PROVE  m = Passing
  <1>1. m.compile /\ ~m.skipped /\ m.tests
    BY DEF Reason, Metrics
  <1> QED
    BY <1>1 DEF Metrics, Passing

LEMMA JudgedStep ==
  ASSUME IInv, [Next]_vars
  PROVE  Judged'
  <1>0. TypeOK /\ Judged
    BY DEF IInv
  <1>1. CASE Judge
    <2>1. ASSUME best' # None
         PROVE  result[best'].kind = "verdict" /\ result[best'].entry.metrics = Passing
      <3>1. best' \in Accepted /\ best' \in Candidates
        BY <1>0, <1>1, <2>1, ChosenTyped DEF Judge, Accepted
      <3>2. /\ result[best'].kind = "verdict"
            /\ Reason(result[best'].entry.metrics, setting.baseline) = "accepted"
        BY <3>1 DEF Accepted
      <3>3. result[best'].entry.metrics \in Metrics
        BY <3>1, <3>2 DEF IInv, Sound
      <3> QED
        BY <3>2, <3>3, AcceptedPasses
    <2>2. run' = "clearing" /\ result' = result
      BY <1>1 DEF Judge, CacheRest, taskVars
    <2> QED
      BY <2>1, <2>2 DEF Judged
  <1>2. ASSUME UNCHANGED <<outcome, best, result>>,
               outcome = "returned" => run' \in {"idle", "clearing", "stopping"}
       PROVE  Judged'
    BY <1>0, <1>2 DEF Judged
  <1>3. CASE Quiet
    BY <1>0, <1>2, <1>3, QuietIs DEF runVars, taskVars, Judged
  <1>4. CASE SeedCleared
    BY <1>2, <1>4 DEF SeedCleared, CacheRest, taskVars
  <1>5. CASE StopEnds
    <2>1. /\ run' = "idle" /\ outcome' \in {outcome, "raised"}
          /\ UNCHANGED <<best, result>>
      BY <1>5 DEF StopEnds, CacheRest, taskVars
    <2> QED
      BY <1>2, <2>1 DEF Judged
  <1>6. CASE Started \/ Hashed \/ SeedMade \/ Aborted \/ SeedFilled
    <2>1. outcome' \in {outcome, "raised"} /\ run \notin {"idle", "clearing", "stopping"}
      BY <1>6 DEF Started, Fails, Hashed, SeedMade, Aborted, SeedFilled
    <2> QED
      BY <1>0, <2>1 DEF Judged
  <1>7. CASE \/ StartFails \/ HashFails \/ SeedFails \/ Cancel \/ CancelsAll \/ Die
             \/ \E l \in Lists, s \in Settings : Begin(l, s)
    <2>1. outcome' # "returned"
      BY <1>0, <1>7, CancelsAllIs
      DEF Judged, StartFails, HashFails, SeedFails, Fails, Cancel, Die, Begin
    <2> QED
      BY <2>1 DEF Judged
  <1>8. ASSUME NEW c \in Candidates, Moves(c)
       PROVE  Judged'
    <2>1. run \in {"waiting", "cancelling", "aborting"} /\ outcome' = outcome
      BY <1>8, MovesInRun DEF IInv, Moves, runVars
    <2> QED
      BY <1>0, <2>1 DEF Judged
  <1> QED
    BY <1>0, <1>1, <1>3, <1>4, <1>5, <1>6, <1>7, <1>8, Steps DEF Proceeds

\* The store has, or is owed, the fresh verdicts of a run that returns.
LEMMA OwesStep ==
  ASSUME IInv, [Next]_vars
  PROVE  Owes'
  <1>0. /\ TypeOK /\ Judged /\ Owes
        /\ run \notin {"clearing", "stopping"} => owed = <<>>
        /\ run \notin {"idle", "clearing", "stopping"} => outcome # "returned"
    BY DEF IInv, Owes, Judged
  <1>1. ASSUME UNCHANGED <<taskVars, list>>
       PROVE  Fresh' = Fresh /\ FreshWrite' = FreshWrite
    BY <1>1 DEF Fresh, FreshWrite, Chosen, taskVars
  <1>2. ASSUME owed' = <<>>, outcome' # "returned"
       PROVE  Owes'
    BY <1>2 DEF Owes
  <1>3. ASSUME UNCHANGED <<taskVars, list, outcome, saved, owed>>,
               run' = run \/ run' \in {"clearing", "stopping"}
       PROVE  Owes'
    BY <1>0, <1>1, <1>3 DEF Owes, taskVars
  <1>4. CASE Quiet
    <2>1. UNCHANGED <<taskVars, list, outcome, run>>
      BY <1>4, QuietIs DEF runVars, planVars
    <2>2. CASE StoreSaves
      <3>1. owed' = <<>> /\ \A c \in Fresh : saved'[c] = result[c].entry
        BY <2>2, SaveIs, FreshTyped
      <3> QED
        BY <1>1, <2>1, <3>1 DEF Owes, taskVars
    <2>3. CASE ~StoreSaves
      <3>1. UNCHANGED <<saved, owed>>
        BY <1>4, <2>3 DEF Quiet, Edit, Removed, CopyEnds, AdriftEnds, StoreBreaks, StoreRest, vars,
                          cacheVars, Cache!Break
      <3> QED
        BY <1>3, <2>1, <3>1
    <2> QED
      BY <2>2, <2>3
  <1>5. CASE Judge
    <2>1. /\ run = "waiting" /\ run' = "clearing" /\ UNCHANGED <<taskVars, list>>
          /\ owed = <<>>
      BY <1>0, <1>5 DEF Judge, CacheRest, planVars
    <2>2. CASE Fresh = {}
      BY <1>1, <1>5, <2>1, <2>2 DEF Judge, cacheVars, Owes, taskVars
    <2>3. CASE Fresh # {}
      <3>1. owed' = <<FreshWrite>>
        BY <1>5, <2>1, <2>3 DEF Judge, Cache!Accept, FreshWrite
      <3> QED
        BY <1>1, <2>1, <3>1 DEF Owes
    <2> QED
      BY <2>2, <2>3
  <1>6. CASE StopEnds
    <2>1. /\ owed' = <<>> /\ saved' = saved /\ UNCHANGED <<taskVars, list>>
          /\ outcome' = IF told' = "failed" THEN "raised" ELSE outcome
          /\ told' = "cancelled" => outcome = "cancelled"
          /\ told' = "kept" => owed = <<>>
          /\ told' \in {"kept", "failed", "cancelled"}
      BY <1>6 DEF StopEnds, Cache!Close, CacheRest, planVars
    <2>2. ASSUME outcome' = "returned"
         PROVE  \A c \in Fresh : saved[c] = result[c].entry
      <3>1. outcome = "returned" /\ owed = <<>>
        BY <2>1, <2>2
      <3>2. <<>> # <<FreshWrite>>
        OBVIOUS
      <3> QED
        BY <1>0, <3>1, <3>2 DEF Owes
    <2> QED
      BY <1>1, <2>1, <2>2 DEF Owes, taskVars
  <1>7. CASE SeedCleared
    BY <1>3, <1>7 DEF SeedCleared, CacheRest, cacheVars, planVars
  <1>8. CASE \/ StartFails \/ Started \/ Hashed \/ HashFails \/ SeedMade \/ SeedFails
             \/ Aborted \/ SeedFilled
    <2>1. owed' = owed /\ outcome' \in {outcome, "raised"}
          /\ run \notin {"idle", "clearing", "stopping"}
      BY <1>8 DEF StartFails, Started, Hashed, HashFails, SeedMade, SeedFails, Aborted,
                  SeedFilled, Fails, cacheVars, Cache!Open
    <2> QED
      BY <1>0, <1>2, <2>1
  <1>9. CASE Cancel /\ run \notin {"waiting", "cancelling", "aborting"}
    <2>1. /\ UNCHANGED <<saved, owed>> /\ outcome' = "cancelled"
          /\ run \in {"clearing", "stopping"} => run' = "stopping"
      BY <1>9 DEF Cancel, cacheVars
    <2>2. UNCHANGED <<taskVars, list>>
      BY <1>0, <1>9, ProceedsIs DEF Proceeds
    <2> QED
      BY <1>0, <1>1, <2>1, <2>2 DEF Owes
  <1>10. CASE CancelsAll
    BY <1>0, <1>2, <1>10, CancelsAllIs DEF cacheVars
  <1>11. CASE Die \/ \E l \in Lists, s \in Settings : Begin(l, s)
    BY <1>0, <1>2, <1>11 DEF Die, Cache!Die, Begin, cacheVars
  <1>12. ASSUME NEW c \in Candidates, Moves(c)
       PROVE  Owes'
    <2>1. run \in {"waiting", "cancelling", "aborting"} /\ outcome' = outcome /\ owed' = owed
      BY <1>12, MovesInRun DEF IInv, Moves, runVars, cacheVars
    <2> QED
      BY <1>0, <1>2, <2>1
  <1> QED
    BY <1>0, <1>4, <1>5, <1>6, <1>7, <1>8, <1>9, <1>10, <1>11, <1>12, Steps DEF Proceeds
-----------------------------------------------------------------------------
(* Workspaces.                                                             *)

\* What Housed says of the workspace of c after its task has come to t.
Kept(c, t) ==
  /\ c \in there' => \/ c \in cut' \/ c \in left' \/ c \in removing'
                     \/ t \in {"filling", "evaluating", "killing", "draining"}
  /\ c \in busy' => c \in cut' \/ t \in {"making", "filling"}
  /\ c \in removing' => t \in {"clearing", "done"}

\* The steps of a task leave the other workspaces alone.
Elsewhere(c) ==
  \A d \in Spaces \ {c} : /\ d \in there' <=> d \in there
                          /\ d \in busy' <=> d \in busy
                          /\ d \in removing' <=> d \in removing
                          /\ d \in cut' <=> d \in cut
                          /\ d \in left' <=> d \in left

LEMMA TaskKeeps ==
  ASSUME IInv, NEW c \in Candidates, TaskStep(c)
  PROVE  /\ Elsewhere(c)
         /\ \E t \in Stages : task' = [task EXCEPT ![c] = t] /\ Kept(c, t)
  <1>0. /\ TypeOK /\ c # Seed /\ run \in {"waiting", "cancelling", "aborting"}
        /\ task[c] \notin {"none", "done"}
        /\ c \in there => c \in cut \/ c \in left \/ c \in removing \/ InUse(c)
        /\ c \in busy => c \in cut \/ Filling(c)
        /\ c \in removing => Over(c)
    <2>1. Moves(c) /\ run \in {"waiting", "cancelling", "aborting"} /\ task[c] \notin {"none", "done"}
      BY TaskMoves, MovesInRun DEF IInv, Moves
    <2> QED
      BY <2>1, ExperimentsAssumption DEF IInv, Housed
  <1>1. CASE LookUp(c)
    BY <1>0, <1>1
    DEF LookUp, Elsewhere, Kept, Stages, spaceVars, InUse, Filling, Over
  <1>2. CASE Acquire(c)
    BY <1>0, <1>2 DEF Acquire, Elsewhere, Kept, Stages, InUse, Filling, Over
  <1>3. CASE Made(c) \/ MakeFails(c)
    BY <1>0, <1>3 DEF Made, MakeFails, Elsewhere, Kept, Stages, InUse, Filling, Over
  <1>4. CASE Filled(c) \/ Blocked(c) \/ FillFails(c)
    BY <1>0, <1>4
    DEF Filled, Blocked, FillFails, Leave, Elsewhere, Kept, Stages, InUse, Filling, Over
  <1>5. CASE Evaluated(c) \/ Killed(c)
    <2>1. PICK r : Leave(c, r)
      BY <1>5 DEF Evaluated, Killed
    <2> QED
      BY <1>0, <1>5, <2>1
      DEF Evaluated, Killed, Leave, Elsewhere, Kept, Stages, InUse, Filling, Over
  <1>6. CASE ChildTimesOut(c)
    BY <1>0, <1>6
    DEF ChildTimesOut, Elsewhere, Kept, Stages, spaceVars, InUse, Filling, Over
  <1>7. CASE TimesOut(c) \/ Drained(c)
    BY <1>0, <1>7
    DEF TimesOut, Drained, Leave, Elsewhere, Kept, Stages, InUse, Filling, Over
  <1>8. CASE Cleared(c)
    BY <1>0, <1>8 DEF Cleared, Elsewhere, Kept, Stages, spaceVars, InUse, Filling, Over
  <1> QED
    BY <1>1, <1>2, <1>3, <1>4, <1>5, <1>6, <1>7, <1>8 DEF TaskStep

\* A workspace is handed from its use to its removal, and a copy that nobody
\* waits for is known as cut.
LEMMA HousedStep ==
  ASSUME IInv, [Next]_vars
  PROVE  Housed'
  <1>0. /\ TypeOK /\ Phased /\ Housed /\ Seed \notin Candidates
        /\ there \cup busy \cup removing \cup cut \cup left \subseteq Spaces
        /\ Spaces = Candidates \cup {Seed}
    BY ExperimentsAssumption DEF IInv, TypeOK, Spaces
  <1>1. ASSUME NEW c \in Candidates, TaskStep(c)
       PROVE  Housed'
    <2>1. /\ run' = run /\ run \in {"waiting", "cancelling", "aborting"}
          /\ there' \cup busy' \cup removing' \cup cut' \cup left' \subseteq Spaces
      BY <1>0, <1>1, TaskMoves, MovesInRun, MovesTyped DEF TypeOK
    <2>2. PICK t \in Stages : task' = [task EXCEPT ![c] = t] /\ Kept(c, t)
      BY <1>1, TaskKeeps
    <2>3. Elsewhere(c)
      BY <1>1, TaskKeeps
    <2>4. task'[c] = t /\ \A d \in Candidates \ {c} : task'[d] = task[d]
      BY <1>0, <2>2 DEF TypeOK
    <2>5. ASSUME NEW d \in Spaces
         PROVE  /\ d \in there' => d \in cut' \/ d \in left' \/ d \in removing' \/ InUse(d)'
                /\ d \in busy' => d \in cut' \/ Filling(d)'
                /\ d \in removing' => Over(d)'
      <3>1. CASE d = c
        BY <1>0, <2>2, <2>4, <3>1 DEF Kept, InUse, Filling, Over
      <3>2. CASE d # c
        BY <1>0, <2>1, <2>3, <2>4, <3>2 DEF Elsewhere, Housed, InUse, Filling, Over
      <3> QED
        BY <3>1, <3>2
    <2> QED
      BY <2>1, <2>5 DEF Housed, Early
  <1>2. ASSUME UNCHANGED <<spaceVars, task>>, run' = run, outcome' = outcome
       PROVE  Housed'
    BY <1>0, <1>2 DEF Housed, InUse, Filling, Over, spaceVars
  <1>3. ASSUME NEW d \in Spaces, Removed(d) \/ CopyEnds(d)
       PROVE  Housed'
    <2>1. UNCHANGED <<run, outcome, task>>
      BY <1>3 DEF Removed, CopyEnds, runVars, taskVars
    <2>2. CASE Removed(d)
      <3>1. d \in busy => d \in cut
        BY <1>0, <2>2 DEF Removed, Housed, Filling, Over
      <3> QED
        BY <1>0, <2>1, <2>2, <3>1 DEF Removed, Housed, InUse, Filling, Over
    <2>3. CASE CopyEnds(d)
      BY <1>0, <2>1, <2>3 DEF CopyEnds, Housed, InUse, Filling, Over
    <2> QED
      BY <1>3, <2>2, <2>3
  <1>4. CASE Quiet
    <2>1. ASSUME ~\E d \in Spaces : Removed(d) \/ CopyEnds(d)
         PROVE  UNCHANGED spaceVars
      BY <1>4, <2>1 DEF Quiet, Edit, AdriftEnds, StoreSaves, StoreBreaks, StoreRest, vars
    <2> QED
      BY <1>2, <1>3, <1>4, <2>1, QuietIs DEF runVars, taskVars
  <1>5. ASSUME UNCHANGED spaceVars, UNCHANGED taskVars,
               \/ run = "starting" /\ run' \in {"idle", "stopping", "hashing"}
               \/ run = "hashing" /\ run' = "stopping"
               \/ run = "clearing" /\ run' = "stopping"
               \/ run = "stopping" /\ run' \in {"idle", "stopping"}
       PROVE  Housed'
    BY <1>0, <1>5 DEF Housed, InUse, Filling, Over, spaceVars, taskVars, Early
  <1>6. CASE StartFails \/ Started \/ HashFails \/ SeedCleared \/ StopEnds
    <2>1. UNCHANGED spaceVars /\ UNCHANGED taskVars
      BY <1>6 DEF StartFails, Started, HashFails, SeedCleared, StopEnds, CacheRest
    <2>2. \/ run = "starting" /\ run' \in {"idle", "stopping", "hashing"}
          \/ run = "hashing" /\ run' = "stopping"
          \/ run = "clearing" /\ run' = "stopping"
          \/ run = "stopping" /\ run' \in {"idle", "stopping"}
      BY <1>6 DEF StartFails, Started, HashFails, SeedCleared, StopEnds, Fails
    <2> QED
      BY <1>5, <2>1, <2>2
  <1>7. CASE Hashed \/ SeedMade
    BY <1>0, <1>7 DEF Hashed, SeedMade, Housed, InUse, Filling, Over, taskVars, Early
  <1>8. CASE SeedFilled
    <2>1. /\ run = "filling" /\ run' = "waiting" /\ busy' = busy \ {Seed}
          /\ removing = {} /\ UNCHANGED <<there, removing, cut, left>>
          /\ \A c \in Candidates : task[c] = "none"
      BY <1>0, <1>8 DEF SeedFilled, Housed, Phased, Early
    <2> QED
      BY <1>0, <2>1 DEF Housed, InUse, Filling, Over, Early
  <1>9. CASE SeedFails
    BY <1>0, <1>9 DEF SeedFails, Fails, Housed, InUse, Filling, Over, taskVars, Early
  <1>10. CASE Judge \/ Aborted
    <2>1. /\ run \in {"waiting", "cancelling", "aborting"} /\ run' = "clearing"
          /\ removing' = removing \cup {Seed} /\ UNCHANGED <<there, busy, cut, left>>
          /\ UNCHANGED taskVars
      BY <1>10 DEF Judge, Aborted, CacheRest
    <2> QED
      BY <1>0, <2>1 DEF Housed, InUse, Filling, Over, taskVars, Early
  <1>11. CASE CancelsAll
    <2>1. /\ run \in {"waiting", "cancelling", "aborting"}
          /\ run' \in {"cancelling", "aborting"}
          /\ there' = there /\ left' = left
          /\ \A c \in Candidates :
               /\ task'[c] \in {"none", "draining", "clearing", "done"}
               /\ task'[c] = "none" <=> task[c] = "none"
               /\ task'[c] = "draining" <=> task[c] = "evaluating"
               /\ task'[c] = "clearing" <=> task[c] \in {"filling", "killing", "draining"}
          /\ removing' = removing \cup
               {c \in Candidates : task[c] \in {"filling", "killing", "draining"}}
          /\ cut' = cut \cup {c \in Candidates : task[c] \in {"making", "filling"}}
          /\ busy' \subseteq busy
      BY <1>0, <1>11, CancelsAllIs, CancelsEach
    <2>2. ASSUME NEW c \in Candidates
         PROVE  /\ c \in there' => c \in cut' \/ c \in left' \/ c \in removing' \/ InUse(c)'
                /\ c \in busy' => c \in cut'
                /\ c \in removing' => Over(c)'
      BY <1>0, <2>1 DEF Housed, InUse, Filling, Over
    <2>3. /\ Seed \in busy' => Seed \in cut'
          /\ Seed \notin removing'
          /\ InUse(Seed)'
      BY <1>0, <2>1 DEF Housed, InUse, Filling, Over
    <2>4. there' \cup busy' \cup removing' \cup cut' \cup left' \subseteq Spaces
      BY TypeStep DEF TypeOK
    <2> QED
      BY <1>0, <2>1, <2>2, <2>3, <2>4 DEF Housed, Early
  <1>12. CASE Cancel /\ run \notin {"waiting", "cancelling", "aborting"}
    <2>1. UNCHANGED taskVars
      BY <1>0, <1>12, ProceedsIs DEF Proceeds
    <2>2. CASE run \in {"starting", "hashing", "clearing", "stopping"}
      BY <1>5, <1>12, <2>1, <2>2 DEF Cancel, spaceVars
    <2>3. CASE run \in {"making", "filling"}
      <3>1. /\ run' = IF run = "making" THEN "stopping" ELSE "clearing"
            /\ removing' = IF run = "making" THEN removing ELSE removing \cup {Seed}
            /\ cut' = cut \cup {Seed} /\ busy' \in {busy, busy \ {Seed}}
            /\ there' = there /\ left' = left
        BY <1>12, <2>3 DEF Cancel
      <3> QED
        BY <1>0, <2>1, <2>3, <3>1 DEF Housed, InUse, Filling, Over, taskVars, Early
    <2> QED
      BY <1>0, <1>12, <2>2, <2>3 DEF Cancel, TypeOK
  <1>13. CASE Die
    BY <1>13 DEF Die, Housed, Early
  <1>14. ASSUME NEW l \in Lists, NEW s \in Settings, Begin(l, s)
       PROVE  Housed'
    BY <1>14 DEF Begin, Housed
  <1> QED
    BY <1>0, <1>1, <1>4, <1>6, <1>7, <1>8, <1>9, <1>10, <1>11, <1>12, <1>13, <1>14,
       Steps
    DEF Proceeds

-----------------------------------------------------------------------------
(* The theorems.                                                           *)

LEMMA Invariance == Spec => []IInv
  <1>1. Init => IInv
    BY InitInv
  <1>2. IInv /\ [Next]_vars => IInv'
    BY TypeStep, PhasedStep, CopiedStep, SoundStep, JudgedStep, OwesStep, HousedStep
    DEF IInv
  <1> QED
    BY <1>1, <1>2, PTL DEF Spec

\* The variables keep their types, and the store is open exactly from its
\* start to its stop, however run_async ends.
THEOREM TypeCorrect == Spec => []TypeOK
  <1>1. IInv => TypeOK
    BY DEF IInv
  <1> QED
    BY Invariance, <1>1, PTL

\* A verdict of run_async was measured on a copy of the tree whose hash it is
\* kept under, unless the tree was edited under way or the hash misled, and
\* the best candidate passed.
THEOREM VerdictsFit == Spec => []VerdictFits
  <1>1. IInv => VerdictFits
    BY DEF IInv, Sound, Judged, EntryFits, Passing, VerdictFits
  <1> QED
    BY Invariance, <1>1, PTL

\* When run_async has returned, the database holds its fresh verdicts.
THEOREM ReturnedIsKept == Spec => []RunKeepsVerdicts
  <1>1. IInv => RunKeepsVerdicts
    <2>1. <<>> # <<FreshWrite>>
      OBVIOUS
    <2> QED
      BY <2>1 DEF IInv, Owes, RunKeepsVerdicts
  <1> QED
    BY Invariance, <1>1, PTL

\* When run_async and its threads have ended, a workspace is left only where
\* a copy was abandoned, the removal failed or the process died.
THEOREM NoWorkspaceLeft == Spec => []WorkspacesRemoved
  <1>1. IInv => WorkspacesRemoved
    <2> SUFFICES ASSUME IInv, run = "idle", outcome # "died", removing = {},
                        NEW d \in there
                 PROVE  d \in cut \cup left
      BY DEF WorkspacesRemoved
    <2>1. d \in Spaces /\ Seed \notin Candidates
      BY ExperimentsAssumption DEF IInv, TypeOK
    <2>2. ~InUse(d)
      BY <2>1 DEF InUse, IInv, Phased, Spaces
    <2> QED
      BY <2>2 DEF IInv, Housed
  <1> QED
    BY Invariance, <1>1, PTL

\* No task of a candidate outlives run_async or uses the seed workspace while
\* that is removed.
THEOREM TasksEndBefore == Spec => []TasksEndFirst
  <1>1. IInv => TasksEndFirst
    BY DEF IInv, Phased, TasksEndFirst
  <1> QED
    BY Invariance, <1>1, PTL

-----------------------------------------------------------------------------
(* The cache that the verdicts are kept in: CacheStore.                    *)

\* A set of naturals with an upper bound has a greatest element.
LEMMA Greatest ==
  ASSUME NEW n \in Nat, NEW T \in SUBSET (0..n), T # {}
  PROVE  \E m \in T : \A t \in T : t <= m
  <1> DEFINE U == {m \in Nat : \A t \in T : t <= m}
  <1>1. U \subseteq Nat /\ n \in U /\ U # {}
    OBVIOUS
  <1>2. PICK m \in U : \A u \in U : <<u, m>> \notin OpToRel(<, Nat)
    BY <1>1, WFMin, NatLessThanWellFounded, Zenon
  <1>3. \A u \in U : ~(u < m)
    BY <1>1, <1>2, Zenon DEF OpToRel
  <1>4. CASE m \in T
    BY <1>4
  <1>5. CASE m \notin T
    <2>1. \A t \in T : t <= m - 1
      BY <1>5
    <2>2. PICK t \in T : TRUE
      OBVIOUS
    <2>3. m - 1 \in Nat
      BY <2>1, <2>2
    <2>4. m - 1 \in U /\ m - 1 < m
      BY <2>1, <2>3
    <2> QED
      BY <1>3, <2>4
  <1> QED
    BY <1>4, <1>5

-----------------------------------------------------------------------------
(* Writes laid over a table: for each key, either no write mentions it or  *)
(* one of them is the last that does.                                      *)

LEMMA LastMention ==
  ASSUME NEW S, NEW us \in Seq(S), NEW k
  PROVE  \/ \A i \in 1..Len(us) : k \notin DOMAIN us[i]
         \/ \E i \in 1..Len(us) : /\ k \in DOMAIN us[i]
                                  /\ \A j \in (i + 1)..Len(us) : k \notin DOMAIN us[j]
  <1> DEFINE T == {i \in 1..Len(us) : k \in DOMAIN us[i]}
  <1>1. SUFFICES ASSUME T # {}
                 PROVE  \E i \in T : \A j \in (i + 1)..Len(us) : k \notin DOMAIN us[j]
    OBVIOUS
  <1>2. T \in SUBSET (0..Len(us)) /\ Len(us) \in Nat
    OBVIOUS
  <1>3. PICK m \in T : \A t \in T : t <= m
    <2> HIDE DEF T
    <2> QED
      BY <1>1, <1>2, Greatest
  <1>4. \A j \in (m + 1)..Len(us) : j \in 1..Len(us) /\ ~(j <= m)
    BY <1>2
  <1> QED
    BY <1>3, <1>4

LEMMA OverlaidNone ==
  ASSUME NEW S, NEW us \in Seq(S), NEW t, NEW k \in Keys,
         \A i \in 1..Len(us) : k \notin DOMAIN us[i]
  PROVE  Contract!Overlaid(t, us)[k] = t[k]
  <1>1. Contract!Mentions(us, k) = {}
    BY DEF Contract!Mentions
  <1> QED
    BY <1>1 DEF Contract!Overlaid

LEMMA OverlaidBy ==
  ASSUME NEW S, NEW us \in Seq(S), NEW t, NEW k \in Keys,
         NEW i \in 1..Len(us), k \in DOMAIN us[i],
         \A j \in (i + 1)..Len(us) : k \notin DOMAIN us[j]
  PROVE  Contract!Overlaid(t, us)[k] = us[i][k]
  <1> DEFINE M == Contract!Mentions(us, k)
  <1>1. i \in M /\ M \subseteq 1..Len(us)
    BY DEF Contract!Mentions
  <1>2. \A j \in M : j <= i
    <2> SUFFICES ASSUME NEW j \in M, ~(j <= i) PROVE FALSE
      OBVIOUS
    <2>1. j \in (i + 1)..Len(us)
      BY <1>1
    <2> QED
      BY <2>1 DEF Contract!Mentions
  <1>3. Contract!LastOf(M) = i
    <2> HIDE DEF M
    <2>1. \A x \in M : (\A j \in M : j <= x) => x = i
      BY <1>1, <1>2
    <2> QED
      BY <1>1, <1>2, <2>1 DEF Contract!LastOf
  <1>4. M # {}
    BY <1>1
  <1> QED
    BY <1>3, <1>4 DEF Contract!Overlaid

LEMMA OverlaidType ==
  ASSUME NEW t \in Tables, NEW us \in Seq(Puts \cup {Nothing})
  PROVE  Contract!Overlaid(t, us) \in Tables
  <1> SUFFICES ASSUME NEW k \in Keys
               PROVE  Contract!Overlaid(t, us)[k] \in Values \cup {NoValue}
    BY DEF Contract!Overlaid, Tables
  <1>1. CASE \A i \in 1..Len(us) : k \notin DOMAIN us[i]
    BY <1>1, OverlaidNone DEF Tables
  <1>2. CASE \E i \in 1..Len(us) : /\ k \in DOMAIN us[i]
                                   /\ \A j \in (i + 1)..Len(us) : k \notin DOMAIN us[j]
    <2>1. PICK i \in 1..Len(us) : /\ k \in DOMAIN us[i]
                                  /\ \A j \in (i + 1)..Len(us) : k \notin DOMAIN us[j]
      BY <1>2
    <2>2. us[i] \in Puts
      BY <2>1 DEF Nothing
    <2>3. us[i][k] \in Values
      BY <2>1, <2>2, CacheStoreAssumption
    <2> QED
      BY <2>1, <2>3, OverlaidBy
  <1> QED
    BY <1>1, <1>2, LastMention

\* Whatever the writes, the table they lead to is a function on the keys.
LEMMA OverlaidEqual ==
  ASSUME NEW t, NEW us, NEW s, NEW vs,
         \A k \in Keys : Contract!Overlaid(t, us)[k] = Contract!Overlaid(s, vs)[k]
  PROVE  Contract!Overlaid(t, us) = Contract!Overlaid(s, vs)
  BY DEF Contract!Overlaid

LEMMA OverlaidEmpty ==
  ASSUME NEW t \in Tables
  PROVE  Contract!Overlaid(t, <<>>) = t
  <1>1. \A k \in Keys : Contract!Overlaid(t, <<>>)[k] = t[k]
    <2>1. <<>> \in Seq(Nat) /\ Len(<<>>) = 0 /\ \A i \in 1..0 : FALSE
      OBVIOUS
    <2> QED
      BY <2>1, OverlaidNone
  <1> QED
    BY <1>1 DEF Contract!Overlaid, Tables

\* A write behind the others has the last word on its keys.
LEMMA OverlaidAppend ==
  ASSUME NEW S, NEW us \in Seq(S), NEW u \in S, NEW t, NEW k \in Keys
  PROVE  Contract!Overlaid(t, Append(us, u))[k]
           = IF k \in DOMAIN u THEN u[k] ELSE Contract!Overlaid(t, us)[k]
  <1> DEFINE vs == Append(us, u)
  <1>1. /\ vs \in Seq(S) /\ Len(vs) = Len(us) + 1
        /\ \A i \in 1..Len(us) : vs[i] = us[i]
        /\ vs[Len(us) + 1] = u /\ Len(us) \in Nat
    BY AppendProperties
  <1> HIDE DEF vs
  <1>2. CASE k \in DOMAIN u
    <2>1. Len(vs) \in 1..Len(vs) /\ \A j \in (Len(vs) + 1)..Len(vs) : FALSE
      BY <1>1
    <2>2. Contract!Overlaid(t, vs)[k] = vs[Len(vs)][k]
      BY <1>1, <1>2, <2>1, OverlaidBy
    <2> QED
      BY <1>1, <1>2, <2>2 DEF vs
  <1>3. CASE k \notin DOMAIN u /\ \A i \in 1..Len(us) : k \notin DOMAIN us[i]
    <2>1. \A i \in 1..Len(vs) : k \notin DOMAIN vs[i]
      BY <1>1, <1>3
    <2>2. Contract!Overlaid(t, vs)[k] = t[k]
      BY <1>1, <2>1, OverlaidNone
    <2>3. Contract!Overlaid(t, us)[k] = t[k]
      BY <1>3, OverlaidNone
    <2> QED
      BY <1>3, <2>2, <2>3 DEF vs
  <1>4. CASE k \notin DOMAIN u /\ \E i \in 1..Len(us) :
               /\ k \in DOMAIN us[i]
               /\ \A j \in (i + 1)..Len(us) : k \notin DOMAIN us[j]
    <2>1. PICK i \in 1..Len(us) : /\ k \in DOMAIN us[i]
                                  /\ \A j \in (i + 1)..Len(us) : k \notin DOMAIN us[j]
      BY <1>4
    <2>2. i \in 1..Len(vs) /\ vs[i] = us[i]
      BY <1>1
    <2>3. \A j \in (i + 1)..Len(vs) : k \notin DOMAIN vs[j]
      BY <1>1, <1>4, <2>1
    <2>4. Contract!Overlaid(t, vs)[k] = us[i][k]
      BY <1>1, <2>1, <2>2, <2>3, OverlaidBy
    <2>5. Contract!Overlaid(t, us)[k] = us[i][k]
      BY <2>1, OverlaidBy
    <2> QED
      BY <1>4, <2>4, <2>5 DEF vs
  <1> QED
    BY <1>2, <1>3, <1>4, LastMention

\* Saving the first n writes leaves the table that all of them lead to.
LEMMA OverlaidSaved ==
  ASSUME NEW S, NEW us \in Seq(S), NEW n \in 0..Len(us), NEW t
  PROVE  Contract!Overlaid(Contract!Overlaid(t, SubSeq(us, 1, n)),
                           SubSeq(us, n + 1, Len(us)))
           = Contract!Overlaid(t, us)
  <1> DEFINE a == SubSeq(us, 1, n)
             b == SubSeq(us, n + 1, Len(us))
             m == Contract!Overlaid(t, a)
  <1>1. a \in Seq(S) /\ Len(a) = n /\ \A i \in 1..n : a[i] = us[i]
    BY SubSeqProperties
  <1>2. /\ b \in Seq(S) /\ Len(b) = Len(us) - n
        /\ \A i \in 1..(Len(us) - n) : b[i] = us[n + i]
    BY SubSeqProperties
  <1> HIDE DEF a, b, m
  <1> SUFFICES ASSUME NEW k \in Keys
               PROVE  Contract!Overlaid(m, b)[k] = Contract!Overlaid(t, us)[k]
    BY OverlaidEqual DEF a, b, m
  <1>3. CASE \A i \in 1..Len(us) : k \notin DOMAIN us[i]
    <2>1. \A i \in 1..Len(a) : k \notin DOMAIN a[i]
      BY <1>1, <1>3
    <2>2. \A i \in 1..Len(b) : k \notin DOMAIN b[i]
      BY <1>2, <1>3
    <2>3. m[k] = t[k]
      BY <1>1, <2>1, OverlaidNone DEF m
    <2>4. Contract!Overlaid(m, b)[k] = m[k]
      BY <1>2, <2>2, OverlaidNone
    <2>5. Contract!Overlaid(t, us)[k] = t[k]
      BY <1>3, OverlaidNone
    <2> QED
      BY <2>3, <2>4, <2>5
  <1>4. CASE \E i \in 1..Len(us) : /\ k \in DOMAIN us[i]
                                   /\ \A j \in (i + 1)..Len(us) : k \notin DOMAIN us[j]
    <2>1. PICK i \in 1..Len(us) : /\ k \in DOMAIN us[i]
                                  /\ \A j \in (i + 1)..Len(us) : k \notin DOMAIN us[j]
      BY <1>4
    <2>2. Contract!Overlaid(t, us)[k] = us[i][k]
      BY <2>1, OverlaidBy
    <2>3. CASE i <= n
      <3>1. \A j \in 1..Len(b) : n + j \in (i + 1)..Len(us)
        BY <1>2, <2>3
      <3>2. \A j \in 1..Len(b) : k \notin DOMAIN b[j]
        BY <1>2, <2>1, <3>1
      <3>3. Contract!Overlaid(m, b)[k] = m[k]
        BY <1>2, <3>2, OverlaidNone
      <3>4. i \in 1..Len(a) /\ \A j \in (i + 1)..Len(a) : j \in 1..n /\ j \in (i + 1)..Len(us)
        BY <1>1, <2>3
      <3>5. a[i] = us[i] /\ \A j \in (i + 1)..Len(a) : k \notin DOMAIN a[j]
        BY <1>1, <2>1, <3>4
      <3>6. m[k] = us[i][k]
        BY <1>1, <2>1, <3>4, <3>5, OverlaidBy DEF m
      <3> QED
        BY <2>2, <3>3, <3>6
    <2>4. CASE n < i
      <3>0. /\ i - n \in 1..Len(b) /\ i - n \in 1..(Len(us) - n)
            /\ n + (i - n) = i
        BY <1>2, <2>4
      <3>1. i - n \in 1..Len(b) /\ b[i - n] = us[i]
        BY <1>2, <3>0
      <3>2. \A j \in (i - n + 1)..Len(b) :
              j \in 1..(Len(us) - n) /\ n + j \in (i + 1)..Len(us)
        BY <1>2, <2>4
      <3>3. \A j \in (i - n + 1)..Len(b) : k \notin DOMAIN b[j]
        BY <1>2, <2>1, <3>2
      <3>4. k \in DOMAIN b[i - n]
        BY <2>1, <3>1
      <3>5. Contract!Overlaid(m, b)[k] = b[i - n][k]
        BY <1>2, <3>1, <3>3, <3>4, OverlaidBy
      <3> QED
        BY <2>2, <3>1, <3>5
    <2> QED
      BY <2>3, <2>4
  <1> QED
    BY <1>3, <1>4, LastMention

\* Writes that change nothing leave the table as it is.
LEMMA OverlaidNothing ==
  ASSUME NEW S, NEW us \in Seq(S), NEW t \in Tables,
         \A i \in 1..Len(us) : us[i] = Nothing
  PROVE  Contract!Overlaid(t, us) = t
  <1>1. \A i \in 1..Len(us) : DOMAIN us[i] = {}
    BY DEF Nothing
  <1>2. \A k \in Keys : Contract!Overlaid(t, us)[k] = t[k]
    BY <1>1, OverlaidNone
  <1> QED
    BY <1>2 DEF Contract!Overlaid, Tables

-----------------------------------------------------------------------------
(* Sequences: what the queue is going to change, and who waits for a place. *)

LEMMA AppendToConcat ==
  ASSUME NEW S, NEW s \in Seq(S), NEW t \in Seq(S), NEW e \in S
  PROVE  s \o Append(t, e) = Append(s \o t, e)
  <1>1. <<e>> \in Seq(S) /\ s \o t \in Seq(S)
    BY ConcatProperties
  <1>2. Append(t, e) = t \o <<e>> /\ Append(s \o t, e) = (s \o t) \o <<e>>
    BY <1>1, AppendIsConcat
  <1> QED
    BY <1>1, <1>2, ConcatAssociative

LEMMA NothingIsNew == \A u \in Puts : u # Nothing
  <1> SUFFICES ASSUME NEW u \in Puts, u = Nothing PROVE FALSE
    OBVIOUS
  <1>1. PICK ks \in (SUBSET Keys) \ {{}} : u \in [ks -> Values]
    BY CacheStoreAssumption
  <1>2. DOMAIN u = ks /\ ks # {}
    BY <1>1
  <1> QED
    BY <1>2 DEF Nothing

LEMMA ItemType ==
  /\ Stop \in Items /\ ~Stop.accepted
  /\ \A u \in Puts, a \in BOOLEAN :
       /\ Write(u, a) \in Items /\ Write(u, a) # Stop
       /\ Write(u, a).accepted = a
       /\ Due(Write(u, a)) = IF a THEN u ELSE Nothing
  /\ \A item \in Items : /\ Due(item) \in Puts \cup {Nothing}
                         /\ item.accepted \in BOOLEAN
                         /\ item.accepted <=> Due(item) # Nothing
  <1>1. \A u \in Puts, a \in BOOLEAN :
          /\ Write(u, a).accepted = a /\ Write(u, a).update = u
          /\ Write(u, a).stop = FALSE
    BY DEF Write
  <1>2. Stop.accepted = FALSE /\ Stop.stop = TRUE
    BY DEF Stop
  <1>3. \A u \in Puts, a \in BOOLEAN : Write(u, a) # Stop
    BY <1>1, <1>2
  <1>4. Stop \in Items /\ \A u \in Puts, a \in BOOLEAN : Write(u, a) \in Items
    BY DEF Items
  <1>5. \A u \in Puts, a \in BOOLEAN :
          Due(Write(u, a)) = IF a THEN u ELSE Nothing
    BY <1>1 DEF Due
  <1>6. Due(Stop) = Nothing
    BY <1>2 DEF Due
  <1>7. ASSUME NEW item \in Items
        PROVE  /\ Due(item) \in Puts \cup {Nothing}
               /\ item.accepted \in BOOLEAN
               /\ item.accepted <=> Due(item) # Nothing
    <2>1. CASE item = Stop
      BY <2>1, <1>2, <1>6
    <2>2. ASSUME NEW u \in Puts, NEW a \in BOOLEAN, item = Write(u, a)
          PROVE  <1>7!2
      BY <2>2, <1>1, <1>5, NothingIsNew
    <2> QED
      BY <2>1, <2>2 DEF Items
  <1> QED
    BY <1>1, <1>2, <1>3, <1>4, <1>5, <1>7

\* What the items of a queue are going to change.
Dues(q) == [i \in DOMAIN q |-> Due(q[i])]

LEMMA DuesType ==
  ASSUME NEW q \in Seq(Items)
  PROVE  /\ Dues(q) \in Seq(Puts \cup {Nothing}) /\ Len(Dues(q)) = Len(q)
         /\ \A i \in 1..Len(q) : Dues(q)[i] = Due(q[i])
  <1>1. DOMAIN q = 1..Len(q) /\ Len(q) \in Nat
    OBVIOUS
  <1>2. \A i \in 1..Len(q) : Due(q[i]) \in Puts \cup {Nothing}
    BY ItemType
  <1> HIDE DEF Due
  <1>3. Dues(q) = [i \in 1..Len(q) |-> Due(q[i])]
    BY <1>1 DEF Dues
  <1> QED
    BY <1>1, <1>2, <1>3

LEMMA DuesAppend ==
  ASSUME NEW q \in Seq(Items), NEW item \in Items
  PROVE  Dues(Append(q, item)) = Append(Dues(q), Due(item))
  <1> DEFINE S == Puts \cup {Nothing}
             r == Append(q, item)
             s == Append(Dues(q), Due(item))
  <1>1. /\ r \in Seq(Items) /\ Len(r) = Len(q) + 1
        /\ \A i \in 1..Len(q) : r[i] = q[i]
        /\ r[Len(q) + 1] = item
    BY AppendProperties
  <1>2. /\ Dues(q) \in Seq(S) /\ Len(Dues(q)) = Len(q)
        /\ \A i \in 1..Len(q) : Dues(q)[i] = Due(q[i])
    BY DuesType
  <1>3. Due(item) \in S
    BY ItemType
  <1> HIDE DEF S, r
  <1>4. /\ s \in Seq(S) /\ Len(s) = Len(q) + 1
        /\ \A i \in 1..Len(q) : s[i] = Dues(q)[i]
        /\ s[Len(q) + 1] = Due(item)
    BY <1>2, <1>3, AppendProperties
  <1>5. /\ Dues(r) \in Seq(S) /\ Len(Dues(r)) = Len(r)
        /\ \A i \in 1..Len(r) : Dues(r)[i] = Due(r[i])
    BY <1>1, DuesType DEF S
  <1> HIDE DEF s
  <1>6. \A i \in 1..Len(s) : Dues(r)[i] = s[i]
    <2> TAKE i \in 1..Len(s)
    <2>1. i \in 1..Len(q) \/ i = Len(q) + 1
      BY <1>4
    <2> QED
      BY <2>1, <1>1, <1>2, <1>4, <1>5
  <1>7. Len(Dues(r)) = Len(s)
    BY <1>1, <1>4, <1>5
  <1> QED
    BY <1>4, <1>5, <1>6, <1>7, SeqEqual DEF r, s

LEMMA DuesBehind ==
  ASSUME NEW q \in Seq(Items), NEW n \in 0..Len(q)
  PROVE  Dues(SubSeq(q, n + 1, Len(q))) = SubSeq(Dues(q), n + 1, Len(q))
  <1> DEFINE S == Puts \cup {Nothing}
             r == SubSeq(q, n + 1, Len(q))
             s == SubSeq(Dues(q), n + 1, Len(q))
  <1>1. /\ r \in Seq(Items) /\ Len(r) = Len(q) - n
        /\ \A i \in 1..(Len(q) - n) : r[i] = q[n + i]
    BY SubSeqProperties
  <1>2. /\ Dues(q) \in Seq(S) /\ Len(Dues(q)) = Len(q)
        /\ \A i \in 1..Len(q) : Dues(q)[i] = Due(q[i])
    BY DuesType
  <1> HIDE DEF S, r
  <1>3. /\ s \in Seq(S) /\ Len(s) = Len(q) - n
        /\ \A i \in 1..(Len(q) - n) : s[i] = Dues(q)[n + i]
    BY <1>2, SubSeqProperties
  <1>4. /\ Dues(r) \in Seq(S) /\ Len(Dues(r)) = Len(r)
        /\ \A i \in 1..Len(r) : Dues(r)[i] = Due(r[i])
    BY <1>1, DuesType DEF S
  <1> HIDE DEF s
  <1>5. \A i \in 1..Len(s) : Dues(r)[i] = s[i]
    <2> TAKE i \in 1..Len(s)
    <2>1. n + i \in 1..Len(q) /\ i \in 1..(Len(q) - n)
      BY <1>3
    <2> QED
      BY <2>1, <1>1, <1>2, <1>3, <1>4
  <1> QED
    BY <1>1, <1>3, <1>4, <1>5, SeqEqual DEF r, s

LEMMA WithoutType ==
  ASSUME NEW S, NEW s \in Seq(S), NEW i \in 1..Len(s)
  PROVE  /\ Without(s, i) \in Seq(S) /\ Len(Without(s, i)) = Len(s) - 1
         /\ \A j \in 1..(Len(s) - 1) :
              Without(s, i)[j] = IF j < i THEN s[j] ELSE s[j + 1]
  <1> DEFINE a == SubSeq(s, 1, i - 1)
             b == SubSeq(s, i + 1, Len(s))
  <1>1. a \in Seq(S) /\ Len(a) = i - 1 /\ \A j \in 1..(i - 1) : a[j] = s[j]
    BY SubSeqProperties
  <1>2. /\ b \in Seq(S) /\ Len(b) = Len(s) - i
        /\ \A j \in 1..(Len(s) - i) : b[j] = s[i + j]
    BY SubSeqProperties
  <1>3. Without(s, i) = a \o b
    BY DEF Without
  <1> HIDE DEF a, b
  <1>4. /\ a \o b \in Seq(S) /\ Len(a \o b) = Len(s) - 1
        /\ \A j \in 1..(Len(s) - 1) :
             (a \o b)[j] = IF j <= i - 1 THEN a[j] ELSE b[j - (i - 1)]
    <2>1. Len(a) + Len(b) = Len(s) - 1
      BY <1>1, <1>2
    <2>2. /\ a \o b \in Seq(S) /\ Len(a \o b) = Len(a) + Len(b)
          /\ \A j \in 1..(Len(a) + Len(b)) :
               (a \o b)[j] = IF j <= Len(a) THEN a[j] ELSE b[j - Len(a)]
      BY <1>1, <1>2, ConcatProperties
    <2> QED
      BY <2>1, <2>2, <1>1
  <1>5. ASSUME NEW j \in 1..(Len(s) - 1)
        PROVE  (a \o b)[j] = IF j < i THEN s[j] ELSE s[j + 1]
    <2>1. CASE j < i
      <3>1. j <= i - 1 /\ j \in 1..(i - 1)
        BY <2>1
      <3> QED
        BY <3>1, <2>1, <1>1, <1>4
    <2>2. CASE ~(j < i)
      <3>1. ~(j <= i - 1) /\ j - (i - 1) \in 1..(Len(s) - i) /\ i + (j - (i - 1)) = j + 1
        BY <2>2
      <3> QED
        BY <3>1, <2>2, <1>2, <1>4
    <2> QED
      BY <2>1, <2>2
  <1> QED
    BY <1>3, <1>4, <1>5

LEMMA TailIsWithout ==
  ASSUME NEW S, NEW s \in Seq(S), s # <<>>
  PROVE  Tail(s) = Without(s, 1) /\ Head(s) = s[1] /\ 1 \in 1..Len(s)
  <1>1. 1 \in 1..Len(s)
    BY EmptySeq
  <1>2. /\ Tail(s) \in Seq(S) /\ Len(Tail(s)) = Len(s) - 1
        /\ \A j \in 1..(Len(s) - 1) : Tail(s)[j] = s[j + 1]
    BY HeadTailProperties
  <1>3. /\ Without(s, 1) \in Seq(S) /\ Len(Without(s, 1)) = Len(s) - 1
        /\ \A j \in 1..(Len(s) - 1) : Without(s, 1)[j] = s[j + 1]
    BY <1>1, WithoutType
  <1>4. Tail(s) = Without(s, 1)
    BY <1>2, <1>3, SeqEqual
  <1> QED
    BY <1>1, <1>4

\* Every element stands once.
Once(s) == \A i, j \in DOMAIN s : s[i] = s[j] => i = j
In(s, q) == \E i \in DOMAIN s : s[i] = q

LEMMA OnceWithout ==
  ASSUME NEW S, NEW s \in Seq(S), Once(s), NEW i \in 1..Len(s)
  PROVE  /\ Once(Without(s, i))
         /\ \A q : In(Without(s, i), q) => In(s, q) /\ q # s[i]
  <1> DEFINE w == Without(s, i)
  <1>1. /\ w \in Seq(S) /\ Len(w) = Len(s) - 1
        /\ \A j \in 1..(Len(s) - 1) : w[j] = IF j < i THEN s[j] ELSE s[j + 1]
    BY WithoutType
  <1> DEFINE at(j) == IF j < i THEN j ELSE j + 1
  <1> HIDE DEF w
  <1>2. \A j \in DOMAIN w : at(j) \in DOMAIN s /\ at(j) # i /\ w[j] = s[at(j)]
    BY <1>1
  <1>3. \A j, k \in DOMAIN w : at(j) = at(k) => j = k
    BY <1>1
  <1>4. Once(w)
    <2> HIDE DEF at
    <2> QED
      BY <1>2, <1>3 DEF Once
  <1>5. \A q : In(w, q) => In(s, q) /\ q # s[i]
    <2> i \in DOMAIN s
      OBVIOUS
    <2> HIDE DEF at
    <2> QED
      BY <1>2 DEF Once, In
  <1> QED
    BY <1>4, <1>5 DEF w

LEMMA OnceAppend ==
  ASSUME NEW S, NEW s \in Seq(S), Once(s), NEW e \in S, ~In(s, e)
  PROVE  /\ Once(Append(s, e))
         /\ \A q : In(Append(s, e), q) => In(s, q) \/ q = e
  <1> DEFINE w == Append(s, e)
  <1>1. /\ w \in Seq(S) /\ Len(w) = Len(s) + 1
        /\ \A i \in 1..Len(s) : w[i] = s[i]
        /\ w[Len(s) + 1] = e
    BY AppendProperties
  <1> HIDE DEF w
  <1>2. \A i \in DOMAIN w : i \in DOMAIN s \/ i = Len(s) + 1
    BY <1>1
  <1>3. \A i \in DOMAIN s : i \in 1..Len(s)
    OBVIOUS
  <1>4. Once(w)
    BY <1>1, <1>2, <1>3 DEF Once, In
  <1>5. \A q : In(w, q) => In(s, q) \/ q = e
    BY <1>1, <1>2, <1>3 DEF In
  <1> QED
    BY <1>4, <1>5 DEF w

LEMMA WithoutFront ==
  ASSUME NEW S, NEW a \in Seq(S), NEW b \in Seq(S), NEW i \in 1..Len(a)
  PROVE  Without(a, i) \o b = Without(a \o b, i)
  <1> DEFINE w == Without(a, i)
             c == a \o b
             l == w \o b
             r == Without(c, i)
  <1>1. /\ w \in Seq(S) /\ Len(w) = Len(a) - 1
        /\ \A j \in 1..(Len(a) - 1) : w[j] = IF j < i THEN a[j] ELSE a[j + 1]
    BY WithoutType
  <1>2. /\ c \in Seq(S) /\ Len(c) = Len(a) + Len(b)
        /\ \A j \in 1..(Len(a) + Len(b)) :
             c[j] = IF j <= Len(a) THEN a[j] ELSE b[j - Len(a)]
    BY ConcatProperties
  <1> HIDE DEF w, c
  <1>3. /\ l \in Seq(S) /\ Len(l) = Len(a) - 1 + Len(b)
        /\ \A j \in 1..(Len(a) - 1 + Len(b)) :
             l[j] = IF j <= Len(a) - 1 THEN w[j] ELSE b[j - (Len(a) - 1)]
    <2>1. /\ l \in Seq(S) /\ Len(l) = Len(w) + Len(b)
          /\ \A j \in 1..(Len(w) + Len(b)) :
               l[j] = IF j <= Len(w) THEN w[j] ELSE b[j - Len(w)]
      BY <1>1, ConcatProperties
    <2> HIDE DEF l
    <2> QED
      BY <2>1, <1>1
  <1>4. i \in 1..Len(c)
    BY <1>2
  <1>5. /\ r \in Seq(S) /\ Len(r) = Len(c) - 1
        /\ \A j \in 1..(Len(c) - 1) : r[j] = IF j < i THEN c[j] ELSE c[j + 1]
    BY <1>2, <1>4, WithoutType
  <1> HIDE DEF l, r
  <1>6. ASSUME NEW j \in 1..Len(l) PROVE l[j] = r[j]
    <2>0. j \in 1..(Len(a) - 1 + Len(b)) /\ j \in 1..(Len(c) - 1)
      BY <1>2, <1>3
    <2>1. CASE j <= Len(a) - 1
      <3>1. j \in 1..(Len(a) - 1) /\ j <= Len(a) /\ j + 1 <= Len(a)
            /\ j \in 1..(Len(a) + Len(b)) /\ j + 1 \in 1..(Len(a) + Len(b))
        BY <2>0, <2>1
      <3>2. l[j] = IF j < i THEN a[j] ELSE a[j + 1]
        BY <3>1, <2>0, <2>1, <1>1, <1>3
      <3>3. r[j] = IF j < i THEN a[j] ELSE a[j + 1]
        BY <3>1, <2>0, <1>2, <1>5
      <3> QED
        BY <3>2, <3>3
    <2>2. CASE ~(j <= Len(a) - 1)
      <3>1. ~(j < i) /\ ~(j + 1 <= Len(a)) /\ j + 1 \in 1..(Len(a) + Len(b))
            /\ j - (Len(a) - 1) = (j + 1) - Len(a)
        BY <2>0, <2>2
      <3>2. l[j] = b[(j + 1) - Len(a)]
        BY <3>1, <2>0, <2>2, <1>3
      <3>3. r[j] = c[j + 1]
        BY <3>1, <2>0, <1>5
      <3>4. c[j + 1] = b[(j + 1) - Len(a)]
        BY <3>1, <1>2
      <3> QED
        BY <3>2, <3>3, <3>4
    <2> QED
      BY <2>1, <2>2
  <1>7. Len(l) = Len(r)
    BY <1>2, <1>3, <1>5
  <1> QED
    BY <1>3, <1>5, <1>6, <1>7, SeqEqual DEF l, r, w, c

LEMMA WithoutBack ==
  ASSUME NEW S, NEW a \in Seq(S), NEW b \in Seq(S), NEW i \in 1..Len(b)
  PROVE  a \o Without(b, i) = Without(a \o b, Len(a) + i)
  <1> DEFINE w == Without(b, i)
             c == a \o b
             l == a \o w
             r == Without(c, Len(a) + i)
  <1>1. /\ w \in Seq(S) /\ Len(w) = Len(b) - 1
        /\ \A j \in 1..(Len(b) - 1) : w[j] = IF j < i THEN b[j] ELSE b[j + 1]
    BY WithoutType
  <1>2. /\ c \in Seq(S) /\ Len(c) = Len(a) + Len(b)
        /\ \A j \in 1..(Len(a) + Len(b)) :
             c[j] = IF j <= Len(a) THEN a[j] ELSE b[j - Len(a)]
    BY ConcatProperties
  <1> HIDE DEF w, c
  <1>3. /\ l \in Seq(S) /\ Len(l) = Len(a) + (Len(b) - 1)
        /\ \A j \in 1..(Len(a) + (Len(b) - 1)) :
             l[j] = IF j <= Len(a) THEN a[j] ELSE w[j - Len(a)]
    <2>1. /\ l \in Seq(S) /\ Len(l) = Len(a) + Len(w)
          /\ \A j \in 1..(Len(a) + Len(w)) :
               l[j] = IF j <= Len(a) THEN a[j] ELSE w[j - Len(a)]
      BY <1>1, ConcatProperties
    <2> HIDE DEF l
    <2> QED
      BY <2>1, <1>1
  <1>4. Len(a) + i \in 1..Len(c)
    BY <1>2
  <1>5. /\ r \in Seq(S) /\ Len(r) = Len(c) - 1
        /\ \A j \in 1..(Len(c) - 1) :
             r[j] = IF j < Len(a) + i THEN c[j] ELSE c[j + 1]
    BY <1>2, <1>4, WithoutType
  <1> HIDE DEF l, r
  <1>6. ASSUME NEW j \in 1..Len(l) PROVE l[j] = r[j]
    <2>0. j \in 1..(Len(a) + (Len(b) - 1)) /\ j \in 1..(Len(c) - 1)
      BY <1>2, <1>3
    <2>1. CASE j <= Len(a)
      <3>1. j < Len(a) + i /\ j \in 1..(Len(a) + Len(b))
        BY <2>0, <2>1
      <3> QED
        BY <3>1, <2>0, <2>1, <1>2, <1>3, <1>5
    <2>2. CASE ~(j <= Len(a))
      <3>1. /\ j - Len(a) \in 1..(Len(b) - 1)
            /\ (j + 1) - Len(a) = (j - Len(a)) + 1
            /\ ~(j + 1 <= Len(a)) /\ j \in 1..(Len(a) + Len(b))
            /\ j + 1 \in 1..(Len(a) + Len(b))
        BY <2>0, <2>2
      <3>5. (j < Len(a) + i) <=> (j - Len(a) < i)
        BY <2>0
      <3>2. l[j] = IF j - Len(a) < i THEN b[j - Len(a)] ELSE b[(j - Len(a)) + 1]
        BY <3>1, <2>0, <2>2, <1>1, <1>3
      <3>3. r[j] = IF j - Len(a) < i THEN c[j] ELSE c[j + 1]
        BY <3>5, <2>0, <1>5
      <3>4. c[j] = b[j - Len(a)] /\ c[j + 1] = b[(j - Len(a)) + 1]
        BY <3>1, <2>2, <1>2
      <3> QED
        BY <3>2, <3>3, <3>4
    <2> QED
      BY <2>1, <2>2
  <1>7. Len(l) = Len(r)
    BY <1>2, <1>3, <1>5
  <1> QED
    BY <1>3, <1>5, <1>6, <1>7, SeqEqual DEF l, r, w, c

-----------------------------------------------------------------------------
(* The store keeps to its types.                                           *)

LEMMA StoreTypeInit == StoreInit => StoreTypeOK
  <1> SUFFICES ASSUME StoreInit PROVE StoreTypeOK
    OBVIOUS
  <1>1. AnyPut \in Puts
    BY CacheStoreAssumption DEF AnyPut
  <1>2. Blank \in Tables /\ Legacy \in Tables
    BY CacheStoreAssumption DEF Blank, Tables
  <1>3. /\ <<>> \in Seq(Items) /\ <<>> \in Seq(Putters \cup {Owner})
        /\ <<>> \in Seq(Puts \cup {Nothing}) /\ Len(<<>>) = 0
    OBVIOUS
  <1>4. 0 <= Capacity /\ 0 \in 0..(MaxOpens - 1) /\ 0 \in 0..MaxSessions
    BY CacheStoreAssumption
  <1> QED
    BY <1>1, <1>2, <1>3, <1>4 DEF StoreInit, StoreTypeOK

LEMMA ChangedType ==
  ASSUME StoreTypeOK, NEW u \in Puts
  PROVE  Changed(u) \in Tables
  <1>1. PICK ks \in (SUBSET Keys) \ {{}} : u \in [ks -> Values]
    BY CacheStoreAssumption
  <1> QED
    BY <1>1 DEF Changed, Tables, StoreTypeOK

LEMMA RolledBackType ==
  ASSUME StoreTypeOK, NEW p \in Putters
  PROVE  RolledBack(p) \in Tables
  <1>1. memory \in [Keys -> Values \cup {NoValue}]
        /\ previous[p] \in [Keys -> Values \cup {NoValue}]
    BY DEF StoreTypeOK, Tables
  <1> QED
    BY <1>1 DEF RolledBack, Tables

\* Take empties a front of the queue and wakes a front of the line.
LEMMA TakeType ==
  ASSUME StoreTypeOK, Take
  PROVE  /\ batch' \in Seq(Puts \cup {Nothing}) /\ last' \in BOOLEAN
         /\ queue' \in Seq(Items) /\ Len(queue') <= Capacity
         /\ line' \in Seq(Putters \cup {Owner}) /\ awake' \in Seq(Putters \cup {Owner})
         /\ writer' \in {"idle", "flushing", "done"}
  <1> DEFINE P == Putters \cup {Owner}
             S == Puts \cup {Nothing}
  <1>1. /\ queue \in Seq(Items) /\ Len(queue) <= Capacity /\ line \in Seq(P)
        /\ awake \in Seq(P) /\ Capacity \in Nat
    BY CacheStoreAssumption DEF StoreTypeOK
  <1>2. PICK n \in 1..Len(queue) :
          /\ last' = (queue[n] = Stop)
          /\ IF \E i \in 1..n : queue[i].accepted
             THEN /\ batch' = [i \in 1..n |-> Due(queue[i])]
                  /\ writer' = "flushing"
             ELSE /\ batch' = <<>>
                  /\ writer' = IF last' THEN "done" ELSE "idle"
          /\ queue' = SubSeq(queue, n + 1, Len(queue))
          /\ LET woken == IF Len(line) < n THEN Len(line) ELSE n
             IN /\ awake' = awake \o SubSeq(line, 1, woken)
                /\ line' = SubSeq(line, woken + 1, Len(line))
    BY DEF Take
  <1>3. \A i \in 1..n : Due(queue[i]) \in S
    BY <1>1, ItemType
  <1>4. [i \in 1..n |-> Due(queue[i])] \in Seq(S)
    <2> HIDE DEF S
    <2> QED
      BY <1>3
  <1>5. batch' \in Seq(S) /\ writer' \in {"idle", "flushing", "done"}
    <2> HIDE DEF S
    <2>1. CASE \E i \in 1..n : queue[i].accepted
      BY <1>2, <1>4, <2>1
    <2>2. CASE ~\E i \in 1..n : queue[i].accepted
      <3>1. <<>> \in Seq(S)
        OBVIOUS
      <3> QED
        BY <1>2, <3>1, <2>2
    <2> QED
      BY <2>1, <2>2
  <1>6. queue' \in Seq(Items) /\ Len(queue') <= Capacity
    <2>1. /\ SubSeq(queue, n + 1, Len(queue)) \in Seq(Items)
          /\ Len(SubSeq(queue, n + 1, Len(queue)))
               = IF n + 1 <= Len(queue) THEN Len(queue) - (n + 1) + 1 ELSE 0
      BY <1>1, SubSeqProperties
    <2> QED
      BY <2>1, <1>1, <1>2
  <1>7. line' \in Seq(P) /\ awake' \in Seq(P)
    <2> DEFINE woken == IF Len(line) < n THEN Len(line) ELSE n
    <2>1. woken \in 0..Len(line)
      BY <1>1
    <2>2. awake' = awake \o SubSeq(line, 1, woken)
          /\ line' = SubSeq(line, woken + 1, Len(line))
      BY <1>2
    <2> HIDE DEF woken, P
    <2>3. SubSeq(line, 1, woken) \in Seq(P)
      BY <1>1, <2>1, SubSeqProperties
    <2>4. SubSeq(line, woken + 1, Len(line)) \in Seq(P)
      BY <1>1, <2>1, SubSeqProperties
    <2>5. awake \o SubSeq(line, 1, woken) \in Seq(P)
      BY <1>1, <2>3, ConcatProperties
    <2> QED
      BY <2>2, <2>4, <2>5
  <1>8. last' \in BOOLEAN
    BY <1>2
  <1> QED
    BY <1>5, <1>6, <1>7, <1>8

LEMMA LeavesType ==
  ASSUME StoreTypeOK, NEW q, Leaves(q)
  PROVE  line' \in Seq(Putters \cup {Owner}) /\ awake' \in Seq(Putters \cup {Owner})
  <1> DEFINE P == Putters \cup {Owner}
  <1>1. line \in Seq(P) /\ awake \in Seq(P)
    BY DEF StoreTypeOK
  <1> HIDE DEF P
  <1>2. ASSUME NEW i \in DOMAIN line
        PROVE  Without(line, i) \in Seq(P)
    BY <1>1, WithoutType
  <1>3. ASSUME NEW i \in DOMAIN awake
        PROVE  Without(awake, i) \in Seq(P)
    BY <1>1, WithoutType
  <1>6. \A s \in Seq(P), e \in P : Append(s, e) \in Seq(P)
    OBVIOUS
  <1>4. line # <<>> => Tail(line) \in Seq(P) /\ Head(line) \in P
    BY <1>1, HeadTailProperties
  <1>5. line' \in Seq(P) /\ awake' \in Seq(P)
    BY <1>1, <1>2, <1>3, <1>4, <1>6 DEF Leaves
  <1> QED
    BY <1>5 DEF P

LEMMA PutStopType ==
  ASSUME StoreTypeOK, PutStop
  PROVE  /\ queue' \in Seq(Items) /\ Len(queue') <= Capacity
         /\ line' \in Seq(Putters \cup {Owner}) /\ owner' \in {"queueing", "joining"}
  <1>1. Len(queue) \in Nat /\ Capacity \in Nat
    BY CacheStoreAssumption DEF StoreTypeOK
  <1>2. CASE Full
    <2>1. Append(line, Owner) \in Seq(Putters \cup {Owner})
      BY AppendProperties DEF StoreTypeOK
    <2> QED
      BY <1>2, <2>1 DEF PutStop, StoreTypeOK
  <1>3. CASE ~Full
    <2>1. queue' = Append(queue, Stop) /\ line' = line /\ owner' = "joining"
      BY <1>3 DEF PutStop
    <2>2. Append(queue, Stop) \in Seq(Items) /\ Len(Append(queue, Stop)) = Len(queue) + 1
      BY ItemType, AppendProperties DEF StoreTypeOK
    <2>3. Len(queue) + 1 <= Capacity
      BY <1>1, <1>3 DEF Full
    <2> QED
      BY <2>1, <2>2, <2>3 DEF StoreTypeOK
  <1> QED
    BY <1>2, <1>3

\* What overlapping calls get wrong concerns keys.
LEMMA CrossedType ==
  ASSUME StoreTypeOK, NEW p \in Putters
  PROVE  /\ DOMAIN update[p] \subseteq Keys
         /\ Overtaken(p) \subseteq Keys /\ Stale(p) \subseteq Keys
         /\ Twin(p) \subseteq Keys
  <1>1. update[p] \in Puts
    BY DEF StoreTypeOK
  <1>2. PICK ks \in (SUBSET Keys) \ {{}} : update[p] \in [ks -> Values]
    BY <1>1, CacheStoreAssumption
  <1>3. DOMAIN update[p] \subseteq Keys
    BY <1>2
  <1> QED
    BY <1>3 DEF Overtaken, Stale, Twin, Shared

LEMMA StoreTypeStep == StoreTypeOK /\ [StoreNext]_storeVars => StoreTypeOK'
  <1> SUFFICES ASSUME StoreTypeOK, [StoreNext]_storeVars PROVE StoreTypeOK'
    OBVIOUS
  <1> USE DEF tableVars, queueVars, putVars, writerVars, ownerVars
  <1>0. /\ Len(queue) \in Nat /\ Capacity \in Nat /\ MaxOpens \in Nat \ {0}
        /\ MaxSessions \in Nat
    BY CacheStoreAssumption DEF StoreTypeOK
  <1>a. Blank \in Tables /\ Legacy \in Tables /\ AnyPut \in Puts
    BY CacheStoreAssumption DEF Blank, Tables, AnyPut
  <1>b. ASSUME NEW item \in Items, ~Full, queue' = Append(queue, item)
        PROVE  queue' \in Seq(Items) /\ Len(queue') <= Capacity
    <2>1. Append(queue, item) \in Seq(Items) /\ Len(Append(queue, item)) = Len(queue) + 1
      BY AppendProperties DEF StoreTypeOK
    <2>2. Len(queue) + 1 <= Capacity
      BY <1>0, <1>b DEF Full
    <2> QED
      BY <2>1, <2>2, <1>b
  <1>1. CASE Start
    <2>1. /\ <<>> \in Seq(Items) /\ <<>> \in Seq(Putters \cup {Owner})
          /\ <<>> \in Seq(Puts \cup {Nothing}) /\ Len(<<>>) = 0
      OBVIOUS
    <2>2. 0 <= Capacity /\ 0 \in 0..(MaxOpens - 1)
      BY <1>0
    <2>3. sessions' \in 0..MaxSessions
      BY <1>1, <1>0 DEF Start, StoreTypeOK
    <2> QED
      BY <1>1, <1>a, <2>1, <2>2, <2>3 DEF Start, StoreTypeOK
  <1>2. CASE OpenAgain
    <2>1. opens' \in 0..(MaxOpens - 1)
      BY <1>2, <1>0 DEF OpenAgain, StoreTypeOK
    <2> QED
      BY <1>2, <2>1 DEF OpenAgain, StoreTypeOK
  <1>3. CASE OpenFails
    BY <1>3 DEF OpenFails, StoreTypeOK
  <1>4. CASE ImportLegacy
    BY <1>4, <1>a DEF ImportLegacy, StoreTypeOK
  <1>5. CASE Opened
    BY <1>5 DEF Opened, StoreTypeOK
  <1>6. ASSUME NEW p \in Putters, PutRefused(p)
        PROVE  StoreTypeOK'
    BY <1>6 DEF PutRefused, StoreTypeOK
  <1>7. ASSUME NEW p \in Putters, NEW u \in Puts, PutBegins(p, u)
        PROVE  StoreTypeOK'
    <2>1. memory' \in Tables
      BY <1>7, ChangedType DEF PutBegins
    <2>2. /\ over' \in [Putters -> SUBSET Putters] /\ crossed' \subseteq Keys
          /\ update' \in [Putters -> Puts] /\ previous' \in [Putters -> Tables]
      BY <1>7 DEF PutBegins, StoreTypeOK
    <2>3. CASE Full
      <3>1. Append(line, p) \in Seq(Putters \cup {Owner})
        BY AppendProperties DEF StoreTypeOK
      <3> QED
        BY <1>7, <2>1, <2>2, <2>3, <3>1 DEF PutBegins, StoreTypeOK
    <2>4. CASE ~Full
      <3>1. queue' = Append(queue, Write(u, TRUE)) /\ Write(u, TRUE) \in Items
        BY <1>7, <2>4, ItemType DEF PutBegins
      <3>2. queue' \in Seq(Items) /\ Len(queue') <= Capacity
        BY <3>1, <2>4, <1>b
      <3> QED
        BY <1>7, <2>1, <2>2, <2>4, <3>2 DEF PutBegins, StoreTypeOK
    <2> QED
      BY <2>3, <2>4
  <1>8. ASSUME NEW p \in Putters, PutResumes(p)
        PROVE  StoreTypeOK'
    <2>1. Tail(awake) \in Seq(Putters \cup {Owner})
      BY <1>8, HeadTailProperties DEF PutResumes, StoreTypeOK
    <2>2. CASE Full
      <3>1. Append(line, p) \in Seq(Putters \cup {Owner})
        BY AppendProperties DEF StoreTypeOK
      <3> QED
        BY <1>8, <2>1, <2>2, <3>1 DEF PutResumes, StoreTypeOK
    <2>3. CASE ~Full
      <3>1. update[p] \in Puts /\ (owner = "open") \in BOOLEAN
        BY DEF StoreTypeOK
      <3>2. /\ queue' = Append(queue, Write(update[p], owner = "open"))
            /\ Write(update[p], owner = "open") \in Items
        BY <1>8, <2>3, <3>1, ItemType DEF PutResumes
      <3>3. queue' \in Seq(Items) /\ Len(queue') <= Capacity
        BY <3>2, <2>3, <1>b
      <3>4. memory' \in Tables
        BY <1>8, <2>3, RolledBackType DEF PutResumes, TakesBack, StoreTypeOK
      <3>5. crossed' \subseteq Keys
        BY <1>8, <2>3, CrossedType DEF PutResumes, Accepts, TakesBack, StoreTypeOK
      <3>6. putter' \in [Putters -> {"idle", "waiting", "accepted", "rejected"}]
        BY <1>8, <2>3 DEF PutResumes, Accepts, TakesBack, StoreTypeOK
      <3> QED
        BY <1>8, <2>1, <2>3, <3>3, <3>4, <3>5, <3>6 DEF PutResumes, StoreTypeOK
    <2> QED
      BY <2>2, <2>3
  <1>9. ASSUME NEW p \in Putters, PutCancelled(p)
        PROVE  StoreTypeOK'
    <2>1. line' \in Seq(Putters \cup {Owner}) /\ awake' \in Seq(Putters \cup {Owner})
      BY <1>9, LeavesType DEF PutCancelled
    <2>2. memory' \in Tables
      BY <1>9, RolledBackType DEF PutCancelled, TakesBack
    <2>3. crossed' \subseteq Keys
      BY <1>9, CrossedType DEF PutCancelled, TakesBack, StoreTypeOK
    <2> QED
      BY <1>9, <2>1, <2>2, <2>3 DEF PutCancelled, TakesBack, StoreTypeOK
  <1>10. CASE Take
    BY <1>10, TakeType DEF Take, StoreTypeOK
  <1>11. CASE Flush
    <2>1. Contract!Overlaid(rows, batch) \in Tables
      BY OverlaidType DEF StoreTypeOK
    <2> QED
      BY <1>11, <2>1 DEF Flush, StoreTypeOK
  <1>12. CASE FlushFails
    BY <1>12 DEF FlushFails, StoreTypeOK
  <1>13. CASE StopBegins
    BY <1>13, PutStopType DEF StopBegins, StoreTypeOK
  <1>14. CASE StopResumes
    <2>1. Tail(awake) \in Seq(Putters \cup {Owner})
      BY <1>14, HeadTailProperties DEF StopResumes, StoreTypeOK
    <2> QED
      BY <1>14, <2>1, PutStopType DEF StopResumes, StoreTypeOK
  <1>15. CASE StopCancelled
    BY <1>15 DEF StopCancelled, StoreTypeOK
  <1>16. CASE StopReturns
    BY <1>16, <1>0 DEF StopReturns, StoreTypeOK
  <1>17. CASE StoreDies
    BY <1>17, <1>0 DEF StoreDies, StoreTypeOK
  <1>18. CASE UNCHANGED storeVars
    BY <1>18 DEF storeVars, StoreTypeOK
  <1> QED
    BY <1>1, <1>2, <1>3, <1>4, <1>5, <1>6, <1>7, <1>8, <1>9, <1>10, <1>11, <1>12,
       <1>13, <1>14, <1>15, <1>16, <1>17, <1>18 DEF StoreNext, Put

\* Every variable of the store keeps its type.
THEOREM StoreTyped == StoreSpec => []StoreTypeOK
  <1> QED
    BY StoreTypeInit, StoreTypeStep, PTL DEF StoreSpec

-----------------------------------------------------------------------------
(* Who waits for a place in the queue, and what stands in it.              *)

\* The putters just woken, and those still in the line.
Waiters == awake \o line

\* Who waits for a place stands once among them.
Lined ==
  /\ Once(Waiters)
  /\ \A p \in Putters : In(Waiters, p) => UnderWay(p)
  /\ In(Waiters, Owner) => owner = "queueing"

Running == {"open", "queueing", "joining"}

\* The writer task and the phase of the store agree.
Written ==
  /\ owner \in Running <=> writer # "none"
  /\ writer \in {"none", "idle", "done"} => batch = <<>>
  /\ writer = "flushing" => batch # <<>>
  /\ owner = "opening" =>
       /\ queue = <<>> /\ line = <<>> /\ awake = <<>>
       /\ \A p \in Putters : putter[p] = "idle"

StopTaken == writer = "done" \/ (writer = "flushing" /\ last)

\* Nothing behind _STOP is accepted.
Behind ==
  /\ owner \in {"open", "queueing"} =>
       ~StopTaken /\ \A i \in DOMAIN queue : queue[i] # Stop
  /\ StopTaken => \A i \in DOMAIN queue : ~queue[i].accepted
  /\ \A i, j \in DOMAIN queue : i <= j /\ queue[i] = Stop => ~queue[j].accepted

LEMMA HeadThenTail ==
  ASSUME NEW S, NEW s \in Seq(S), s # <<>>
  PROVE  <<Head(s)>> \o Tail(s) = s
  <1>1. /\ Head(s) = s[1] /\ Head(s) \in S /\ Tail(s) \in Seq(S)
        /\ Len(Tail(s)) = Len(s) - 1
        /\ \A i \in 1..(Len(s) - 1) : Tail(s)[i] = s[i + 1]
    BY HeadTailProperties
  <1> DEFINE h == <<Head(s)>>
             t == Tail(s)
  <1>2. h \in Seq(S) /\ Len(h) = 1 /\ h[1] = s[1]
    BY <1>1
  <1> HIDE DEF h, t
  <1>3. /\ h \o t \in Seq(S) /\ Len(h \o t) = Len(s)
        /\ \A i \in 1..Len(s) : (h \o t)[i] = IF i <= 1 THEN h[i] ELSE t[i - 1]
    <2>0. t \in Seq(S) /\ Len(t) = Len(s) - 1 /\ h \in Seq(S) /\ Len(h) = 1
      BY <1>1, <1>2 DEF t
    <2>1. /\ h \o t \in Seq(S) /\ Len(h \o t) = Len(h) + Len(t)
          /\ \A i \in 1..(Len(h) + Len(t)) :
               (h \o t)[i] = IF i <= Len(h) THEN h[i] ELSE t[i - Len(h)]
      BY <2>0, ConcatProperties
    <2>2. Len(h) + Len(t) = Len(s)
      BY <2>0
    <2> QED
      BY <2>1, <2>2, <1>2
  <1>4. ASSUME NEW i \in 1..Len(s) PROVE (h \o t)[i] = s[i]
    <2>1. CASE i = 1
      BY <2>1, <1>2, <1>3
    <2>2. CASE i # 1
      <3>1. i - 1 \in 1..(Len(s) - 1) /\ (i - 1) + 1 = i /\ ~(i <= 1)
        BY <2>2
      <3> QED
        BY <3>1, <1>1, <1>3 DEF t
    <2> QED
      BY <2>1, <2>2
  <1> QED
    BY <1>3, <1>4, SeqEqual DEF h, t

\* Who leaves the line is taken out of it, and no one else is.
LEMMA LeavesWaiters ==
  ASSUME StoreTypeOK, NEW q, Leaves(q)
  PROVE  \E i \in 1..Len(Waiters) :
           Waiters[i] = q /\ Waiters' = Without(Waiters, i)
  <1> DEFINE P == Putters \cup {Owner}
  <1>1. line \in Seq(P) /\ awake \in Seq(P)
    BY DEF StoreTypeOK
  <1> HIDE DEF P
  <1>2. /\ Waiters \in Seq(P) /\ Len(Waiters) = Len(awake) + Len(line)
        /\ \A j \in 1..(Len(awake) + Len(line)) :
             Waiters[j] = IF j <= Len(awake) THEN awake[j] ELSE line[j - Len(awake)]
    BY <1>1, ConcatProperties DEF Waiters
  <1>3. CASE \E i \in DOMAIN line :
               line[i] = q /\ line' = Without(line, i) /\ awake' = awake
    <2>1. PICK i \in 1..Len(line) :
                 line[i] = q /\ line' = Without(line, i) /\ awake' = awake
      BY <1>3, <1>1
    <2>2. Waiters' = Without(Waiters, Len(awake) + i)
      BY <2>1, <1>1, WithoutBack DEF Waiters
    <2>3. /\ Len(awake) + i \in 1..(Len(awake) + Len(line)) /\ ~(Len(awake) + i <= Len(awake))
          /\ (Len(awake) + i) - Len(awake) = i
      BY <1>1
    <2>4. Waiters[Len(awake) + i] = q
      BY <2>1, <2>3, <1>2
    <2> QED
      BY <2>2, <2>3, <2>4, <1>2
  <1>4. CASE \E i \in DOMAIN awake :
               /\ awake[i] = q
               /\ IF Full \/ line = <<>>
                  THEN line' = line /\ awake' = Without(awake, i)
                  ELSE /\ line' = Tail(line)
                       /\ awake' = Append(Without(awake, i), Head(line))
    <2>1. PICK i \in DOMAIN awake :
               /\ awake[i] = q
               /\ IF Full \/ line = <<>>
                  THEN line' = line /\ awake' = Without(awake, i)
                  ELSE /\ line' = Tail(line)
                       /\ awake' = Append(Without(awake, i), Head(line))
      BY <1>4
    <2>a. i \in 1..Len(awake)
      BY <1>1
    <2>2. Without(awake, i) \o line = Without(Waiters, i)
      BY <2>a, <1>1, WithoutFront DEF Waiters
    <2>3. Waiters' = Without(awake, i) \o line
      <3>1. CASE Full \/ line = <<>>
        BY <2>1, <3>1 DEF Waiters
      <3>2. CASE ~(Full \/ line = <<>>)
        <4>1. /\ Without(awake, i) \in Seq(P) /\ Head(line) \in P
              /\ Tail(line) \in Seq(P) /\ <<Head(line)>> \in Seq(P)
          BY <2>a, <1>1, <3>2, WithoutType, HeadTailProperties
        <4>2. Append(Without(awake, i), Head(line)) = Without(awake, i) \o <<Head(line)>>
          BY <4>1, AppendIsConcat
        <4>3. Waiters' = (Without(awake, i) \o <<Head(line)>>) \o Tail(line)
          BY <2>1, <3>2, <4>2 DEF Waiters
        <4>4. @ = Without(awake, i) \o (<<Head(line)>> \o Tail(line))
          BY <4>1, ConcatAssociative
        <4>5. <<Head(line)>> \o Tail(line) = line
          BY <1>1, <3>2, HeadThenTail
        <4> QED
          BY <4>3, <4>4, <4>5
      <3> QED
        BY <3>1, <3>2
    <2>4. i \in 1..(Len(awake) + Len(line)) /\ i <= Len(awake)
      BY <2>a, <1>1
    <2>5. Waiters[i] = q
      BY <2>1, <2>4, <1>2
    <2> QED
      BY <2>2, <2>3, <2>4, <2>5, <1>2
  <1> QED
    BY <1>3, <1>4 DEF Leaves

\* The first of the woken ones runs.
LEMMA WokenWaiters ==
  ASSUME StoreTypeOK, awake # <<>>
  PROVE  /\ Waiters \in Seq(Putters \cup {Owner}) /\ 1 \in 1..Len(Waiters)
         /\ Waiters[1] = Head(awake) /\ In(Waiters, Head(awake))
         /\ Tail(awake) \in Seq(Putters \cup {Owner})
         /\ Tail(awake) \o line = Without(Waiters, 1)
  <1> DEFINE P == Putters \cup {Owner}
  <1>1. line \in Seq(P) /\ awake \in Seq(P)
    BY DEF StoreTypeOK
  <1> HIDE DEF P
  <1>2. /\ Waiters \in Seq(P) /\ Len(Waiters) = Len(awake) + Len(line)
        /\ \A j \in 1..(Len(awake) + Len(line)) :
             Waiters[j] = IF j <= Len(awake) THEN awake[j] ELSE line[j - Len(awake)]
    BY <1>1, ConcatProperties DEF Waiters
  <1>3. Tail(awake) = Without(awake, 1) /\ Head(awake) = awake[1] /\ 1 \in 1..Len(awake)
    BY <1>1, TailIsWithout
  <1>4. 1 \in 1..(Len(awake) + Len(line)) /\ 1 <= Len(awake)
    BY <1>1, <1>3
  <1>5. Waiters[1] = Head(awake)
    BY <1>2, <1>3, <1>4
  <1>6. Tail(awake) \o line = Without(Waiters, 1)
    BY <1>1, <1>3, WithoutFront DEF Waiters
  <1>7. 1 \in DOMAIN Waiters
    BY <1>2, <1>4
  <1>8. Tail(awake) \in Seq(P)
    BY <1>1, HeadTailProperties
  <1> QED
    BY <1>2, <1>4, <1>5, <1>6, <1>7, <1>8 DEF In, P

\* What the writer takes from the queue, and whom that wakes.
LEMMA TakeEffect ==
  ASSUME StoreTypeOK, Take
  PROVE  /\ Waiters' = Waiters
         /\ \E n \in 1..Len(queue) :
              /\ last' = (queue[n] = Stop)
              /\ \/ /\ \E i \in 1..n : queue[i].accepted
                    /\ batch' = SubSeq(Dues(queue), 1, n) /\ writer' = "flushing"
                 \/ /\ \A i \in 1..n : Dues(queue)[i] = Nothing
                    /\ batch' = <<>> /\ writer' = IF last' THEN "done" ELSE "idle"
              /\ queue' = SubSeq(queue, n + 1, Len(queue))
              /\ Dues(queue') = SubSeq(Dues(queue), n + 1, Len(queue))
              /\ Len(queue') = Len(queue) - n
              /\ \A i \in 1..(Len(queue) - n) : queue'[i] = queue[n + i]
  <1> DEFINE P == Putters \cup {Owner}
             S == Puts \cup {Nothing}
  <1>1. queue \in Seq(Items) /\ line \in Seq(P) /\ awake \in Seq(P)
    BY DEF StoreTypeOK
  <1>2. PICK n \in 1..Len(queue) :
          /\ last' = (queue[n] = Stop)
          /\ IF \E i \in 1..n : queue[i].accepted
             THEN /\ batch' = [i \in 1..n |-> Due(queue[i])]
                  /\ writer' = "flushing"
             ELSE /\ batch' = <<>>
                  /\ writer' = IF last' THEN "done" ELSE "idle"
          /\ queue' = SubSeq(queue, n + 1, Len(queue))
          /\ LET woken == IF Len(line) < n THEN Len(line) ELSE n
             IN /\ awake' = awake \o SubSeq(line, 1, woken)
                /\ line' = SubSeq(line, woken + 1, Len(line))
    BY DEF Take
  <1>3. Waiters' = Waiters
    <2> DEFINE woken == IF Len(line) < n THEN Len(line) ELSE n
    <2>1. woken \in 0..Len(line)
      BY <1>1
    <2>2. Waiters' = (awake \o SubSeq(line, 1, woken)) \o SubSeq(line, woken + 1, Len(line))
      BY <1>2 DEF Waiters
    <2> HIDE DEF woken, P
    <2>3. SubSeq(line, 1, woken) \in Seq(P)
      BY <1>1, <2>1, SubSeqProperties
    <2>4. SubSeq(line, woken + 1, Len(line)) \in Seq(P)
      BY <1>1, <2>1, SubSeqProperties
    <2>5. (awake \o SubSeq(line, 1, woken)) \o SubSeq(line, woken + 1, Len(line))
            = awake \o (SubSeq(line, 1, woken) \o SubSeq(line, woken + 1, Len(line)))
      <3> DEFINE x == SubSeq(line, 1, woken)
                 y == SubSeq(line, woken + 1, Len(line))
      <3>1. x \in Seq(P) /\ y \in Seq(P) /\ awake \in Seq(P)
        BY <2>3, <2>4, <1>1
      <3> HIDE DEF x, y
      <3>2. (awake \o x) \o y = awake \o (x \o y)
        BY <3>1, ConcatAssociative
      <3> QED
        BY <3>2 DEF x, y
    <2>6. SubSeq(line, 1, woken) \o SubSeq(line, woken + 1, Len(line)) = SubSeq(line, 1, Len(line))
      <3>1. 1 \in 1..(Len(line) + 1) /\ woken \in (1 - 1)..Len(line) /\ Len(line) \in woken..Len(line)
        BY <2>1, <1>1
      <3> QED
        BY <3>1, <1>1, ConcatAdjacentSubSeq
    <2>7. SubSeq(line, 1, Len(line)) = line
      BY <1>1, SubSeqFull
    <2> QED
      BY <2>2, <2>5, <2>6, <2>7 DEF Waiters
  <1>4. /\ Dues(queue) \in Seq(S) /\ Len(Dues(queue)) = Len(queue)
        /\ \A i \in 1..Len(queue) : Dues(queue)[i] = Due(queue[i])
    BY <1>1, DuesType
  <1>5. n \in 0..Len(queue) /\ \A i \in 1..n : i \in 1..Len(queue)
    OBVIOUS
  <1>6. /\ Len(queue') = Len(queue) - n
        /\ \A i \in 1..(Len(queue) - n) : queue'[i] = queue[n + i]
    <2>1. /\ Len(SubSeq(queue, n + 1, Len(queue))) = Len(queue) - n
          /\ \A i \in 1..(Len(queue) - n) : SubSeq(queue, n + 1, Len(queue))[i] = queue[n + i]
      BY <1>1, SubSeqProperties
    <2> QED
      BY <2>1, <1>2
  <1>7. Dues(queue') = SubSeq(Dues(queue), n + 1, Len(queue))
    BY <1>1, <1>2, <1>5, DuesBehind
  <1>8. CASE \E i \in 1..n : queue[i].accepted
    <2> DEFINE a == [i \in 1..n |-> Due(queue[i])]
               b == SubSeq(Dues(queue), 1, n)
    <2>1. b \in Seq(S) /\ Len(b) = n /\ \A i \in 1..n : b[i] = Due(queue[i])
      BY <1>4, <1>5, SubSeqProperties
    <2>2. \A i \in 1..n : Due(queue[i]) \in S
      BY <1>1, ItemType
    <2> HIDE DEF b, S
    <2>3. a \in Seq(S) /\ Len(a) = n /\ \A i \in 1..n : a[i] = Due(queue[i])
      BY <2>2
    <2> HIDE DEF a
    <2>4. a = b
      BY <2>1, <2>3, SeqEqual
    <2> QED
      BY <2>4, <1>2, <1>3, <1>6, <1>7, <1>8 DEF a, b
  <1>9. CASE ~\E i \in 1..n : queue[i].accepted
    <2>1. \A i \in 1..n : Due(queue[i]) = Nothing
      BY <1>9 DEF Due
    <2>2. \A i \in 1..n : Dues(queue)[i] = Nothing
      BY <2>1, <1>4, <1>5
    <2> QED
      BY <2>2, <1>2, <1>3, <1>6, <1>7, <1>9
  <1> QED
    BY <1>8, <1>9

LEMMA LinedStep ==
  StoreTypeOK /\ Lined /\ Written /\ [StoreNext]_storeVars => Lined'
  <1> SUFFICES ASSUME StoreTypeOK, Lined, Written, [StoreNext]_storeVars
               PROVE  Lined'
    OBVIOUS
  <1> USE DEF tableVars, queueVars, putVars, writerVars, ownerVars
  <1> DEFINE P == Putters \cup {Owner}
  <1>0. /\ Waiters \in Seq(P) /\ line \in Seq(P) /\ awake \in Seq(P)
        /\ putter \in [Putters -> {"idle", "waiting", "accepted", "rejected"}]
        /\ Owner \notin Putters
    BY ConcatProperties, CacheStoreAssumption DEF StoreTypeOK, Waiters
  <1>a. ASSUME Waiters' = Waiters,
               \A p \in Putters : putter[p] = "waiting" => putter'[p] = "waiting",
               owner = "queueing" => owner' = "queueing"
        PROVE  Lined'
    BY <1>a DEF Lined, UnderWay
  <1>b. ASSUME NEW s \in Seq(P), Once(s), Waiters' = s,
               \A p \in Putters : In(s, p) => putter'[p] = "waiting",
               In(s, Owner) => owner' = "queueing"
        PROVE  Lined'
    BY <1>b DEF Lined, UnderWay
  <1>c. ASSUME NEW s \in Seq(P), Once(s), NEW e \in P, ~In(s, e), Waiters' = Append(s, e),
               \A p \in Putters : In(s, p) \/ p = e => putter'[p] = "waiting",
               In(s, Owner) \/ e = Owner => owner' = "queueing"
        PROVE  Lined'
    <2>1. Once(Append(s, e)) /\ \A q : In(Append(s, e), q) => In(s, q) \/ q = e
      BY <1>c, OnceAppend
    <2>2. Append(s, e) \in Seq(P)
      BY <1>c, AppendProperties
    <2> QED
      BY <1>c, <1>b, <2>1, <2>2
  <1>d. ASSUME NEW i \in 1..Len(Waiters)
        PROVE  /\ Without(Waiters, i) \in Seq(P) /\ Once(Without(Waiters, i))
               /\ ~In(Without(Waiters, i), Waiters[i])
               /\ \A p \in Putters : In(Without(Waiters, i), p) => putter[p] = "waiting"
               /\ In(Without(Waiters, i), Owner) => owner = "queueing"
    <2>1. Without(Waiters, i) \in Seq(P)
      BY <1>0, WithoutType
    <2>2. /\ Once(Without(Waiters, i))
          /\ \A q : In(Without(Waiters, i), q) => In(Waiters, q) /\ q # Waiters[i]
      BY <1>0, OnceWithout DEF Lined
    <2> QED
      BY <2>1, <2>2 DEF Lined, UnderWay
  <1>e. <<>> \in Seq(P) /\ Once(<<>>) /\ \A q : ~In(<<>>, q)
    BY DEF Once, In
  <1>f. ASSUME NEW e \in P, line' = Append(line, e), awake' = awake
        PROVE  Waiters' = Append(Waiters, e)
    BY <1>f, <1>0, AppendToConcat DEF Waiters
  <1>g. ASSUME awake # <<>>, awake' = Tail(awake)
        PROVE  /\ 1 \in 1..Len(Waiters) /\ Waiters[1] = Head(awake)
               /\ In(Waiters, Head(awake))
               /\ line' = line => Waiters' = Without(Waiters, 1)
               /\ \A e \in P : line' = Append(line, e)
                    => Waiters' = Append(Without(Waiters, 1), e)
    <2>1. /\ 1 \in 1..Len(Waiters) /\ Waiters[1] = Head(awake)
          /\ In(Waiters, Head(awake)) /\ Tail(awake) \in Seq(P)
          /\ Tail(awake) \o line = Without(Waiters, 1)
      BY <1>g, WokenWaiters
    <2>2. \A e \in P : Tail(awake) \o Append(line, e) = Append(Tail(awake) \o line, e)
      BY <2>1, <1>0, AppendToConcat
    <2> QED
      BY <1>g, <2>1, <2>2 DEF Waiters
  <1> HIDE DEF P
  <1>p. Owner \in P /\ \A p \in Putters : p \in P
    BY DEF P
  <1>1. CASE Start
    <2>1. Waiters' = <<>>
      BY <1>1 DEF Start, Waiters
    <2> QED
      BY <2>1, <1>b, <1>e
  <1>2. CASE \/ OpenAgain \/ OpenFails \/ ImportLegacy \/ Opened \/ Flush \/ FlushFails
             \/ StopCancelled \/ StopReturns
    <2>1. Waiters' = Waiters /\ putter' = putter
      BY <1>2 DEF OpenAgain, OpenFails, ImportLegacy, Opened, Flush, FlushFails,
                  StopCancelled, StopReturns, Waiters
    <2>2. owner = "queueing" => owner' = "queueing"
      BY <1>2 DEF OpenAgain, OpenFails, ImportLegacy, Opened, Flush, FlushFails,
                  StopCancelled, StopReturns
    <2> QED
      BY <2>1, <2>2, <1>a
  <1>3. ASSUME NEW p \in Putters, PutRefused(p)
        PROVE  Lined'
    <2>1. /\ Waiters' = Waiters /\ owner' = owner
          /\ \A q \in Putters : putter[q] = "waiting" => putter'[q] = "waiting"
      BY <1>3, <1>0 DEF PutRefused, Waiters
    <2> QED
      BY <2>1, <1>a
  <1>4. ASSUME NEW p \in Putters, NEW u \in Puts, PutBegins(p, u)
        PROVE  Lined'
    <2>1. putter[p] = "idle" /\ owner = "open" /\ owner' = owner /\ awake' = awake
      BY <1>4 DEF PutBegins
    <2>2. CASE Full
      <3>1. line' = Append(line, p) /\ putter' = [putter EXCEPT ![p] = "waiting"]
        BY <1>4, <2>2 DEF PutBegins
      <3>2. Waiters' = Append(Waiters, p)
        BY <3>1, <2>1, <1>f, <1>p
      <3>3. ~In(Waiters, p) /\ ~In(Waiters, Owner) /\ p # Owner /\ Once(Waiters)
        BY <2>1, <1>0 DEF Lined, UnderWay
      <3>4. \A q \in Putters : In(Waiters, q) \/ q = p => putter'[q] = "waiting"
        BY <3>1, <1>0 DEF Lined, UnderWay
      <3> QED
        BY <3>2, <3>3, <3>4, <1>0, <1>c, <1>p
    <2>3. CASE ~Full
      <3>1. line' = line /\ putter' = [putter EXCEPT ![p] = "accepted"]
        BY <1>4, <2>3 DEF PutBegins
      <3>2. \A q \in Putters : putter[q] = "waiting" => putter'[q] = "waiting"
        BY <3>1, <2>1, <1>0
      <3>3. Waiters' = Waiters
        BY <3>1, <2>1 DEF Waiters
      <3> QED
        BY <2>1, <3>2, <3>3, <1>a
    <2> QED
      BY <2>2, <2>3
  <1>5. ASSUME NEW p \in Putters, PutResumes(p)
        PROVE  Lined'
    <2>1. awake # <<>> /\ Head(awake) = p /\ awake' = Tail(awake) /\ owner' = owner
      BY <1>5 DEF PutResumes
    <2>2. 1 \in 1..Len(Waiters) /\ Waiters[1] = p /\ In(Waiters, p)
      BY <2>1, <1>g
    <2>3. putter[p] = "waiting"
      BY <2>2 DEF Lined, UnderWay
    <2> DEFINE s == Without(Waiters, 1)
    <2>4. /\ s \in Seq(P) /\ Once(s) /\ ~In(s, p)
          /\ \A q \in Putters : In(s, q) => putter[q] = "waiting"
          /\ In(s, Owner) => owner = "queueing"
      BY <2>2, <1>d
    <2>5. CASE Full
      <3>1. line' = Append(line, p) /\ putter' = putter
        BY <1>5, <2>5 DEF PutResumes
      <3>2. Waiters' = Append(s, p)
        BY <3>1, <2>1, <1>g, <1>p
      <3> HIDE DEF s
      <3> QED
        BY <3>1, <3>2, <2>1, <2>3, <2>4, <1>c, <1>p, <1>0
    <2>6. CASE ~Full
      <3>1. /\ line' = line
            /\ \A q \in Putters : q # p => putter'[q] = putter[q]
        BY <1>5, <2>6, <1>0 DEF PutResumes, Accepts, TakesBack
      <3>2. Waiters' = s
        BY <3>1, <2>1, <1>g
      <3>3. \A q \in Putters : In(s, q) => putter'[q] = "waiting"
        BY <3>1, <2>4
      <3> HIDE DEF s
      <3> QED
        BY <3>2, <3>3, <2>1, <2>4, <1>b
    <2> QED
      BY <2>5, <2>6
  <1>6. ASSUME NEW p \in Putters, PutCancelled(p)
        PROVE  Lined'
    <2>1. PICK i \in 1..Len(Waiters) :
                 Waiters[i] = p /\ Waiters' = Without(Waiters, i)
      BY <1>6, LeavesWaiters DEF PutCancelled
    <2> DEFINE s == Without(Waiters, i)
    <2>2. /\ s \in Seq(P) /\ Once(s) /\ ~In(s, p)
          /\ \A q \in Putters : In(s, q) => putter[q] = "waiting"
          /\ In(s, Owner) => owner = "queueing"
      BY <2>1, <1>d
    <2>3. owner' = owner /\ \A q \in Putters : q # p => putter'[q] = putter[q]
      BY <1>6, <1>0 DEF PutCancelled, TakesBack
    <2>4. \A q \in Putters : In(s, q) => putter'[q] = "waiting"
      BY <2>2, <2>3
    <2>5. Waiters' = s
      BY <2>1
    <2> HIDE DEF s
    <2> QED
      BY <2>2, <2>3, <2>4, <2>5, <1>b
  <1>7. CASE Take
    <2>1. Waiters' = Waiters
      BY <1>7, TakeEffect
    <2> QED
      BY <2>1, <1>7, <1>a DEF Take
  <1>8. CASE StopBegins
    <2>1. /\ owner = "open" /\ awake' = awake /\ putter' = putter /\ PutStop
      BY <1>8 DEF StopBegins
    <2>2. CASE Full
      <3>1. line' = Append(line, Owner) /\ owner' = "queueing"
        BY <2>1, <2>2 DEF PutStop
      <3>2. Waiters' = Append(Waiters, Owner)
        BY <3>1, <2>1, <1>f, <1>p
      <3>3. ~In(Waiters, Owner) /\ Once(Waiters)
            /\ \A q \in Putters : In(Waiters, q) \/ q = Owner => putter'[q] = "waiting"
        BY <2>1, <1>0 DEF Lined, UnderWay
      <3> QED
        BY <3>1, <3>2, <3>3, <1>0, <1>c, <1>p
    <2>3. CASE ~Full
      <3>1. line' = line
        BY <2>1, <2>3 DEF PutStop
      <3> QED
        BY <3>1, <2>1, <1>a DEF Waiters
    <2> QED
      BY <2>2, <2>3
  <1>9. CASE StopResumes
    <2>1. /\ awake # <<>> /\ Head(awake) = Owner /\ awake' = Tail(awake)
          /\ putter' = putter /\ PutStop
      BY <1>9 DEF StopResumes
    <2>2. 1 \in 1..Len(Waiters) /\ Waiters[1] = Owner
      BY <2>1, <1>g
    <2> DEFINE s == Without(Waiters, 1)
    <2>3. /\ s \in Seq(P) /\ Once(s) /\ ~In(s, Owner)
          /\ \A q \in Putters : In(s, q) => putter[q] = "waiting"
      BY <2>2, <1>d
    <2>4. CASE Full
      <3>1. line' = Append(line, Owner) /\ owner' = "queueing"
        BY <2>1, <2>4 DEF PutStop
      <3>2. Waiters' = Append(s, Owner)
        BY <3>1, <2>1, <1>g, <1>p
      <3> HIDE DEF s
      <3>3. \A q \in Putters : In(s, q) \/ q = Owner => putter'[q] = "waiting"
        BY <2>1, <2>3, <1>0
      <3> QED
        BY <3>1, <3>2, <3>3, <2>3, <1>c, <1>p
    <2>5. CASE ~Full
      <3>1. line' = line
        BY <2>1, <2>5 DEF PutStop
      <3>2. Waiters' = s
        BY <3>1, <2>1, <1>g
      <3> HIDE DEF s
      <3> QED
        BY <3>2, <2>1, <2>3, <1>b
    <2> QED
      BY <2>4, <2>5
  <1>10. CASE StoreDies
    <2>1. Waiters' = <<>>
      BY <1>10 DEF StoreDies, Waiters
    <2> QED
      BY <2>1, <1>b, <1>e
  <1>11. CASE UNCHANGED storeVars
    BY <1>11, <1>a DEF storeVars, Waiters
  <1> QED
    BY <1>1, <1>2, <1>3, <1>4, <1>5, <1>6, <1>7, <1>8, <1>9, <1>10, <1>11
       DEF StoreNext, Put

LEMMA WrittenStep ==
  StoreTypeOK /\ Lined /\ Written /\ [StoreNext]_storeVars => Written'
  <1> SUFFICES ASSUME StoreTypeOK, Lined, Written, [StoreNext]_storeVars
               PROVE  Written'
    OBVIOUS
  <1> USE DEF tableVars, queueVars, putVars, writerVars, ownerVars
  <1>1. CASE Start
    BY <1>1 DEF Start, Written, Running
  <1>2. CASE OpenAgain \/ OpenFails \/ ImportLegacy \/ Opened
    BY <1>2 DEF OpenAgain, OpenFails, ImportLegacy, Opened, Written, Running
  <1>3. ASSUME NEW p \in Putters, PutRefused(p)
        PROVE  Written'
    BY <1>3 DEF PutRefused, Written
  <1>4. ASSUME NEW p \in Putters, NEW u \in Puts, PutBegins(p, u)
        PROVE  Written'
    BY <1>4 DEF PutBegins, Written
  <1>5. ASSUME NEW p \in Putters, PutResumes(p)
        PROVE  Written'
    <2>1. owner # "opening" /\ UNCHANGED <<owner, writer, batch>>
      BY <1>5 DEF PutResumes, Written
    <2> QED
      BY <2>1 DEF Written
  <1>6. ASSUME NEW p \in Putters, PutCancelled(p)
        PROVE  Written'
    <2>1. owner # "opening" /\ UNCHANGED <<owner, writer, batch>>
      BY <1>6 DEF PutCancelled, UnderWay, Written
    <2> QED
      BY <2>1 DEF Written
  <1>7. CASE Take
    <2>1. writer = "idle" /\ owner' = owner /\ owner \in Running
      BY <1>7 DEF Take, Written
    <2>2. PICK n \in 1..Len(queue) :
            \/ batch' = SubSeq(Dues(queue), 1, n) /\ writer' = "flushing"
            \/ batch' = <<>> /\ writer' = IF last' THEN "done" ELSE "idle"
      BY <1>7, TakeEffect
    <2>3. SubSeq(Dues(queue), 1, n) # <<>>
      <3>1. queue \in Seq(Items) /\ n \in 0..Len(queue)
        BY DEF StoreTypeOK
      <3>2. Dues(queue) \in Seq(Puts \cup {Nothing}) /\ Len(Dues(queue)) = Len(queue)
        BY <3>1, DuesType
      <3>3. Len(SubSeq(Dues(queue), 1, n)) = n
        BY <3>1, <3>2, SubSeqProperties
      <3>4. Len(<<>>) = 0 /\ n # 0
        BY EmptySeq
      <3> QED
        BY <3>3, <3>4
    <2> QED
      BY <2>1, <2>2, <2>3 DEF Written, Running
  <1>8. CASE Flush \/ FlushFails
    BY <1>8 DEF Flush, FlushFails, Written, Running
  <1>9. CASE StopBegins
    BY <1>9 DEF StopBegins, PutStop, Written, Running
  <1>10. CASE StopResumes
    <2>1. owner = "queueing"
      BY <1>10, WokenWaiters DEF StopResumes, Lined
    <2> QED
      BY <2>1, <1>10 DEF StopResumes, PutStop, Written, Running
  <1>11. CASE StopCancelled \/ StopReturns \/ StoreDies
    BY <1>11 DEF StopCancelled, StopReturns, StoreDies, Written, Running
  <1>12. CASE UNCHANGED storeVars
    BY <1>12 DEF storeVars, Written
  <1> QED
    BY <1>1, <1>2, <1>3, <1>4, <1>5, <1>6, <1>7, <1>8, <1>9, <1>10, <1>11, <1>12
       DEF StoreNext, Put

LEMMA BehindStep ==
  StoreTypeOK /\ Lined /\ Written /\ Behind /\ [StoreNext]_storeVars => Behind'
  <1> SUFFICES ASSUME StoreTypeOK, Lined, Written, Behind, [StoreNext]_storeVars
               PROVE  Behind'
    OBVIOUS
  <1> USE DEF tableVars, queueVars, putVars, writerVars, ownerVars
  <1>a. ASSUME UNCHANGED <<queue, writer, last>>,
               owner' \in {"open", "queueing"} => owner \in {"open", "queueing"}
        PROVE  Behind'
    BY <1>a DEF Behind, StopTaken
  <1>b. ASSUME NEW item \in Items, queue' = Append(queue, item),
               UNCHANGED <<writer, last>>,
               item.accepted => owner = "open",
               \/ owner' \notin {"open", "queueing"}
               \/ owner' \in {"open", "queueing"} /\ owner \in {"open", "queueing"} /\ item # Stop
        PROVE  Behind'
    <2>1. /\ DOMAIN queue = 1..Len(queue) /\ DOMAIN queue' = 1..(Len(queue) + 1)
          /\ Len(queue) \in Nat
          /\ \A i \in 1..Len(queue) : queue'[i] = queue[i]
          /\ queue'[Len(queue) + 1] = item
      BY <1>b, AppendProperties DEF StoreTypeOK
    <2>2. \A i \in DOMAIN queue' :
            \/ i \in DOMAIN queue /\ queue'[i] = queue[i]
            \/ i = Len(queue) + 1 /\ queue'[i] = item
      BY <2>1
    <2>3. owner' \in {"open", "queueing"} =>
            ~StopTaken' /\ \A i \in DOMAIN queue' : queue'[i] # Stop
      BY <2>2, <1>b DEF Behind, StopTaken
    <2>4. StopTaken' => \A i \in DOMAIN queue' : ~queue'[i].accepted
      BY <2>2, <1>b DEF Behind, StopTaken
    <2>5. ASSUME NEW i \in DOMAIN queue', NEW j \in DOMAIN queue', i <= j, queue'[i] = Stop
          PROVE  ~queue'[j].accepted
      <3>1. CASE j \in DOMAIN queue /\ queue'[j] = queue[j]
        <4>1. i \in DOMAIN queue /\ queue'[i] = queue[i]
          BY <2>1, <2>5, <3>1
        <4> QED
          BY <4>1, <3>1, <2>5 DEF Behind
      <3>2. CASE j = Len(queue) + 1 /\ queue'[j] = item
        <4>1. ~Stop.accepted
          BY ItemType
        <4>2. CASE i \in DOMAIN queue /\ queue'[i] = queue[i]
          <5>1. owner \notin {"open", "queueing"}
            BY <4>2, <2>5 DEF Behind
          <5> QED
            BY <5>1, <3>2, <1>b
        <4>3. CASE i = Len(queue) + 1 /\ queue'[i] = item
          BY <4>1, <4>3, <3>2, <2>5
        <4> QED
          BY <4>2, <4>3, <2>2, <2>5
      <3> QED
        BY <3>1, <3>2, <2>2, <2>5
    <2> QED
      BY <2>3, <2>4, <2>5 DEF Behind
  <1>c. ASSUME queue' = <<>>, writer' \in {"none", "idle"}
        PROVE  Behind'
    BY <1>c DEF Behind, StopTaken
  <1>1. CASE Start
    BY <1>1, <1>c DEF Start
  <1>2. CASE OpenAgain \/ OpenFails \/ ImportLegacy \/ StopCancelled
    BY <1>2, <1>a DEF OpenAgain, OpenFails, ImportLegacy, StopCancelled
  <1>3. CASE Opened
    BY <1>3, <1>c DEF Opened, Written
  <1>4. ASSUME NEW p \in Putters, PutRefused(p)
        PROVE  Behind'
    BY <1>4, <1>a DEF PutRefused
  <1>5. ASSUME NEW p \in Putters, NEW u \in Puts, PutBegins(p, u)
        PROVE  Behind'
    <2>1. CASE Full
      BY <1>5, <2>1, <1>a DEF PutBegins
    <2>2. CASE ~Full
      <3>1. queue' = Append(queue, Write(u, TRUE)) /\ owner = "open"
            /\ UNCHANGED <<owner, writer, last>>
        BY <1>5, <2>2 DEF PutBegins
      <3>2. Write(u, TRUE) \in Items /\ Write(u, TRUE) # Stop
        BY ItemType
      <3> QED
        BY <3>1, <3>2, <1>b
    <2> QED
      BY <2>1, <2>2
  <1>6. ASSUME NEW p \in Putters, PutResumes(p)
        PROVE  Behind'
    <2>1. CASE Full
      BY <1>6, <2>1, <1>a DEF PutResumes
    <2>2. CASE ~Full
      <3>0. update[p] \in Puts /\ (owner = "open") \in BOOLEAN
        BY DEF StoreTypeOK
      <3> DEFINE item == Write(update[p], owner = "open")
      <3>1. queue' = Append(queue, item) /\ UNCHANGED <<owner, writer, last>>
        BY <1>6, <2>2 DEF PutResumes
      <3>2. item \in Items /\ item # Stop /\ item.accepted = (owner = "open")
        BY <3>0, ItemType
      <3> HIDE DEF item
      <3>3. item.accepted => owner = "open"
        BY <3>2
      <3>4. \/ owner' \notin {"open", "queueing"}
            \/ owner' \in {"open", "queueing"} /\ owner \in {"open", "queueing"} /\ item # Stop
        BY <3>1, <3>2
      <3> QED
        BY <3>1, <3>2, <3>3, <3>4, <1>b
    <2> QED
      BY <2>1, <2>2
  <1>7. ASSUME NEW p \in Putters, PutCancelled(p)
        PROVE  Behind'
    BY <1>7, <1>a DEF PutCancelled
  <1>8. CASE Take
    <2>1. PICK n \in 1..Len(queue) :
              /\ last' = (queue[n] = Stop)
              /\ \/ writer' = "flushing"
                 \/ writer' = IF last' THEN "done" ELSE "idle"
              /\ Len(queue') = Len(queue) - n
              /\ \A i \in 1..(Len(queue) - n) : queue'[i] = queue[n + i]
      BY <1>8, TakeEffect
    <2>2. /\ DOMAIN queue = 1..Len(queue) /\ DOMAIN queue' = 1..Len(queue')
          /\ Len(queue) \in Nat
      BY <1>8, TakeType DEF StoreTypeOK
    <2>3. \A i \in DOMAIN queue' :
            n + i \in DOMAIN queue /\ n <= n + i /\ queue'[i] = queue[n + i]
      BY <2>1, <2>2
    <2>4. n \in DOMAIN queue
      BY <2>2
    <2>5. owner' = owner /\ (StopTaken' => queue[n] = Stop)
      BY <1>8, <2>1 DEF Take, StopTaken
    <2>6. owner' \in {"open", "queueing"} =>
            ~StopTaken' /\ \A i \in DOMAIN queue' : queue'[i] # Stop
      BY <2>3, <2>4, <2>5 DEF Behind
    <2>7. StopTaken' => \A i \in DOMAIN queue' : ~queue'[i].accepted
      BY <2>3, <2>4, <2>5 DEF Behind
    <2>8. ASSUME NEW i \in DOMAIN queue', NEW j \in DOMAIN queue', i <= j, queue'[i] = Stop
          PROVE  ~queue'[j].accepted
      <3>1. n + i <= n + j
        BY <2>2, <2>8
      <3> QED
        BY <3>1, <2>3, <2>8 DEF Behind
    <2> QED
      BY <2>6, <2>7, <2>8 DEF Behind
  <1>9. CASE Flush
    <2>1. /\ writer = "flushing" /\ UNCHANGED <<queue, owner, last>>
          /\ writer' = IF last THEN "done" ELSE "idle"
      BY <1>9 DEF Flush
    <2>2. StopTaken' <=> StopTaken
      BY <2>1 DEF StopTaken, StoreTypeOK
    <2> QED
      BY <2>1, <2>2 DEF Behind
  <1>10. CASE FlushFails
    <2>1. ~StopTaken' /\ UNCHANGED <<queue, owner>>
      BY <1>10 DEF FlushFails, StopTaken
    <2> QED
      BY <2>1 DEF Behind
  <1>11. ASSUME PutStop, UNCHANGED <<writer, last>>, owner \in {"open", "queueing"}
        PROVE  Behind'
    <2>1. CASE Full
      BY <1>11, <2>1, <1>a DEF PutStop
    <2>2. CASE ~Full
      <3>1. queue' = Append(queue, Stop) /\ owner' = "joining"
        BY <1>11, <2>2 DEF PutStop
      <3> QED
        BY <3>1, <1>11, <1>b, ItemType
    <2> QED
      BY <2>1, <2>2
  <1>12. CASE StopBegins
    BY <1>12, <1>11 DEF StopBegins
  <1>13. CASE StopResumes
    <2>1. owner = "queueing"
      BY <1>13, WokenWaiters DEF StopResumes, Lined
    <2> QED
      BY <2>1, <1>13, <1>11 DEF StopResumes
  <1>14. CASE StopReturns \/ StoreDies
    BY <1>14, <1>c DEF StopReturns, StoreDies
  <1>15. CASE UNCHANGED storeVars
    BY <1>15, <1>a DEF storeVars
  <1> QED
    BY <1>1, <1>2, <1>3, <1>4, <1>5, <1>6, <1>7, <1>8, <1>9, <1>10, <1>12, <1>13,
       <1>14, <1>15 DEF StoreNext, Put

-----------------------------------------------------------------------------
(* What is owed, and the table that saving it leads to.                    *)

LEMMA OwedType ==
  ASSUME StoreTypeOK
  PROVE  /\ Owed = IF writer \in {"idle", "flushing", "dead"}
                   THEN batch \o Dues(queue) ELSE <<>>
         /\ Dues(queue) \in Seq(Puts \cup {Nothing}) /\ Len(Dues(queue)) = Len(queue)
         /\ batch \o Dues(queue) \in Seq(Puts \cup {Nothing})
         /\ Owed \in Seq(Puts \cup {Nothing})
  <1> DEFINE S == Puts \cup {Nothing}
  <1>1. Dues(queue) \in Seq(S) /\ Len(Dues(queue)) = Len(queue)
    BY DuesType DEF StoreTypeOK
  <1>2. batch \in Seq(S)
    BY DEF StoreTypeOK
  <1> HIDE DEF S
  <1>3. batch \o Dues(queue) \in Seq(S) /\ <<>> \in Seq(S)
    BY <1>1, <1>2
  <1> QED
    BY <1>1, <1>3 DEF Owed, Dues, S

LEMMA OwedAppend ==
  ASSUME StoreTypeOK, NEW item \in Items, queue' = Append(queue, item),
         UNCHANGED <<writer, batch>>, writer \in {"idle", "flushing", "dead"}
  PROVE  Owed' = Append(Owed, Due(item))
  <1> DEFINE S == Puts \cup {Nothing}
  <1>1. Dues(queue') = Append(Dues(queue), Due(item))
    BY DuesAppend DEF StoreTypeOK
  <1>2. Owed = batch \o Dues(queue) /\ Dues(queue) \in Seq(S) /\ batch \in Seq(S)
    BY OwedType DEF StoreTypeOK
  <1>3. Owed' = batch \o Dues(queue')
    BY DEF Owed, Dues
  <1>4. Due(item) \in S
    BY ItemType
  <1> HIDE DEF S
  <1> QED
    BY <1>1, <1>2, <1>3, <1>4, AppendToConcat

\* The table once what is owed has been saved.
Coming == Contract!Overlaid(rows, Owed)

\* Take saves nothing but the writes that change nothing; when it leaves the
\* writer idle these are the first n that were owed, and when it ends the
\* writer they are all that was.
LEMMA TakeOwes ==
  ASSUME StoreTypeOK, Behind, Written, Take
  PROVE  \/ Owed' = Owed
         \/ \E n \in 1..Len(Owed) :
              /\ Owed' = SubSeq(Owed, n + 1, Len(Owed))
              /\ \A i \in 1..n : Owed[i] = Nothing
  <1> DEFINE S == Puts \cup {Nothing}
             D == Dues(queue)
  <1>1. /\ writer = "idle" /\ batch = <<>>
    BY DEF Take, Written
  <1>2. D \in Seq(S) /\ Len(D) = Len(queue) /\ Owed = <<>> \o D
    BY <1>1, OwedType
  <1>3. PICK n \in 1..Len(queue) :
              /\ last' = (queue[n] = Stop)
              /\ \/ /\ \E i \in 1..n : queue[i].accepted
                    /\ batch' = SubSeq(D, 1, n) /\ writer' = "flushing"
                 \/ /\ \A i \in 1..n : D[i] = Nothing
                    /\ batch' = <<>> /\ writer' = IF last' THEN "done" ELSE "idle"
              /\ Dues(queue') = SubSeq(D, n + 1, Len(queue))
    BY TakeEffect
  <1>4. Owed' = IF writer' \in {"idle", "flushing", "dead"}
                THEN batch' \o SubSeq(D, n + 1, Len(queue)) ELSE <<>>
    BY <1>3 DEF Owed, Dues
  <1>5. DOMAIN queue = 1..Len(queue) /\ Len(queue) \in Nat
        /\ \A i \in 1..Len(queue) : D[i] = Due(queue[i])
    BY DuesType DEF StoreTypeOK
  <1> HIDE DEF D, S
  <1>6. Owed = D
    BY <1>2, ConcatEmptySeq
  <1>7. /\ SubSeq(D, 1, n) \in Seq(S) /\ SubSeq(D, n + 1, Len(D)) \in Seq(S)
        /\ n \in 1..Len(D)
    BY <1>2, <1>5, SubSeqProperties
  <1>8. CASE batch' = SubSeq(D, 1, n) /\ writer' = "flushing"
    <2>1. 1 \in 1..(Len(D) + 1) /\ n \in (1 - 1)..Len(D) /\ Len(D) \in n..Len(D)
      BY <1>2, <1>5
    <2>2. SubSeq(D, 1, n) \o SubSeq(D, n + 1, Len(D)) = SubSeq(D, 1, Len(D))
      BY <1>2, <2>1, ConcatAdjacentSubSeq
    <2>3. SubSeq(D, 1, Len(D)) = D
      BY <1>2, SubSeqFull
    <2>4. Owed' = batch' \o SubSeq(D, n + 1, Len(queue))
      BY <1>4, <1>8
    <2>5. Owed' = SubSeq(D, 1, n) \o SubSeq(D, n + 1, Len(D))
      BY <2>4, <1>2, <1>8, Zenon
    <2> QED
      BY <1>6, <2>2, <2>3, <2>5, Zenon
  <1>9. CASE /\ \A i \in 1..n : D[i] = Nothing
             /\ batch' = <<>> /\ writer' = "idle"
    <2>1. Owed' = SubSeq(D, n + 1, Len(D))
      BY <1>2, <1>4, <1>7, <1>9, ConcatEmptySeq
    <2> QED
      BY <1>6, <1>7, <1>9, <2>1
  <1>10. CASE /\ \A i \in 1..n : D[i] = Nothing
              /\ batch' = <<>> /\ writer' = "done" /\ queue[n] = Stop
    <2>1. \A i \in n..Len(queue) : ~queue[i].accepted
      BY <1>5, <1>10 DEF Behind
    <2>2. \A i \in n..Len(queue) : i \in 1..Len(queue) /\ D[i] = Nothing
      BY <2>1, <1>5 DEF Due
    <2>3. \A i \in 1..Len(queue) : i \in 1..n \/ i \in n..Len(queue)
      BY <1>5
    <2>4. \A i \in 1..Len(D) : D[i] = Nothing
      BY <2>2, <2>3, <1>2, <1>10
    <2>5. Owed' = <<>>
      BY <1>4, <1>10
    <2>6. SubSeq(D, Len(D) + 1, Len(D)) = <<>>
      BY <1>2, SubSeqEmpty
    <2>7. Len(D) \in 1..Len(D)
      BY <1>2, <1>5
    <2> QED
      BY <2>4, <2>5, <2>6, <2>7, <1>6
  <1> QED
    BY <1>3, <1>8, <1>9, <1>10

\* Flush saves what the writer has taken; what stays in the queue of a writer
\* that ends with it changes nothing.
LEMMA FlushOwes ==
  ASSUME StoreTypeOK, Behind, Written, Flush
  PROVE  \E n \in 1..Len(Owed) :
           /\ rows' = Contract!Overlaid(rows, SubSeq(Owed, 1, n))
           /\ Owed' = SubSeq(Owed, n + 1, Len(Owed))
  <1> DEFINE S == Puts \cup {Nothing}
             D == Dues(queue)
  <1>1. /\ writer = "flushing" /\ batch # <<>> /\ rows' = Contract!Overlaid(rows, batch)
        /\ batch' = <<>> /\ writer' = IF last THEN "done" ELSE "idle"
        /\ queue' = queue
    BY DEF Flush, Written, queueVars
  <1>2. /\ batch \in Seq(S) /\ D \in Seq(S) /\ Len(D) = Len(queue)
        /\ Owed = batch \o D /\ rows \in Tables
    BY <1>1, OwedType DEF StoreTypeOK
  <1>3. Owed' = IF last THEN <<>> ELSE <<>> \o D
    BY <1>1 DEF Owed, Dues
  <1>4. /\ DOMAIN queue = 1..Len(queue) /\ \A i \in 1..Len(queue) : D[i] = Due(queue[i])
        /\ last \in BOOLEAN
    BY DuesType DEF StoreTypeOK
  <1> HIDE DEF D, S
  <1>5. /\ Owed \in Seq(S) /\ Len(Owed) = Len(batch) + Len(D)
        /\ \A i \in 1..(Len(batch) + Len(D)) :
             Owed[i] = IF i <= Len(batch) THEN batch[i] ELSE D[i - Len(batch)]
    <2>1. /\ batch \o D \in Seq(S) /\ Len(batch \o D) = Len(batch) + Len(D)
          /\ \A i \in 1..(Len(batch) + Len(D)) :
               (batch \o D)[i] = IF i <= Len(batch) THEN batch[i] ELSE D[i - Len(batch)]
      BY <1>2, ConcatProperties
    <2> QED
      BY <2>1, <1>2, Zenon
  <1>6. Len(batch) \in 1..Len(Owed) /\ Len(Owed) \in 1..Len(Owed)
    <2>1. Len(batch) \in Nat \ {0} /\ Len(D) \in Nat
      BY <1>1, <1>2, EmptySeq
    <2> QED
      BY <2>1, <1>5
  <1>7. SubSeq(Owed, 1, Len(batch)) = batch
    <2> DEFINE b == SubSeq(Owed, 1, Len(batch))
    <2>0. \A i \in 1..Len(batch) : i \in 1..(Len(batch) + Len(D)) /\ i <= Len(batch)
      BY <1>2
    <2>1. b \in Seq(S) /\ Len(b) = Len(batch) /\ \A i \in 1..Len(batch) : b[i] = Owed[i]
      BY <1>5, <1>6, SubSeqProperties
    <2> HIDE DEF b
    <2>2. \A i \in 1..Len(batch) : b[i] = batch[i]
      BY <2>0, <2>1, <1>5
    <2>3. b = batch
      BY <2>1, <2>2, <1>2, SeqEqual
    <2> QED
      BY <2>3 DEF b
  <1>8. SubSeq(Owed, Len(batch) + 1, Len(Owed)) = D
    <2> DEFINE b == SubSeq(Owed, Len(batch) + 1, Len(Owed))
    <2>0. /\ Len(batch) \in Nat /\ Len(D) \in Nat
          /\ \A i \in 1..Len(D) : /\ Len(batch) + i \in 1..(Len(batch) + Len(D))
                                  /\ ~(Len(batch) + i <= Len(batch))
                                  /\ (Len(batch) + i) - Len(batch) = i
      BY <1>2
    <2>a. Len(Owed) - (Len(batch) + 1) + 1 = Len(D) /\ Len(batch) + 1 \in Int /\ Len(Owed) \in Int
      BY <2>0, <1>5
    <2>b. \A i \in (Len(batch) + 1)..Len(Owed) : Owed[i] \in S
      BY <1>5, <2>0
    <2>1. /\ b \in Seq(S)
          /\ Len(b) = IF Len(batch) + 1 <= Len(Owed) THEN Len(D) ELSE 0
          /\ \A i \in 1..Len(D) : b[i] = Owed[Len(batch) + 1 + i - 1]
      BY <2>a, <2>b, SubSeqProperties
    <2>c. Len(b) = Len(D)
      BY <2>0, <2>1, <1>5
    <2>d. \A i \in 1..Len(D) : Len(batch) + 1 + i - 1 = Len(batch) + i
      BY <2>0
    <2> HIDE DEF b
    <2>2. \A i \in 1..Len(D) : b[i] = D[i]
      BY <2>0, <2>1, <2>d, <1>5
    <2>3. b = D
      BY <2>1, <2>c, <2>2, <1>2, SeqEqual
    <2> QED
      BY <2>3 DEF b
  <1>9. CASE ~last
    <2>1. Owed' = D
      BY <1>2, <1>3, <1>9, ConcatEmptySeq
    <2> QED
      BY <2>1, <1>1, <1>6, <1>7, <1>8
  <1>10. CASE last
    <2>1. \A i \in 1..Len(D) : D[i] = Nothing
      BY <1>1, <1>2, <1>4, <1>10 DEF Behind, StopTaken, Due
    <2>2. SubSeq(Owed, 1, Len(Owed)) = Owed
      BY <1>5, SubSeqFull
    <2>3. SubSeq(Owed, Len(Owed) + 1, Len(Owed)) = <<>>
      BY <1>5, SubSeqEmpty
    <2>4. Contract!Overlaid(Contract!Overlaid(rows, batch), D) = Contract!Overlaid(rows, Owed)
      <3>1. Len(batch) \in 0..Len(Owed)
        BY <1>6
      <3> QED
        BY <3>1, <1>5, <1>7, <1>8, OverlaidSaved
    <2>5. Contract!Overlaid(rows, batch) \in Tables
      BY <1>2, OverlaidType DEF S
    <2>6. Contract!Overlaid(Contract!Overlaid(rows, batch), D) = Contract!Overlaid(rows, batch)
      BY <2>1, <2>5, <1>2, OverlaidNothing
    <2> QED
      BY <2>2, <2>3, <2>4, <2>6, <1>1, <1>3, <1>6, <1>10
  <1> QED
    BY <1>4, <1>9, <1>10

-----------------------------------------------------------------------------
(* Calls that overlap on a key: in which order they began, what the copy in    *)
(* memory shows after them, and what each step of one of them does to it.      *)

\* A call that has not reached the queue, and a call on the same key that began
\* after it and has.
Late(k, q, st, up, ov) ==
  \E p \in Putters : st[p] = "accepted" /\ q \in ov[p] /\ k \in DOMAIN up[p]

\* The calls that are going to write k and that nobody has overtaken.
Pending(k, st, up, ov) ==
  {q \in Putters : /\ st[q] = "waiting" /\ k \in DOMAIN up[q]
                   /\ ~Late(k, q, st, up, ov)}

\* r began after all the others of S.
LastIn(r, S, ov) == r \in S /\ \A o \in S : o = r \/ o \in ov[r]

\* v is what the calls of S leave of a key that held c.
Shows(k, S, v, c, up, ov) ==
  /\ S = {} => v = c
  /\ \A r \in S : LastIn(r, S, ov) => v = up[r][k]

\* The calls on k when the copy in memory holds m, and the table to come c.
ServedAt(k, m, c, st, up, pr, ov) ==
  /\ Shows(k, Pending(k, st, up, ov), m, c, up, ov)
  /\ \A r \in Pending(k, st, up, ov) :
       (\A o \in ov[r] : st[o] = "rejected" => k \notin DOMAIN up[o])
         => Shows(k, Pending(k, st, up, ov) \cap ov[r], pr[r][k], c, up, ov)
  /\ \A q \in Putters :
       st[q] = "waiting" /\ k \in DOMAIN up[q] /\ Late(k, q, st, up, ov)
         => \E a \in Putters : /\ st[a] = "accepted" /\ k \in DOMAIN up[a]
                               /\ q \in ov[a] /\ c = up[a][k]

Ordered(st, ov) ==
  /\ \A p, q \in Putters : q \in ov[p] => st[p] # "idle" /\ st[q] # "idle" /\ p \notin ov[q]
  /\ \A p, q \in Putters :
       st[p] = "waiting" /\ st[q] = "waiting" /\ p # q => p \in ov[q] \/ q \in ov[p]
  /\ \A p, q, r \in Putters : st[r] = "waiting" /\ r \in ov[q] /\ q \in ov[p] => r \in ov[p]

LEMMA OrderBegins ==
  ASSUME NEW st, NEW ov, NEW p \in Putters, NEW st2, NEW ov2, Ordered(st, ov),
         st[p] = "idle", st2[p] # "idle", ov2[p] = {q \in Putters : st[q] = "waiting"},
         \A q \in Putters : q # p => st2[q] = st[q] /\ ov2[q] = ov[q]
  PROVE  Ordered(st2, ov2)
  <1>1. \A q \in Putters : p \notin ov[q]
    BY DEF Ordered
  <1>2. \A q \in Putters : st[q] = "waiting" => q # p /\ st2[q] = "waiting"
    OBVIOUS
  <1>3. ASSUME NEW q \in Putters, NEW r \in Putters, r \in ov2[q]
        PROVE  st2[q] # "idle" /\ st2[r] # "idle" /\ q \notin ov2[r]
    <2>1. CASE q = p
      BY <1>1, <1>2, <1>3, <2>1
    <2>2. CASE q # p
      <3>1. r \in ov[q] /\ r # p
        BY <1>1, <1>3, <2>2
      <3> QED
        BY <3>1, <2>2 DEF Ordered
    <2> QED
      BY <2>1, <2>2
  <1>4. ASSUME NEW q \in Putters, NEW r \in Putters, q # r,
               st2[q] = "waiting", st2[r] = "waiting"
        PROVE  q \in ov2[r] \/ r \in ov2[q]
    BY <1>4 DEF Ordered
  <1>5. ASSUME NEW q \in Putters, NEW r \in Putters, NEW s \in Putters,
               st2[s] = "waiting", s \in ov2[r], r \in ov2[q]
        PROVE  s \in ov2[q]
    <2>1. r # p
      BY <1>1, <1>5
    <2>2. s # p /\ st[s] = "waiting" /\ s \in ov[r]
      BY <1>1, <1>5, <2>1
    <2> QED
      BY <1>5, <2>1, <2>2 DEF Ordered
  <1> QED
    BY <1>3, <1>4, <1>5 DEF Ordered

LEMMA OrderEnds ==
  ASSUME NEW st, NEW ov, NEW p \in Putters, NEW st2, Ordered(st, ov),
         st2[p] \in {"accepted", "rejected"},
         \A q \in Putters : q # p => st2[q] = st[q]
  PROVE  Ordered(st2, ov)
  BY DEF Ordered

\* The last one that is left when p is gone and whom it overtook.
LEMMA LastGone ==
  ASSUME NEW st, NEW ov, Ordered(st, ov), NEW N \in SUBSET Putters,
         \A q \in N : st[q] = "waiting", NEW p \in N
  PROVE  LET L == {q \in N : q # p /\ q \notin ov[p]} IN
         /\ L = {} => LastIn(p, N, ov)
         /\ \A r \in L : LastIn(r, L, ov) => LastIn(r, N, ov)
  <1> DEFINE L == {q \in N : q # p /\ q \notin ov[p]}
  <1>1. L = {} => LastIn(p, N, ov)
    BY DEF LastIn
  <1>2. ASSUME NEW r \in L, LastIn(r, L, ov), NEW o \in N
        PROVE  o = r \/ o \in ov[r]
    <2>1. p \in ov[r]
      BY DEF Ordered
    <2>2. o = p \/ o \in ov[p] => o \in ov[r]
      BY <2>1 DEF Ordered
    <2> QED
      BY <1>2, <2>2 DEF LastIn
  <1> QED
    BY <1>1, <1>2 DEF LastIn

\* The last one that is left when only p is gone.
LEMMA LastWithout ==
  ASSUME NEW st, NEW ov, Ordered(st, ov), NEW N \in SUBSET Putters,
         \A q \in N : st[q] = "waiting", NEW p \in N,
         NEW r \in N \ {p}, LastIn(r, N \ {p}, ov)
  PROVE  \/ LastIn(r, N, ov) /\ p \in ov[r]
         \/ LastIn(p, N, ov) /\ LastIn(r, N \cap ov[p], ov)
  <1>1. CASE p \in ov[r]
    BY <1>1 DEF LastIn
  <1>2. CASE p \notin ov[r]
    <2>1. r \in ov[p]
      BY <1>2 DEF Ordered
    <2>2. ASSUME NEW o \in N, o # p
          PROVE  o \in ov[p]
      BY <2>1, <2>2 DEF LastIn, Ordered
    <2>3. LastIn(p, N, ov)
      BY <2>2 DEF LastIn
    <2>4. LastIn(r, N \cap ov[p], ov)
      <3>1. p \notin ov[p]
        BY DEF Ordered
      <3> QED
        BY <2>1, <3>1 DEF LastIn
    <2> QED
      BY <2>3, <2>4
  <1> QED
    BY <1>1, <1>2

\* A call that waits for a place: its values are in the copy.
LEMMA ServedWhenItWaits ==
  ASSUME NEW k, NEW m, NEW c, NEW st, NEW up, NEW pr, NEW ov,
         NEW m2, NEW st2, NEW up2, NEW pr2, NEW ov2, NEW p \in Putters, NEW u,
         Ordered(st, ov), ServedAt(k, m, c, st, up, pr, ov),
         st[p] = "idle", st2[p] = "waiting", up2[p] = u, pr2[p][k] = m,
         ov2[p] = {q \in Putters : st[q] = "waiting"},
         \A q \in Putters : q # p =>
           st2[q] = st[q] /\ up2[q] = up[q] /\ pr2[q] = pr[q] /\ ov2[q] = ov[q],
         \A q \in Putters : ov[q] \subseteq Putters,
         m2 = IF k \in DOMAIN u THEN u[k] ELSE m
  PROVE  ServedAt(k, m2, c, st2, up2, pr2, ov2)
  <1> DEFINE S == Pending(k, st, up, ov)
             S2 == Pending(k, st2, up2, ov2)
  <1>1. \A q \in Putters : p \notin ov[q]
    BY DEF Ordered
  <1>2. \A q \in Putters : q # p =>
          (Late(k, q, st2, up2, ov2) <=> Late(k, q, st, up, ov))
    BY DEF Late
  <1>3. ~Late(k, p, st2, up2, ov2)
    BY <1>1 DEF Late
  <1>4. S2 = IF k \in DOMAIN u THEN S \cup {p} ELSE S
    BY <1>2, <1>3 DEF Pending
  <1>5. S \subseteq {q \in Putters : st[q] = "waiting" /\ q # p}
    BY DEF Pending
  <1>6. Shows(k, S2, m2, c, up2, ov2)
    <2>1. CASE k \notin DOMAIN u
      BY <1>4, <1>5, <2>1 DEF ServedAt, Shows, LastIn
    <2>2. CASE k \in DOMAIN u
      <3>1. \A r \in S2 : LastIn(r, S2, ov2) => r = p
        BY <1>1, <1>4, <1>5, <2>2 DEF LastIn
      <3> QED
        BY <1>4, <2>2, <3>1 DEF Shows
    <2> QED
      BY <2>1, <2>2
  <1>7. ASSUME NEW r \in S2,
               \A o \in ov2[r] : st2[o] = "rejected" => k \notin DOMAIN up2[o]
        PROVE  Shows(k, S2 \cap ov2[r], pr2[r][k], c, up2, ov2)
    <2> HIDE DEF S, S2
    <2>1. r \in Putters
      BY <1>4, <1>5, <1>7
    <2>2. CASE r # p
      <3>1. r \in S /\ ov2[r] = ov[r] /\ S2 \cap ov2[r] = S \cap ov[r] /\ pr2[r] = pr[r]
        BY <1>1, <1>4, <1>7, <2>1, <2>2
      <3>2. \A o \in ov[r] : st[o] = "rejected" => k \notin DOMAIN up[o]
        BY <1>1, <1>7, <2>1, <3>1
      <3>3. Shows(k, S \cap ov[r], pr[r][k], c, up, ov)
        BY <3>1, <3>2 DEF ServedAt, S
      <3> QED
        BY <1>5, <3>1, <3>3 DEF Shows, LastIn
    <2>3. CASE r = p
      <3>1. k \in DOMAIN u
        BY <1>4, <1>5, <1>7, <2>3
      <3>2. S2 \cap ov2[r] = S
        BY <1>4, <1>5, <2>3
      <3>3. Shows(k, S, m, c, up, ov)
        BY DEF ServedAt, S
      <3> QED
        BY <1>5, <2>3, <3>2, <3>3 DEF Shows, LastIn
    <2> QED
      BY <2>2, <2>3
  <1>8. ASSUME NEW q \in Putters, st2[q] = "waiting", k \in DOMAIN up2[q],
               Late(k, q, st2, up2, ov2)
        PROVE  \E a \in Putters : /\ st2[a] = "accepted" /\ k \in DOMAIN up2[a]
                                  /\ q \in ov2[a] /\ c = up2[a][k]
    <2>1. q # p /\ Late(k, q, st, up, ov)
      BY <1>2, <1>3, <1>8
    <2>2. PICK a \in Putters : /\ st[a] = "accepted" /\ k \in DOMAIN up[a]
                               /\ q \in ov[a] /\ c = up[a][k]
      BY <1>8, <2>1 DEF ServedAt
    <2> QED
      BY <2>2
  <1> QED
    BY <1>6, <1>7, <1>8 DEF ServedAt

\* A call that finds a place at once: it overtakes all those in the line.
LEMMA ServedWhenItEnters ==
  ASSUME NEW k, NEW m, NEW c, NEW st, NEW up, NEW pr, NEW ov,
         NEW m2, NEW c2, NEW st2, NEW up2, NEW pr2, NEW ov2, NEW p \in Putters,
         Ordered(st, ov), ServedAt(k, m, c, st, up, pr, ov),
         st[p] = "idle", st2[p] = "accepted",
         ov2[p] = {q \in Putters : st[q] = "waiting"},
         \A q \in Putters : q # p =>
           st2[q] = st[q] /\ up2[q] = up[q] /\ pr2[q] = pr[q] /\ ov2[q] = ov[q],
         \A q \in Putters : ov[q] \subseteq Putters,
         k \in DOMAIN up2[p] => m2 = up2[p][k] /\ c2 = up2[p][k],
         k \notin DOMAIN up2[p] => m2 = m /\ c2 = c
  PROVE  ServedAt(k, m2, c2, st2, up2, pr2, ov2)
  <1> DEFINE S == Pending(k, st, up, ov)
             S2 == Pending(k, st2, up2, ov2)
  <1>1. CASE k \in DOMAIN up2[p]
    <2>1. \A q \in Putters : st2[q] = "waiting" => Late(k, q, st2, up2, ov2)
      BY <1>1 DEF Late
    <2>2. S2 = {}
      BY <2>1 DEF Pending
    <2>3. Shows(k, S2, m2, c2, up2, ov2)
      BY <1>1, <2>2 DEF Shows
    <2>4. \A q \in Putters : st2[q] = "waiting" => q \in ov2[p]
      OBVIOUS
    <2> QED
      BY <1>1, <2>2, <2>3, <2>4 DEF ServedAt
  <1>2. CASE k \notin DOMAIN up2[p]
    <2>1. \A q \in Putters : p \notin ov[q]
      BY DEF Ordered
    <2>2. \A q \in Putters : q # p =>
            (Late(k, q, st2, up2, ov2) <=> Late(k, q, st, up, ov))
      BY <1>2 DEF Late
    <2>3. S2 = S /\ S \subseteq Putters \ {p}
      BY <2>2 DEF Pending
    <2>4. Shows(k, S2, m2, c2, up2, ov2)
      BY <1>2, <2>3 DEF ServedAt, Shows, LastIn
    <2>5. ASSUME NEW r \in S2,
                 \A o \in ov2[r] : st2[o] = "rejected" => k \notin DOMAIN up2[o]
          PROVE  Shows(k, S2 \cap ov2[r], pr2[r][k], c2, up2, ov2)
      <3>1. \A o \in ov[r] : st[o] = "rejected" => k \notin DOMAIN up[o]
        BY <2>1, <2>3, <2>5
      <3>2. Shows(k, S \cap ov[r], pr[r][k], c, up, ov)
        BY <2>3, <2>5, <3>1 DEF ServedAt
      <3> HIDE DEF S, S2
      <3> QED
        BY <1>2, <2>3, <2>5, <3>2 DEF Shows, LastIn
    <2>6. ASSUME NEW q \in Putters, st2[q] = "waiting", k \in DOMAIN up2[q],
                 Late(k, q, st2, up2, ov2)
          PROVE  \E a \in Putters : /\ st2[a] = "accepted" /\ k \in DOMAIN up2[a]
                                    /\ q \in ov2[a] /\ c2 = up2[a][k]
      <3>1. PICK a \in Putters : /\ st[a] = "accepted" /\ k \in DOMAIN up[a]
                                 /\ q \in ov[a] /\ c = up[a][k]
        BY <2>2, <2>6 DEF ServedAt
      <3> QED
        BY <1>2, <3>1
    <2> QED
      BY <2>4, <2>5, <2>6 DEF ServedAt
  <1> QED
    BY <1>1, <1>2

\* A call from the line gets its place: it overtakes the earlier ones.
LEMMA ServedWhenItResumes ==
  ASSUME NEW k, NEW m, NEW c, NEW st, NEW up, NEW pr, NEW ov,
         NEW c2, NEW st2, NEW p \in Putters,
         Ordered(st, ov), ServedAt(k, m, c, st, up, pr, ov),
         st[p] = "waiting", st2[p] = "accepted",
         \A q \in Putters : q # p => st2[q] = st[q],
         \A q \in Putters : ov[q] \subseteq Putters,
         ~(k \in DOMAIN up[p] /\ Late(k, p, st, up, ov)),
         c2 = IF k \in DOMAIN up[p] THEN up[p][k] ELSE c
  PROVE  ServedAt(k, m, c2, st2, up, pr, ov)
  <1> DEFINE S == Pending(k, st, up, ov)
             S2 == Pending(k, st2, up, ov)
  <1>0. S \in SUBSET Putters /\ \A q \in S : st[q] = "waiting"
    BY DEF Pending
  <1>1. CASE k \in DOMAIN up[p]
    <2>1. p \in S
      BY <1>1 DEF Pending
    <2>2. \A q \in Putters : st[q] = "waiting" =>
            (Late(k, q, st2, up, ov) <=> Late(k, q, st, up, ov) \/ q \in ov[p])
      BY <1>1 DEF Late
    <2>3. S2 = {q \in S : q # p /\ q \notin ov[p]}
      BY <2>2 DEF Pending
    <2>4. Shows(k, S2, m, c2, up, ov)
      <3>1. Shows(k, S, m, c, up, ov)
        BY DEF ServedAt
      <3>2. /\ S2 = {} => LastIn(p, S, ov)
            /\ \A r \in S2 : LastIn(r, S2, ov) => LastIn(r, S, ov)
        BY <1>0, <2>1, <2>3, LastGone
      <3> HIDE DEF S, S2
      <3> QED
        BY <1>1, <3>1, <3>2 DEF Shows, LastIn
    <2>5. ASSUME NEW r \in S2,
                 \A o \in ov[r] : st2[o] = "rejected" => k \notin DOMAIN up[o]
          PROVE  Shows(k, S2 \cap ov[r], pr[r][k], c2, up, ov)
      <3> DEFINE N == S \cap ov[r]
                 N2 == S2 \cap ov[r]
      <3> HIDE DEF S, S2
      <3>1. r \in S /\ r # p /\ r \notin ov[p]
        BY <2>3, <2>5
      <3>2. p \in N
        BY <1>0, <2>1, <3>1 DEF Ordered
      <3>3. N2 = {q \in N : q # p /\ q \notin ov[p]}
        BY <2>3
      <3>4. \A o \in ov[r] : st[o] = "rejected" => k \notin DOMAIN up[o]
        BY <1>0, <2>5, <3>1
      <3>5. Shows(k, N, pr[r][k], c, up, ov)
        BY <3>1, <3>4 DEF ServedAt, S
      <3>6. N \in SUBSET Putters /\ \A q \in N : st[q] = "waiting"
        BY <1>0
      <3> HIDE DEF N, N2
      <3>7. /\ N2 = {} => LastIn(p, N, ov)
            /\ \A o \in N2 : LastIn(o, N2, ov) => LastIn(o, N, ov)
        BY <3>2, <3>3, <3>6, LastGone
      <3>8. Shows(k, N2, pr[r][k], c2, up, ov)
        BY <1>1, <3>5, <3>7 DEF Shows, LastIn
      <3> QED
        BY <3>8 DEF N2
    <2>6. ASSUME NEW q \in Putters, st2[q] = "waiting", k \in DOMAIN up[q],
                 Late(k, q, st2, up, ov)
          PROVE  \E a \in Putters : /\ st2[a] = "accepted" /\ k \in DOMAIN up[a]
                                    /\ q \in ov[a] /\ c2 = up[a][k]
      <3>1. CASE q \in ov[p]
        BY <1>1, <3>1
      <3>2. CASE q \notin ov[p]
        <4>1. q # p /\ st[q] = "waiting" /\ Late(k, q, st, up, ov)
          BY <2>2, <2>6, <3>2
        <4>2. p \in ov[q]
          BY <3>2, <4>1 DEF Ordered
        <4>3. PICK b \in Putters :
                st[b] = "accepted" /\ q \in ov[b] /\ k \in DOMAIN up[b]
          BY <4>1 DEF Late
        <4>4. p \in ov[b]
          BY <4>2, <4>3 DEF Ordered
        <4> QED
          BY <1>1, <4>3, <4>4 DEF Late
      <3> QED
        BY <3>1, <3>2
    <2> QED
      BY <2>4, <2>5, <2>6 DEF ServedAt
  <1>2. CASE k \notin DOMAIN up[p]
    <2>1. \A q \in Putters : Late(k, q, st2, up, ov) <=> Late(k, q, st, up, ov)
      BY <1>2 DEF Late
    <2>2. S2 = S
      BY <1>2, <2>1 DEF Pending
    <2>3. \A q \in Putters : k \in DOMAIN up[q] => st2[q] = st[q]
      BY <1>2
    <2>4. Shows(k, S2, m, c2, up, ov)
      BY <1>2, <2>2 DEF ServedAt
    <2>5. ASSUME NEW r \in S2,
                 \A o \in ov[r] : st2[o] = "rejected" => k \notin DOMAIN up[o]
          PROVE  Shows(k, S2 \cap ov[r], pr[r][k], c2, up, ov)
      <3>1. \A o \in ov[r] : st[o] = "rejected" => k \notin DOMAIN up[o]
        BY <1>0, <2>2, <2>3, <2>5
      <3> QED
        BY <1>2, <2>2, <2>5, <3>1 DEF ServedAt
    <2>6. ASSUME NEW q \in Putters, st2[q] = "waiting", k \in DOMAIN up[q],
                 Late(k, q, st2, up, ov)
          PROVE  \E a \in Putters : /\ st2[a] = "accepted" /\ k \in DOMAIN up[a]
                                    /\ q \in ov[a] /\ c2 = up[a][k]
      BY <1>2, <2>1, <2>3, <2>6 DEF ServedAt
    <2> QED
      BY <2>4, <2>5, <2>6 DEF ServedAt
  <1> QED
    BY <1>1, <1>2

\* A cancelled call takes its value back, and no other one's.
LEMMA ServedWhenCancelled ==
  ASSUME NEW k, NEW m, NEW c, NEW st, NEW up, NEW pr, NEW ov,
         NEW m2, NEW st2, NEW p \in Putters,
         Ordered(st, ov), ServedAt(k, m, c, st, up, pr, ov),
         st[p] = "waiting", st2[p] = "rejected",
         \A q \in Putters : q # p => st2[q] = st[q],
         \A q \in Putters : ov[q] \subseteq Putters,
         k \in DOMAIN up[p] =>
           \A q \in ov[p] : st[q] = "rejected" => k \notin DOMAIN up[q],
         k \in DOMAIN up[p] =>
           \A q \in Putters : p \in ov[q] /\ st[q] # "rejected" /\ k \in DOMAIN up[q]
                                => up[q][k] # up[p][k],
         m2 = IF k \in DOMAIN up[p] /\ m = up[p][k] THEN pr[p][k] ELSE m
  PROVE  ServedAt(k, m2, c, st2, up, pr, ov)
  <1> DEFINE S == Pending(k, st, up, ov)
             S2 == Pending(k, st2, up, ov)
  <1>0. S \in SUBSET Putters /\ \A q \in S : st[q] = "waiting" /\ k \in DOMAIN up[q]
    BY DEF Pending
  <1>1. \A q \in Putters : Late(k, q, st2, up, ov) <=> Late(k, q, st, up, ov)
    BY DEF Late
  <1>2. S2 = S \ {p}
    BY <1>1 DEF Pending
  <1>3. p \notin ov[p]
    BY DEF Ordered
  <1>4. Shows(k, S, m, c, up, ov)
    BY DEF ServedAt
  <1>5. Shows(k, S2, m2, c, up, ov)
    <2>1. CASE k \notin DOMAIN up[p]
      BY <1>0, <1>2, <1>4, <2>1 DEF Shows, LastIn
    <2>2. CASE p \in S
      <3>1. Shows(k, S \cap ov[p], pr[p][k], c, up, ov)
        BY <1>0, <2>2 DEF ServedAt
      <3> HIDE DEF S, S2
      <3>2. ASSUME S2 = {}
            PROVE  m2 = c
        <4>1. LastIn(p, S, ov) /\ S \cap ov[p] = {}
          BY <1>2, <1>3, <2>2, <3>2 DEF LastIn
        <4>2. m = up[p][k] /\ pr[p][k] = c
          BY <1>4, <3>1, <4>1 DEF Shows, LastIn
        <4> QED
          BY <1>0, <2>2, <4>2
      <3>3. ASSUME NEW r, LastIn(r, S2, ov)
            PROVE  m2 = up[r][k]
        <4>1. r \in S \ {p} /\ LastIn(r, S \ {p}, ov)
          BY <1>2, <3>3 DEF LastIn
        <4>2. \/ LastIn(r, S, ov) /\ p \in ov[r]
              \/ LastIn(p, S, ov) /\ LastIn(r, S \cap ov[p], ov)
          BY <1>0, <2>2, <4>1, LastWithout
        <4>3. CASE LastIn(r, S, ov) /\ p \in ov[r]
          <5>1. m = up[r][k]
            BY <1>4, <4>3 DEF Shows, LastIn
          <5>2. up[r][k] # up[p][k]
            BY <1>0, <2>2, <4>1, <4>3
          <5> QED
            BY <5>1, <5>2
        <4>4. CASE LastIn(p, S, ov) /\ LastIn(r, S \cap ov[p], ov)
          <5>1. m = up[p][k] /\ pr[p][k] = up[r][k]
            BY <1>4, <3>1, <4>4 DEF Shows, LastIn
          <5> QED
            BY <1>0, <2>2, <5>1
        <4> QED
          BY <4>2, <4>3, <4>4
      <3> QED
        BY <3>2, <3>3 DEF Shows
    <2>3. CASE k \in DOMAIN up[p] /\ p \notin S
      <3>1. Late(k, p, st, up, ov)
        BY <2>3 DEF Pending
      <3>2. PICK a \in Putters : /\ st[a] = "accepted" /\ k \in DOMAIN up[a]
                                 /\ p \in ov[a] /\ c = up[a][k]
        BY <2>3, <3>1 DEF ServedAt
      <3>3. S2 = S
        BY <1>2, <2>3
      <3>4. ASSUME S = {}
            PROVE  m2 = c
        BY <1>4, <2>3, <3>2, <3>4 DEF Shows
      <3>5. ASSUME NEW r, LastIn(r, S, ov)
            PROVE  m2 = up[r][k]
        <4>1. m = up[r][k] /\ r \in S /\ r \in Putters /\ r # p
          BY <1>0, <1>4, <2>3, <3>5 DEF Shows, LastIn
        <4>2. r \notin ov[p]
          <5>1. r \in ov[p] => r \in ov[a]
            BY <1>0, <3>2, <4>1 DEF Ordered
          <5>2. r \in ov[a] => Late(k, r, st, up, ov)
            BY <3>2 DEF Late
          <5> QED
            BY <4>1, <5>1, <5>2 DEF Pending
        <4>3. p \in ov[r]
          BY <1>0, <4>1, <4>2 DEF Ordered
        <4>4. up[r][k] # up[p][k]
          BY <1>0, <2>3, <4>1, <4>3
        <4> QED
          BY <4>1, <4>4
      <3> HIDE DEF S, S2
      <3> QED
        BY <3>3, <3>4, <3>5 DEF Shows
    <2> QED
      BY <2>1, <2>2, <2>3
  <1>6. ASSUME NEW r \in S2,
               \A o \in ov[r] : st2[o] = "rejected" => k \notin DOMAIN up[o]
        PROVE  Shows(k, S2 \cap ov[r], pr[r][k], c, up, ov)
    <2> HIDE DEF S, S2
    <2>1. r \in S /\ r \in Putters
      BY <1>0, <1>2, <1>6
    <2>2. \A o \in ov[r] : st[o] = "rejected" => k \notin DOMAIN up[o]
      BY <1>6, <2>1
    <2>3. S2 \cap ov[r] = S \cap ov[r]
      BY <1>0, <1>2, <1>6
    <2> QED
      BY <2>1, <2>2, <2>3 DEF ServedAt, S
  <1>7. ASSUME NEW q \in Putters, st2[q] = "waiting", k \in DOMAIN up[q],
               Late(k, q, st2, up, ov)
        PROVE  \E a \in Putters : /\ st2[a] = "accepted" /\ k \in DOMAIN up[a]
                                  /\ q \in ov[a] /\ c = up[a][k]
    <2>1. PICK a \in Putters : /\ st[a] = "accepted" /\ k \in DOMAIN up[a]
                               /\ q \in ov[a] /\ c = up[a][k]
      BY <1>1, <1>7 DEF ServedAt
    <2> QED
      BY <2>1
  <1> QED
    BY <1>5, <1>6, <1>7 DEF ServedAt

-----------------------------------------------------------------------------
(* The invariant of the store.                                             *)

InOrder == Ordered(putter, over)

\* While the store is open, every key shows what it should, unless one of the
\* accidents happened to it.
Served ==
  owner = "open" => \A k \in Keys \ crossed :
    ServedAt(k, memory[k], Coming[k], putter, update, previous, over)

StoreInv == StoreTypeOK /\ Lined /\ Written /\ Behind /\ InOrder

LEMMA InOrderStep ==
  StoreTypeOK /\ Lined /\ InOrder /\ [StoreNext]_storeVars => InOrder'
  <1> SUFFICES ASSUME StoreTypeOK, Lined, InOrder, [StoreNext]_storeVars
               PROVE  InOrder'
    OBVIOUS
  <1> USE DEF tableVars, queueVars, putVars, writerVars, ownerVars
  <1>0. /\ putter \in [Putters -> {"idle", "waiting", "accepted", "rejected"}]
        /\ over \in [Putters -> SUBSET Putters]
    BY DEF StoreTypeOK
  <1>a. ASSUME UNCHANGED <<putter, over>> PROVE InOrder'
    BY <1>a DEF InOrder
  <1>b. ASSUME NEW p \in Putters, over' = over, putter'[p] \in {"accepted", "rejected"},
               \A q \in Putters : q # p => putter'[q] = putter[q]
        PROVE  InOrder'
    BY <1>b, OrderEnds DEF InOrder
  <1>1. CASE Start
    BY <1>1 DEF Start, InOrder, Ordered
  <1>2. CASE \/ OpenAgain \/ OpenFails \/ ImportLegacy \/ Opened \/ Take \/ Flush \/ FlushFails
             \/ StopBegins \/ StopResumes \/ StopCancelled \/ StopReturns \/ StoreDies
             \/ UNCHANGED storeVars
    <2>1. UNCHANGED <<putter, over>>
      BY <1>2 DEF OpenAgain, OpenFails, ImportLegacy, Opened, Take, Flush, FlushFails,
                  StopBegins, StopResumes, StopCancelled, StopReturns, StoreDies, storeVars
    <2> QED
      BY <2>1, <1>a
  <1>3. ASSUME NEW p \in Putters, PutRefused(p)
        PROVE  InOrder'
    BY <1>0, <1>3, <1>b DEF PutRefused
  <1>4. ASSUME NEW p \in Putters, NEW u \in Puts, PutBegins(p, u)
        PROVE  InOrder'
    <2>1. /\ putter[p] = "idle" /\ putter'[p] # "idle"
          /\ over'[p] = {q \in Putters : putter[q] = "waiting"}
          /\ \A q \in Putters : q # p => putter'[q] = putter[q] /\ over'[q] = over[q]
      BY <1>0, <1>4 DEF PutBegins, UnderWay
    <2> QED
      BY <2>1, OrderBegins DEF InOrder
  <1>5. ASSUME NEW p \in Putters, PutResumes(p)
        PROVE  InOrder'
    <2>1. CASE Full
      BY <1>5, <2>1, <1>a DEF PutResumes
    <2>2. CASE ~Full
      BY <1>0, <1>5, <2>2, <1>b DEF PutResumes, Accepts, TakesBack
    <2> QED
      BY <2>1, <2>2
  <1>6. ASSUME NEW p \in Putters, PutCancelled(p)
        PROVE  InOrder'
    BY <1>0, <1>6, <1>b DEF PutCancelled, TakesBack
  <1> QED
    BY <1>1, <1>2, <1>3, <1>4, <1>5, <1>6 DEF StoreNext, Put

\* A step that appends an accepted write moves the coming table on its keys.
LEMMA ComingAppend ==
  ASSUME StoreInv, NEW u \in Puts, queue' = Append(queue, Write(u, TRUE)),
         UNCHANGED <<rows, writer, batch>>, writer \in {"idle", "flushing", "dead"}
  PROVE  \A k \in Keys : Coming'[k] = IF k \in DOMAIN u THEN u[k] ELSE Coming[k]
  <1>1. Write(u, TRUE) \in Items /\ Due(Write(u, TRUE)) = u
    BY ItemType
  <1>2. Owed' = Append(Owed, u) /\ Owed \in Seq(Puts \cup {Nothing})
    BY <1>1, OwedAppend, OwedType DEF StoreInv
  <1>3. Coming' = Contract!Overlaid(rows, Append(Owed, u))
    BY <1>2 DEF Coming, Contract!Overlaid, Contract!Mentions, Contract!LastOf
  <1>4. u \in Puts \cup {Nothing}
    OBVIOUS
  <1> QED
    BY <1>2, <1>3, <1>4, OverlaidAppend DEF Coming

\* The writer does not move it.
LEMMA ComingKept ==
  ASSUME StoreInv, Take \/ Flush
  PROVE  Coming' = Coming
  <1>1. rows \in Tables /\ Owed \in Seq(Puts \cup {Nothing})
    BY OwedType DEF StoreInv, StoreTypeOK
  <1>2. CASE Take
    <2>1. rows' = rows
      BY <1>2 DEF Take, tableVars
    <2>2. CASE Owed' = Owed
      BY <2>1, <2>2 DEF Coming, Contract!Overlaid, Contract!Mentions, Contract!LastOf
    <2>3. CASE \E n \in 1..Len(Owed) :
                 /\ Owed' = SubSeq(Owed, n + 1, Len(Owed))
                 /\ \A i \in 1..n : Owed[i] = Nothing
      <3>1. PICK n \in 1..Len(Owed) :
                 /\ Owed' = SubSeq(Owed, n + 1, Len(Owed))
                 /\ \A i \in 1..n : Owed[i] = Nothing
        BY <2>3
      <3> DEFINE front == SubSeq(Owed, 1, n)
      <3>2. /\ front \in Seq(Puts \cup {Nothing}) /\ Len(front) = n
            /\ \A i \in 1..n : front[i] = Owed[i]
        BY <1>1, SubSeqProperties
      <3> HIDE DEF front
      <3>3. Contract!Overlaid(rows, front) = rows
        BY <3>1, <3>2, <1>1, OverlaidNothing
      <3>4. n \in 0..Len(Owed)
        OBVIOUS
      <3>5. Contract!Overlaid(Contract!Overlaid(rows, front), SubSeq(Owed, n + 1, Len(Owed)))
              = Contract!Overlaid(rows, Owed)
        BY <1>1, <3>4, OverlaidSaved DEF front
      <3>6. Coming' = Contract!Overlaid(rows, SubSeq(Owed, n + 1, Len(Owed)))
        BY <3>1, <2>1 DEF Coming, Contract!Overlaid, Contract!Mentions, Contract!LastOf
      <3> QED
        BY <3>3, <3>5, <3>6 DEF Coming
    <2> QED
      BY <1>2, <2>2, <2>3, TakeOwes DEF StoreInv
  <1>3. CASE Flush
    <2>1. PICK n \in 1..Len(Owed) :
           /\ rows' = Contract!Overlaid(rows, SubSeq(Owed, 1, n))
           /\ Owed' = SubSeq(Owed, n + 1, Len(Owed))
      BY <1>3, FlushOwes DEF StoreInv
    <2>2. Coming' = Contract!Overlaid(Contract!Overlaid(rows, SubSeq(Owed, 1, n)),
                                      SubSeq(Owed, n + 1, Len(Owed)))
      <3> DEFINE a == Contract!Overlaid(rows, SubSeq(Owed, 1, n))
                 b == SubSeq(Owed, n + 1, Len(Owed))
      <3>1. rows' = a /\ Owed' = b
        BY <2>1
      <3> HIDE DEF a, b
      <3>2. Coming' = Contract!Overlaid(a, b)
        BY <3>1 DEF Coming, Contract!Overlaid, Contract!Mentions, Contract!LastOf
      <3> QED
        BY <3>2 DEF a, b
    <2>3. n \in 0..Len(Owed)
      OBVIOUS
    <2> QED
      BY <2>2, <2>3, <1>1, OverlaidSaved DEF Coming
  <1> QED
    BY <1>2, <1>3

LEMMA ServedStep ==
  StoreInv /\ Served /\ [StoreNext]_storeVars => Served'
  <1> SUFFICES ASSUME StoreInv, Served, [StoreNext]_storeVars,
                      owner' = "open", NEW k \in Keys, k \notin crossed'
               PROVE  ServedAt(k, memory[k], Coming[k], putter, update, previous, over)'
    BY DEF Served
  <1> USE DEF tableVars, queueVars, putVars, writerVars, ownerVars
  <1>0. /\ putter \in [Putters -> {"idle", "waiting", "accepted", "rejected"}]
        /\ update \in [Putters -> Puts] /\ previous \in [Putters -> Tables]
        /\ memory \in Tables /\ rows \in Tables /\ over \in [Putters -> SUBSET Putters]
        /\ Ordered(putter, over) /\ \A q \in Putters : over[q] \subseteq Putters
    BY DEF StoreInv, StoreTypeOK, InOrder
  <1>s. ASSUME owner = "open", k \notin crossed
        PROVE  ServedAt(k, memory[k], Coming[k], putter, update, previous, over)
    BY <1>s DEF Served
  <1>a. ASSUME Coming' = Coming, owner = "open", crossed' = crossed,
               UNCHANGED <<memory, update, previous, putter, over>>
        PROVE  ServedAt(k, memory[k], Coming[k], putter, update, previous, over)'
    BY <1>a, <1>s
  <1>b. ASSUME UNCHANGED <<rows, writer, batch, queue>>
        PROVE  Coming' = Coming
    BY <1>b DEF Coming, Owed, Contract!Overlaid, Contract!Mentions, Contract!LastOf
  <1>c. owner = "open" => writer \in {"idle", "flushing", "dead"}
    BY DEF StoreInv, Written, Behind, StopTaken, Running, StoreTypeOK
  <1>1. CASE \/ Start \/ OpenAgain \/ OpenFails \/ ImportLegacy \/ StopBegins \/ StopResumes
             \/ StopCancelled \/ StopReturns \/ StoreDies
    <2>1. owner' # "open"
      BY <1>1 DEF Start, OpenAgain, OpenFails, ImportLegacy, StopBegins, StopResumes,
                  StopCancelled, StopReturns, StoreDies, PutStop
    <2> QED
      BY <2>1
  <1>2. CASE Opened
    <2>1. /\ queue = <<>> /\ batch = <<>> /\ \A p \in Putters : putter[p] = "idle"
          /\ memory' = rows /\ rows' = rows /\ writer' = "idle"
          /\ queue' = queue /\ batch' = batch /\ putter' = putter
      BY <1>2 DEF Opened, StoreInv, Written, Running
    <2>2. Owed' = <<>>
      BY <2>1 DEF Owed
    <2>3. Coming' = Contract!Overlaid(rows, <<>>)
      BY <2>1, <2>2 DEF Coming, Contract!Overlaid, Contract!Mentions, Contract!LastOf
    <2>4. Coming' = rows
      BY <2>3, <1>0, OverlaidEmpty
    <2> QED
      BY <2>1, <2>4 DEF ServedAt, Shows, Pending, LastIn
  <1>3. ASSUME NEW p \in Putters, PutRefused(p)
        PROVE  FALSE
    BY <1>3 DEF PutRefused
  <1>4. ASSUME NEW p \in Putters, NEW u \in Puts, PutBegins(p, u)
        PROVE  ServedAt(k, memory[k], Coming[k], putter, update, previous, over)'
    <2>1. /\ putter[p] = "idle" /\ owner = "open" /\ memory' = Changed(u) /\ crossed' = crossed
          /\ update' = [update EXCEPT ![p] = u] /\ previous' = [previous EXCEPT ![p] = memory]
          /\ over' = [over EXCEPT ![p] = {q \in Putters : putter[q] = "waiting"}]
          /\ UNCHANGED <<rows, writer, batch>>
      BY <1>4 DEF PutBegins, UnderWay
    <2>2. /\ update'[p] = u /\ previous'[p][k] = memory[k]
          /\ over'[p] = {q \in Putters : putter[q] = "waiting"}
          /\ memory'[k] = IF k \in DOMAIN u THEN u[k] ELSE memory[k]
          /\ \A q \in Putters : q # p =>
               /\ update'[q] = update[q] /\ previous'[q] = previous[q]
               /\ over'[q] = over[q]
      BY <1>0, <2>1 DEF Changed
    <2>3. ServedAt(k, memory[k], Coming[k], putter, update, previous, over)
      BY <1>s, <2>1
    <2>4. CASE Full
      <3>1. putter' = [putter EXCEPT ![p] = "waiting"] /\ queue' = queue
        BY <1>4, <2>4 DEF PutBegins
      <3>2. Coming' = Coming
        BY <3>1, <2>1, <1>b
      <3>3. /\ putter[p] = "idle" /\ putter'[p] = "waiting"
            /\ \A q \in Putters : q # p =>
                 /\ putter'[q] = putter[q] /\ update'[q] = update[q]
                 /\ previous'[q] = previous[q] /\ over'[q] = over[q]
        BY <1>0, <2>1, <2>2, <3>1
      <3>4. Ordered(putter, over) /\ \A q \in Putters : over[q] \subseteq Putters
        BY <1>0
      <3>5. ServedAt(k, memory'[k], Coming[k], putter', update', previous', over')
        BY <2>2, <2>3, <3>3, <3>4, ServedWhenItWaits
      <3> QED
        BY <3>2, <3>5
    <2>5. CASE ~Full
      <3>1. /\ putter' = [putter EXCEPT ![p] = "accepted"]
            /\ queue' = Append(queue, Write(u, TRUE))
        BY <1>4, <2>5 DEF PutBegins
      <3>2. Coming'[k] = IF k \in DOMAIN u THEN u[k] ELSE Coming[k]
        BY <3>1, <2>1, <1>c, ComingAppend
      <3>3. /\ putter[p] = "idle" /\ putter'[p] = "accepted"
            /\ over'[p] = {q \in Putters : putter[q] = "waiting"}
            /\ \A q \in Putters : q # p =>
                 /\ putter'[q] = putter[q] /\ update'[q] = update[q]
                 /\ previous'[q] = previous[q] /\ over'[q] = over[q]
        BY <1>0, <2>1, <2>2, <3>1
      <3>4. Ordered(putter, over) /\ \A q \in Putters : over[q] \subseteq Putters
        BY <1>0
      <3>5. /\ k \in DOMAIN update'[p]
                 => memory'[k] = update'[p][k] /\ Coming'[k] = update'[p][k]
            /\ k \notin DOMAIN update'[p]
                 => memory'[k] = memory[k] /\ Coming'[k] = Coming[k]
        BY <2>2, <3>2
      <3>6. ServedAt(k, memory'[k], Coming'[k], putter', update', previous', over')
        BY <2>3, <3>3, <3>4, <3>5, ServedWhenItEnters
      <3> QED
        BY <3>6
    <2> QED
      BY <2>4, <2>5
  <1>5. ASSUME NEW p \in Putters, PutResumes(p)
        PROVE  ServedAt(k, memory[k], Coming[k], putter, update, previous, over)'
    <2>1. owner = "open" /\ UNCHANGED <<rows, writer, batch, update, previous, over>>
      BY <1>5 DEF PutResumes
    <2>2. CASE Full
      <3>1. UNCHANGED <<queue, putter, memory, crossed>>
        BY <1>5, <2>2 DEF PutResumes
      <3> QED
        BY <3>1, <2>1, <1>a, <1>b
    <2>3. CASE ~Full
      <3>1. /\ queue' = Append(queue, Write(update[p], TRUE)) /\ memory' = memory
            /\ putter' = [putter EXCEPT ![p] = "accepted"]
            /\ crossed' = crossed \cup Overtaken(p)
        BY <1>5, <2>1, <2>3 DEF PutResumes, Accepts
      <3>2. putter[p] = "waiting"
        BY <1>5, WokenWaiters DEF PutResumes, StoreInv, Lined, UnderWay
      <3>3. putter'[p] = "accepted" /\ \A q \in Putters : q # p => putter'[q] = putter[q]
        BY <1>0, <3>1
      <3>4. Coming'[k] = IF k \in DOMAIN update[p] THEN update[p][k] ELSE Coming[k]
        <4>1. update[p] \in Puts
          BY <1>0
        <4> QED
          BY <4>1, <3>1, <2>1, <1>c, ComingAppend
      <3>5. ~(k \in DOMAIN update[p] /\ Late(k, p, putter, update, over))
        BY <3>1 DEF Late, Overtaken, Shared, Later
      <3>6. ServedAt(k, memory[k], Coming[k], putter, update, previous, over)
        BY <1>s, <2>1, <3>1
      <3> QED
        BY <1>0, <2>1, <3>1, <3>2, <3>3, <3>4, <3>5, <3>6, ServedWhenItResumes
    <2> QED
      BY <2>2, <2>3
  <1>6. ASSUME NEW p \in Putters, PutCancelled(p)
        PROVE  ServedAt(k, memory[k], Coming[k], putter, update, previous, over)'
    <2>1. /\ owner = "open" /\ UNCHANGED <<rows, writer, batch, queue, update, previous, over>>
          /\ memory' = RolledBack(p) /\ putter[p] = "waiting"
          /\ putter' = [putter EXCEPT ![p] = "rejected"]
          /\ crossed' = crossed \cup Stale(p) \cup Twin(p)
      BY <1>6 DEF PutCancelled, TakesBack, UnderWay
    <2>2. Coming' = Coming
      BY <2>1, <1>b
    <2>3. putter'[p] = "rejected" /\ \A q \in Putters : q # p => putter'[q] = putter[q]
      BY <1>0, <2>1
    <2>4. memory'[k] = IF k \in DOMAIN update[p] /\ memory[k] = update[p][k]
                       THEN previous[p][k] ELSE memory[k]
      BY <2>1 DEF RolledBack
    <2>5. k \in DOMAIN update[p] =>
            \A q \in over[p] : putter[q] = "rejected" => k \notin DOMAIN update[q]
      BY <2>1 DEF Stale, Shared
    <2>6. k \in DOMAIN update[p] =>
            \A q \in Putters :
              p \in over[q] /\ putter[q] # "rejected" /\ k \in DOMAIN update[q]
                => update[q][k] # update[p][k]
      BY <2>1 DEF Twin, Later
    <2>7. ServedAt(k, memory[k], Coming[k], putter, update, previous, over)
      BY <1>s, <2>1
    <2> QED
      BY <1>0, <2>1, <2>2, <2>3, <2>4, <2>5, <2>6, <2>7, ServedWhenCancelled
  <1>7. CASE Take \/ Flush
    <2>1. Coming' = Coming
      BY <1>7, ComingKept
    <2>2. /\ owner = "open" /\ crossed' = crossed
          /\ UNCHANGED <<memory, update, previous, putter, over>>
      BY <1>7 DEF Take, Flush
    <2> QED
      BY <2>1, <2>2, <1>a
  <1>8. CASE FlushFails
    <2>1. /\ owner = "open" /\ crossed' = crossed
          /\ UNCHANGED <<rows, queue, batch, memory, update, previous, putter, over>>
          /\ writer = "flushing" /\ writer' = "dead"
      BY <1>8 DEF FlushFails
    <2>2. Owed' = Owed
      BY <2>1 DEF Owed
    <2>3. Coming' = Coming
      BY <2>1, <2>2 DEF Coming, Contract!Overlaid, Contract!Mentions, Contract!LastOf
    <2> QED
      BY <2>1, <2>3, <1>a
  <1>9. CASE UNCHANGED storeVars
    BY <1>9, <1>a, <1>b DEF storeVars
  <1> QED
    BY <1>1, <1>2, <1>3, <1>4, <1>5, <1>6, <1>7, <1>8, <1>9 DEF StoreNext, Put

LEMMA StoreInvInit == StoreInit => StoreInv /\ Served
  <1> SUFFICES ASSUME StoreInit PROVE StoreInv /\ Served
    OBVIOUS
  <1>1. StoreTypeOK
    BY StoreTypeInit
  <1>2. Waiters = <<>>
    BY DEF StoreInit, Waiters
  <1>3. Lined
    BY <1>2 DEF Lined, Once, In
  <1>4. Written /\ Behind
    BY DEF StoreInit, Written, Behind, StopTaken, Running
  <1>5. Served /\ InOrder
    BY DEF StoreInit, Served, InOrder, Ordered
  <1> QED
    BY <1>1, <1>3, <1>4, <1>5 DEF StoreInv

LEMMA StoreInvStep == StoreInv /\ [StoreNext]_storeVars => StoreInv'
  BY StoreTypeStep, LinedStep, WrittenStep, BehindStep, InOrderStep DEF StoreInv

\* A store that has nothing to do serves what the database holds, key by key
\* (cache_store.py, lines 262-287): also after calls on one key overlapped, were
\* cancelled and took back what they wrote, except on a key where a call was
\* overtaken in the line, or a cancelled one put back a stale value or took away
\* its twin's.
THEOREM ServesWhatIsSaved == StoreSpec => []ServedIsSaved
  <1>1. StoreInv /\ Served => ServedIsSaved
    <2> SUFFICES ASSUME StoreInv, Served, owner = "open", writer = "idle", queue = <<>>,
                        \A p \in Putters : ~UnderWay(p), NEW k \in Keys, k \notin crossed
                 PROVE  memory[k] = rows[k]
      BY DEF ServedIsSaved
    <2>0. batch = <<>> /\ rows \in Tables
      BY DEF StoreInv, Written, StoreTypeOK
    <2>1. Owed = <<>>
      BY <2>0 DEF Owed
    <2>2. Coming = rows
      BY <2>0, <2>1, OverlaidEmpty DEF Coming
    <2>3. Pending(k, putter, update, over) = {}
      BY DEF Pending, UnderWay
    <2>4. ServedAt(k, memory[k], Coming[k], putter, update, previous, over)
      BY DEF Served
    <2> QED
      BY <2>2, <2>3, <2>4 DEF ServedAt, Shows
  <1> QED
    BY <1>1, StoreInvInit, StoreInvStep, ServedStep, PTL DEF StoreSpec, StoreInv

-----------------------------------------------------------------------------
(* The store implements what it promises.                                  *)

LEMMA ContractInit == StoreInit => Contract!CacheInit
  <1> SUFFICES ASSUME StoreInit PROVE Contract!CacheInit
    OBVIOUS
  <1>1. rows \in Tables
    BY CacheStoreAssumption DEF StoreInit, Blank, Tables
  <1>2. Owed = <<>> /\ owner = "closed" /\ writer = "none" /\ report = "nothing"
    BY DEF StoreInit, Owed
  <1> QED
    BY <1>1, <1>2 DEF Contract!CacheInit, Tables

LEMMA ContractStep ==
  StoreInv /\ [StoreNext]_storeVars => [Contract!CacheNext]_(Contract!cacheVars)
  <1> SUFFICES ASSUME StoreInv, [StoreNext]_storeVars
               PROVE  Contract!CacheNext \/ UNCHANGED Contract!cacheVars
    OBVIOUS
  <1> USE DEF tableVars, queueVars, putVars, writerVars, ownerVars
  <1> DEFINE Opn(o) == o \in {"open", "queueing", "joining"}
  <1>0. /\ Owed \in Seq(Puts \cup {Nothing}) /\ Len(Owed) \in Nat /\ rows \in Tables
        /\ update \in [Putters -> Puts]
    BY OwedType DEF StoreInv, StoreTypeOK
  <1>u. Nothing \in Contract!Updates /\ \A u \in Puts : u \in Contract!Updates
    <2>1. \A u \in Puts : \E ks \in SUBSET Keys : u \in [ks -> Values]
      BY CacheStoreAssumption
    <2>2. Nothing \in [{} -> Values]
      BY DEF Nothing
    <2> QED
      BY <2>1, <2>2 DEF Contract!Updates
  <1>o. Opn(owner) <=> writer # "none"
    BY DEF StoreInv, Written, Running
  <1>w. writer \in {"none", "idle", "flushing", "done", "dead"}
    BY DEF StoreInv, StoreTypeOK
  <1>n. writer \in {"none", "done"} => Owed = <<>>
    BY DEF Owed
  <1>v. UNCHANGED <<rows, Owed, report>> /\ (Opn(owner') <=> Opn(owner))
          /\ (writer' = "dead" <=> writer = "dead")
        => UNCHANGED Contract!cacheVars
    BY DEF Contract!cacheVars
  <1>k. ASSUME UNCHANGED <<rows, report, queue, batch, writer>>, Opn(owner') <=> Opn(owner)
        PROVE  UNCHANGED Contract!cacheVars
    <2>1. Owed' = Owed
      BY <1>k DEF Owed
    <2> QED
      BY <2>1, <1>k, <1>v
  <1>a. ASSUME NEW item \in Items, queue' = Append(queue, item),
               UNCHANGED <<rows, report, writer, batch>>,
               Opn(owner') <=> Opn(owner),
               item.accepted => writer \in {"idle", "flushing", "dead"}
        PROVE  Contract!CacheNext \/ UNCHANGED Contract!cacheVars
    <2>1. CASE writer \in {"idle", "flushing", "dead"}
      <3>1. Owed' = Append(Owed, Due(item))
        BY <1>a, <2>1, OwedAppend DEF StoreInv
      <3>2. Due(item) \in Contract!Updates
        BY <1>u, ItemType
      <3>3. Contract!Accept(Due(item))
        BY <3>1, <1>a, <1>o, <2>1 DEF Contract!Accept
      <3> QED
        BY <3>2, <3>3 DEF Contract!CacheNext
    <2>2. CASE writer \in {"none", "done"}
      <3>1. Owed' = Owed
        BY <1>a, <2>2 DEF Owed
      <3> QED
        BY <3>1, <1>a, <1>v
    <2> QED
      BY <2>1, <2>2, <1>w
  <1>s. ASSUME NEW n \in 1..Len(Owed), writer # "dead", writer' # "dead",
               rows' = Contract!Overlaid(rows, SubSeq(Owed, 1, n)),
               Owed' = SubSeq(Owed, n + 1, Len(Owed)),
               UNCHANGED <<owner, report>>
        PROVE  Contract!CacheNext
    <2>1. Contract!Save(n)
      BY <1>s DEF Contract!Save
    <2> QED
      BY <2>1, <1>s DEF Contract!CacheNext
  <1>1. CASE Start
    <2>1. owner = "closed" /\ owner' = "opening" /\ writer' = "none"
          /\ UNCHANGED <<rows, report>>
      BY <1>1 DEF Start
    <2>2. writer = "none"
      BY <2>1, <1>o
    <2>3. Owed = <<>> /\ Owed' = <<>>
      BY <2>1, <2>2 DEF Owed
    <2> QED
      BY <2>1, <2>2, <2>3, <1>v
  <1>2. CASE OpenAgain \/ OpenFails
    BY <1>2, <1>k DEF OpenAgain, OpenFails
  <1>3. CASE ImportLegacy
    <2>1. /\ owner = "opening" /\ owner' = owner /\ rows = Blank /\ rows' = Legacy
          /\ UNCHANGED <<queue, batch, writer, report>>
      BY <1>3 DEF ImportLegacy
    <2>2. Owed' = Owed
      BY <2>1 DEF Owed
    <2>3. Contract!Import
      BY <2>1, <2>2, CacheStoreAssumption DEF Contract!Import, Contract!Blank, Blank
    <2> QED
      BY <2>3 DEF Contract!CacheNext
  <1>4. CASE Opened
    <2>1. /\ owner = "opening" /\ owner' = "open" /\ writer' = "idle" /\ report' = "nothing"
          /\ UNCHANGED <<rows, queue, batch>>
      BY <1>4 DEF Opened
    <2>2. writer = "none" /\ batch = <<>> /\ queue = <<>>
      BY <2>1, <1>o DEF StoreInv, Written
    <2>3. Owed = <<>> /\ Owed' = <<>>
      BY <2>1, <2>2 DEF Owed
    <2>4. Contract!Open
      BY <2>1, <2>3 DEF Contract!Open
    <2> QED
      BY <2>4 DEF Contract!CacheNext
  <1>5. ASSUME NEW p \in Putters, PutRefused(p)
        PROVE  Contract!CacheNext \/ UNCHANGED Contract!cacheVars
    BY <1>5, <1>k DEF PutRefused
  <1>6. ASSUME NEW p \in Putters, NEW u \in Puts, PutBegins(p, u)
        PROVE  Contract!CacheNext \/ UNCHANGED Contract!cacheVars
    <2>1. owner = "open" /\ UNCHANGED <<rows, report, writer, batch, owner>>
      BY <1>6 DEF PutBegins
    <2>2. CASE Full
      BY <1>6, <2>2, <1>k DEF PutBegins
    <2>3. CASE ~Full
      <3>1. queue' = Append(queue, Write(u, TRUE)) /\ Write(u, TRUE) \in Items
        BY <1>6, <2>3, ItemType DEF PutBegins
      <3>2. writer \in {"idle", "flushing", "dead"}
        BY <2>1, <1>o, <1>w DEF StoreInv, Behind, StopTaken
      <3> QED
        BY <3>1, <3>2, <2>1, <1>a
    <2> QED
      BY <2>2, <2>3
  <1>7. ASSUME NEW p \in Putters, PutResumes(p)
        PROVE  Contract!CacheNext \/ UNCHANGED Contract!cacheVars
    <2>1. UNCHANGED <<rows, report, writer, batch, owner>>
      BY <1>7 DEF PutResumes
    <2>2. CASE Full
      BY <1>7, <2>2, <1>k DEF PutResumes
    <2>3. CASE ~Full
      <3> DEFINE item == Write(update[p], owner = "open")
      <3>1. queue' = Append(queue, item)
        BY <1>7, <2>3 DEF PutResumes
      <3>2. update[p] \in Puts /\ (owner = "open") \in BOOLEAN
        BY <1>0
      <3>3. item \in Items /\ item.accepted = (owner = "open")
        BY <3>2, ItemType
      <3>4. owner = "open" => writer \in {"idle", "flushing", "dead"}
        BY <1>o, <1>w DEF StoreInv, Behind, StopTaken
      <3> HIDE DEF item
      <3>5. item.accepted => writer \in {"idle", "flushing", "dead"}
        BY <3>3, <3>4
      <3> QED
        BY <3>1, <3>3, <3>5, <2>1, <1>a
    <2> QED
      BY <2>2, <2>3
  <1>8. ASSUME NEW p \in Putters, PutCancelled(p)
        PROVE  Contract!CacheNext \/ UNCHANGED Contract!cacheVars
    BY <1>8, <1>k DEF PutCancelled
  <1>9. CASE Take
    <2>1. writer = "idle" /\ UNCHANGED <<rows, owner, report>>
      BY <1>9 DEF Take
    <2>2. writer' \in {"idle", "flushing", "done"}
      BY <1>9, TakeType DEF StoreInv
    <2>3. CASE Owed' = Owed
      BY <2>1, <2>2, <2>3, <1>v
    <2>4. CASE \E n \in 1..Len(Owed) :
                 /\ Owed' = SubSeq(Owed, n + 1, Len(Owed))
                 /\ \A i \in 1..n : Owed[i] = Nothing
      <3>1. PICK n \in 1..Len(Owed) :
                 /\ Owed' = SubSeq(Owed, n + 1, Len(Owed))
                 /\ \A i \in 1..n : Owed[i] = Nothing
        BY <2>4
      <3> DEFINE front == SubSeq(Owed, 1, n)
      <3>2. /\ front \in Seq(Puts \cup {Nothing}) /\ Len(front) = n
            /\ \A i \in 1..n : front[i] = Owed[i]
        BY <1>0, SubSeqProperties
      <3> HIDE DEF front
      <3>3. Contract!Overlaid(rows, front) = rows
        BY <3>1, <3>2, <1>0, OverlaidNothing
      <3>4. rows' = Contract!Overlaid(rows, SubSeq(Owed, 1, n))
        BY <3>3, <2>1 DEF front
      <3> QED
        BY <3>1, <3>4, <2>1, <2>2, <1>s
    <2> QED
      BY <2>3, <2>4, <1>9, TakeOwes DEF StoreInv
  <1>10. CASE Flush
    <2>1. /\ writer = "flushing" /\ writer' \in {"idle", "done"} /\ UNCHANGED <<owner, report>>
      BY <1>10 DEF Flush
    <2>2. PICK n \in 1..Len(Owed) :
           /\ rows' = Contract!Overlaid(rows, SubSeq(Owed, 1, n))
           /\ Owed' = SubSeq(Owed, n + 1, Len(Owed))
      BY <1>10, FlushOwes DEF StoreInv
    <2> QED
      BY <2>1, <2>2, <1>s
  <1>11. CASE FlushFails
    <2>1. /\ writer = "flushing" /\ writer' = "dead"
          /\ UNCHANGED <<rows, queue, batch, owner, report>>
      BY <1>11 DEF FlushFails
    <2>2. Owed' = Owed
      BY <2>1 DEF Owed
    <2>3. Contract!Break
      BY <2>1, <2>2, <1>o DEF Contract!Break
    <2> QED
      BY <2>3 DEF Contract!CacheNext
  <1>12. ASSUME PutStop, UNCHANGED <<rows, report, writer, batch>>, Opn(owner)
         PROVE  Contract!CacheNext \/ UNCHANGED Contract!cacheVars
    <2>1. CASE Full
      <3>1. queue' = queue /\ owner' = "queueing"
        BY <1>12, <2>1 DEF PutStop
      <3> QED
        BY <3>1, <1>12, <1>k
    <2>2. CASE ~Full
      <3>1. queue' = Append(queue, Stop) /\ owner' = "joining"
        BY <1>12, <2>2 DEF PutStop
      <3>2. Stop \in Items /\ ~Stop.accepted
        BY ItemType
      <3> QED
        BY <3>1, <3>2, <1>12, <1>a
    <2> QED
      BY <2>1, <2>2
  <1>13. CASE StopBegins
    BY <1>13, <1>12 DEF StopBegins
  <1>14. CASE StopResumes
    <2>1. owner = "queueing"
      BY <1>14, WokenWaiters DEF StopResumes, StoreInv, Lined
    <2> QED
      BY <2>1, <1>14, <1>12 DEF StopResumes
  <1>15. CASE StopCancelled
    BY <1>15, <1>k DEF StopCancelled
  <1>16. CASE StopReturns
    <2>1. /\ owner = "joining" /\ owner' = "closed" /\ writer \in {"done", "dead"}
          /\ writer' = "none" /\ rows' = rows
          /\ \/ report' = "cancelled"
             \/ writer = "done" /\ report' = "kept"
             \/ report' = "failed"
      BY <1>16 DEF StopReturns
    <2>2. Owed' = <<>> /\ (writer = "done" => Owed = <<>>)
      BY <2>1 DEF Owed
    <2>3. Contract!Close
      BY <2>1, <2>2 DEF Contract!Close
    <2> QED
      BY <2>3 DEF Contract!CacheNext
  <1>17. CASE StoreDies
    <2>1. owner' = "closed" /\ writer' = "none" /\ report' = "nothing" /\ rows' = rows
      BY <1>17 DEF StoreDies
    <2>2. Owed' = <<>>
      BY <2>1 DEF Owed
    <2>3. Contract!Die
      BY <2>1, <2>2 DEF Contract!Die
    <2> QED
      BY <2>3 DEF Contract!CacheNext
  <1>18. CASE UNCHANGED storeVars
    BY <1>18, <1>k DEF storeVars
  <1> QED
    BY <1>1, <1>2, <1>3, <1>4, <1>5, <1>6, <1>7, <1>8, <1>9, <1>10, <1>11, <1>13,
       <1>14, <1>15, <1>16, <1>17, <1>18 DEF StoreNext, Put

\* Whatever overlaps, is rejected, cancelled, fails or dies, the store is the
\* one that ResultCache describes (cache_store.py, lines 131-150 and 289-325).
THEOREM StoreKeepsItsPromise == StoreSpec => IsResultCache
  <1> QED
    BY ContractInit, ContractStep, StoreInvInit, StoreInvStep, PTL
       DEF StoreSpec, IsResultCache, Contract!CacheSpec
=============================================================================
