------------------------- MODULE RepositoryRefresh -------------------------
(***************************************************************************)
(* What a cycle knows of the repository's own code: the code index and the *)
(* self-map that SpiralEngine._refresh_repository_artifacts brings up to   *)
(* date at the start of every step (src/src/core/spiral_engine.py, with    *)
(* static_analysis.py and code_intelligence.py).                           *)
(*                                                                         *)
(* A refresh lists the Python files, takes their modification times and    *)
(* sizes, compares these with the snapshot of the last refresh, reads the  *)
(* files that differ for the index, reads some of them again for the       *)
(* self-map, and puts snapshot, index and self-map into the memory at      *)
(* once.  What did not differ keeps its entries.  Each stage has a crew of *)
(* workers and a queue; other processes may write between any two steps.   *)
(*                                                                         *)
(* All contents have one size, every write gets a time of its own, and a   *)
(* restored version the time of its copy.  The symbols and the imports of  *)
(* a file are represented by the content they were read from.  The order   *)
(* in which the workers get to the files is left open.                     *)
(***************************************************************************)
EXTENDS Naturals, FiniteSets

CONSTANTS
  Files,      \* the Python files under src/ that no configuration ignores
  Mapped,     \* those of them that the self-map is about
  Contents,   \* what a file may hold
  Original,   \* what every file holds at first and in the version
  Foreign,    \* the content that is no UTF-8
  Absent,     \* no such file
  Nothing,    \* the entry of a file that could not be read: an empty list
  None,       \* no entry
  Crew,       \* the most workers of a stage (ast_max_workers)
  MaxWrites,  \* bound on the writes of the tree
  MaxErrors   \* bound on the I/O errors and on the broken process pools

ASSUME RefreshAssumption ==
  /\ IsFiniteSet(Files) /\ Mapped \subseteq Files
  /\ {Original, Foreign} \subseteq Contents /\ Original # Foreign
  /\ {Absent, Nothing, None} \cap Contents = {}
  /\ Absent # Nothing /\ Absent # None /\ Nothing # None
  /\ Crew \in Nat \ {0} /\ MaxWrites \in Nat /\ MaxErrors \in Nat

VARIABLES
  content, mtime,  \* the tree
  clock,           \* the writes so far: the time of the latest one
  memory,          \* the three artifacts in the kernel's memory
  saved,           \* and in the state file
  stage,           \* where the refresh is
  fresh,           \* file -> its time in the snapshot under way, or None
  index, map,      \* file -> its entry in the index and the self-map under way
  left,            \* the paths in the queue of the stage
  crew, alive,     \* the workers the stage began with, and those left of them
  broken,          \* the process pool is broken
  errors,
  \* What the properties remember of the past:
  disturbed,       \* the tree was written since the refresh began
  torn,            \* the files written between their stat and their read
  turnedBack       \* the files restored, with the times of their copies

treeVars == <<content, mtime, clock>>
draftVars == <<fresh, index, map>>
crewVars == <<left, crew, alive>>
pastVars == <<disturbed, torn, turnedBack>>
vars == <<treeVars, memory, saved, stage, draftVars, crewVars, broken, errors,
          pastVars>>

Entries == (Contents \ {Foreign}) \cup {Nothing, None}
Stamps == [Files -> (0..MaxWrites) \cup {None}]
Artifacts == [snapshot : Stamps, index : [Files -> Entries],
              map : [Files -> Entries]]
Blank == [f \in Files |-> None]

TypeOK ==
  /\ content \in [Files -> Contents \cup {Absent}]
  /\ mtime \in [Files -> 0..MaxWrites] /\ clock \in 0..MaxWrites
  /\ memory \in Artifacts /\ saved \in Artifacts
  /\ stage \in {"idle", "stat", "index", "map"}
  /\ fresh \in Stamps
  /\ index \in [Files -> Entries] /\ map \in [Files -> Entries]
  /\ left \subseteq Files /\ crew \in 0..Crew /\ alive \in 0..crew
  /\ broken \in BOOLEAN /\ errors \in 0..MaxErrors
  /\ disturbed \in BOOLEAN /\ torn \cup turnedBack \subseteq Files

\* The first cycle of a kernel, whose memory has no artifacts yet.
Init ==
  /\ content = [f \in Files |-> Original] /\ mtime = [f \in Files |-> 0]
  /\ clock = 0
  /\ memory = [snapshot |-> Blank, index |-> Blank, map |-> Blank]
  /\ saved = memory
  /\ stage = "idle" /\ fresh = Blank /\ index = Blank /\ map = Blank
  /\ left = {} /\ crew = 0 /\ alive = 0 /\ broken = FALSE /\ errors = 0
  /\ disturbed = FALSE /\ torn = {} /\ turnedBack = {}

-----------------------------------------------------------------------------
(* The tree, the state file and the process pool.                          *)

Write(f) ==
  /\ clock < MaxWrites
  /\ \E c \in (Contents \cup {Absent}) \ {content[f]} :
       content' = [content EXCEPT ![f] = c]
  /\ clock' = clock + 1 /\ mtime' = [mtime EXCEPT ![f] = clock + 1]
  /\ disturbed' = (stage # "idle")
  /\ UNCHANGED <<memory, saved, stage, draftVars, crewVars, broken, errors,
                 torn, turnedBack>>

\* The engine restores a version in a cycle, after its refresh.
RestoreFile(f) ==
  /\ stage = "idle" /\ <<content[f], mtime[f]>> # <<Original, 0>>
  /\ content' = [content EXCEPT ![f] = Original]
  /\ mtime' = [mtime EXCEPT ![f] = 0]
  /\ turnedBack' = turnedBack \cup {f}
  /\ UNCHANGED <<clock, memory, saved, stage, draftVars, crewVars, broken,
                 errors, disturbed, torn>>

Save ==
  /\ stage = "idle" /\ saved # memory
  /\ saved' = memory
  /\ UNCHANGED <<treeVars, memory, stage, draftVars, crewVars, broken, errors,
                 pastVars>>

Error == errors < MaxErrors /\ errors' = errors + 1

\* A process of the pool is killed: run_cpu raises BrokenProcessPool from
\* now on, until the session's pool is shut down.
PoolBreaks ==
  /\ ~broken /\ broken' = TRUE /\ Error
  /\ UNCHANGED <<treeVars, memory, saved, stage, draftVars, crewVars, pastVars>>

SessionRestarts ==
  /\ stage = "idle" /\ broken
  /\ broken' = FALSE
  /\ UNCHANGED <<treeVars, memory, saved, stage, draftVars, crewVars, errors,
                 pastVars>>

-----------------------------------------------------------------------------
(* The stages of a refresh.                                                *)

Workers(paths) ==
  IF Cardinality(paths) < Crew THEN Cardinality(paths) ELSE Crew

Queue(paths) ==
  /\ left' = paths /\ crew' = Workers(paths) /\ alive' = Workers(paths)

\* A worker that is alive takes the path from the queue.
Takes(f) == f \in left /\ alive > 0 /\ left' = left \ {f}

\* The refresh raises or is cancelled: the memory stays as it was.
GivesUp ==
  /\ stage' = "idle" /\ left' = {} /\ crew' = 0 /\ alive' = 0
  /\ fresh' = Blank /\ index' = Blank /\ map' = Blank /\ disturbed' = FALSE

Begin ==
  /\ stage = "idle"
  /\ stage' = "stat" /\ fresh' = Blank
  /\ Queue({f \in Files : content[f] # Absent})
  /\ UNCHANGED <<treeVars, memory, saved, index, map, broken, errors, pastVars>>

\* A file that is gone is no part of the snapshot.
Stat(f) ==
  /\ stage = "stat" /\ Takes(f)
  /\ fresh' = [fresh EXCEPT ![f] = IF content[f] = Absent THEN None ELSE mtime[f]]
  /\ UNCHANGED <<treeVars, memory, saved, stage, index, map, crew, alive, broken,
                 errors, pastVars>>

\* Neither is one whose stat raises an OSError.
StatFails(f) ==
  /\ stage = "stat" /\ Takes(f) /\ Error
  /\ UNCHANGED <<treeVars, memory, saved, stage, draftVars, crew, alive, broken,
                 pastVars>>

\* The files that are new or have another time than in the last snapshot.
Changed == {f \in Files : fresh[f] # None /\ fresh[f] # memory.snapshot[f]}
Kept(entries) == [f \in Files |-> IF fresh[f] = None THEN None ELSE entries[f]]

\* Mutant of ScanEnds: the snapshot is stored when it is complete.
ScanEndsStores ==
  /\ stage = "stat" /\ left = {} /\ alive = crew
  /\ stage' = "index" /\ Queue(Changed)
  /\ index' = Kept(memory.index)
  /\ memory' = [memory EXCEPT !.snapshot = fresh]
  /\ UNCHANGED <<treeVars, saved, fresh, map, broken, errors, pastVars>>

\* queue.join returns when every worker has taken the end of the queue.
ScanEnds ==
  /\ stage = "stat" /\ left = {} /\ alive = crew
  /\ stage' = "index" /\ Queue(Changed)
  /\ index' = Kept(memory.index)
  /\ UNCHANGED <<treeVars, memory, saved, fresh, map, broken, errors, pastVars>>

\* The file is read as it is now, and parsed in the process pool.
Readable(f) == content[f] \notin {Absent, Foreign} /\ ~broken
Unreadable(f) == (content[f] = Absent /\ UNCHANGED errors) \/ Error
Raises(f) == content[f] = Foreign \/ (content[f] # Absent /\ broken)
Slips(f) == torn' = IF mtime[f] = fresh[f] THEN torn ELSE torn \cup {f}

Indexed(f) ==
  /\ stage = "index" /\ Takes(f) /\ Readable(f) /\ Slips(f)
  /\ index' = [index EXCEPT ![f] = content[f]]
  /\ UNCHANGED <<treeVars, memory, saved, stage, fresh, map, crew, alive, broken,
                 errors, disturbed, turnedBack>>

\* An OSError counts as a file without symbols.
IndexUnread(f) ==
  /\ stage = "index" /\ Takes(f) /\ Unreadable(f) /\ Slips(f)
  /\ index' = [index EXCEPT ![f] = Nothing]
  /\ UNCHANGED <<treeVars, memory, saved, stage, fresh, map, crew, alive, broken,
                 disturbed, turnedBack>>

\* Mutant of IndexRaises: the index waits for its queue as the others do.
IndexRaisesUnseen(f) ==
  /\ stage = "index" /\ Takes(f) /\ Raises(f)
  /\ alive' = alive - 1
  /\ UNCHANGED <<treeVars, memory, saved, stage, draftVars, crew, broken, errors,
                 pastVars>>

\* Any other exception goes through gather to the step.  The other workers
\* go on, for a result that nobody waits for.
IndexRaises(f) ==
  /\ stage = "index" /\ f \in left /\ Raises(f)
  /\ GivesUp
  /\ UNCHANGED <<treeVars, memory, saved, broken, errors, torn, turnedBack>>

IndexEnds ==
  /\ stage = "index" /\ left = {} /\ alive = crew
  /\ stage' = "map" /\ Queue(Changed \cap Mapped)
  /\ map' = Kept(memory.map)
  /\ UNCHANGED <<treeVars, memory, saved, fresh, index, broken, errors, pastVars>>

Imports(f) ==
  /\ stage = "map" /\ Takes(f) /\ Readable(f) /\ Slips(f)
  /\ map' = [map EXCEPT ![f] = content[f]]
  /\ UNCHANGED <<treeVars, memory, saved, stage, fresh, index, crew, alive,
                 broken, errors, disturbed, turnedBack>>

ImportsUnread(f) ==
  /\ stage = "map" /\ Takes(f) /\ Unreadable(f) /\ Slips(f)
  /\ map' = [map EXCEPT ![f] = Nothing]
  /\ UNCHANGED <<treeVars, memory, saved, stage, fresh, index, crew, alive,
                 broken, disturbed, turnedBack>>

\* Mutant of ImportsRaise: a worker that raised goes on.
ImportsRaiseAnyway(f) ==
  /\ stage = "map" /\ f \in left /\ Raises(f)
  /\ alive' = alive - 1
  /\ UNCHANGED <<treeVars, memory, saved, stage, draftVars, left, crew, broken,
                 errors, pastVars>>

\* The worker is gone, and nobody hears of it before the queue is done.
ImportsRaise(f) ==
  /\ stage = "map" /\ Takes(f) /\ Raises(f)
  /\ alive' = alive - 1
  /\ UNCHANGED <<treeVars, memory, saved, stage, draftVars, crew, broken, errors,
                 pastVars>>

\* update_memory_many: the new artifacts take the place of the old ones.
MapEnds ==
  /\ stage = "map" /\ left = {} /\ alive = crew
  /\ memory' = [snapshot |-> fresh, index |-> index, map |-> map]
  /\ GivesUp
  /\ UNCHANGED <<treeVars, saved, broken, errors, torn, turnedBack>>

\* The workers of all stages are cancelled and awaited.
Cancel ==
  /\ stage # "idle" /\ GivesUp
  /\ UNCHANGED <<treeVars, memory, saved, broken, errors, torn, turnedBack>>

\* The process dies, and the next one loads the state file.
Die ==
  /\ memory' = saved /\ broken' = FALSE /\ GivesUp
  /\ UNCHANGED <<treeVars, saved, errors, torn, turnedBack>>

-----------------------------------------------------------------------------
Around == \/ \E f \in Files : Write(f) \/ RestoreFile(f)
          \/ Save \/ PoolBreaks \/ SessionRestarts

Progress ==
  \/ ScanEnds \/ IndexEnds \/ MapEnds
  \/ \E f \in Files :
       \/ Stat(f) \/ StatFails(f)
       \/ Indexed(f) \/ IndexUnread(f) \/ IndexRaises(f)
       \/ Imports(f) \/ ImportsUnread(f) \/ ImportsRaise(f)

Next == Around \/ Begin \/ Progress \/ Cancel \/ Die

\* Every awaited call ends.
Spec == Init /\ [][Next]_vars /\ WF_vars(Progress)

-----------------------------------------------------------------------------
\* The accidents that only together leave a wrong entry of a file in force.
Poisoned == torn \cap turnedBack

\* The artifacts say of f what it holds now; a file that could not be read
\* is in them as an empty one.
Describes(m, f) ==
  /\ m.index[f] \in {content[f], Nothing}
  /\ m.map[f] \in IF f \in Mapped THEN {content[f], Nothing} ELSE {None}

\* When a refresh stores its artifacts and nobody wrote while it ran, they
\* describe the files of its snapshot as they are, also what earlier
\* refreshes, that failed, were cancelled, met a write or belonged to a
\* process that died, have left of them.
ArtifactsAreCurrent ==
  [][MapEnds =>
       disturbed \/
       \A f \in Files \ Poisoned :
         IF memory'.snapshot[f] # None THEN Describes(memory', f)
         ELSE memory'.index[f] = None /\ memory'.map[f] = None]_vars

\* Somebody waits for a queue one of whose workers is gone.
Stalled == stage = "map" /\ alive < crew

\* A refresh ends; only an exception other than OSError in a worker of the
\* self-map leaves it waiting for good (static_analysis.py lines 198-216).
RefreshEnds == stage # "idle" ~> stage = "idle" \/ Stalled
=============================================================================
