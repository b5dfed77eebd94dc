------------------------------ MODULE RepoHash ------------------------------
(***************************************************************************)
(* The name of the working tree under which results are cached, from       *)
(* src/src/core/versioning.py (get_repo_hash_async).                       *)
(*                                                                         *)
(* Callers share one computation: whoever comes while it is registered     *)
(* waits for its result.  The computation asks git for HEAD, then whether  *)
(* the tree differs from it; a clean tree is named by the commit, another  *)
(* one by the contents of its files.  These are not all read: a file whose *)
(* modification time and size are those of .sif/repo_hash_state.json keeps *)
(* the content recorded there.  Stat and read are two steps, and other     *)
(* processes may write between any two steps.                              *)
(*                                                                         *)
(* All contents here have one size, the case in which a change shows in    *)
(* the time alone.  Every write gets a time of its own, a restored version *)
(* the time of its copy (copy_file keeps it, copy2).  A hash is the value  *)
(* it was computed from.  Paths that the ignore patterns exclude, and the  *)
(* state file itself, are no Files.                                        *)
(***************************************************************************)
EXTENDS Naturals, FiniteSets

CONSTANTS
  Files,       \* what the scan finds: the paths no ignore pattern excludes
  GitIgnored,  \* the Files that .gitignore names
  Contents,    \* what a file may hold
  Original,    \* what every file holds at first, in HEAD and in the version
  Empty,       \* the content of zero length
  Absent,      \* no such file
  Unread,      \* the place of a content that is still to be read
  None,        \* no entry in the state file, no commit, no name
  Callers,     \* the coroutines that ask for the hash
  MaxWrites,   \* bound on the writes of the tree
  MaxCalls     \* bound on the calls

ASSUME RepoHashAssumption ==
  /\ GitIgnored \subseteq Files
  /\ {Original, Empty} \subseteq Contents
  /\ {Absent, Unread, None} \cap Contents = {}
  /\ Absent # Unread /\ Absent # None /\ Unread # None
  /\ None \notin [mtime : 0..MaxWrites, content : Contents \cup {Unread}]
  /\ MaxWrites \in Nat /\ MaxCalls \in Nat

VARIABLES
  content, mtime,  \* the tree
  head,            \* the contents that HEAD commits
  clock,           \* the writes so far: the time of the latest one
  stateFile,       \* file -> entry of repo_hash_state.json, or None
  registered,      \* the registry holds the task
  pc,              \* where the task is
  base,            \* the commit that rev-parse answered, or None
  left,            \* the files the scan has not seen yet
  entry,           \* file -> entry the task will save, or None
  name,            \* what the task returned
  caller, got,     \* caller -> where it is, and what it was given
  calls,           \* calls so far
  \* What the properties remember of the past:
  disturbed,       \* a write or a commit since the task began
  torn,            \* a file was written between its stat and its read
  turnedBack,      \* a version was restored, with the times of its copies
  lost             \* what git status had printed was lost

treeVars == <<content, mtime, head, clock>>
taskVars == <<registered, pc, base, left, entry, name>>
callVars == <<caller, got, calls>>
pastVars == <<disturbed, torn, turnedBack, lost>>
vars == <<treeVars, stateFile, taskVars, callVars, pastVars>>

Tracked == Files \ GitIgnored
Committed(tree) == [f \in Tracked |-> tree[f]]
Commits == [Tracked -> Contents \cup {Absent}]
Entries == [mtime : 0..MaxWrites, content : Contents]
HalfRead == [mtime : 0..MaxWrites, content : Contents \cup {Unread}]
Works == [Files -> Contents \cup {Absent}]
Names == [commit : Commits \cup {None}, work : Works \cup {None}]
Working == {"head", "status", "scan", "reread"}

TypeOK ==
  /\ content \in Works /\ mtime \in [Files -> 0..MaxWrites]
  /\ head \in Commits /\ clock \in 0..MaxWrites
  /\ stateFile \in [Files -> Entries \cup {None}]
  /\ registered \in BOOLEAN
  /\ pc \in Working \cup {"idle", "done", "failed"}
  /\ base \in Commits \cup {None} /\ left \subseteq Files
  /\ entry \in [Files -> HalfRead \cup {None}]
  /\ name \in Names \cup {None}
  /\ caller \in [Callers -> {"idle", "waiting", "returned", "raised"}]
  /\ got \in [Callers -> Names \cup {None}] /\ calls \in 0..MaxCalls
  /\ {disturbed, torn, turnedBack, lost} \subseteq BOOLEAN

Init ==
  /\ content = [f \in Files |-> Original] /\ mtime = [f \in Files |-> 0]
  /\ head = [f \in Tracked |-> Original] /\ clock = 0
  /\ stateFile = [f \in Files |-> None]
  /\ registered = FALSE /\ pc = "idle" /\ base = None /\ left = {}
  /\ entry = [f \in Files |-> None] /\ name = None
  /\ caller = [c \in Callers |-> "idle"] /\ got = [c \in Callers |-> None]
  /\ calls = 0
  /\ disturbed = FALSE /\ torn = FALSE /\ turnedBack = FALSE /\ lost = FALSE

-----------------------------------------------------------------------------
(* The tree and the state file change without the computation.             *)

\* Somebody creates, changes or removes a file.
Write(f) ==
  /\ clock < MaxWrites
  /\ \E c \in (Contents \cup {Absent}) \ {content[f]} :
       content' = [content EXCEPT ![f] = c]
  /\ clock' = clock + 1
  /\ mtime' = [mtime EXCEPT ![f] = clock + 1]
  /\ disturbed' = TRUE
  /\ UNCHANGED <<head, stateFile, taskVars, callVars, torn, turnedBack, lost>>

Commit ==
  /\ head # Committed(content)
  /\ head' = Committed(content)
  /\ disturbed' = TRUE
  /\ UNCHANGED <<content, mtime, clock, stateFile, taskVars, callVars, torn,
                 turnedBack, lost>>

\* restore_version_async puts a copy of the first tree back.  The engine does
\* one thing after the other: it restores nothing while it waits for a hash.
RestoreFile(f) ==
  /\ pc \notin Working /\ <<content[f], mtime[f]>> # <<Original, 0>>
  /\ content' = [content EXCEPT ![f] = Original]
  /\ mtime' = [mtime EXCEPT ![f] = 0]
  /\ disturbed' = TRUE /\ turnedBack' = TRUE
  /\ UNCHANGED <<head, clock, stateFile, taskVars, callVars, torn, lost>>

\* The state file is removed, is no JSON, or is of other ignore patterns.
StateForgotten ==
  /\ pc = "idle" /\ \E f \in Files : stateFile[f] # None
  /\ stateFile' = [f \in Files |-> None]
  /\ UNCHANGED <<treeVars, taskVars, callVars, pastVars>>

-----------------------------------------------------------------------------
(* The callers.                                                            *)

MayCall(c) == caller[c] # "waiting" /\ calls < MaxCalls

\* No task in the registry: create one and wait for it.
CallBegins(c) ==
  /\ MayCall(c) /\ ~registered
  /\ registered' = TRUE /\ pc' = "head" /\ base' = None /\ left' = {}
  /\ entry' = [f \in Files |-> None] /\ name' = None
  /\ caller' = [caller EXCEPT ![c] = "waiting"]
  /\ got' = [got EXCEPT ![c] = None] /\ calls' = calls + 1
  /\ disturbed' = FALSE
  /\ UNCHANGED <<treeVars, stateFile, torn, turnedBack, lost>>

\* The task in the registry is still running: wait for it too.
CallJoins(c) ==
  /\ MayCall(c) /\ registered /\ pc \in Working
  /\ caller' = [caller EXCEPT ![c] = "waiting"]
  /\ got' = [got EXCEPT ![c] = None] /\ calls' = calls + 1
  /\ UNCHANGED <<treeVars, stateFile, taskVars, pastVars>>

\* The task is done, its callback that clears the registry has not run yet:
\* the caller clears it, and is given the result as it is.
CallFindsDone(c) ==
  /\ MayCall(c) /\ registered /\ pc \in {"done", "failed"}
  /\ caller' = [caller EXCEPT ![c] = IF pc = "done" THEN "returned"
                                                    ELSE "raised"]
  /\ got' = [got EXCEPT ![c] = name] /\ calls' = calls + 1
  /\ registered' = FALSE
  /\ UNCHANGED <<treeVars, stateFile, pc, base, left, entry, name, pastVars>>

\* The task is shielded from the cancellation of those who wait for it.
CallCancelled(c) ==
  /\ caller[c] = "waiting"
  /\ caller' = [caller EXCEPT ![c] = "raised"]
  /\ UNCHANGED <<treeVars, stateFile, taskVars, got, calls, pastVars>>

\* The done callback.
Cleanup ==
  /\ registered /\ pc \in {"done", "failed"}
  /\ registered' = FALSE /\ pc' = "idle"
  /\ UNCHANGED <<treeVars, stateFile, base, left, entry, name, callVars,
                 pastVars>>

-----------------------------------------------------------------------------
(* The computation.                                                        *)

Answer(n) ==
  /\ pc' = "done" /\ name' = n
  /\ caller' = [c \in Callers |-> IF caller[c] = "waiting" THEN "returned"
                                                           ELSE caller[c]]
  /\ got' = [c \in Callers |-> IF caller[c] = "waiting" THEN n ELSE got[c]]
  /\ UNCHANGED calls

\* git rev-parse HEAD: no answer when git is missing, fails or is too slow.
RevParse ==
  /\ pc = "head"
  /\ \/ base' = head /\ pc' = "status" /\ UNCHANGED left
     \/ pc' = "scan" /\ left' = Files /\ UNCHANGED base
  /\ UNCHANGED <<treeVars, stateFile, registered, entry, name, callVars,
                 pastVars>>

Clean == Committed(content) = head

StatusClean ==
  /\ pc = "status" /\ Clean
  /\ Answer([commit |-> base, work |-> None])
  /\ UNCHANGED <<treeVars, stateFile, registered, base, left, entry, pastVars>>

StatusDirty ==
  /\ pc = "status" /\ ~Clean
  /\ pc' = "scan" /\ left' = Files
  /\ UNCHANGED <<treeVars, stateFile, registered, base, entry, name, callVars,
                 pastVars>>

\* The name is then that of a tree without git.
StatusFails ==
  /\ pc = "status"
  /\ pc' = "scan" /\ left' = Files /\ base' = None
  /\ UNCHANGED <<treeVars, stateFile, registered, entry, name, callVars,
                 pastVars>>

\* The 3 s end after git status printed its lines and before it exits with 0:
\* the cancelled communicate drops what it had read, the second one gives the
\* empty rest, and only returncode and stdout are looked at.
StatusLost ==
  /\ pc = "status" /\ ~Clean
  /\ lost' = TRUE
  /\ Answer([commit |-> base, work |-> None])
  /\ UNCHANGED <<treeVars, stateFile, registered, base, left, entry, disturbed,
                 torn, turnedBack>>

\* Mutant of Kept: the presence of an entry is enough.
KeptAlways(f) == stateFile[f] # None

Kept(f) == stateFile[f] # None /\ stateFile[f].mtime = mtime[f]

\* The walk comes to f.
Scan(f) ==
  /\ pc = "scan" /\ f \in left
  /\ left' = left \ {f}
  /\ entry' = [entry EXCEPT ![f] =
       IF content[f] = Absent THEN None
       ELSE IF Kept(f) THEN stateFile[f]
       ELSE [mtime |-> mtime[f], content |-> Unread]]
  /\ UNCHANGED <<treeVars, stateFile, registered, pc, base, name, callVars,
                 pastVars>>

ScanEnds ==
  /\ pc = "scan" /\ left = {}
  /\ pc' = "reread"
  /\ UNCHANGED <<treeVars, stateFile, registered, base, left, entry, name,
                 callVars, pastVars>>

Unseen == {f \in Files : entry[f] # None /\ entry[f].content = Unread}

\* A worker reads f; the time stays that of the scan.  A file that is gone
\* counts as an empty one.
Reread(f) ==
  /\ pc = "reread" /\ f \in Unseen
  /\ entry' = [entry EXCEPT ![f].content =
       IF content[f] = Absent THEN Empty ELSE content[f]]
  /\ torn' = (torn \/ mtime[f] # entry[f].mtime)
  /\ UNCHANGED <<treeVars, stateFile, registered, pc, base, left, name,
                 callVars, disturbed, turnedBack, lost>>

WorkOf(e) == [f \in Files |-> IF e[f] = None THEN Absent ELSE e[f].content]

\* Mutant of Save: the workers are not awaited.
SaveEarly ==
  /\ pc = "reread"
  /\ stateFile' = entry
  /\ Answer([commit |-> base, work |-> WorkOf(entry)])
  /\ UNCHANGED <<treeVars, registered, base, left, entry, pastVars>>

\* The state file is written aside and renamed; then the hash is returned,
\* with that of the commit when git answered both questions.
Save ==
  /\ pc = "reread" /\ Unseen = {}
  /\ stateFile' = entry
  /\ Answer([commit |-> base, work |-> WorkOf(entry)])
  /\ UNCHANGED <<treeVars, registered, base, left, entry, pastVars>>

\* Reading the state file, the walk, a read or the save raises.
TaskFails ==
  /\ pc \in {"scan", "reread"}
  /\ pc' = "failed"
  /\ caller' = [c \in Callers |-> IF caller[c] = "waiting" THEN "raised"
                                                           ELSE caller[c]]
  /\ UNCHANGED <<treeVars, stateFile, registered, base, left, entry, name, got,
                 calls, pastVars>>

-----------------------------------------------------------------------------
Tree == \/ \E f \in Files : Write(f) \/ RestoreFile(f)
        \/ Commit \/ StateForgotten
Calls == \/ \E c \in Callers : \/ CallBegins(c) \/ CallJoins(c)
                               \/ CallFindsDone(c) \/ CallCancelled(c)
         \/ Cleanup
Compute == \/ RevParse \/ StatusClean \/ StatusDirty \/ StatusFails
           \/ StatusLost \/ ScanEnds \/ Save \/ TaskFails
           \/ \E f \in Files : Scan(f) \/ Reread(f)

Next == Tree \/ Calls \/ Compute

Spec == Init /\ [][Next]_vars

-----------------------------------------------------------------------------
\* The two accidents that only together put a wrong entry in force.
Poisoned == torn /\ turnedBack

\* An entry of the state file that the next scan would keep holds what the
\* file holds: the time read before the content never makes a later content
\* pass for an earlier one (lines 719-725 against 737-748), unless a file was
\* written between the two and then put back with the time it had before.
SavedEntriesFit ==
  \A f \in Files :
    /\ stateFile[f] # None /\ content[f] # Absent
    /\ stateFile[f].mtime = mtime[f]
    => stateFile[f].content = content[f] \/ Poisoned

\* n is a name of the tree as it is; a clean one says nothing of the files
\* that git ignores.
Describes(n) ==
  \/ n.work = None /\ n.commit = Committed(content)
  \/ n.work = content /\ n.commit \in {None, head}

\* Whoever is given a hash is given one of the tree before him, also when
\* the computation was another caller's, when it used the state file of
\* former ones, when these failed or git did not answer; unless somebody wrote
\* while it ran, git's answer was lost, or the state file is poisoned.
HashIsCurrent ==
  [][\A c \in Callers :
       caller[c] # "returned" /\ caller'[c] = "returned"
         => disturbed' \/ lost' \/ (torn' /\ turnedBack')
              \/ Describes(got'[c])]_vars
=============================================================================
