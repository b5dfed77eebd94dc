--------------------------- MODULE RepoHashProofs ---------------------------
(***************************************************************************)
(* Proofs about the hash of the repository, for every set of files and of  *)
(* callers and for any number of writes and calls: its types, that what    *)
(* the state file lets a scan keep is what the files hold, and that a hash *)
(* that is handed out names the tree.                                      *)
(***************************************************************************)
EXTENDS RepoHash, TLAPS

\* What a scan may keep of an entry of f: its time is no later than the latest
\* write, a time of 0 is that of the first content, and the time that the file
\* has now is that of its content.
EntryFits(e, f) ==
  /\ e.mtime <= clock
  /\ e.content # Unread =>
       /\ e.mtime = 0 => e.content = Original \/ torn
       /\ e.mtime = mtime[f] /\ content[f] # Absent =>
            e.content = content[f] \/ Poisoned

Dated == \A f \in Files : /\ mtime[f] <= clock
                          /\ mtime[f] = 0 => content[f] = Original

Recorded ==
  \A f \in Files : /\ stateFile[f] # None => EntryFits(stateFile[f], f)
                   /\ entry[f] # None => EntryFits(entry[f], f)

\* The walk found f as it is.
Seen(f) == IF content[f] = Absent THEN entry[f] = None
           ELSE entry[f] # None /\ entry[f].mtime = mtime[f]

\* What a computation knows that no write has disturbed.
Knows ==
  ~disturbed =>
    /\ pc \in Working => base \in {None, head}
    /\ pc = "status" => base = head
    /\ pc = "scan" => \A f \in Files \ left : Seen(f)
    /\ pc = "reread" => \A f \in Files : Seen(f)

\* The result that the next caller may find in the registry.
Named == pc = "done" => disturbed \/ lost \/ Poisoned \/ Describes(name)

IInv == TypeOK /\ Dated /\ Recorded /\ Knows /\ Named

-----------------------------------------------------------------------------
(* Types.                                                                  *)

\* The contents that a commit would take are a commit.
LEMMA CommitTyped ==
  ASSUME TypeOK
  PROVE  Committed(content) \in Commits
  <1>1. content \in [Files -> Contents \cup {Absent}] /\ Tracked \subseteq Files
    BY DEF TypeOK, Works, Tracked
  <1> QED
    BY <1>1 DEF Committed, Commits

\* An entry with a content is one that the state file may hold.
LEMMA ReadTyped ==
  ASSUME TypeOK, Unseen = {}
  PROVE  /\ entry \in [Files -> Entries \cup {None}]
         /\ WorkOf(entry) \in Works
  <1>1. entry \in [Files -> HalfRead \cup {None}]
    BY DEF TypeOK
  <1>2. ASSUME NEW f \in Files, entry[f] # None
       PROVE  entry[f] \in Entries /\ entry[f].content \in Contents
    <2>1. entry[f] \in HalfRead
      BY <1>1, <1>2
    <2>2. entry[f].content # Unread
      BY <1>2 DEF Unseen
    <2> QED
      BY <2>1, <2>2 DEF HalfRead, Entries
  <1>3. entry \in [Files -> Entries \cup {None}]
    BY <1>1, <1>2
  <1>4. ASSUME NEW f \in Files
       PROVE  (IF entry[f] = None THEN Absent ELSE entry[f].content)
                \in Contents \cup {Absent}
    BY <1>2
  <1>5. WorkOf(entry) \in Works
    BY <1>4, Zenon DEF WorkOf, Works
  <1> QED
    BY <1>3, <1>5

\* An answer keeps the types of what the callers have.
LEMMA AnswerTyped ==
  ASSUME TypeOK, NEW n \in Names, Answer(n)
  PROVE  /\ pc' = "done" /\ name' \in Names
         /\ caller' \in [Callers -> {"idle", "waiting", "returned", "raised"}]
         /\ got' \in [Callers -> Names \cup {None}] /\ calls' \in 0..MaxCalls
  BY DEF TypeOK, Answer

\* The invariant holds at the start.
LEMMA InitInv == Init => IInv
  <1> SUFFICES ASSUME Init PROVE IInv
    OBVIOUS
  <1>1. TypeOK
    <2>1. content \in Works /\ head \in Commits
      BY RepoHashAssumption DEF Init, Works, Commits
    <2>2. /\ mtime \in [Files -> 0..MaxWrites] /\ clock \in 0..MaxWrites
          /\ calls \in 0..MaxCalls
      BY RepoHashAssumption DEF Init
    <2>3. /\ stateFile \in [Files -> Entries \cup {None}]
          /\ entry \in [Files -> HalfRead \cup {None}]
      BY DEF Init
    <2>4. /\ caller \in [Callers -> {"idle", "waiting", "returned", "raised"}]
          /\ got \in [Callers -> Names \cup {None}]
      BY DEF Init
    <2> QED
      BY <2>1, <2>2, <2>3, <2>4 DEF Init, TypeOK
  <1>2. Dated /\ Recorded /\ Knows /\ Named
    BY RepoHashAssumption DEF Init, Dated, Recorded, Knows, Named, Working
  <1> QED
    BY <1>1, <1>2 DEF IInv

\* Every step keeps the types.
LEMMA TypeStep ==
  ASSUME TypeOK, [Next]_vars
  PROVE  TypeOK'
  <1>1. ASSUME UNCHANGED vars
       PROVE  TypeOK'
    BY <1>1 DEF TypeOK, vars, treeVars, taskVars, callVars, pastVars
  <1>2. ASSUME NEW f \in Files, Write(f)
       PROVE  TypeOK'
    <2>1. clock' \in 0..MaxWrites
      BY <1>2, RepoHashAssumption DEF Write, TypeOK
    <2>2. content' \in Works
      BY <1>2 DEF Write, TypeOK, Works
    <2>3. mtime' \in [Files -> 0..MaxWrites]
      <3>1. mtime' = [mtime EXCEPT ![f] = clock'] /\ mtime \in [Files -> 0..MaxWrites]
        BY <1>2 DEF Write, TypeOK
      <3> QED
        BY <2>1, <3>1
    <2>4. /\ UNCHANGED <<head, stateFile, taskVars, callVars, torn, turnedBack, lost>>
          /\ disturbed' = TRUE
      BY <1>2 DEF Write
    <2> QED
      BY <2>1, <2>2, <2>3, <2>4 DEF TypeOK, taskVars, callVars
  <1>3. ASSUME NEW f \in Files, RestoreFile(f)
       PROVE  TypeOK'
    <2>1. content' \in Works
      BY <1>3, RepoHashAssumption DEF RestoreFile, TypeOK, Works
    <2>2. mtime' \in [Files -> 0..MaxWrites]
      BY <1>3, RepoHashAssumption DEF RestoreFile, TypeOK
    <2>3. /\ UNCHANGED <<head, clock, stateFile, taskVars, callVars, torn, lost>>
          /\ disturbed' = TRUE /\ turnedBack' = TRUE
      BY <1>3 DEF RestoreFile
    <2> QED
      BY <2>1, <2>2, <2>3 DEF TypeOK, taskVars, callVars
  <1>4. ASSUME Commit
       PROVE  TypeOK'
    BY <1>4, CommitTyped DEF Commit, TypeOK, taskVars, callVars
  <1>5. ASSUME StateForgotten
       PROVE  TypeOK'
    BY <1>5 DEF StateForgotten, TypeOK, treeVars, taskVars, callVars, pastVars
  <1>6. ASSUME NEW c \in Callers, CallBegins(c)
       PROVE  TypeOK'
    <2>1. calls' \in 0..MaxCalls
      BY <1>6, RepoHashAssumption DEF CallBegins, MayCall, TypeOK
    <2> QED
      BY <1>6, <2>1 DEF CallBegins, TypeOK, treeVars, Working
  <1>7. ASSUME NEW c \in Callers, CallJoins(c)
       PROVE  TypeOK'
    <2>1. calls' \in 0..MaxCalls
      BY <1>7, RepoHashAssumption DEF CallJoins, MayCall, TypeOK
    <2> QED
      BY <1>7, <2>1 DEF CallJoins, TypeOK, treeVars, taskVars, pastVars
  <1>8. ASSUME NEW c \in Callers, CallFindsDone(c)
       PROVE  TypeOK'
    <2>1. calls' \in 0..MaxCalls
      BY <1>8, RepoHashAssumption DEF CallFindsDone, MayCall, TypeOK
    <2> QED
      BY <1>8, <2>1 DEF CallFindsDone, TypeOK, treeVars, pastVars
  <1>9. ASSUME NEW c \in Callers, CallCancelled(c)
       PROVE  TypeOK'
    BY <1>9 DEF CallCancelled, TypeOK, treeVars, taskVars, pastVars
  <1>10. ASSUME Cleanup
       PROVE  TypeOK'
    BY <1>10 DEF Cleanup, TypeOK, treeVars, callVars, pastVars
  <1>11. ASSUME RevParse
       PROVE  TypeOK'
    BY <1>11 DEF RevParse, TypeOK, treeVars, callVars, pastVars, Working
  <1>12. ASSUME StatusClean \/ StatusLost
       PROVE  TypeOK'
    <2>1. [commit |-> base, work |-> None] \in Names
      BY DEF TypeOK, Names
    <2>2. Answer([commit |-> base, work |-> None])
      BY <1>12 DEF StatusClean, StatusLost
    <2>3. UNCHANGED <<treeVars, stateFile, registered, base, left, entry, disturbed,
                      torn, turnedBack>>
      BY <1>12 DEF StatusClean, StatusLost, pastVars
    <2>4. lost' \in BOOLEAN
      BY <1>12 DEF StatusClean, StatusLost, pastVars, TypeOK
    <2> HIDE DEF Answer
    <2> QED
      BY <2>1, <2>2, <2>3, <2>4, AnswerTyped DEF TypeOK, treeVars
  <1>13. ASSUME StatusDirty \/ StatusFails
       PROVE  TypeOK'
    BY <1>13 DEF StatusDirty, StatusFails, TypeOK, treeVars, callVars, pastVars,
       Working
  <1>14. ASSUME NEW f \in Files, Scan(f)
       PROVE  TypeOK'
    <2>1. entry' \in [Files -> HalfRead \cup {None}]
      <3>1. ASSUME stateFile[f] # None
           PROVE  stateFile[f] \in HalfRead
        BY <3>1 DEF TypeOK, Entries, HalfRead
      <3>2. [mtime |-> mtime[f], content |-> Unread] \in HalfRead
        BY DEF TypeOK, HalfRead
      <3> QED
        BY <1>14, <3>1, <3>2 DEF Scan, Kept, TypeOK
    <2> QED
      BY <1>14, <2>1 DEF Scan, TypeOK, treeVars, callVars, pastVars
  <1>15. ASSUME ScanEnds
       PROVE  TypeOK'
    BY <1>15 DEF ScanEnds, TypeOK, treeVars, callVars, pastVars, Working
  <1>16. ASSUME NEW f \in Files, Reread(f)
       PROVE  TypeOK'
    <2>1. entry' \in [Files -> HalfRead \cup {None}]
      <3>1. entry[f] \in HalfRead
        BY <1>16 DEF Reread, Unseen, TypeOK
      <3>2. PICK x \in Contents : entry' = [entry EXCEPT ![f].content = x]
        BY <1>16, RepoHashAssumption DEF Reread, TypeOK, Works
      <3>3. [entry[f] EXCEPT !.content = x] \in HalfRead
        BY <3>1 DEF HalfRead
      <3> QED
        BY <3>2, <3>3 DEF TypeOK
    <2>2. torn' \in BOOLEAN
      BY <1>16 DEF Reread, TypeOK
    <2>3. UNCHANGED <<treeVars, stateFile, registered, pc, base, left, name,
                      callVars, disturbed, turnedBack, lost>>
      BY <1>16 DEF Reread
    <2> QED
      BY <2>1, <2>2, <2>3 DEF TypeOK, treeVars, callVars
  <1>17. ASSUME Save
       PROVE  TypeOK'
    <2>1. stateFile' \in [Files -> Entries \cup {None}] /\ WorkOf(entry) \in Works
      BY <1>17, ReadTyped DEF Save
    <2>2. [commit |-> base, work |-> WorkOf(entry)] \in Names
      BY <2>1 DEF TypeOK, Names
    <2>3. Answer([commit |-> base, work |-> WorkOf(entry)])
      BY <1>17 DEF Save
    <2>4. UNCHANGED <<treeVars, registered, base, left, entry, pastVars>>
      BY <1>17 DEF Save
    <2> QED
      BY <2>1, <2>2, <2>3, <2>4, AnswerTyped DEF TypeOK, treeVars, pastVars
  <1>18. ASSUME TaskFails
       PROVE  TypeOK'
    BY <1>18 DEF TaskFails, TypeOK, treeVars, pastVars
  <1> QED
    BY <1>1, <1>2, <1>3, <1>4, <1>5, <1>6, <1>7, <1>8, <1>9, <1>10, <1>11,
       <1>12, <1>13, <1>14, <1>15, <1>16, <1>17, <1>18
    DEF Next, Tree, Calls, Compute

-----------------------------------------------------------------------------
(* What steps may change.                                                  *)

LEMMA TreeSteps ==
  ASSUME [Next]_vars
  PROVE  \/ UNCHANGED <<content, mtime, clock>>
         \/ \E f \in Files : Write(f) \/ RestoreFile(f)
  <1>1. ASSUME Commit \/ StateForgotten \/ Cleanup
       PROVE  UNCHANGED <<content, mtime, clock>>
    BY <1>1 DEF Commit, StateForgotten, Cleanup, treeVars
  <1>2. ASSUME NEW c \in Callers, \/ CallBegins(c) \/ CallJoins(c)
                                  \/ CallFindsDone(c) \/ CallCancelled(c)
       PROVE  UNCHANGED <<content, mtime, clock>>
    BY <1>2 DEF CallBegins, CallJoins, CallFindsDone, CallCancelled, treeVars
  <1>3. ASSUME Compute
       PROVE  UNCHANGED <<content, mtime, clock>>
    BY <1>3 DEF Compute, RevParse, StatusClean, StatusDirty, StatusFails,
       StatusLost, ScanEnds, Save, TaskFails, Scan, Reread, treeVars
  <1>4. CASE UNCHANGED vars
    BY <1>4 DEF vars, treeVars
  <1> QED
    BY <1>1, <1>2, <1>3, <1>4 DEF Next, Tree, Calls

LEMMA EntrySteps ==
  ASSUME [Next]_vars
  PROVE  \/ UNCHANGED <<content, mtime, clock, stateFile, entry, torn, turnedBack>>
         \/ \E f \in Files : Write(f) \/ RestoreFile(f) \/ Scan(f) \/ Reread(f)
         \/ \E c \in Callers : CallBegins(c)
         \/ StateForgotten \/ Save
  <1>1. ASSUME Commit \/ Cleanup
       PROVE  UNCHANGED <<content, mtime, clock, stateFile, entry, torn, turnedBack>>
    BY <1>1 DEF Commit, Cleanup, treeVars, taskVars, callVars, pastVars
  <1>2. ASSUME NEW c \in Callers,
               CallJoins(c) \/ CallFindsDone(c) \/ CallCancelled(c)
       PROVE  UNCHANGED <<content, mtime, clock, stateFile, entry, torn, turnedBack>>
    BY <1>2 DEF CallJoins, CallFindsDone, CallCancelled, treeVars, taskVars,
       pastVars
  <1>3. ASSUME RevParse \/ StatusClean \/ StatusDirty \/ StatusFails
               \/ StatusLost \/ ScanEnds \/ TaskFails
       PROVE  UNCHANGED <<content, mtime, clock, stateFile, entry, torn, turnedBack>>
    BY <1>3 DEF RevParse, StatusClean, StatusDirty, StatusFails, StatusLost,
       ScanEnds, TaskFails, treeVars, pastVars
  <1>4. CASE UNCHANGED vars
    BY <1>4 DEF vars, treeVars, taskVars, pastVars
  <1> QED
    BY <1>1, <1>2, <1>3, <1>4 DEF Next, Tree, Calls, Compute

-----------------------------------------------------------------------------
(* The state file.                                                         *)

\* Times never run ahead of the writes, and time 0 is that of the original.
LEMMA DatedStep ==
  ASSUME IInv, [Next]_vars
  PROVE  Dated'
  <1>1. CASE UNCHANGED <<content, mtime, clock>>
    BY <1>1 DEF IInv, Dated
  <1>2. ASSUME NEW f \in Files, Write(f)
       PROVE  Dated'
    <2> SUFFICES ASSUME NEW g \in Files
                 PROVE  mtime'[g] <= clock' /\ (mtime'[g] = 0 => content'[g] = Original)
      BY DEF Dated
    <2>1. clock \in Nat /\ clock' = clock + 1 /\ mtime[g] \in Nat
      BY <1>2, RepoHashAssumption DEF Write, IInv, TypeOK
    <2>2. mtime[g] <= clock /\ (mtime[g] = 0 => content[g] = Original)
      BY DEF IInv, Dated
    <2>3. CASE g = f
      BY <1>2, <2>1, <2>3 DEF Write, IInv, TypeOK
    <2>4. CASE g # f
      BY <1>2, <2>1, <2>2, <2>4 DEF Write, IInv, TypeOK, Works
    <2> QED
      BY <2>3, <2>4
  <1>3. ASSUME NEW f \in Files, RestoreFile(f)
       PROVE  Dated'
    <2>1. clock' = clock /\ clock \in Nat
      BY <1>3, RepoHashAssumption DEF RestoreFile, IInv, TypeOK
    <2> QED
      BY <1>3, <2>1 DEF RestoreFile, IInv, TypeOK, Works, Dated
  <1> QED
    BY <1>1, <1>2, <1>3, TreeSteps

\* An entry fits whatever is written or restored: a write takes a time that
\* no entry has, a restored file its first time.
LEMMA StillFits ==
  ASSUME IInv, NEW f \in Files, NEW e \in HalfRead, EntryFits(e, f),
         NEW g \in Files, Write(g) \/ RestoreFile(g)
  PROVE  /\ e.mtime <= clock'
         /\ e.content # Unread =>
              /\ e.mtime = 0 => e.content = Original \/ torn'
              /\ e.mtime = mtime'[f] /\ content'[f] # Absent =>
                   e.content = content'[f] \/ (torn' /\ turnedBack')
  <1>1. e.mtime \in Nat /\ clock \in Nat /\ e.mtime <= clock
    BY RepoHashAssumption DEF HalfRead, IInv, TypeOK, EntryFits
  <1>2. CASE Write(g)
    <2>1. clock' = clock + 1 /\ UNCHANGED <<torn, turnedBack>>
      BY <1>2 DEF Write
    <2>2. CASE f = g
      <3>1. mtime'[f] = clock + 1
        BY <1>2, <2>2 DEF Write, IInv, TypeOK
      <3> QED
        BY <1>1, <2>1, <3>1 DEF EntryFits
    <2>3. CASE f # g
      <3>1. mtime'[f] = mtime[f] /\ content'[f] = content[f]
        BY <1>2, <2>3 DEF Write, IInv, TypeOK, Works
      <3> QED
        BY <1>1, <2>1, <3>1 DEF EntryFits, Poisoned
    <2> QED
      BY <2>2, <2>3
  <1>3. CASE RestoreFile(g)
    <2>1. UNCHANGED <<clock, torn>> /\ turnedBack' = TRUE
      BY <1>3 DEF RestoreFile
    <2>2. CASE f = g
      <3>1. mtime'[f] = 0 /\ content'[f] = Original
        BY <1>3, <2>2 DEF RestoreFile, IInv, TypeOK, Works
      <3> QED
        BY <1>1, <2>1, <3>1 DEF EntryFits
    <2>3. CASE f # g
      <3>1. mtime'[f] = mtime[f] /\ content'[f] = content[f]
        BY <1>3, <2>3 DEF RestoreFile, IInv, TypeOK, Works
      <3> QED
        BY <1>1, <2>1, <3>1 DEF EntryFits, Poisoned
    <2> QED
      BY <2>2, <2>3
  <1> QED
    BY <1>2, <1>3

\* Entries stay fitting, and the new ones fit.
LEMMA RecordedStep ==
  ASSUME IInv, [Next]_vars
  PROVE  Recorded'
  <1> SUFFICES ASSUME NEW f \in Files
               PROVE  /\ stateFile'[f] # None => EntryFits(stateFile[f], f)'
                      /\ entry'[f] # None => EntryFits(entry[f], f)'
    BY DEF Recorded
  <1>a. /\ stateFile[f] # None => EntryFits(stateFile[f], f)
        /\ entry[f] # None => EntryFits(entry[f], f)
    BY DEF IInv, Recorded
  <1>b. /\ stateFile[f] # None => stateFile[f] \in HalfRead
        /\ entry[f] # None => entry[f] \in HalfRead
    BY DEF IInv, TypeOK, Entries, HalfRead
  <1>1. CASE UNCHANGED <<content, mtime, clock, stateFile, entry, torn, turnedBack>>
    BY <1>a, <1>1 DEF EntryFits, Poisoned
  <1>2. ASSUME NEW g \in Files, Write(g) \/ RestoreFile(g)
       PROVE  /\ stateFile'[f] # None => EntryFits(stateFile[f], f)'
              /\ entry'[f] # None => EntryFits(entry[f], f)'
    <2>1. UNCHANGED <<stateFile, entry>>
      BY <1>2 DEF Write, RestoreFile, taskVars
    <2> QED
      BY <1>a, <1>b, <1>2, <2>1, StillFits DEF EntryFits, Poisoned
  <1>3. ASSUME NEW g \in Files, Scan(g)
       PROVE  /\ stateFile'[f] # None => EntryFits(stateFile[f], f)'
              /\ entry'[f] # None => EntryFits(entry[f], f)'
    <2>1. UNCHANGED <<content, mtime, clock, stateFile, torn, turnedBack>>
      BY <1>3 DEF Scan, treeVars, pastVars
    <2>2. CASE f # g
      <3>1. entry'[f] = entry[f]
        BY <1>3, <2>2 DEF Scan, IInv, TypeOK
      <3> QED
        BY <1>a, <2>1, <3>1 DEF EntryFits, Poisoned
    <2>3. CASE f = g
      <3>1. entry'[f] \in {None, [mtime |-> mtime[f], content |-> Unread]}
            \/ (stateFile[f] # None /\ entry'[f] = stateFile[f])
        BY <1>3, <2>3 DEF Scan, Kept, IInv, TypeOK
      <3>2. mtime[f] <= clock
        BY DEF IInv, Dated
      <3> QED
        BY <1>a, <2>1, <3>1, <3>2 DEF EntryFits, Poisoned
    <2> QED
      BY <2>2, <2>3
  <1>4. ASSUME NEW g \in Files, Reread(g)
       PROVE  /\ stateFile'[f] # None => EntryFits(stateFile[f], f)'
              /\ entry'[f] # None => EntryFits(entry[f], f)'
    <2>1. /\ UNCHANGED <<content, mtime, clock, stateFile, turnedBack>>
          /\ torn' = (torn \/ mtime[g] # entry[g].mtime)
      BY <1>4 DEF Reread, treeVars
    <2>2. stateFile'[f] # None => EntryFits(stateFile[f], f)'
      BY <1>a, <2>1 DEF EntryFits, Poisoned
    <2>3. CASE f # g
      <3>1. entry'[f] = entry[f]
        BY <1>4, <2>3 DEF Reread, IInv, TypeOK
      <3> QED
        BY <1>a, <2>1, <2>2, <3>1 DEF EntryFits, Poisoned
    <2>4. CASE f = g
      <3>1. entry[f] # None
        BY <1>4, <2>4 DEF Reread, Unseen
      <3>2. /\ entry'[f].mtime = entry[f].mtime
            /\ entry'[f].content = IF content[f] = Absent THEN Empty ELSE content[f]
        BY <1>4, <1>b, <2>4, <3>1 DEF Reread, IInv, TypeOK, HalfRead
      <3>3. entry[f].mtime <= clock /\ (mtime[f] = 0 => content[f] = Original)
        BY <1>a, <3>1 DEF EntryFits, IInv, Dated
      <3>4. Original # Absent
        BY RepoHashAssumption
      <3> QED
        BY <2>1, <2>2, <2>4, <3>2, <3>3, <3>4 DEF EntryFits, Poisoned
    <2> QED
      BY <2>3, <2>4
  <1>5. ASSUME NEW c \in Callers, CallBegins(c)
       PROVE  /\ stateFile'[f] # None => EntryFits(stateFile[f], f)'
              /\ entry'[f] # None => EntryFits(entry[f], f)'
    <2>1. /\ UNCHANGED <<content, mtime, clock, stateFile, torn, turnedBack>>
          /\ entry'[f] = None
      BY <1>5 DEF CallBegins, treeVars
    <2> QED
      BY <1>a, <2>1 DEF EntryFits, Poisoned
  <1>6. ASSUME StateForgotten
       PROVE  /\ stateFile'[f] # None => EntryFits(stateFile[f], f)'
              /\ entry'[f] # None => EntryFits(entry[f], f)'
    <2>1. /\ UNCHANGED <<content, mtime, clock, entry, torn, turnedBack>>
          /\ stateFile'[f] = None
      BY <1>6 DEF StateForgotten, treeVars, taskVars, pastVars
    <2> QED
      BY <1>a, <2>1 DEF EntryFits, Poisoned
  <1>7. ASSUME Save
       PROVE  /\ stateFile'[f] # None => EntryFits(stateFile[f], f)'
              /\ entry'[f] # None => EntryFits(entry[f], f)'
    <2>1. /\ UNCHANGED <<content, mtime, clock, entry, torn, turnedBack>>
          /\ stateFile' = entry
      BY <1>7 DEF Save, treeVars, pastVars
    <2> QED
      BY <1>a, <2>1 DEF EntryFits, Poisoned
  <1> QED
    BY <1>1, <1>2, <1>3, <1>4, <1>5, <1>6, <1>7, EntrySteps

-----------------------------------------------------------------------------
(* The computation.                                                        *)

\* When every file was read and nobody wrote, the entries are the tree.
LEMMA Complete ==
  ASSUME IInv, pc = "reread", Unseen = {}, ~disturbed, ~Poisoned
  PROVE  WorkOf(entry) = content
  <1>1. ASSUME NEW f \in Files
       PROVE  WorkOf(entry)[f] = content[f]
    <2>1. Seen(f) /\ (entry[f] # None => EntryFits(entry[f], f))
      BY DEF IInv, Knows, Recorded
    <2>2. CASE content[f] = Absent
      BY <2>1, <2>2 DEF Seen, WorkOf
    <2>3. CASE content[f] # Absent
      <3>1. entry[f] # None /\ entry[f].mtime = mtime[f]
        BY <2>1, <2>3 DEF Seen
      <3>2. entry[f].content # Unread
        BY <3>1 DEF Unseen
      <3> QED
        BY <2>1, <2>3, <3>1, <3>2 DEF EntryFits, WorkOf
    <2> QED
      BY <2>2, <2>3
  <1>2. content \in [Files -> Contents \cup {Absent}]
    BY DEF IInv, TypeOK, Works
  <1>3. WorkOf(entry) = [f \in Files |-> WorkOf(entry)[f]]
    BY DEF WorkOf
  <1> QED
    BY <1>1, <1>2, <1>3

\* An undisturbed computation goes on knowing what it knows.
LEMMA KnowsStep ==
  ASSUME IInv, [Next]_vars
  PROVE  Knows'
  <1> SUFFICES ASSUME ~disturbed'
               PROVE  Knows'
    BY DEF Knows
  <1>1. ASSUME \/ Commit
               \/ \E f \in Files : Write(f) \/ RestoreFile(f)
       PROVE  Knows'
    BY <1>1 DEF Commit, Write, RestoreFile
  <1>2. ASSUME UNCHANGED <<content, mtime, head, pc, base, left, entry, disturbed>>
       PROVE  Knows'
    BY <1>2 DEF IInv, Knows, Seen
  <1>3. ASSUME UNCHANGED vars \/ StateForgotten
       PROVE  Knows'
    BY <1>2, <1>3 DEF StateForgotten, vars, treeVars, taskVars, pastVars
  <1>4. ASSUME NEW c \in Callers, CallJoins(c) \/ CallCancelled(c)
       PROVE  Knows'
    BY <1>2, <1>4 DEF CallJoins, CallCancelled, treeVars, taskVars, pastVars
  <1>5. ASSUME NEW c \in Callers, CallFindsDone(c)
       PROVE  Knows'
    BY <1>2, <1>5 DEF CallFindsDone, treeVars, pastVars
  <1>6. ASSUME NEW c \in Callers, CallBegins(c)
       PROVE  Knows'
    BY <1>6 DEF CallBegins, Knows
  <1>7. ASSUME Cleanup \/ StatusClean \/ StatusLost \/ Save \/ TaskFails
       PROVE  Knows'
    <2>1. pc' \in {"idle", "done", "failed"}
      BY <1>7 DEF Cleanup, StatusClean, StatusLost, Save, TaskFails, Answer
    <2> QED
      BY <2>1 DEF Knows, Working
  <1>8. ASSUME RevParse
       PROVE  Knows'
    <2>1. UNCHANGED <<content, mtime, head, entry, disturbed>>
      BY <1>8 DEF RevParse, treeVars, pastVars
    <2>2. base \in {None, head}
      BY <1>8, <2>1 DEF RevParse, IInv, Knows, Working
    <2> QED
      BY <1>8, <2>1, <2>2 DEF RevParse, Knows
  <1>9. ASSUME StatusDirty \/ StatusFails
       PROVE  Knows'
    <2>1. UNCHANGED <<content, mtime, head, entry, disturbed>>
      BY <1>9 DEF StatusDirty, StatusFails, treeVars, pastVars
    <2>2. base \in {None, head}
      BY <1>9, <2>1 DEF StatusDirty, StatusFails, IInv, Knows, Working
    <2> QED
      BY <1>9, <2>1, <2>2 DEF StatusDirty, StatusFails, Knows
  <1>10. ASSUME NEW g \in Files, Scan(g)
       PROVE  Knows'
    <2>1. UNCHANGED <<content, mtime, head, pc, base, disturbed>> /\ pc = "scan"
      BY <1>10 DEF Scan, treeVars, pastVars
    <2>2. base \in {None, head} /\ \A f \in Files \ left : Seen(f)
      BY <2>1 DEF IInv, Knows, Working
    <2>3. ASSUME NEW f \in Files \ left'
         PROVE  Seen(f)'
      <3>1. CASE f = g
        <4>1. CASE content[g] = Absent
          <5>1. entry'[g] = None
            BY <1>10, <4>1 DEF Scan, IInv, TypeOK
          <5> QED
            BY <2>1, <3>1, <4>1, <5>1 DEF Seen
        <4>2. CASE content[g] # Absent /\ Kept(g)
          <5>1. entry'[g] = stateFile[g]
            BY <1>10, <4>2 DEF Scan, IInv, TypeOK
          <5> QED
            BY <2>1, <3>1, <4>2, <5>1 DEF Seen, Kept
        <4>3. CASE content[g] # Absent /\ ~Kept(g)
          <5>1. entry'[g] = [mtime |-> mtime[g], content |-> Unread]
            BY <1>10, <4>3 DEF Scan, IInv, TypeOK
          <5>2. None # [mtime |-> mtime[g], content |-> Unread]
            BY RepoHashAssumption DEF IInv, TypeOK
          <5> QED
            BY <2>1, <3>1, <4>3, <5>1, <5>2 DEF Seen
        <4> QED
          BY <4>1, <4>2, <4>3
      <3>2. CASE f # g
        <4>1. f \in Files \ left /\ entry'[f] = entry[f]
          BY <1>10, <3>2 DEF Scan, IInv, TypeOK
        <4> QED
          BY <2>1, <2>2, <4>1 DEF Seen
      <3> QED
        BY <3>1, <3>2
    <2> QED
      BY <2>1, <2>2, <2>3 DEF Knows
  <1>11. ASSUME ScanEnds
       PROVE  Knows'
    <2>1. UNCHANGED <<content, mtime, head, base, entry, disturbed>>
      BY <1>11 DEF ScanEnds, treeVars, pastVars
    <2>2. base \in {None, head} /\ \A f \in Files : Seen(f)
      BY <1>11, <2>1 DEF ScanEnds, IInv, Knows, Working
    <2> QED
      BY <1>11, <2>1, <2>2 DEF ScanEnds, Knows, Seen
  <1>12. ASSUME NEW g \in Files, Reread(g)
       PROVE  Knows'
    <2>1. UNCHANGED <<content, mtime, head, pc, base, disturbed>> /\ pc = "reread"
      BY <1>12 DEF Reread, treeVars
    <2>2. base \in {None, head} /\ \A f \in Files : Seen(f)
      BY <2>1 DEF IInv, Knows, Working
    <2>3. ASSUME NEW f \in Files
         PROVE  Seen(f)'
      <3>1. CASE f = g
        <4>1. entry[g] # None /\ entry[g] \in HalfRead
          BY <1>12 DEF Reread, Unseen, IInv, TypeOK
        <4>2. PICK x \in Contents : entry'[g] = [entry[g] EXCEPT !.content = x]
          BY <1>12, RepoHashAssumption DEF Reread, IInv, TypeOK, Works
        <4>3. entry'[g].mtime = entry[g].mtime /\ entry'[g] \in HalfRead
          BY <4>1, <4>2 DEF HalfRead
        <4>4. entry'[g] # None
          BY <4>3, RepoHashAssumption DEF HalfRead
        <4> QED
          BY <2>1, <2>2, <3>1, <4>1, <4>3, <4>4 DEF Seen
      <3>2. CASE f # g
        <4>1. entry'[f] = entry[f]
          BY <1>12, <3>2 DEF Reread, IInv, TypeOK
        <4> QED
          BY <2>1, <2>2, <4>1 DEF Seen
      <3> QED
        BY <3>1, <3>2
    <2> QED
      BY <2>1, <2>2, <2>3 DEF Knows
  <1> QED
    BY <1>1, <1>3, <1>4, <1>5, <1>6, <1>7, <1>8, <1>9, <1>10, <1>11, <1>12
    DEF Next, Tree, Calls, Compute

\* The result that waits in the registry names the tree.
LEMMA NamedStep ==
  ASSUME IInv, [Next]_vars
  PROVE  Named'
  <1> SUFFICES ASSUME pc' = "done", ~disturbed', ~lost', ~Poisoned'
               PROVE  Describes(name)'
    BY DEF Named
  <1>1. ASSUME \/ Commit
               \/ \E f \in Files : Write(f) \/ RestoreFile(f)
       PROVE  Describes(name)'
    BY <1>1 DEF Commit, Write, RestoreFile
  <1>2. ASSUME UNCHANGED <<content, head, pc, name, disturbed, torn, turnedBack, lost>>
       PROVE  Describes(name)'
    BY <1>2 DEF IInv, Named, Describes, Poisoned, Committed
  <1>3. ASSUME UNCHANGED vars \/ StateForgotten
       PROVE  Describes(name)'
    BY <1>2, <1>3 DEF StateForgotten, vars, treeVars, taskVars, pastVars
  <1>4. ASSUME NEW c \in Callers, CallJoins(c) \/ CallCancelled(c)
       PROVE  Describes(name)'
    BY <1>2, <1>4 DEF CallJoins, CallCancelled, treeVars, taskVars, pastVars
  <1>5. ASSUME NEW c \in Callers, CallFindsDone(c)
       PROVE  Describes(name)'
    BY <1>2, <1>5 DEF CallFindsDone, treeVars, pastVars
  <1>6. ASSUME \/ \E c \in Callers : CallBegins(c)
               \/ Cleanup \/ RevParse \/ StatusDirty \/ StatusFails \/ ScanEnds
               \/ TaskFails \/ \E f \in Files : Scan(f) \/ Reread(f)
       PROVE  pc' # "done"
    BY <1>6 DEF CallBegins, Cleanup, RevParse, StatusDirty, StatusFails,
       ScanEnds, TaskFails, Scan, Reread
  <1>7. ASSUME StatusClean
       PROVE  Describes(name)'
    <2>1. /\ UNCHANGED <<content, head, disturbed>>
          /\ name' = [commit |-> base, work |-> None]
          /\ pc = "status" /\ Committed(content) = head
      BY <1>7 DEF StatusClean, Clean, Answer, treeVars, pastVars
    <2>2. base = head
      BY <2>1 DEF IInv, Knows
    <2> QED
      BY <2>1, <2>2 DEF Describes, Committed
  <1>8. ASSUME StatusLost
       PROVE  Describes(name)'
    BY <1>8 DEF StatusLost
  <1>9. ASSUME Save
       PROVE  Describes(name)'
    <2>1. /\ UNCHANGED <<content, head, disturbed, torn, turnedBack>>
          /\ name' = [commit |-> base, work |-> WorkOf(entry)]
          /\ pc = "reread" /\ Unseen = {}
      BY <1>9 DEF Save, Answer, treeVars, pastVars
    <2>2. base \in {None, head}
      BY <2>1 DEF IInv, Knows, Working
    <2>3. WorkOf(entry) = content
      BY <2>1, Complete DEF Poisoned
    <2> QED
      BY <2>1, <2>2, <2>3 DEF Describes
  <1> QED
    BY <1>1, <1>3, <1>4, <1>5, <1>6, <1>7, <1>8, <1>9
    DEF Next, Tree, Calls, Compute

\* The invariant is inductive.
LEMMA NextInv == IInv /\ [Next]_vars => IInv'
  <1> SUFFICES ASSUME IInv, [Next]_vars PROVE IInv'
    OBVIOUS
  <1>1. TypeOK'
    BY TypeStep DEF IInv
  <1> QED
    BY <1>1, DatedStep, RecordedStep, KnowsStep, NamedStep DEF IInv

LEMMA Invariance == Spec => []IInv
  BY InitInv, NextInv, PTL DEF Spec

\* Whoever is given a hash is given the result of the task, which is done.
LEMMA GivenName ==
  ASSUME IInv, [Next]_vars, NEW c \in Callers,
         caller[c] # "returned", caller'[c] = "returned"
  PROVE  /\ pc' = "done" /\ got'[c] = name'
         /\ UNCHANGED <<content, head>>
  <1>1. ASSUME NEW n, Answer(n)
       PROVE  pc' = "done" /\ got'[c] = name'
    BY <1>1 DEF Answer, IInv, TypeOK
  <1>2. ASSUME StatusClean \/ StatusLost \/ Save
       PROVE  /\ pc' = "done" /\ got'[c] = name'
              /\ UNCHANGED <<content, head>>
    <2>1. PICK n : Answer(n)
      BY <1>2 DEF StatusClean, StatusLost, Save
    <2>2. UNCHANGED <<content, head>>
      BY <1>2 DEF StatusClean, StatusLost, Save, treeVars
    <2> QED
      BY <1>1, <2>1, <2>2
  <1>3. ASSUME NEW d \in Callers, CallFindsDone(d)
       PROVE  /\ pc' = "done" /\ got'[c] = name'
              /\ UNCHANGED <<content, head>>
    <2>1. c = d /\ pc = "done"
      BY <1>3 DEF CallFindsDone, IInv, TypeOK
    <2> QED
      BY <1>3, <2>1 DEF CallFindsDone, IInv, TypeOK, treeVars
  <1>4. ASSUME NEW d \in Callers, CallBegins(d) \/ CallJoins(d) \/ CallCancelled(d)
       PROVE  FALSE
    BY <1>4 DEF CallBegins, CallJoins, CallCancelled, IInv, TypeOK
  <1>5. ASSUME TaskFails
       PROVE  FALSE
    BY <1>5 DEF TaskFails
  <1>6. ASSUME \/ UNCHANGED vars \/ Tree \/ Cleanup \/ RevParse \/ StatusDirty
               \/ StatusFails \/ ScanEnds \/ \E f \in Files : Scan(f) \/ Reread(f)
       PROVE  FALSE
    BY <1>6 DEF vars, Tree, Write, RestoreFile, Commit, StateForgotten, Cleanup,
       RevParse, StatusDirty, StatusFails, ScanEnds, Scan, Reread, callVars
  <1> QED
    BY <1>2, <1>3, <1>4, <1>5, <1>6 DEF Next, Calls, Compute

-----------------------------------------------------------------------------
(* The theorems.                                                           *)

\* The variables keep their types.
THEOREM TypeCorrect == Spec => []TypeOK
  <1>1. IInv => TypeOK
    BY DEF IInv
  <1> QED
    BY <1>1, Invariance, PTL

\* What .sif/repo_hash_state.json would let the next computation keep is what
\* the files hold.
THEOREM EntriesFitAlways == Spec => []SavedEntriesFit
  <1>1. IInv => SavedEntriesFit
    <2> SUFFICES ASSUME IInv, NEW f \in Files, stateFile[f] # None,
                        content[f] # Absent, stateFile[f].mtime = mtime[f]
                 PROVE  stateFile[f].content = content[f] \/ Poisoned
      BY DEF SavedEntriesFit
    <2>1. stateFile[f] \in Entries
      BY DEF IInv, TypeOK
    <2>2. stateFile[f].content # Unread
      BY <2>1, RepoHashAssumption DEF Entries
    <2>3. EntryFits(stateFile[f], f)
      BY DEF IInv, Recorded
    <2> QED
      BY <2>2, <2>3 DEF EntryFits
  <1> QED
    BY <1>1, Invariance, PTL

\* get_repo_hash_async hands out the name of the tree, to whoever began the
\* computation, joined it or found it done.
THEOREM HashesAreCurrent == Spec => HashIsCurrent
  <1>1. ASSUME IInv, IInv', [Next]_vars, NEW c \in Callers,
               caller[c] # "returned", caller'[c] = "returned"
       PROVE  disturbed' \/ lost' \/ (torn' /\ turnedBack') \/ Describes(got'[c])
    <2>1. /\ pc' = "done" /\ got'[c] = name'
          /\ UNCHANGED <<content, head>>
      BY <1>1, GivenName
    <2>2. disturbed' \/ lost' \/ Poisoned' \/ Describes(name)'
      BY <1>1, <2>1 DEF IInv, Named
    <2> QED
      BY <2>1, <2>2 DEF Describes, Poisoned, Committed
  <1>2. IInv /\ IInv' /\ [Next]_vars =>
          [\A c \in Callers :
             caller[c] # "returned" /\ caller'[c] = "returned"
               => disturbed' \/ lost' \/ (torn' /\ turnedBack')
                    \/ Describes(got'[c])]_vars
    BY <1>1
  <1> QED
    BY <1>2, Invariance, PTL DEF Spec, HashIsCurrent
=============================================================================
