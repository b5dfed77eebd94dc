---------------------- MODULE RepositoryRefreshProofs ----------------------
(***************************************************************************)
(* Proofs about the refresh of the code index and the self-map, for every  *)
(* set of files, crew of workers and number of writes and errors: its      *)
(* types, and that the artifacts it stores describe the tree.              *)
(***************************************************************************)
EXTENDS RepositoryRefresh, FiniteSetTheorems, TLAPS

\* The entry e of f, stored under the time t, is what a refresh may keep: it
\* is no later than the latest write, time 0 is that of the first content,
\* and the time that the file has now is that of its content.
Fits(t, e, f) ==
  /\ t <= clock
  /\ t = 0 => e \in {Original, Nothing} \/ f \in torn
  /\ t = mtime[f] /\ content[f] # Absent =>
       e \in {content[f], Nothing} \/ f \in Poisoned

\* The same after a step.
FitsAfter(t, e, f) ==
  /\ t <= clock'
  /\ t = 0 => e \in {Original, Nothing} \/ f \in torn'
  /\ t = mtime'[f] /\ content'[f] # Absent =>
       e \in {content'[f], Nothing} \/ f \in torn' \cap turnedBack'

\* The entries of f in the artifacts m.
Holds(m, f) ==
  /\ m.snapshot[f] = None => m.index[f] = None /\ m.map[f] = None
  /\ m.snapshot[f] # None => Fits(m.snapshot[f], m.index[f], f)
  /\ m.snapshot[f] # None /\ f \in Mapped => Fits(m.snapshot[f], m.map[f], f)
  /\ f \notin Mapped => m.map[f] = None

\* The same after a step.
HoldsAfter(m, f) ==
  /\ m.snapshot[f] = None => m.index[f] = None /\ m.map[f] = None
  /\ m.snapshot[f] # None => FitsAfter(m.snapshot[f], m.index[f], f)
  /\ m.snapshot[f] # None /\ f \in Mapped => FitsAfter(m.snapshot[f], m.map[f], f)
  /\ f \notin Mapped => m.map[f] = None

Dated == \A f \in Files : /\ mtime[f] <= clock
                          /\ mtime[f] = 0 => content[f] = Original

Remembered == \A f \in Files : Holds(memory, f) /\ Holds(saved, f)

\* The snapshot under way: old enough, and exact when nobody wrote.
Drawn ==
  \A f \in Files : stage # "idle" /\ fresh[f] # None =>
    /\ fresh[f] <= clock
    /\ ~disturbed => fresh[f] = mtime[f] /\ content[f] # Absent

\* The index under way: what is not in the queue is done.
Indexes ==
  \A f \in Files :
    /\ stage \in {"index", "map"} /\ fresh[f] = None => index[f] = None
    /\ stage = "index" /\ fresh[f] # None =>
         f \in left \/ Fits(fresh[f], index[f], f)
    /\ stage = "map" /\ fresh[f] # None => Fits(fresh[f], index[f], f)
    /\ stage = "index" /\ f \in left => fresh[f] # None

\* The self-map under way, as long as no worker is gone.
Maps ==
  \A f \in Files : stage = "map" =>
    /\ fresh[f] = None \/ f \notin Mapped => map[f] = None
    /\ fresh[f] # None /\ f \in Mapped /\ alive = crew =>
         f \in left \/ Fits(fresh[f], map[f], f)
    /\ f \in left => fresh[f] # None /\ f \in Mapped

IInv == TypeOK /\ Dated /\ Remembered /\ Drawn /\ Indexes /\ Maps

-----------------------------------------------------------------------------
(* Types.                                                                  *)

\* A stage has no more workers than its limit.
LEMMA QueueTyped ==
  ASSUME NEW paths \in SUBSET Files, Queue(paths)
  PROVE  left' \subseteq Files /\ crew' \in 0..Crew /\ alive' \in 0..crew'
  <1>1. Cardinality(paths) \in Nat
    BY RefreshAssumption, FS_Subset, FS_CardinalityType
  <1>2. Workers(paths) \in 0..Crew
    BY <1>1, RefreshAssumption DEF Workers
  <1> QED
    BY <1>2 DEF Queue

LEMMA GivesUpTyped ==
  ASSUME GivesUp
  PROVE  /\ stage' = "idle" /\ left' \subseteq Files
         /\ crew' \in 0..Crew /\ alive' \in 0..crew' /\ fresh' \in Stamps
         /\ index' \in [Files -> Entries] /\ map' \in [Files -> Entries]
         /\ disturbed' = FALSE
  BY RefreshAssumption DEF GivesUp, Blank, Stamps, Entries

LEMMA KeptTyped ==
  ASSUME NEW entries \in [Files -> Entries]
  PROVE  Kept(entries) \in [Files -> Entries]
  BY DEF Kept, Entries

LEMMA ErrorTyped ==
  ASSUME TypeOK, Error
  PROVE  errors' \in 0..MaxErrors
  <1>1. errors \in 0..MaxErrors /\ errors < MaxErrors /\ errors' = errors + 1
    BY DEF TypeOK, Error
  <1> QED
    BY <1>1, RefreshAssumption

LEMMA InitInv == Init => IInv
  <1> SUFFICES ASSUME Init PROVE IInv
    OBVIOUS
  <1>1. Blank \in Stamps /\ Blank \in [Files -> Entries]
    BY DEF Blank, Stamps, Entries
  <1>2. memory \in Artifacts /\ saved \in Artifacts
    BY <1>1 DEF Init, Artifacts
  <1>3. /\ clock \in 0..MaxWrites /\ crew \in 0..Crew /\ alive \in 0..crew
        /\ errors \in 0..MaxErrors /\ mtime \in [Files -> 0..MaxWrites]
    BY RefreshAssumption DEF Init
  <1>4. TypeOK
    BY <1>1, <1>2, <1>3, RefreshAssumption DEF Init, TypeOK
  <1>5. Dated /\ Remembered /\ Drawn /\ Indexes /\ Maps
    BY DEF Init, Dated, Remembered, Holds, Drawn, Indexes, Maps, Blank
  <1> QED
    BY <1>4, <1>5 DEF IInv

\* Every step keeps the types.
LEMMA TypeStep ==
  ASSUME TypeOK, [Next]_vars
  PROVE  TypeOK'
  <1>1. ASSUME UNCHANGED vars
       PROVE  TypeOK'
    BY <1>1 DEF TypeOK, vars, treeVars, draftVars, crewVars, pastVars
  <1>2. ASSUME NEW f \in Files, Write(f)
       PROVE  TypeOK'
    <2>1. clock' \in 0..MaxWrites
      BY <1>2, RefreshAssumption DEF Write, TypeOK
    <2>2. content' \in [Files -> Contents \cup {Absent}]
      BY <1>2 DEF Write, TypeOK
    <2>3. mtime' \in [Files -> 0..MaxWrites]
      <3>1. mtime' = [mtime EXCEPT ![f] = clock'] /\ mtime \in [Files -> 0..MaxWrites]
        BY <1>2 DEF Write, TypeOK
      <3> QED
        BY <2>1, <3>1
    <2>4. /\ UNCHANGED <<memory, saved, stage, draftVars, crewVars, broken, errors,
                         torn, turnedBack>>
          /\ disturbed' \in BOOLEAN
      BY <1>2 DEF Write
    <2> QED
      BY <2>1, <2>2, <2>3, <2>4 DEF TypeOK, draftVars, crewVars
  <1>3. ASSUME NEW f \in Files, RestoreFile(f)
       PROVE  TypeOK'
    <2>1. /\ content' \in [Files -> Contents \cup {Absent}]
          /\ mtime' \in [Files -> 0..MaxWrites]
      BY <1>3, RefreshAssumption DEF RestoreFile, TypeOK
    <2>2. turnedBack' \subseteq Files
      BY <1>3 DEF RestoreFile, TypeOK
    <2>3. UNCHANGED <<clock, memory, saved, stage, draftVars, crewVars, broken,
                      errors, disturbed, torn>>
      BY <1>3 DEF RestoreFile
    <2> QED
      BY <2>1, <2>2, <2>3 DEF TypeOK, draftVars, crewVars
  <1>4. ASSUME Save \/ SessionRestarts
       PROVE  TypeOK'
    BY <1>4 DEF Save, SessionRestarts, TypeOK, treeVars, draftVars, crewVars, pastVars
  <1>5. ASSUME PoolBreaks
       PROVE  TypeOK'
    <2>1. errors' \in 0..MaxErrors
      BY <1>5, ErrorTyped DEF PoolBreaks
    <2> QED
      BY <1>5, <2>1 DEF PoolBreaks, TypeOK, treeVars, draftVars, crewVars, pastVars
  <1>6. ASSUME Begin
       PROVE  TypeOK'
    <2>1. left' \subseteq Files /\ crew' \in 0..Crew /\ alive' \in 0..crew'
      BY <1>6, QueueTyped DEF Begin
    <2>2. fresh' \in Stamps
      BY <1>6 DEF Begin, Blank, Stamps
    <2>3. /\ UNCHANGED <<treeVars, memory, saved, index, map, broken, errors, pastVars>>
          /\ stage' = "stat"
      BY <1>6 DEF Begin
    <2> QED
      BY <2>1, <2>2, <2>3 DEF TypeOK, treeVars, pastVars
  <1>7. ASSUME NEW f \in Files, Stat(f)
       PROVE  TypeOK'
    <2>1. fresh' \in Stamps
      BY <1>7 DEF Stat, TypeOK, Stamps
    <2>2. left' \subseteq Files
      BY <1>7 DEF Stat, Takes, TypeOK
    <2> QED
      BY <1>7, <2>1, <2>2 DEF Stat, TypeOK, treeVars, pastVars
  <1>8. ASSUME NEW f \in Files, StatFails(f)
       PROVE  TypeOK'
    <2>1. errors' \in 0..MaxErrors /\ left' \subseteq Files
      BY <1>8, ErrorTyped DEF StatFails, Takes, TypeOK
    <2> QED
      BY <1>8, <2>1 DEF StatFails, TypeOK, treeVars, draftVars, pastVars
  <1>9. ASSUME ScanEnds
       PROVE  TypeOK'
    <2>1. left' \subseteq Files /\ crew' \in 0..Crew /\ alive' \in 0..crew'
      BY <1>9, QueueTyped DEF ScanEnds, Changed
    <2>2. index' \in [Files -> Entries]
      BY <1>9, KeptTyped DEF ScanEnds, TypeOK, Artifacts
    <2>3. /\ UNCHANGED <<treeVars, memory, saved, fresh, map, broken, errors, pastVars>>
          /\ stage' = "index"
      BY <1>9 DEF ScanEnds
    <2> QED
      BY <2>1, <2>2, <2>3 DEF TypeOK, treeVars, pastVars
  <1>10. ASSUME NEW f \in Files, Indexed(f)
       PROVE  TypeOK'
    <2>1. /\ index' \in [Files -> Entries] /\ left' \subseteq Files
          /\ torn' \subseteq Files
      BY <1>10 DEF Indexed, Readable, Takes, Slips, TypeOK, Entries
    <2>2. UNCHANGED <<treeVars, memory, saved, stage, fresh, map, crew, alive, broken,
                      errors, disturbed, turnedBack>>
      BY <1>10 DEF Indexed
    <2> QED
      BY <2>1, <2>2 DEF TypeOK, treeVars
  <1>11. ASSUME NEW f \in Files, IndexUnread(f)
       PROVE  TypeOK'
    <2>1. /\ index' \in [Files -> Entries] /\ left' \subseteq Files
          /\ torn' \subseteq Files
      BY <1>11 DEF IndexUnread, Takes, Slips, TypeOK, Entries
    <2>2. errors' \in 0..MaxErrors
      BY <1>11, ErrorTyped DEF IndexUnread, Unreadable, TypeOK
    <2>3. UNCHANGED <<treeVars, memory, saved, stage, fresh, map, crew, alive, broken,
                      disturbed, turnedBack>>
      BY <1>11 DEF IndexUnread
    <2> QED
      BY <2>1, <2>2, <2>3 DEF TypeOK, treeVars
  <1>12. ASSUME \/ \E f \in Files : IndexRaises(f)
                \/ Cancel
       PROVE  TypeOK'
    <2>1. /\ GivesUp
          /\ UNCHANGED <<treeVars, memory, saved, broken, errors, torn, turnedBack>>
      BY <1>12 DEF IndexRaises, Cancel
    <2> QED
      BY <2>1, GivesUpTyped DEF TypeOK, treeVars
  <1>13. ASSUME IndexEnds
       PROVE  TypeOK'
    <2>1. left' \subseteq Files /\ crew' \in 0..Crew /\ alive' \in 0..crew'
      BY <1>13, QueueTyped DEF IndexEnds, Changed
    <2>2. map' \in [Files -> Entries]
      BY <1>13, KeptTyped DEF IndexEnds, TypeOK, Artifacts
    <2>3. /\ UNCHANGED <<treeVars, memory, saved, fresh, index, broken, errors, pastVars>>
          /\ stage' = "map"
      BY <1>13 DEF IndexEnds
    <2> QED
      BY <2>1, <2>2, <2>3 DEF TypeOK, treeVars, pastVars
  <1>14. ASSUME NEW f \in Files, Imports(f)
       PROVE  TypeOK'
    <2>1. /\ map' \in [Files -> Entries] /\ left' \subseteq Files
          /\ torn' \subseteq Files
      BY <1>14 DEF Imports, Readable, Takes, Slips, TypeOK, Entries
    <2>2. UNCHANGED <<treeVars, memory, saved, stage, fresh, index, crew, alive,
                      broken, errors, disturbed, turnedBack>>
      BY <1>14 DEF Imports
    <2> QED
      BY <2>1, <2>2 DEF TypeOK, treeVars
  <1>15. ASSUME NEW f \in Files, ImportsUnread(f)
       PROVE  TypeOK'
    <2>1. /\ map' \in [Files -> Entries] /\ left' \subseteq Files
          /\ torn' \subseteq Files
      BY <1>15 DEF ImportsUnread, Takes, Slips, TypeOK, Entries
    <2>2. errors' \in 0..MaxErrors
      BY <1>15, ErrorTyped DEF ImportsUnread, Unreadable, TypeOK
    <2>3. UNCHANGED <<treeVars, memory, saved, stage, fresh, index, crew, alive,
                      broken, disturbed, turnedBack>>
      BY <1>15 DEF ImportsUnread
    <2> QED
      BY <2>1, <2>2, <2>3 DEF TypeOK, treeVars
  <1>16. ASSUME NEW f \in Files, ImportsRaise(f)
       PROVE  TypeOK'
    <2>1. alive' \in 0..crew
      BY <1>16, RefreshAssumption DEF ImportsRaise, Takes, TypeOK
    <2>2. left' \subseteq Files
      BY <1>16 DEF ImportsRaise, Takes, TypeOK
    <2>3. UNCHANGED <<treeVars, memory, saved, stage, draftVars, crew, broken, errors,
                      pastVars>>
      BY <1>16 DEF ImportsRaise
    <2> QED
      BY <2>1, <2>2, <2>3 DEF TypeOK, treeVars, draftVars, pastVars
  <1>17. ASSUME MapEnds
       PROVE  TypeOK'
    <2>1. memory' \in Artifacts
      BY <1>17 DEF MapEnds, TypeOK, Artifacts
    <2>2. /\ GivesUp
          /\ UNCHANGED <<treeVars, saved, broken, errors, torn, turnedBack>>
      BY <1>17 DEF MapEnds
    <2> QED
      BY <2>1, <2>2, GivesUpTyped DEF TypeOK, treeVars
  <1>18. ASSUME Die
       PROVE  TypeOK'
    <2>1. /\ GivesUp /\ memory' = saved /\ broken' = FALSE
          /\ UNCHANGED <<treeVars, saved, errors, torn, turnedBack>>
      BY <1>18 DEF Die
    <2> QED
      BY <2>1, GivesUpTyped DEF TypeOK, treeVars
  <1> QED
    BY <1>1, <1>2, <1>3, <1>4, <1>5, <1>6, <1>7, <1>8, <1>9, <1>10, <1>11,
       <1>12, <1>13, <1>14, <1>15, <1>16, <1>17, <1>18
    DEF Next, Around, Progress

-----------------------------------------------------------------------------
(* What the tree does to an entry.                                         *)

\* Only a write and a restore change the tree; files are never untorn.
LEMMA TreeStep ==
  ASSUME [Next]_vars
  PROVE  \/ \E g \in Files : Write(g)
         \/ \E g \in Files : RestoreFile(g)
         \/ UNCHANGED treeVars /\ torn \subseteq torn' /\ turnedBack' = turnedBack
  <1>1. ASSUME NEW g \in Files,
               \/ Indexed(g) \/ IndexUnread(g) \/ Imports(g) \/ ImportsUnread(g)
       PROVE  UNCHANGED treeVars /\ torn \subseteq torn' /\ turnedBack' = turnedBack
    BY <1>1 DEF Indexed, IndexUnread, Imports, ImportsUnread, Slips
  <1>2. ASSUME NEW g \in Files, Stat(g) \/ StatFails(g) \/ IndexRaises(g) \/ ImportsRaise(g)
       PROVE  UNCHANGED <<treeVars, torn, turnedBack>>
    BY <1>2 DEF Stat, StatFails, IndexRaises, ImportsRaise, pastVars
  <1>3. ASSUME \/ Save \/ PoolBreaks \/ SessionRestarts \/ Begin \/ ScanEnds
               \/ IndexEnds \/ MapEnds \/ Cancel \/ Die \/ UNCHANGED vars
       PROVE  UNCHANGED <<treeVars, torn, turnedBack>>
    BY <1>3 DEF Save, PoolBreaks, SessionRestarts, Begin, ScanEnds, IndexEnds,
                MapEnds, Cancel, Die, vars, pastVars
  <1> QED
    BY <1>1, <1>2, <1>3 DEF Next, Around, Progress

\* An entry that a refresh may keep stays one: a write gives the file a time
\* that no entry has, a restore the time of the first content.
LEMMA FitsStep ==
  ASSUME TypeOK, [Next]_vars, NEW f \in Files, NEW t \in 0..MaxWrites, NEW e,
         Fits(t, e, f)
  PROVE  FitsAfter(t, e, f)
  <1>1. ASSUME NEW g \in Files, Write(g)
       PROVE  FitsAfter(t, e, f)
    <2>1. /\ clock \in Nat /\ t \in Nat /\ t <= clock /\ clock' = clock + 1
          /\ torn' = torn /\ turnedBack' = turnedBack
      BY <1>1, RefreshAssumption DEF Write, TypeOK, Fits
    <2>2. t <= clock' /\ t # clock + 1
      BY <2>1
    <2>3. CASE g = f
      <3>1. mtime'[f] = clock + 1
        BY <1>1, <2>3 DEF Write, TypeOK
      <3> QED
        BY <2>1, <2>2, <3>1 DEF Fits, FitsAfter
    <2>4. CASE g # f
      <3>1. mtime'[f] = mtime[f] /\ content'[f] = content[f]
        BY <1>1, <2>4 DEF Write, TypeOK
      <3> QED
        BY <2>1, <2>2, <3>1 DEF Fits, FitsAfter, Poisoned
    <2> QED
      BY <2>3, <2>4
  <1>2. ASSUME NEW g \in Files, RestoreFile(g)
       PROVE  FitsAfter(t, e, f)
    <2>1. clock' = clock /\ torn' = torn /\ turnedBack' = turnedBack \cup {g}
      BY <1>2 DEF RestoreFile
    <2>2. CASE g = f
      <3>1. mtime'[f] = 0 /\ content'[f] = Original
        BY <1>2, <2>2 DEF RestoreFile, TypeOK
      <3> QED
        BY <2>1, <2>2, <3>1 DEF Fits, FitsAfter
    <2>3. CASE g # f
      <3>1. mtime'[f] = mtime[f] /\ content'[f] = content[f]
        BY <1>2, <2>3 DEF RestoreFile, TypeOK
      <3> QED
        BY <2>1, <3>1 DEF Fits, FitsAfter, Poisoned
    <2> QED
      BY <2>2, <2>3
  <1>3. ASSUME UNCHANGED treeVars, torn \subseteq torn', turnedBack' = turnedBack
       PROVE  FitsAfter(t, e, f)
    BY <1>3 DEF Fits, FitsAfter, Poisoned, treeVars
  <1> QED
    BY <1>1, <1>2, <1>3, TreeStep

\* So do the entries of stored artifacts.
LEMMA HoldsStep ==
  ASSUME TypeOK, [Next]_vars, NEW m \in Artifacts, NEW f \in Files, Holds(m, f)
  PROVE  HoldsAfter(m, f)
  <1>1. m.snapshot[f] # None => m.snapshot[f] \in 0..MaxWrites
    BY DEF Artifacts, Stamps
  <1> QED
    BY <1>1, FitsStep DEF Holds, HoldsAfter

\* What is read now may be kept, under the time of the snapshot.
LEMMA ReadFits ==
  ASSUME Dated, NEW f \in Files, fresh[f] <= clock, Slips(f), UNCHANGED treeVars,
         NEW e \in {content[f], Nothing}
  PROVE  FitsAfter(fresh[f], e, f)
  BY DEF Dated, Slips, FitsAfter, treeVars

LEMMA DatedStep ==
  ASSUME TypeOK, Dated, [Next]_vars
  PROVE  Dated'
  <1>1. ASSUME NEW g \in Files, Write(g), NEW f \in Files
       PROVE  mtime'[f] <= clock' /\ (mtime'[f] = 0 => content'[f] = Original)
    <2>1. clock \in Nat /\ mtime[f] \in Nat /\ clock' = clock + 1
      BY <1>1, RefreshAssumption DEF Write, TypeOK
    <2>2. CASE g = f
      BY <1>1, <2>1, <2>2 DEF Write, TypeOK
    <2>3. CASE g # f
      <3>1. mtime'[f] = mtime[f] /\ content'[f] = content[f]
        BY <1>1, <2>3 DEF Write, TypeOK
      <3> QED
        BY <2>1, <3>1 DEF Dated
    <2> QED
      BY <2>2, <2>3
  <1>2. ASSUME NEW g \in Files, RestoreFile(g), NEW f \in Files
       PROVE  mtime'[f] <= clock' /\ (mtime'[f] = 0 => content'[f] = Original)
    <2>1. clock \in Nat /\ clock' = clock
      BY <1>2, RefreshAssumption DEF RestoreFile, TypeOK
    <2>2. CASE g = f
      BY <1>2, <2>1, <2>2 DEF RestoreFile, TypeOK
    <2>3. CASE g # f
      <3>1. mtime'[f] = mtime[f] /\ content'[f] = content[f]
        BY <1>2, <2>3 DEF RestoreFile, TypeOK
      <3> QED
        BY <2>1, <3>1 DEF Dated
    <2> QED
      BY <2>2, <2>3
  <1>3. ASSUME UNCHANGED treeVars
       PROVE  Dated'
    BY <1>3 DEF Dated, treeVars
  <1> QED
    BY <1>1, <1>2, <1>3, TreeStep DEF Dated

-----------------------------------------------------------------------------
(* What a refresh keeps and draws.                                         *)

\* The memory and the state file change in these ways only.
LEMMA StoredStep ==
  ASSUME [Next]_vars
  PROVE  \/ memory' = memory /\ saved' \in {saved, memory}
         \/ memory' = saved /\ saved' = saved
         \/ MapEnds
  <1>1. ASSUME NEW g \in Files,
               \/ Write(g) \/ RestoreFile(g) \/ Stat(g) \/ StatFails(g)
               \/ Indexed(g) \/ IndexUnread(g) \/ IndexRaises(g)
               \/ Imports(g) \/ ImportsUnread(g) \/ ImportsRaise(g)
       PROVE  UNCHANGED <<memory, saved>>
    BY <1>1 DEF Write, RestoreFile, Stat, StatFails, Indexed, IndexUnread,
                IndexRaises, Imports, ImportsUnread, ImportsRaise
  <1>2. ASSUME \/ PoolBreaks \/ SessionRestarts \/ Begin \/ ScanEnds \/ IndexEnds
               \/ Cancel \/ UNCHANGED vars
       PROVE  UNCHANGED <<memory, saved>>
    BY <1>2 DEF PoolBreaks, SessionRestarts, Begin, ScanEnds, IndexEnds, Cancel, vars
  <1>3. ASSUME Save
       PROVE  memory' = memory /\ saved' = memory
    BY <1>3 DEF Save
  <1>4. ASSUME Die
       PROVE  memory' = saved /\ saved' = saved
    BY <1>4 DEF Die
  <1> QED
    BY <1>1, <1>2, <1>3, <1>4 DEF Next, Around, Progress

\* What a refresh stores is as sound as what it has drawn.
LEMMA RememberedStep ==
  ASSUME IInv, [Next]_vars
  PROVE  Remembered'
  <1>1. /\ TypeOK /\ memory \in Artifacts /\ saved \in Artifacts
        /\ \A f \in Files : Holds(memory, f) /\ Holds(saved, f)
    BY DEF IInv, TypeOK, Remembered
  <1>2. \A f \in Files : HoldsAfter(memory, f) /\ HoldsAfter(saved, f)
    BY <1>1, HoldsStep
  <1>3. ASSUME MapEnds, NEW f \in Files
       PROVE  HoldsAfter(memory', f) /\ HoldsAfter(saved', f)
    <2>1. /\ stage = "map" /\ left = {} /\ alive = crew /\ saved' = saved
          /\ memory'.snapshot = fresh /\ memory'.index = index /\ memory'.map = map
      BY <1>3 DEF MapEnds
    <2>2. CASE fresh[f] = None
      <3>1. index[f] = None /\ map[f] = None
        BY <2>1, <2>2 DEF IInv, Indexes, Maps
      <3> QED
        BY <1>2, <2>1, <2>2, <3>1 DEF HoldsAfter
    <2>3. CASE fresh[f] # None
      <3>1. fresh[f] \in 0..MaxWrites
        BY <1>1, <2>3 DEF TypeOK, Stamps
      <3>2. Fits(fresh[f], index[f], f)
        BY <2>1, <2>3 DEF IInv, Indexes
      <3>3. f \in Mapped => Fits(fresh[f], map[f], f)
        BY <2>1, <2>3 DEF IInv, Maps
      <3>4. f \notin Mapped => map[f] = None
        BY <2>1, <2>3 DEF IInv, Maps
      <3>5. /\ FitsAfter(fresh[f], index[f], f)
            /\ f \in Mapped => FitsAfter(fresh[f], map[f], f)
        BY <1>1, <3>1, <3>2, <3>3, FitsStep
      <3> QED
        BY <1>2, <2>1, <2>3, <3>4, <3>5 DEF HoldsAfter
    <2> QED
      BY <2>2, <2>3
  <1>4. \A f \in Files : HoldsAfter(memory', f) /\ HoldsAfter(saved', f)
    BY <1>2, <1>3, StoredStep
  <1> QED
    BY <1>4 DEF Remembered, Holds, HoldsAfter, Fits, FitsAfter, Poisoned

\* The snapshot is drawn by Stat, and given up whenever a refresh ends.
LEMMA DrawnStep ==
  ASSUME TypeOK, Dated, Drawn, [Next]_vars
  PROVE  Drawn'
  <1>1. ASSUME stage' = "idle"
       PROVE  Drawn'
    BY <1>1 DEF Drawn
  <1>2. ASSUME NEW g \in Files, Write(g), stage # "idle"
       PROVE  Drawn'
    <2>1. /\ disturbed' = TRUE /\ fresh' = fresh /\ stage' = stage
          /\ clock' = clock + 1
      BY <1>2 DEF Write, draftVars
    <2>2. ASSUME NEW f \in Files, fresh[f] # None
         PROVE  fresh[f] <= clock + 1
      <3>1. fresh[f] \in Nat /\ clock \in Nat
        BY <2>2, RefreshAssumption DEF TypeOK, Stamps
      <3>2. fresh[f] <= clock
        BY <1>2, <2>2 DEF Drawn
      <3> QED
        BY <3>1, <3>2
    <2> QED
      BY <2>1, <2>2 DEF Drawn
  <1>3. ASSUME NEW g \in Files, Write(g) \/ RestoreFile(g), stage = "idle"
       PROVE  stage' = "idle"
    BY <1>3 DEF Write, RestoreFile
  <1>4. ASSUME NEW g \in Files, RestoreFile(g)
       PROVE  stage = "idle"
    BY <1>4 DEF RestoreFile
  <1>5. ASSUME Begin
       PROVE  Drawn'
    BY <1>5 DEF Begin, Blank, Drawn
  <1>6. ASSUME NEW g \in Files, Stat(g)
       PROVE  Drawn'
    <2>1. /\ UNCHANGED <<content, mtime, clock, stage, disturbed>> /\ stage # "idle"
          /\ fresh' = [fresh EXCEPT ![g] = IF content[g] = Absent THEN None ELSE mtime[g]]
          /\ fresh \in [Files -> (0..MaxWrites) \cup {None}]
      BY <1>6 DEF Stat, treeVars, pastVars, TypeOK, Stamps
    <2>2. ASSUME NEW f \in Files, fresh'[f] # None
         PROVE  /\ fresh'[f] <= clock
                /\ ~disturbed => fresh'[f] = mtime[f] /\ content[f] # Absent
      <3>1. CASE f = g
        BY <2>1, <2>2, <3>1 DEF Dated
      <3>2. CASE f # g
        BY <2>1, <2>2, <3>2 DEF Drawn
      <3> QED
        BY <3>1, <3>2
    <2> QED
      BY <2>1, <2>2 DEF Drawn
  <1>7. ASSUME NEW g \in Files,
               \/ StatFails(g) \/ Indexed(g) \/ IndexUnread(g)
               \/ Imports(g) \/ ImportsUnread(g) \/ ImportsRaise(g)
       PROVE  UNCHANGED <<treeVars, fresh, stage, disturbed>>
    BY <1>7 DEF StatFails, Indexed, IndexUnread, Imports, ImportsUnread,
                ImportsRaise, pastVars, draftVars
  <1>8. ASSUME Save \/ PoolBreaks \/ SessionRestarts \/ UNCHANGED vars
       PROVE  UNCHANGED <<treeVars, fresh, stage, disturbed>>
    BY <1>8 DEF Save, PoolBreaks, SessionRestarts, vars, pastVars, draftVars
  <1>9. ASSUME ScanEnds \/ IndexEnds
       PROVE  UNCHANGED <<treeVars, fresh, disturbed>> /\ stage # "idle"
    BY <1>9 DEF ScanEnds, IndexEnds, pastVars
  <1>10. ASSUME \/ \E g \in Files : IndexRaises(g)
                \/ MapEnds \/ Cancel \/ Die
       PROVE  stage' = "idle"
    BY <1>10 DEF IndexRaises, MapEnds, Cancel, Die, GivesUp
  <1>11. ASSUME UNCHANGED <<treeVars, fresh, disturbed>>, stage' = stage \/ stage # "idle"
       PROVE  Drawn'
    BY <1>11 DEF Drawn, treeVars
  <1> QED
    BY <1>1, <1>2, <1>3, <1>4, <1>5, <1>6, <1>7, <1>8, <1>9, <1>10, <1>11
    DEF Next, Around, Progress

\* An entry of the last refresh is kept under the time it was stored with.
LEMMA KeptFits ==
  ASSUME IInv, [Next]_vars, UNCHANGED fresh, NEW f \in Files \ Changed,
         fresh[f] # None
  PROVE  /\ FitsAfter(fresh[f], memory.index[f], f)
         /\ f \in Mapped => FitsAfter(fresh[f], memory.map[f], f)
  <1>1. fresh[f] = memory.snapshot[f] /\ memory \in Artifacts
    BY DEF Changed, IInv, TypeOK
  <1>2. HoldsAfter(memory, f)
    BY <1>1, HoldsStep DEF IInv, Remembered
  <1> QED
    BY <1>1, <1>2 DEF HoldsAfter

\* What the index has read it has read for the snapshot.
LEMMA IndexesStep ==
  ASSUME IInv, [Next]_vars
  PROVE  Indexes'
  <1>1. /\ TypeOK /\ Dated /\ Drawn
        /\ fresh \in Stamps /\ index \in [Files -> Entries]
    BY DEF IInv, TypeOK
  <1>2. ASSUME stage' \notin {"index", "map"}
       PROVE  Indexes'
    BY <1>2 DEF Indexes
  <1>3. ASSUME ScanEnds
       PROVE  Indexes'
    <2>1. /\ stage' = "index" /\ fresh' = fresh /\ left' = Changed
          /\ index' = Kept(memory.index)
      BY <1>3 DEF ScanEnds, Queue
    <2>2. ASSUME NEW f \in Files
         PROVE  /\ fresh[f] = None => index'[f] = None
                /\ fresh[f] # None => f \in left' \/ FitsAfter(fresh[f], index'[f], f)
                /\ f \in left' => fresh[f] # None
      BY <2>1, KeptFits DEF Kept, Changed
    <2> QED
      BY <2>1, <2>2 DEF Indexes, Fits, FitsAfter, Poisoned
  <1>4. ASSUME NEW g \in Files, NEW e \in {content[g], Nothing}, stage = "index",
               g \in left, left' = left \ {g}, Slips(g), UNCHANGED treeVars,
               UNCHANGED <<stage, fresh>>, index' = [index EXCEPT ![g] = e]
       PROVE  Indexes'
    <2>1. ASSUME NEW f \in Files
         PROVE  /\ fresh[f] = None => index'[f] = None
                /\ fresh[f] # None => f \in left' \/ FitsAfter(fresh[f], index'[f], f)
                /\ f \in left' => fresh[f] # None
      <3>1. CASE f = g
        <4>1. fresh[g] # None /\ fresh[g] <= clock /\ index'[g] = e
          BY <1>1, <1>4 DEF IInv, Indexes, Drawn
        <4>2. FitsAfter(fresh[g], e, g)
          BY <1>1, <1>4, <4>1, ReadFits
        <4> QED
          BY <1>4, <3>1, <4>1, <4>2
      <3>2. CASE f # g
        <4>1. index'[f] = index[f] /\ (f \in left' <=> f \in left)
          BY <1>1, <1>4, <3>2
        <4>2. /\ fresh[f] = None => index[f] = None
              /\ fresh[f] # None => f \in left \/ Fits(fresh[f], index[f], f)
              /\ f \in left => fresh[f] # None
          BY <1>4 DEF IInv, Indexes
        <4>3. fresh[f] # None => fresh[f] \in 0..MaxWrites
          BY <1>1 DEF Stamps
        <4> QED
          BY <1>1, <4>1, <4>2, <4>3, FitsStep
      <3> QED
        BY <3>1, <3>2
    <2> QED
      BY <1>4, <2>1 DEF Indexes, Fits, FitsAfter, Poisoned
  <1>5. ASSUME NEW g \in Files, Indexed(g) \/ IndexUnread(g)
       PROVE  Indexes'
    <2>1. /\ stage = "index" /\ g \in left /\ left' = left \ {g} /\ Slips(g)
          /\ UNCHANGED treeVars /\ UNCHANGED <<stage, fresh>>
          /\ \E e \in {content[g], Nothing} : index' = [index EXCEPT ![g] = e]
      BY <1>5 DEF Indexed, IndexUnread, Takes
    <2> QED
      BY <1>4, <2>1
  <1>6. ASSUME stage \in {"index", "map"}, UNCHANGED <<fresh, index>>,
               \/ stage' = stage /\ (stage = "index" => left' = left)
               \/ stage' = "map" /\ left = {}
       PROVE  Indexes'
    <2>1. ASSUME NEW f \in Files
         PROVE  /\ fresh[f] = None => index[f] = None
                /\ stage' = "index" /\ fresh[f] # None =>
                     f \in left' \/ FitsAfter(fresh[f], index[f], f)
                /\ stage' = "map" /\ fresh[f] # None => FitsAfter(fresh[f], index[f], f)
                /\ stage' = "index" /\ f \in left' => fresh[f] # None
      <3>1. /\ fresh[f] = None => index[f] = None
            /\ stage = "index" /\ fresh[f] # None =>
                 f \in left \/ Fits(fresh[f], index[f], f)
            /\ stage = "map" /\ fresh[f] # None => Fits(fresh[f], index[f], f)
            /\ stage = "index" /\ f \in left => fresh[f] # None
        BY <1>6 DEF IInv, Indexes
      <3>2. fresh[f] # None => fresh[f] \in 0..MaxWrites
        BY <1>1 DEF Stamps
      <3>3. fresh[f] # None /\ Fits(fresh[f], index[f], f)
              => FitsAfter(fresh[f], index[f], f)
        BY <1>1, <3>2, FitsStep
      <3> QED
        BY <1>6, <3>1, <3>3
    <2> QED
      BY <1>6, <2>1 DEF Indexes, Fits, FitsAfter, Poisoned
  <1>7. ASSUME IndexEnds
       PROVE  stage = "index" /\ stage' = "map" /\ left = {} /\ UNCHANGED <<fresh, index>>
    BY <1>7 DEF IndexEnds
  <1>8. ASSUME NEW g \in Files, Imports(g) \/ ImportsUnread(g) \/ ImportsRaise(g)
       PROVE  stage = "map" /\ UNCHANGED <<stage, fresh, index>>
    BY <1>8 DEF Imports, ImportsUnread, ImportsRaise, draftVars
  <1>9. ASSUME NEW g \in Files, Write(g) \/ RestoreFile(g)
       PROVE  UNCHANGED <<stage, fresh, index, left>>
    BY <1>9 DEF Write, RestoreFile, draftVars, crewVars
  <1>10. ASSUME Save \/ PoolBreaks \/ SessionRestarts \/ UNCHANGED vars
       PROVE  UNCHANGED <<stage, fresh, index, left>>
    BY <1>10 DEF Save, PoolBreaks, SessionRestarts, vars, draftVars, crewVars
  <1>11. ASSUME \/ \E g \in Files : Stat(g) \/ StatFails(g) \/ IndexRaises(g)
                \/ Begin \/ MapEnds \/ Cancel \/ Die
       PROVE  stage' \notin {"index", "map"}
    BY <1>11 DEF Stat, StatFails, IndexRaises, Begin, MapEnds, Cancel, Die, GivesUp
  <1> QED
    BY <1>2, <1>3, <1>5, <1>6, <1>7, <1>8, <1>9, <1>10, <1>11
    DEF Next, Around, Progress

\* The same for the self-map, unless a worker of it is gone.
LEMMA MapsStep ==
  ASSUME IInv, [Next]_vars
  PROVE  Maps'
  <1>1. /\ TypeOK /\ Dated /\ Drawn
        /\ fresh \in Stamps /\ map \in [Files -> Entries]
    BY DEF IInv, TypeOK
  <1>2. ASSUME stage' # "map"
       PROVE  Maps'
    BY <1>2 DEF Maps
  <1>3. ASSUME IndexEnds
       PROVE  Maps'
    <2>1. /\ stage' = "map" /\ fresh' = fresh /\ left' = Changed \cap Mapped
          /\ map' = Kept(memory.map)
      BY <1>3 DEF IndexEnds, Queue
    <2>2. ASSUME NEW f \in Files
         PROVE  /\ fresh[f] = None \/ f \notin Mapped => map'[f] = None
                /\ fresh[f] # None /\ f \in Mapped =>
                     f \in left' \/ FitsAfter(fresh[f], map'[f], f)
                /\ f \in left' => fresh[f] # None /\ f \in Mapped
      <3>1. f \notin Mapped => memory.map[f] = None
        BY DEF IInv, Remembered, Holds
      <3> QED
        BY <2>1, <3>1, KeptFits DEF Kept, Changed
    <2> QED
      BY <2>1, <2>2 DEF Maps, Fits, FitsAfter, Poisoned
  <1>4. ASSUME NEW g \in Files, NEW e \in {content[g], Nothing}, stage = "map",
               g \in left, left' = left \ {g}, Slips(g), UNCHANGED treeVars,
               UNCHANGED <<stage, fresh, crew, alive>>, map' = [map EXCEPT ![g] = e]
       PROVE  Maps'
    <2>1. ASSUME NEW f \in Files
         PROVE  /\ fresh[f] = None \/ f \notin Mapped => map'[f] = None
                /\ fresh[f] # None /\ f \in Mapped /\ alive = crew =>
                     f \in left' \/ FitsAfter(fresh[f], map'[f], f)
                /\ f \in left' => fresh[f] # None /\ f \in Mapped
      <3>1. CASE f = g
        <4>1. g \in Mapped /\ fresh[g] # None /\ fresh[g] <= clock /\ map'[g] = e
          BY <1>1, <1>4 DEF IInv, Maps, Drawn
        <4>2. FitsAfter(fresh[g], e, g)
          BY <1>1, <1>4, <4>1, ReadFits
        <4> QED
          BY <1>4, <3>1, <4>1, <4>2
      <3>2. CASE f # g
        <4>1. map'[f] = map[f] /\ (f \in left' <=> f \in left)
          BY <1>1, <1>4, <3>2
        <4>2. /\ fresh[f] = None \/ f \notin Mapped => map[f] = None
              /\ fresh[f] # None /\ f \in Mapped /\ alive = crew =>
                   f \in left \/ Fits(fresh[f], map[f], f)
              /\ f \in left => fresh[f] # None /\ f \in Mapped
          BY <1>4 DEF IInv, Maps
        <4>3. fresh[f] # None => fresh[f] \in 0..MaxWrites
          BY <1>1 DEF Stamps
        <4> QED
          BY <1>1, <4>1, <4>2, <4>3, FitsStep
      <3> QED
        BY <3>1, <3>2
    <2> QED
      BY <1>4, <2>1 DEF Maps, Fits, FitsAfter, Poisoned
  <1>5. ASSUME NEW g \in Files, Imports(g) \/ ImportsUnread(g)
       PROVE  Maps'
    <2>1. /\ stage = "map" /\ g \in left /\ left' = left \ {g} /\ Slips(g)
          /\ UNCHANGED treeVars /\ UNCHANGED <<stage, fresh, crew, alive>>
          /\ \E e \in {content[g], Nothing} : map' = [map EXCEPT ![g] = e]
      BY <1>5 DEF Imports, ImportsUnread, Takes
    <2> QED
      BY <1>4, <2>1
  <1>6. ASSUME NEW g \in Files, ImportsRaise(g)
       PROVE  Maps'
    <2>1. /\ stage = "map" /\ UNCHANGED <<stage, fresh, map, crew>>
          /\ left' = left \ {g} /\ alive' = alive - 1
      BY <1>6 DEF ImportsRaise, Takes, draftVars
    <2>2. alive' # crew'
      BY <1>1, <2>1, RefreshAssumption DEF TypeOK
    <2> QED
      BY <2>1, <2>2 DEF IInv, Maps
  <1>7. ASSUME stage = "map", UNCHANGED <<stage, fresh, map, left, crew, alive>>
       PROVE  Maps'
    <2>1. ASSUME NEW f \in Files
         PROVE  /\ fresh[f] = None \/ f \notin Mapped => map[f] = None
                /\ fresh[f] # None /\ f \in Mapped /\ alive = crew =>
                     f \in left \/ FitsAfter(fresh[f], map[f], f)
                /\ f \in left => fresh[f] # None /\ f \in Mapped
      <3>1. fresh[f] # None => fresh[f] \in 0..MaxWrites
        BY <1>1 DEF Stamps
      <3>2. fresh[f] # None /\ Fits(fresh[f], map[f], f) => FitsAfter(fresh[f], map[f], f)
        BY <1>1, <3>1, FitsStep
      <3> QED
        BY <1>7, <3>2 DEF IInv, Maps
    <2> QED
      BY <1>7, <2>1 DEF Maps, Fits, FitsAfter, Poisoned
  <1>8. ASSUME NEW g \in Files, Write(g) \/ RestoreFile(g)
       PROVE  UNCHANGED <<stage, fresh, map, left, crew, alive>>
    BY <1>8 DEF Write, RestoreFile, draftVars, crewVars
  <1>9. ASSUME Save \/ PoolBreaks \/ SessionRestarts \/ UNCHANGED vars
       PROVE  UNCHANGED <<stage, fresh, map, left, crew, alive>>
    BY <1>9 DEF Save, PoolBreaks, SessionRestarts, vars, draftVars, crewVars
  <1>10. ASSUME \/ \E g \in Files : \/ Stat(g) \/ StatFails(g) \/ Indexed(g)
                                    \/ IndexUnread(g) \/ IndexRaises(g)
                \/ Begin \/ ScanEnds \/ MapEnds \/ Cancel \/ Die
       PROVE  stage' # "map"
    BY <1>10 DEF Stat, StatFails, Indexed, IndexUnread, IndexRaises, Begin,
                 ScanEnds, MapEnds, Cancel, Die, GivesUp
  <1> QED
    BY <1>2, <1>3, <1>5, <1>6, <1>7, <1>8, <1>9, <1>10 DEF Next, Around, Progress

-----------------------------------------------------------------------------
(* The theorems.                                                           *)

LEMMA Invariance == Spec => []IInv
  <1>1. IInv /\ [Next]_vars => IInv'
    BY TypeStep, DatedStep, RememberedStep, DrawnStep, IndexesStep, MapsStep DEF IInv
  <1> QED
    BY InitInv, <1>1, PTL DEF Spec

\* The variables keep their types: a stage has no more workers than the
\* configured limit, and a worker that is gone was one of the stage's.
THEOREM TypeCorrect == Spec => []TypeOK
  <1>1. IInv => TypeOK
    BY DEF IInv
  <1> QED
    BY Invariance, <1>1, PTL

\* _refresh_repository_artifacts stores an index and a self-map that describe
\* the files as they are, when nobody wrote while it ran: an entry that it
\* kept because the time of its file had not changed is still right.
THEOREM StoredArtifactsAreCurrent == Spec => ArtifactsAreCurrent
  <1>1. ASSUME IInv, MapEnds, ~disturbed, NEW f \in Files \ Poisoned
       PROVE  IF memory'.snapshot[f] # None THEN Describes(memory', f)
              ELSE memory'.index[f] = None /\ memory'.map[f] = None
    <2>1. /\ stage = "map" /\ left = {} /\ alive = crew /\ UNCHANGED content
          /\ memory'.snapshot = fresh /\ memory'.index = index /\ memory'.map = map
      BY <1>1 DEF MapEnds, treeVars
    <2>2. CASE fresh[f] = None
      <3>1. index[f] = None /\ map[f] = None
        BY <1>1, <2>1, <2>2 DEF IInv, Indexes, Maps
      <3> QED
        BY <2>1, <2>2, <3>1
    <2>3. CASE fresh[f] # None
      <3>1. fresh[f] = mtime[f] /\ content[f] # Absent
        BY <1>1, <2>1, <2>3 DEF IInv, Drawn
      <3>2. Fits(fresh[f], index[f], f)
        BY <1>1, <2>1, <2>3 DEF IInv, Indexes
      <3>3. IF f \in Mapped THEN Fits(fresh[f], map[f], f) ELSE map[f] = None
        BY <1>1, <2>1, <2>3 DEF IInv, Maps
      <3>4. /\ index[f] \in {content[f], Nothing}
            /\ map[f] \in IF f \in Mapped THEN {content[f], Nothing} ELSE {None}
        BY <1>1, <3>1, <3>2, <3>3 DEF Fits
      <3> QED
        BY <2>1, <2>3, <3>4 DEF Describes
    <2> QED
      BY <2>2, <2>3
  <1>2. IInv /\ [Next]_vars =>
          [MapEnds =>
             disturbed \/
             \A f \in Files \ Poisoned :
               IF memory'.snapshot[f] # None THEN Describes(memory', f)
               ELSE memory'.index[f] = None /\ memory'.map[f] = None]_vars
    BY <1>1
  <1> QED
    BY Invariance, <1>2, PTL DEF Spec, ArtifactsAreCurrent
=============================================================================
