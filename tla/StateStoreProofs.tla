-------------------------- MODULE StateStoreProofs --------------------------
(***************************************************************************)
(* The state file is a register of whole states for any number of          *)
(* processes, saves, errors and kills.                                     *)
(***************************************************************************)
EXTENDS StateStore, TLAPS

\* Who has the lock, and what a call knows of itself.
Calls ==
  \A p \in Procs :
    /\ pc[p] \in {"metadata", "open", "write", "replace", "release"} => lock = p
    /\ pc[p] \notin {"release", "unlink"} => ~installed[p]
    /\ pc[p] \notin {"idle", "dead"} => payload[p] \in Payloads

\* A .tmp is never the state file, and the file a process writes goes by the
\* name .tmp or by none.
Names ==
  /\ tmp # 0 => tmp # state
  /\ \A p \in Procs :
       pc[p] \in {"write", "replace"} =>
         fd[p] # 0 /\ fd[p] # state /\ tmp \in {0, fd[p]}

\* What is about to be renamed is whole.
Written == \A p \in Procs : pc[p] = "replace" => file[fd[p]] = payload[p]

IInv == TypeOK /\ Calls /\ Names /\ Written /\ StateWhole

\* The two names, where they are given, are those of files.
LEMMA NamedFiles ==
  ASSUME TypeOK
  PROVE  /\ Len(file) \in Nat
         /\ state # 0 => state \in 1..Len(file)
         /\ tmp # 0 => tmp \in 1..Len(file)
  <1>1. Len(file) \in Nat /\ state \in 0..Len(file) /\ tmp \in 0..Len(file)
    BY DEF TypeOK, Handles
  <1> QED
    BY <1>1

\* A file that is created leaves the others as they are.
LEMMA NewFile ==
  ASSUME TypeOK, file' = Append(file, Partial)
  PROVE  /\ file' \in Seq(Payloads \cup {Partial})
         /\ Len(file) \in Nat /\ Len(file') = Len(file) + 1
         /\ file'[Len(file) + 1] = Partial
         /\ \A i \in 1..Len(file) : file'[i] = file[i]
  BY DEF TypeOK

\* Nor does a write to a file touch the others.
LEMMA FileWritten ==
  ASSUME TypeOK, NEW i \in 1..Len(file), NEW content \in Payloads \cup {Partial},
         file' = [file EXCEPT ![i] = content]
  PROVE  /\ file' \in Seq(Payloads \cup {Partial})
         /\ Len(file') = Len(file) /\ Len(file) \in Nat
         /\ file'[i] = content
         /\ \A j \in 1..Len(file) : j # i => file'[j] = file[j]
  BY DEF TypeOK

\* What open(tmp_path, "w") does.
LEMMA Opened ==
  ASSUME TypeOK, NEW p \in Procs, OpenTmp(p)
  PROVE  /\ file' \in Seq(Payloads \cup {Partial})
         /\ Len(file) \in Nat /\ Len(file') \in Nat /\ Len(file) <= Len(file')
         /\ tmp' \in 1..Len(file')
         /\ tmp' \in {tmp, Len(file) + 1} /\ (tmp # 0 => tmp' = tmp)
         /\ \A i \in 1..Len(file) : i # tmp => file'[i] = file[i]
         /\ state' = state /\ (state # 0 => state \in 1..Len(file))
  <1>1. CASE tmp = 0
    BY <1>1, NewFile, NamedFiles DEF OpenTmp
  <1>2. CASE tmp # 0
    BY <1>2, FileWritten, NamedFiles DEF OpenTmp
  <1> QED
    BY <1>1, <1>2

\* The handle of a process that writes is that of a file.
LEMMA OpenFile ==
  ASSUME IInv, NEW p \in Procs, pc[p] \in {"write", "replace"}
  PROVE  fd[p] \in 1..Len(file) /\ payload[p] \in Payloads \cup {Partial}
  <1>1. fd[p] \in 0..Len(file) /\ fd[p] # 0 /\ Len(file) \in Nat
    BY DEF IInv, TypeOK, Names, Handles
  <1>2. payload[p] \in Payloads
    BY DEF IInv, Calls
  <1> QED
    BY <1>1, <1>2

\* The invariant holds at the start.
LEMMA InitInv == Init => IInv
  <1> SUFFICES ASSUME Init PROVE IInv
    OBVIOUS
  <1>1. file \in Seq(Payloads \cup {Partial}) /\ Len(file) \in {0, 1}
    <2>1. CASE file = <<>>
      BY <2>1
    <2>2. CASE \E v \in Payloads : file = <<v>>
      BY <2>2
    <2> QED
      BY <2>1, <2>2 DEF Init
  <1>2. TypeOK
    BY <1>1, StateStoreAssumption DEF Init, TypeOK, Handles, PCs
  <1>3. StateWhole
    BY StateStoreAssumption DEF Init, StateWhole
  <1> QED
    BY <1>2, <1>3 DEF Init, IInv, Calls, Names, Written

\* Counting a fault, moving on and forgetting a call keep the types of what
\* they change.
LEMMA FaultTyped ==
  ASSUME TypeOK, Fault
  PROVE  faults' \in 0..MaxFaults
  <1>1. faults \in 0..MaxFaults /\ faults < MaxFaults /\ faults' = faults + 1
    BY DEF TypeOK, Fault
  <1> QED
    BY <1>1, StateStoreAssumption

LEMMA GotoTyped ==
  ASSUME TypeOK, NEW p \in Procs, NEW label \in PCs, Goto(p, label)
  PROVE  pc' \in [Procs -> PCs]
  <1>1. pc \in [Procs -> PCs]
    BY DEF TypeOK
  <1> QED
    BY <1>1 DEF Goto

LEMMA ForgetsTyped ==
  ASSUME TypeOK, NEW p \in Procs, Forgets(p), UNCHANGED file
  PROVE  /\ payload' \in [Procs -> Payloads \cup {Default}]
         /\ fd' \in [Procs -> Handles]
         /\ tries' \in [Procs -> 0..MaxTries]
         /\ windows' \in [Procs -> 0..StaleRetries]
         /\ installed' \in [Procs -> BOOLEAN]
  <1>1. payload' \in [Procs -> Payloads \cup {Default}]
    BY DEF TypeOK, Forgets
  <1>2. fd' \in [Procs -> Handles]
    <2>1. 0 \in Handles
      BY NamedFiles DEF Handles
    <2> QED
      BY <2>1 DEF TypeOK, Forgets
  <1>3. tries' \in [Procs -> 0..MaxTries] /\ windows' \in [Procs -> 0..StaleRetries]
    BY StateStoreAssumption DEF TypeOK, Forgets
  <1>4. installed' \in [Procs -> BOOLEAN]
    BY DEF TypeOK, Forgets
  <1> QED
    BY <1>1, <1>2, <1>3, <1>4

\* Every step keeps the types.
LEMMA TypeStep ==
  ASSUME IInv, [Next]_vars
  PROVE  TypeOK'
  <1>0. TypeOK
    BY DEF IInv
  <1>1. ASSUME UNCHANGED <<vars>>
       PROVE  TypeOK'
    BY <1>0, <1>1 DEF TypeOK, Handles, PCs, vars, saveVars
  <1>2. ASSUME NEW p \in Procs, Load(p)
       PROVE  TypeOK'
    <2>1. Content \in Payloads \cup {Default}
      BY <1>0 DEF Content, TypeOK, Handles
    <2> QED
      BY <1>0, <1>2, <2>1 DEF Load, saveVars, TypeOK, Handles, PCs
  <1>3. ASSUME NEW p \in Procs, LoadFails(p)
       PROVE  TypeOK'
    <2>1. faults' \in 0..MaxFaults
      BY <1>0, <1>3, FaultTyped DEF LoadFails
    <2> QED
      BY <1>0, <1>3, <2>1 DEF LoadFails, saveVars, TypeOK, Handles
  <1>4. ASSUME NEW p \in Procs, NEW v \in Payloads, SaveBegin(p, v)
       PROVE  TypeOK'
    <2>1. pc' \in [Procs -> PCs]
      BY <1>0, <1>4, GotoTyped DEF SaveBegin, PCs
    <2>2. saves' \in 0..MaxSaves
      BY <1>0, <1>4, StateStoreAssumption DEF SaveBegin, TypeOK
    <2> QED
      BY <1>0, <1>4, <2>1, <2>2 DEF SaveBegin, TypeOK, Handles
  <1>5. ASSUME NEW p \in Procs, TryLock(p)
       PROVE  TypeOK'
    <2>1. pc' \in [Procs -> PCs]
      BY <1>0, <1>5, GotoTyped DEF TryLock, PCs
    <2> QED
      BY <1>0, <1>5, <2>1 DEF TryLock, saveVars, TypeOK, Handles
  <1>6. ASSUME NEW p \in Procs, GivesUp(p)
       PROVE  TypeOK'
    <2>1. pc' \in [Procs -> PCs]
      BY <1>0, <1>6, GotoTyped DEF GivesUp, PCs
    <2> QED
      BY <1>0, <1>6, <2>1 DEF GivesUp, saveVars, TypeOK, Handles
  <1>7. ASSUME NEW p \in Procs, WriteMetadata(p)
       PROVE  TypeOK'
    <2>1. pc' \in [Procs -> PCs]
      BY <1>0, <1>7, GotoTyped DEF WriteMetadata, PCs
    <2> QED
      BY <1>0, <1>7, <2>1 DEF WriteMetadata, saveVars, TypeOK, Handles
  <1>8. ASSUME NEW p \in Procs, WriteMetadataFails(p)
       PROVE  TypeOK'
    <2>1. pc' \in [Procs -> PCs] /\ faults' \in 0..MaxFaults
      BY <1>0, <1>8, GotoTyped, FaultTyped DEF WriteMetadataFails, PCs
    <2> QED
      BY <1>0, <1>8, <2>1 DEF WriteMetadataFails, saveVars, TypeOK, Handles
  <1>9. ASSUME NEW p \in Procs, WriteFails(p)
       PROVE  TypeOK'
    <2>1. pc' \in [Procs -> PCs] /\ faults' \in 0..MaxFaults
      BY <1>0, <1>9, GotoTyped, FaultTyped DEF WriteFails, PCs
    <2> QED
      BY <1>0, <1>9, <2>1 DEF WriteFails, saveVars, TypeOK, Handles
  <1>10. ASSUME NEW p \in Procs, Replace(p)
       PROVE  TypeOK'
    <2>1. pc' \in [Procs -> PCs]
      BY <1>0, <1>10, GotoTyped DEF Replace, PCs
    <2>2. state' \in Handles /\ tmp' \in Handles
      BY <1>0, <1>10, NamedFiles DEF Replace, TypeOK, Handles
    <2> QED
      BY <1>0, <1>10, <2>1, <2>2 DEF Replace, TypeOK, Handles
  <1>11. ASSUME NEW p \in Procs, Release(p)
       PROVE  TypeOK'
    <2>1. pc' \in [Procs -> PCs]
      BY <1>0, <1>11, GotoTyped DEF Release, PCs
    <2> QED
      BY <1>0, <1>11, <2>1 DEF Release, saveVars, TypeOK, Handles
  <1>12. ASSUME NEW p \in Procs, UnlinkFails(p)
       PROVE  TypeOK'
    <2>1. pc' \in [Procs -> PCs] /\ faults' \in 0..MaxFaults
      BY <1>0, <1>12, GotoTyped, FaultTyped DEF UnlinkFails, Returns, PCs
    <2>2. Forgets(p) /\ UNCHANGED <<file, state, lock, pid, seen, saves, tmp>>
      BY <1>12 DEF UnlinkFails, Returns
    <2>3. returned' \in [Procs -> {"none", "ok", "raised"}]
      BY <1>0, <1>12 DEF UnlinkFails, Returns, TypeOK
    <2> QED
      BY <1>0, <2>1, <2>2, <2>3, ForgetsTyped DEF TypeOK, Handles
  <1>13. ASSUME NEW p \in Procs, Die(p)
       PROVE  TypeOK'
    <2>1. pc' \in [Procs -> PCs] /\ faults' \in 0..MaxFaults
      BY <1>0, <1>13, GotoTyped, FaultTyped DEF Die, PCs
    <2>2. Forgets(p) /\ UNCHANGED <<file, state, tmp, returned, seen, saves>>
      BY <1>13 DEF Die
    <2>3. lock' \in Procs \cup {None} /\ pid' \in Procs \cup {None}
      BY <1>0, <1>13 DEF Die, TypeOK
    <2> QED
      BY <1>0, <2>1, <2>2, <2>3, ForgetsTyped DEF TypeOK, Handles
  <1>14. ASSUME NEW p \in Procs, Backoff(p)
       PROVE  TypeOK'
    <2>1. tries' \in [Procs -> 0..MaxTries]
      <3>1. tries[p] \in 0..MaxTries /\ tries[p] < MaxTries
        BY <1>14 DEF Backoff, IInv, TypeOK
      <3>2. tries[p] + 1 \in 0..MaxTries
        BY <3>1, StateStoreAssumption
      <3> QED
        BY <1>14, <3>2 DEF Backoff, IInv, TypeOK
    <2> QED
      BY <1>14, <2>1 DEF Backoff, Goto, IInv, TypeOK, Handles, PCs
  <1>15. ASSUME NEW p \in Procs, NextWindow(p)
       PROVE  TypeOK'
    <2>1. windows' \in [Procs -> 0..StaleRetries]
      <3>1. windows[p] \in 0..StaleRetries /\ windows[p] < StaleRetries
        BY <1>15 DEF NextWindow, IInv, TypeOK
      <3>2. windows[p] + 1 \in 0..StaleRetries
        BY <3>1, StateStoreAssumption
      <3> QED
        BY <1>15, <3>2 DEF NextWindow, IInv, TypeOK
    <2>2. tries' \in [Procs -> 0..MaxTries]
      BY <1>15, StateStoreAssumption DEF NextWindow, IInv, TypeOK
    <2> QED
      BY <1>15, <2>1, <2>2 DEF NextWindow, Goto, IInv, TypeOK, Handles, PCs
  <1>16. ASSUME NEW p \in Procs, ReplaceFails(p)
       PROVE  TypeOK'
    <2>1. faults' \in 0..MaxFaults
      BY <1>16, StateStoreAssumption DEF ReplaceFails, Fault, IInv, TypeOK
    <2> QED
      BY <1>16, <2>1 DEF ReplaceFails, Goto, saveVars, IInv, TypeOK, Handles, PCs
  <1>17. ASSUME NEW p \in Procs, Unlink(p)
       PROVE  TypeOK'
    <2> DEFINE how == IF installed[p] THEN "ok" ELSE "raised"
    <2>1. how \in {"none", "ok", "raised"}
      OBVIOUS
    <2>2. Returns(p, how) /\ tmp' = 0 /\ faults' = faults
      BY <1>17 DEF Unlink
    <2>3. TypeOK /\ 0 \in Handles
      BY NamedFiles DEF IInv, Handles
    <2> HIDE DEF how
    <2>4. Returns(p, how) => returned' \in [Procs -> {"none", "ok", "raised"}]
      BY <2>1, <2>3 DEF Returns, TypeOK
    <2>5. Returns(p, how) => /\ payload' \in [Procs -> Payloads \cup {Default}]
                             /\ fd' \in [Procs -> Handles]
                             /\ installed' \in [Procs -> BOOLEAN]
      BY <2>3 DEF Returns, Forgets, TypeOK
    <2>6. Returns(p, how) => /\ tries' \in [Procs -> 0..MaxTries]
                             /\ windows' \in [Procs -> 0..StaleRetries]
      BY <2>3, StateStoreAssumption DEF Returns, Forgets, TypeOK
    <2>7. Returns(p, how) => pc' \in [Procs -> PCs]
      BY <2>3 DEF Returns, Goto, TypeOK, PCs
    <2>8. Returns(p, how) => UNCHANGED <<file, state, lock, pid, seen, saves>>
      BY DEF Returns
    <2> QED
      BY <2>2, <2>3, <2>4, <2>5, <2>6, <2>7, <2>8 DEF TypeOK, Handles
  <1>18. ASSUME NEW p \in Procs, OpenTmp(p)
       PROVE  TypeOK'
    <2>1. tmp' \in Handles' /\ state' \in Handles' /\ Handles \subseteq Handles'
      BY <1>18, Opened DEF IInv, Handles
    <2>3. fd' \in [Procs -> Handles']
      BY <1>18, <2>1 DEF OpenTmp, IInv, TypeOK
    <2>2. file' \in Seq(Payloads \cup {Partial})
      BY <1>18, Opened DEF IInv
    <2> QED
      BY <1>18, <2>1, <2>2, <2>3 DEF OpenTmp, Goto, IInv, TypeOK, PCs
  <1>19. ASSUME NEW p \in Procs, WriteTmp(p)
       PROVE  TypeOK'
    <2>1. fd[p] \in 1..Len(file) /\ payload[p] \in Payloads \cup {Partial}
      BY <1>19, OpenFile DEF WriteTmp, At
    <2>2. file' \in Seq(Payloads \cup {Partial}) /\ Len(file') = Len(file)
      BY <1>19, <2>1, FileWritten DEF WriteTmp, IInv
    <2> QED
      BY <1>19, <2>2 DEF WriteTmp, Goto, saveVars, IInv, TypeOK, Handles, PCs
  <1> QED
    BY <1>1, <1>2, <1>3, <1>4, <1>5, <1>6, <1>7, <1>8, <1>9, <1>10, <1>11,
       <1>12, <1>13, <1>14, <1>15, <1>16, <1>17, <1>18, <1>19
    DEF Next, Waits, Writes, Fails, Goto, At, Fault, Returns, Forgets, vars,
        saveVars

\* The lock has one holder, and a call knows whether its rename took place.
LEMMA CallsStep ==
  ASSUME IInv, [Next]_vars
  PROVE  Calls'
  <1>1. ASSUME UNCHANGED <<pc, lock, installed, payload>>
       PROVE  Calls'
    BY <1>1 DEF IInv, Calls
  <1>2. ASSUME NEW p \in Procs, NEW v \in Payloads, SaveBegin(p, v)
       PROVE  Calls'
    BY <1>2, StateStoreAssumption DEF SaveBegin, IInv, Calls, TypeOK, Goto,
       At, Fault, saveVars, Returns, Forgets, PCs
  <1>3. ASSUME NEW p \in Procs, Backoff(p)
       PROVE  Calls'
    BY <1>3, StateStoreAssumption DEF Backoff, IInv, Calls, TypeOK, Goto,
       At, Fault, saveVars, Returns, Forgets, PCs
  <1>4. ASSUME NEW p \in Procs, GivesUp(p)
       PROVE  Calls'
    BY <1>4, StateStoreAssumption DEF GivesUp, IInv, Calls, TypeOK, Goto,
       At, Fault, saveVars, Returns, Forgets, PCs
  <1>5. ASSUME NEW p \in Procs, NextWindow(p)
       PROVE  Calls'
    BY <1>5, StateStoreAssumption DEF NextWindow, IInv, Calls, TypeOK, Goto,
       At, Fault, saveVars, Returns, Forgets, PCs
  <1>6. ASSUME NEW p \in Procs, WriteMetadata(p)
       PROVE  Calls'
    BY <1>6, StateStoreAssumption DEF WriteMetadata, IInv, Calls, TypeOK,
       Goto, At, Fault, saveVars, Returns, Forgets, PCs
  <1>7. ASSUME NEW p \in Procs, WriteMetadataFails(p)
       PROVE  Calls'
    BY <1>7, StateStoreAssumption DEF WriteMetadataFails, IInv, Calls,
       TypeOK, Goto, At, Fault, saveVars, Returns, Forgets, PCs
  <1>8. ASSUME NEW p \in Procs, OpenTmp(p)
       PROVE  Calls'
    BY <1>8, StateStoreAssumption DEF OpenTmp, IInv, Calls, TypeOK, Goto,
       At, Fault, saveVars, Returns, Forgets, PCs
  <1>9. ASSUME NEW p \in Procs, WriteTmp(p)
       PROVE  Calls'
    BY <1>9, StateStoreAssumption DEF WriteTmp, IInv, Calls, TypeOK, Goto,
       At, Fault, saveVars, Returns, Forgets, PCs
  <1>10. ASSUME NEW p \in Procs, WriteFails(p)
       PROVE  Calls'
    BY <1>10, StateStoreAssumption DEF WriteFails, IInv, Calls, TypeOK,
       Goto, At, Fault, saveVars, Returns, Forgets, PCs
  <1>11. ASSUME NEW p \in Procs, Replace(p)
       PROVE  Calls'
    BY <1>11, StateStoreAssumption DEF Replace, IInv, Calls, TypeOK, Goto,
       At, Fault, saveVars, Returns, Forgets, PCs
  <1>12. ASSUME NEW p \in Procs, ReplaceFails(p)
       PROVE  Calls'
    BY <1>12, StateStoreAssumption DEF ReplaceFails, IInv, Calls, TypeOK,
       Goto, At, Fault, saveVars, Returns, Forgets, PCs
  <1>13. ASSUME NEW p \in Procs, Release(p)
       PROVE  Calls'
    BY <1>13, StateStoreAssumption DEF Release, IInv, Calls, TypeOK, Goto,
       At, Fault, saveVars, Returns, Forgets, PCs
  <1>14. ASSUME NEW p \in Procs, Unlink(p)
       PROVE  Calls'
    BY <1>14, StateStoreAssumption DEF Unlink, IInv, Calls, TypeOK, Goto,
       At, Fault, saveVars, Returns, Forgets, PCs
  <1>15. ASSUME NEW p \in Procs, UnlinkFails(p)
       PROVE  Calls'
    BY <1>15, StateStoreAssumption DEF UnlinkFails, IInv, Calls, TypeOK,
       Goto, At, Fault, saveVars, Returns, Forgets, PCs
  <1>16. ASSUME NEW p \in Procs, Die(p)
       PROVE  Calls'
    BY <1>16, StateStoreAssumption DEF Die, IInv, Calls, TypeOK, Goto, At,
       Fault, saveVars, Returns, Forgets, PCs
  <1>17. ASSUME NEW p \in Procs, TryLock(p)
       PROVE  Calls'
    <2>1. \A q \in Procs :
            pc[q] \in {"metadata", "open", "write", "replace", "release"} =>
              lock # None
      BY StateStoreAssumption DEF IInv, Calls
    <2>2. CASE lock = None
      BY <1>17, <2>1, <2>2 DEF TryLock, Goto, At, saveVars, IInv, Calls, TypeOK
    <2>3. CASE lock # None
      BY <1>17, <2>3 DEF TryLock, Goto, At, saveVars, IInv, Calls, TypeOK
    <2> QED
      BY <2>2, <2>3
  <1> QED
    BY <1>1, <1>2, <1>3, <1>4, <1>5, <1>6, <1>7, <1>8, <1>9, <1>10, <1>11,
       <1>12, <1>13, <1>14, <1>15, <1>16, <1>17
    DEF Next, Waits, Writes, Fails, Load, LoadFails, Goto, At, Fault,
        Returns, Forgets, vars, saveVars

\* The two names and the open files stay apart.
LEMMA NamesStep ==
  ASSUME IInv, [Next]_vars
  PROVE  Names'
  <1>1. ASSUME UNCHANGED <<tmp, state, pc, fd>>
       PROVE  Names'
    BY <1>1 DEF IInv, Names
  <1>2. ASSUME NEW p \in Procs, NEW v \in Payloads, SaveBegin(p, v)
       PROVE  Names'
    BY <1>2 DEF SaveBegin, IInv, Names, Calls, TypeOK, Handles, Goto, At,
       Fault, saveVars, Returns, Forgets, PCs
  <1>3. ASSUME NEW p \in Procs, TryLock(p)
       PROVE  Names'
    BY <1>3 DEF TryLock, IInv, Names, Calls, TypeOK, Handles, Goto, At,
       Fault, saveVars, Returns, Forgets, PCs
  <1>4. ASSUME NEW p \in Procs, Backoff(p)
       PROVE  Names'
    BY <1>4 DEF Backoff, IInv, Names, Calls, TypeOK, Handles, Goto, At,
       Fault, saveVars, Returns, Forgets, PCs
  <1>5. ASSUME NEW p \in Procs, GivesUp(p)
       PROVE  Names'
    BY <1>5 DEF GivesUp, IInv, Names, Calls, TypeOK, Handles, Goto, At,
       Fault, saveVars, Returns, Forgets, PCs
  <1>6. ASSUME NEW p \in Procs, NextWindow(p)
       PROVE  Names'
    BY <1>6 DEF NextWindow, IInv, Names, Calls, TypeOK, Handles, Goto, At,
       Fault, saveVars, Returns, Forgets, PCs
  <1>7. ASSUME NEW p \in Procs, WriteMetadata(p)
       PROVE  Names'
    BY <1>7 DEF WriteMetadata, IInv, Names, Calls, TypeOK, Handles, Goto,
       At, Fault, saveVars, Returns, Forgets, PCs
  <1>8. ASSUME NEW p \in Procs, WriteMetadataFails(p)
       PROVE  Names'
    BY <1>8 DEF WriteMetadataFails, IInv, Names, Calls, TypeOK, Handles,
       Goto, At, Fault, saveVars, Returns, Forgets, PCs
  <1>9. ASSUME NEW p \in Procs, WriteTmp(p)
       PROVE  Names'
    BY <1>9 DEF WriteTmp, IInv, Names, Calls, TypeOK, Handles, Goto, At,
       Fault, saveVars, Returns, Forgets, PCs
  <1>10. ASSUME NEW p \in Procs, WriteFails(p)
       PROVE  Names'
    BY <1>10 DEF WriteFails, IInv, Names, Calls, TypeOK, Handles, Goto, At,
       Fault, saveVars, Returns, Forgets, PCs
  <1>11. ASSUME NEW p \in Procs, Replace(p)
       PROVE  Names'
    BY <1>11 DEF Replace, IInv, Names, Calls, TypeOK, Handles, Goto, At,
       Fault, saveVars, Returns, Forgets, PCs
  <1>12. ASSUME NEW p \in Procs, ReplaceFails(p)
       PROVE  Names'
    BY <1>12 DEF ReplaceFails, IInv, Names, Calls, TypeOK, Handles, Goto,
       At, Fault, saveVars, Returns, Forgets, PCs
  <1>13. ASSUME NEW p \in Procs, Release(p)
       PROVE  Names'
    BY <1>13 DEF Release, IInv, Names, Calls, TypeOK, Handles, Goto, At,
       Fault, saveVars, Returns, Forgets, PCs
  <1>14. ASSUME NEW p \in Procs, Unlink(p)
       PROVE  Names'
    BY <1>14 DEF Unlink, IInv, Names, Calls, TypeOK, Handles, Goto, At,
       Fault, saveVars, Returns, Forgets, PCs
  <1>15. ASSUME NEW p \in Procs, UnlinkFails(p)
       PROVE  Names'
    BY <1>15 DEF UnlinkFails, IInv, Names, Calls, TypeOK, Handles, Goto, At,
       Fault, saveVars, Returns, Forgets, PCs
  <1>16. ASSUME NEW p \in Procs, Die(p)
       PROVE  Names'
    BY <1>16 DEF Die, IInv, Names, Calls, TypeOK, Handles, Goto, At, Fault,
       saveVars, Returns, Forgets, PCs
  <1>17. ASSUME NEW p \in Procs, OpenTmp(p)
       PROVE  Names'
    BY <1>17, Opened DEF OpenTmp, IInv, Names, Calls, TypeOK, Handles, Goto,
       At
  <1> QED
    BY <1>1, <1>2, <1>3, <1>4, <1>5, <1>6, <1>7, <1>8, <1>9, <1>10, <1>11,
       <1>12, <1>13, <1>14, <1>15, <1>16, <1>17
    DEF Next, Waits, Writes, Fails, Load, LoadFails, Goto, At, Fault,
        Returns, Forgets, vars, saveVars

\* A file that is written stays so until its rename.
LEMMA WrittenStep ==
  ASSUME IInv, [Next]_vars
  PROVE  Written'
  <1>1. ASSUME UNCHANGED <<file, pc, fd, payload>>
       PROVE  Written'
    BY <1>1 DEF IInv, Written
  <1>2. ASSUME NEW p \in Procs, NEW v \in Payloads, SaveBegin(p, v)
       PROVE  Written'
    BY <1>2 DEF SaveBegin, IInv, Written, Calls, TypeOK, Handles, Goto, At,
       Fault, saveVars, Returns, Forgets
  <1>3. ASSUME NEW p \in Procs, TryLock(p)
       PROVE  Written'
    BY <1>3 DEF TryLock, IInv, Written, Calls, TypeOK, Handles, Goto, At,
       Fault, saveVars, Returns, Forgets
  <1>4. ASSUME NEW p \in Procs, Backoff(p)
       PROVE  Written'
    BY <1>4 DEF Backoff, IInv, Written, Calls, TypeOK, Handles, Goto, At,
       Fault, saveVars, Returns, Forgets
  <1>5. ASSUME NEW p \in Procs, GivesUp(p)
       PROVE  Written'
    BY <1>5 DEF GivesUp, IInv, Written, Calls, TypeOK, Handles, Goto, At,
       Fault, saveVars, Returns, Forgets
  <1>6. ASSUME NEW p \in Procs, NextWindow(p)
       PROVE  Written'
    BY <1>6 DEF NextWindow, IInv, Written, Calls, TypeOK, Handles, Goto, At,
       Fault, saveVars, Returns, Forgets
  <1>7. ASSUME NEW p \in Procs, WriteMetadata(p)
       PROVE  Written'
    BY <1>7 DEF WriteMetadata, IInv, Written, Calls, TypeOK, Handles, Goto,
       At, Fault, saveVars, Returns, Forgets
  <1>8. ASSUME NEW p \in Procs, WriteMetadataFails(p)
       PROVE  Written'
    BY <1>8 DEF WriteMetadataFails, IInv, Written, Calls, TypeOK, Handles,
       Goto, At, Fault, saveVars, Returns, Forgets
  <1>9. ASSUME NEW p \in Procs, WriteFails(p)
       PROVE  Written'
    BY <1>9 DEF WriteFails, IInv, Written, Calls, TypeOK, Handles, Goto, At,
       Fault, saveVars, Returns, Forgets
  <1>10. ASSUME NEW p \in Procs, Replace(p)
       PROVE  Written'
    BY <1>10 DEF Replace, IInv, Written, Calls, TypeOK, Handles, Goto, At,
       Fault, saveVars, Returns, Forgets
  <1>11. ASSUME NEW p \in Procs, ReplaceFails(p)
       PROVE  Written'
    BY <1>11 DEF ReplaceFails, IInv, Written, Calls, TypeOK, Handles, Goto,
       At, Fault, saveVars, Returns, Forgets
  <1>12. ASSUME NEW p \in Procs, Release(p)
       PROVE  Written'
    BY <1>12 DEF Release, IInv, Written, Calls, TypeOK, Handles, Goto, At,
       Fault, saveVars, Returns, Forgets
  <1>13. ASSUME NEW p \in Procs, Unlink(p)
       PROVE  Written'
    BY <1>13 DEF Unlink, IInv, Written, Calls, TypeOK, Handles, Goto, At,
       Fault, saveVars, Returns, Forgets
  <1>14. ASSUME NEW p \in Procs, UnlinkFails(p)
       PROVE  Written'
    BY <1>14 DEF UnlinkFails, IInv, Written, Calls, TypeOK, Handles, Goto,
       At, Fault, saveVars, Returns, Forgets
  <1>15. ASSUME NEW p \in Procs, Die(p)
       PROVE  Written'
    BY <1>15 DEF Die, IInv, Written, Calls, TypeOK, Handles, Goto, At,
       Fault, saveVars, Returns, Forgets
  <1>16. ASSUME NEW p \in Procs, OpenTmp(p)
       PROVE  Written'
    BY <1>16, Opened DEF OpenTmp, IInv, Written, Calls, TypeOK, Handles,
       Goto, At
  <1>17. ASSUME NEW p \in Procs, WriteTmp(p)
       PROVE  Written'
    <2>1. fd[p] \in 1..Len(file) /\ payload[p] \in Payloads \cup {Partial}
      BY <1>17, OpenFile DEF WriteTmp, At
    <2>2. file'[fd[p]] = payload[p]
      BY <1>17, <2>1, FileWritten DEF WriteTmp, IInv
    <2> QED
      BY <1>17, <2>2 DEF WriteTmp, Goto, At, saveVars, IInv, Written, Calls, TypeOK
  <1> QED
    BY <1>1, <1>2, <1>3, <1>4, <1>5, <1>6, <1>7, <1>8, <1>9, <1>10, <1>11,
       <1>12, <1>13, <1>14, <1>15, <1>16, <1>17
    DEF Next, Waits, Writes, Fails, Load, LoadFails, Goto, At, Fault,
        Returns, Forgets, vars, saveVars

\* The state file stays whole.
LEMMA WholeStep ==
  ASSUME IInv, [Next]_vars
  PROVE  StateWhole'
  <1>1. ASSUME UNCHANGED <<file, state>>
       PROVE  StateWhole'
    BY <1>1 DEF IInv, StateWhole
  <1>2. ASSUME NEW p \in Procs, OpenTmp(p)
       PROVE  StateWhole'
    BY <1>2, Opened DEF IInv, StateWhole, Names
  <1>3. ASSUME NEW p \in Procs, WriteTmp(p)
       PROVE  StateWhole'
    <2>1. fd[p] \in 1..Len(file) /\ payload[p] \in Payloads \cup {Partial}
      BY <1>3, OpenFile DEF WriteTmp, At
    <2>2. state # 0 => file'[state] = file[state]
      BY <1>3, <2>1, FileWritten, NamedFiles DEF WriteTmp, At, IInv, Names
    <2> QED
      BY <1>3, <2>2 DEF WriteTmp, IInv, StateWhole
  <1>4. ASSUME NEW p \in Procs, Replace(p)
       PROVE  StateWhole'
    BY <1>4, StateStoreAssumption DEF Replace, IInv, StateWhole, At, Names,
       Written, Calls, saveVars
  <1> QED
    BY <1>1, <1>2, <1>3, <1>4
    DEF Next, Waits, Writes, Fails, Load, LoadFails, SaveBegin, TryLock,
        Backoff, GivesUp, NextWindow, WriteMetadata, WriteMetadataFails,
        WriteFails, ReplaceFails, Release, Unlink, UnlinkFails, Die, Goto,
        At, Fault, Returns, Forgets, vars, saveVars

\* Every step keeps the invariant.
LEMMA InvStep ==
  ASSUME IInv, [Next]_vars
  PROVE  IInv'
  BY TypeStep, CallsStep, NamesStep, WrittenStep, WholeStep DEF IInv

\* Every reachable state satisfies the invariant.
THEOREM Invariant == Spec => []IInv
  BY InitInv, InvStep, PTL DEF Spec

\* What the variables of the state store may hold.
THEOREM TypeCorrect == Spec => []TypeOK
  <1>1. IInv => TypeOK
    BY DEF IInv
  <1> QED
    BY Invariant, <1>1, PTL

\* The state file never holds a part of a state: save_state renames only
\* what the holder of the lock has written to its end.
THEOREM AlwaysWhole == Spec => []StateWhole
  <1>1. IInv => StateWhole
    BY DEF IInv
  <1> QED
    BY Invariant, <1>1, PTL

-----------------------------------------------------------------------------
(* The refinement of StateRegister *)

registerVars == <<Content, Progress, payload, returned, seen>>

LEMMA InitRegister == Init => Register!Init
  <1> SUFFICES ASSUME Init PROVE Register!Init
    OBVIOUS
  <1>1. Content \in Payloads \cup {Default}
    BY DEF Init, Content
  <1>2. Progress = [p \in Procs |-> "idle"]
    BY DEF Init, Progress
  <1> QED
    BY <1>1, <1>2 DEF Init, Register!Init

\* A step that touches neither the state file nor the course of a save as the
\* others see it.
LEMMA Unseen ==
  ASSUME Content' = Content, UNCHANGED <<payload, returned, seen>>,
         UNCHANGED installed,
         \A q \in Procs : pc'[q] = pc[q] \/ {pc[q], pc'[q]} \cap {"idle", "dead"} = {}
  PROVE  UNCHANGED registerVars
  BY DEF registerVars, Progress

\* The content of the state file changes with the rename only.
LEMMA SameContent ==
  ASSUME UNCHANGED <<file, state>>
  PROVE  Content' = Content
  BY DEF Content

\* One step of a process, as its Progress shows it.
LEMMA Moves ==
  ASSUME NEW p \in Procs, NEW label \in {"idle", "saving", "saved", "dead"},
         \A q \in Procs : q # p => pc'[q] = pc[q] /\ installed'[q] = installed[q],
         label = IF pc'[p] \in {"idle", "dead"} THEN pc'[p]
                 ELSE IF installed'[p] THEN "saved" ELSE "saving"
  PROVE  Progress' = [Progress EXCEPT ![p] = label]
  BY DEF Progress

\* Every step is a step of StateRegister or is not seen by the others.
LEMMA RegisterStep ==
  ASSUME IInv, [Next]_vars
  PROVE  Register!Next \/ UNCHANGED registerVars
  <1>1. ASSUME UNCHANGED <<vars>>
       PROVE  Register!Next \/ UNCHANGED registerVars
    BY <1>1 DEF vars, saveVars, registerVars, Content, Progress
  <1>2. ASSUME NEW p \in Procs, Load(p)
       PROVE  Register!Next \/ UNCHANGED registerVars
    BY <1>2, SameContent DEF Load, saveVars, Register!Next, Register!Load, Progress,
       At, registerVars
  <1>3. ASSUME NEW p \in Procs, LoadFails(p)
       PROVE  Register!Next \/ UNCHANGED registerVars
    BY <1>3, SameContent
    DEF LoadFails, saveVars, Register!Next, Register!Load, Progress, At
  <1>4. ASSUME NEW p \in Procs, NEW v \in Payloads, SaveBegin(p, v)
       PROVE  Register!Next \/ UNCHANGED registerVars
    <2>1. Progress' = [Progress EXCEPT ![p] = "saving"]
      BY <1>4, Moves DEF SaveBegin, Goto, At, IInv, TypeOK, Calls
    <2>2. Progress[p] = "idle"
      BY <1>4 DEF SaveBegin, At, Progress
    <2> QED
      BY <1>4, <2>1, <2>2, SameContent
      DEF SaveBegin, Register!Next, Register!Save
  <1>5. ASSUME NEW p \in Procs, Backoff(p)
       PROVE  Register!Next \/ UNCHANGED registerVars
    BY <1>5, Unseen, SameContent
    DEF Backoff, Goto, At, saveVars, IInv, TypeOK
  <1>6. ASSUME NEW p \in Procs, GivesUp(p)
       PROVE  Register!Next \/ UNCHANGED registerVars
    BY <1>6, Unseen, SameContent
    DEF GivesUp, Goto, At, saveVars, IInv, TypeOK
  <1>7. ASSUME NEW p \in Procs, NextWindow(p)
       PROVE  Register!Next \/ UNCHANGED registerVars
    BY <1>7, Unseen, SameContent
    DEF NextWindow, Goto, At, saveVars, IInv, TypeOK
  <1>8. ASSUME NEW p \in Procs, WriteMetadata(p)
       PROVE  Register!Next \/ UNCHANGED registerVars
    BY <1>8, Unseen, SameContent
    DEF WriteMetadata, Goto, At, saveVars, IInv, TypeOK
  <1>9. ASSUME NEW p \in Procs, WriteMetadataFails(p)
       PROVE  Register!Next \/ UNCHANGED registerVars
    BY <1>9, Unseen, SameContent
    DEF WriteMetadataFails, Goto, At, saveVars, IInv, TypeOK
  <1>10. ASSUME NEW p \in Procs, WriteFails(p)
       PROVE  Register!Next \/ UNCHANGED registerVars
    BY <1>10, Unseen, SameContent
    DEF WriteFails, Goto, At, saveVars, IInv, TypeOK
  <1>11. ASSUME NEW p \in Procs, ReplaceFails(p)
       PROVE  Register!Next \/ UNCHANGED registerVars
    BY <1>11, Unseen, SameContent
    DEF ReplaceFails, Goto, At, saveVars, IInv, TypeOK
  <1>12. ASSUME NEW p \in Procs, Release(p)
       PROVE  Register!Next \/ UNCHANGED registerVars
    BY <1>12, Unseen, SameContent
    DEF Release, Goto, At, saveVars, IInv, TypeOK
  <1>13. ASSUME NEW p \in Procs, TryLock(p)
       PROVE  Register!Next \/ UNCHANGED registerVars
    BY <1>13, Unseen, SameContent
    DEF TryLock, Goto, At, saveVars, IInv, TypeOK
  <1>14. ASSUME NEW p \in Procs, OpenTmp(p)
       PROVE  Register!Next \/ UNCHANGED registerVars
    <2>1. Content' = Content
      BY <1>14, Opened DEF Content, IInv, Names
    <2> QED
      BY <1>14, <2>1, Unseen DEF OpenTmp, Goto, At, IInv, TypeOK
  <1>15. ASSUME NEW p \in Procs, WriteTmp(p)
       PROVE  Register!Next \/ UNCHANGED registerVars
    <2>1. fd[p] \in 1..Len(file) /\ payload[p] \in Payloads \cup {Partial}
      BY <1>15, OpenFile DEF WriteTmp, At
    <2>2. state # 0 => file'[state] = file[state]
      BY <1>15, <2>1, FileWritten, NamedFiles DEF WriteTmp, At, IInv, Names
    <2>3. Content' = Content
      BY <1>15, <2>2 DEF WriteTmp, Content
    <2> QED
      BY <1>15, <2>3, Unseen DEF WriteTmp, Goto, At, saveVars, IInv, TypeOK
  <1>16. ASSUME NEW p \in Procs, Replace(p)
       PROVE  Register!Next \/ UNCHANGED registerVars
    <2>1. Progress' = [Progress EXCEPT ![p] = "saved"]
      BY <1>16, Moves DEF Replace, Goto, At, IInv, TypeOK
    <2>2. Progress[p] = "saving"
      BY <1>16 DEF Replace, At, Progress, IInv, Calls
    <2>3. Content' = payload[p]
      BY <1>16, StateStoreAssumption
      DEF Replace, At, Content, IInv, Names, Written, Calls
    <2> QED
      BY <1>16, <2>1, <2>2, <2>3
      DEF Replace, Register!Next, Register!TakesEffect
  <1>17. ASSUME NEW p \in Procs, Unlink(p)
       PROVE  Register!Next \/ UNCHANGED registerVars
    <2>1. Progress' = [Progress EXCEPT ![p] = "idle"]
      BY <1>17, Moves DEF Unlink, Returns, Forgets, Goto, At, IInv, TypeOK
    <2>2. Progress[p] = IF installed[p] THEN "saved" ELSE "saving"
      BY <1>17 DEF Unlink, At, Progress
    <2> QED
      BY <1>17, <2>1, <2>2, SameContent
      DEF Unlink, Returns, Forgets, Register!Next, Register!Ends
  <1>18. ASSUME NEW p \in Procs, UnlinkFails(p)
       PROVE  Register!Next \/ UNCHANGED registerVars
    <2>1. Progress' = [Progress EXCEPT ![p] = "idle"]
      BY <1>18, Moves DEF UnlinkFails, Returns, Forgets, Goto, At, IInv, TypeOK
    <2>2. Progress[p] = IF installed[p] THEN "saved" ELSE "saving"
      BY <1>18 DEF UnlinkFails, At, Progress
    <2> QED
      BY <1>18, <2>1, <2>2, SameContent
      DEF UnlinkFails, Returns, Forgets, Register!Next, Register!Ends
  <1>19. ASSUME NEW p \in Procs, Die(p)
       PROVE  Register!Next \/ UNCHANGED registerVars
    <2>1. Progress' = [Progress EXCEPT ![p] = "dead"]
      BY <1>19, Moves DEF Die, Forgets, Goto, At, IInv, TypeOK
    <2>2. Progress[p] # "dead"
      BY <1>19 DEF Die, At, Progress
    <2> QED
      BY <1>19, <2>1, <2>2, SameContent
      DEF Die, Forgets, Register!Next, Register!Dies
  <1> QED
    BY <1>1, <1>2, <1>3, <1>4, <1>5, <1>6, <1>7, <1>8, <1>9, <1>10, <1>11,
       <1>12, <1>13, <1>14, <1>15, <1>16, <1>17, <1>18, <1>19
    DEF Next, Waits, Writes, Fails, vars, saveVars

\* What the processes see of the state file is an execution of StateRegister.
THEOREM ImplementsRegister == Spec => IsStateRegister
  <1>1. IInv /\ [Next]_vars => [Register!Next]_registerVars
    BY RegisterStep
  <1> QED
    BY InitRegister, Invariant, <1>1, PTL
    DEF Spec, IsStateRegister, Register!Spec, Register!vars, registerVars
=============================================================================
