------------------------ MODULE CodeApplicationProofs ------------------------
(***************************************************************************)
(* The promises of a batch of code changes for every set of paths, policy, *)
(* list of batches, and number of calls, failures and edits; and that the  *)
(* file-by-file handlers implement AtomicBatch.                            *)
(***************************************************************************)
EXTENDS CodeApplication, TLAPS

\* The tree as the caller knows it.
View == IF InCall THEN before ELSE tree

\* What p will hold once the plan is written.
Intended(p) == IF virtual[p] # None THEN virtual[p] ELSE before[p]

\* p, which held c0, holds c after the first n of the changes.
Holds(changes, n, p, c0, c) ==
  IF Names(changes, n, p) THEN LastIs(changes, n, p, c) ELSE c = c0

\* The caller's position is inside the list it goes through.
Bounds ==
  /\ phase = "preflight" => position \in 1..(Len(batch) + 1)
  /\ phase = "write" => position \in 1..(Len(plan) + 1)
  /\ phase = "repair" => position \in 0..Len(plan)

\* Which file is being written.
Writing ==
  /\ phase \notin {"write", "repair", "revert"} => current = None
  /\ phase \in {"write", "repair"} /\ current # None =>
       position \in 1..Len(plan) /\ current = plan[position].path
  /\ phase = "revert" /\ current # None => current \in todo

\* The plan names permitted files, each with a backup, and a backup is what
\* the file held.
Planned ==
  phase \in {"preflight", "write", "repair"} =>
    /\ batch \in Batches
    /\ \A p \in Paths : backups[p] \in {None, before[p]}
    /\ \A j \in 1..Len(plan) :
         plan[j].path \in Allowed /\ backups[plan[j].path] # None
    /\ \A p \in Paths : backups[p] # None => p \in Allowed
    /\ \A p \in Paths : virtual[p] # None <=> backups[p] # None
    /\ \A p \in Paths : Holds(plan, Len(plan), p, before[p], Intended(p))

\* The part of the batch that was examined asks for what is intended.
Examined ==
  /\ phase = "preflight" => tree = before
  /\ phase \in {"preflight", "write"} =>
       \A p \in Paths :
         LET n == IF phase = "write" THEN Len(batch) ELSE position - 1 IN
         IF p \in Allowed THEN Holds(batch, n, p, before[p], Intended(p))
                          ELSE Intended(p) = before[p]

\* Files differ from what they were only where the plan was carried out.
Written ==
  /\ phase = "write" =>
       \A p \in Paths : p # current =>
         Holds(plan, position - 1, p, before[p], tree[p])
  /\ phase = "repair" =>
       \A p \in Paths : tree[p] # before[p] => Names(plan, position, p)

\* The record takes the tree back to the base.
Recorded ==
  /\ Entries(record) \subseteq Allowed
  /\ intact => \A p \in Paths : record[p] \in {None, base[p]}
  /\ intact /\ Entries(record) # {} =>
       \A p \in Paths : record[p] = None => View[p] = base[p]

\* A rollback is done with the entries that are not to be done.
Reverting ==
  phase = "revert" =>
    /\ Entries(record) # {} /\ todo \subseteq Entries(record)
    /\ \A p \in Paths :
         /\ p \notin Entries(record) => tree[p] = before[p]
         /\ p \in Entries(record) \ todo => tree[p] = record[p]
         /\ p \in todo => tree[p] = before[p] \/ (p = current /\ tree[p] = Torn)

IInv ==
  /\ TypeOK /\ Bounds /\ Writing /\ Planned /\ Examined /\ Written
  /\ Recorded /\ Reverting
  /\ FailedBatchLeavesNothing /\ AppliedIsLastWrite /\ RevertRestores









\* The invariant holds before the first call.
LEMMA InitInv == Init => IInv
  <1> SUFFICES ASSUME Init PROVE IInv
    OBVIOUS
  <1> USE ApplicationAssumption DEF Init
  <1>1. TypeOK
    BY DEF TypeOK, NoEntry, Phases, Returned, Held, File
  <1>2. Bounds /\ Writing /\ Planned /\ Examined /\ Written
    BY DEF Bounds, Writing, Planned, Examined, Written
  <1>3. Recorded /\ Reverting
    BY DEF Recorded, Reverting, Entries, NoEntry
  <1>4. FailedBatchLeavesNothing /\ AppliedIsLastWrite /\ RevertRestores
    BY DEF FailedBatchLeavesNothing, AppliedIsLastWrite, RevertRestores
  <1> QED
    BY <1>1, <1>2, <1>3, <1>4 DEF IInv

\* The change at n decides what its path holds, and no other path.
LEMMA HoldsNext ==
  ASSUME NEW s \in Seq(Change), NEW n \in 1..Len(s), NEW p \in Paths, NEW c0, NEW c
  PROVE  /\ s[n].path = p /\ s[n].content = c => Holds(s, n, p, c0, c)
         /\ s[n].path # p /\ Holds(s, n - 1, p, c0, c) => Holds(s, n, p, c0, c)
  <1>0. s[n] \in Change
    OBVIOUS
  <1>1. s[n] = [path |-> s[n].path, content |-> s[n].content]
    BY <1>0 DEF Change
  <1>2. n \in Nat /\ n >= 1
    OBVIOUS
  <1>3. ASSUME s[n].path = p, s[n].content = c PROVE Holds(s, n, p, c0, c)
    <2>1. Names(s, n, p)
      BY <1>2, <1>3 DEF Names
    <2>2. LastIs(s, n, p, c)
      BY <1>1, <1>2, <1>3 DEF LastIs
    <2> QED
      BY <2>1, <2>2 DEF Holds
  <1>4. ASSUME s[n].path # p, Holds(s, n - 1, p, c0, c) PROVE Holds(s, n, p, c0, c)
    <2>1. Names(s, n, p) <=> Names(s, n - 1, p)
      BY <1>2, <1>4 DEF Names
    <2>2. LastIs(s, n - 1, p, c) => LastIs(s, n, p, c)
      BY <1>2, <1>4 DEF LastIs
    <2> QED
      BY <1>4, <2>1, <2>2 DEF Holds
  <1> QED
    BY <1>3, <1>4

\* Appending a change leaves the ones before it what they were.
LEMMA HoldsAppend ==
  ASSUME NEW s \in Seq(Change), NEW e \in Change, NEW p \in Paths, NEW c0, NEW c,
         Holds(s, Len(s), p, c0, c)
  PROVE  Holds(Append(s, e), Len(s), p, c0, c)
  <1>1. Append(s, e) \in Seq(Change) /\ Len(Append(s, e)) = Len(s) + 1
    OBVIOUS
  <1>2. \A j \in 1..Len(s) : Append(s, e)[j] = s[j]
    OBVIOUS
  <1> QED
    BY <1>1, <1>2 DEF Holds, Names, LastIs

\* What a path holds after n changes is determined.
LEMMA HoldsOnce ==
  ASSUME NEW s \in Seq(Change), NEW n \in 0..Len(s), NEW p \in Paths,
         NEW c0, NEW c, NEW d,
         Holds(s, n, p, c0, c), Holds(s, n, p, c0, d)
  PROVE  c = d
  <1>1. CASE ~Names(s, n, p)
    BY <1>1 DEF Holds
  <1>2. CASE Names(s, n, p)
    <2>1. PICK j \in 1..n : /\ s[j] = [path |-> p, content |-> c]
                            /\ \A k \in 1..n : k > j => s[k].path # p
      BY <1>2 DEF Holds, LastIs
    <2>2. PICK i \in 1..n : /\ s[i] = [path |-> p, content |-> d]
                            /\ \A k \in 1..n : k > i => s[k].path # p
      BY <1>2 DEF Holds, LastIs
    <2>3. s[i].path = p /\ s[j].path = p
      BY <2>1, <2>2
    <2>4. ~(i > j) /\ ~(j > i)
      BY <2>1, <2>2, <2>3
    <2>5. i = j
      BY <2>4
    <2> QED
      BY <2>1, <2>2, <2>5
  <1> QED
    BY <1>1, <1>2

\* The entries of the plan are changes of known files.
LEMMA PlanTypes ==
  ASSUME TypeOK, NEW i \in 1..Len(plan)
  PROVE  plan[i] \in Change /\ plan[i].path \in Paths /\ plan[i].content \in Contents
  <1>1. plan[i] \in Change
    BY DEF TypeOK
  <1> QED
    BY <1>1 DEF Change

LEMMA AppendTypes ==
  ASSUME NEW s \in Seq(Change), NEW e \in Change
  PROVE  /\ Append(s, e) \in Seq(Change) /\ Len(Append(s, e)) = Len(s) + 1
         /\ Append(s, e)[Len(s) + 1] = e
         /\ \A j \in 1..Len(s) : Append(s, e)[j] = s[j]
  OBVIOUS

\* Every step keeps the types.
LEMMA TypeStep ==
  ASSUME IInv, [Next]_vars
  PROVE  TypeOK'
  <1>1. ASSUME UNCHANGED <<vars>>
       PROVE  TypeOK'
    BY <1>1 DEF IInv, TypeOK, vars, callVars, historyVars, boundVars
  <1>2. ASSUME NEW p \in Paths, Edit(p)
       PROVE  TypeOK'
    <2>1. tree' \in [Paths -> Held]
      BY <1>2 DEF Edit, IInv, TypeOK, Held, File
    <2>2. edits' \in 0..MaxEdits
      BY <1>2, ApplicationAssumption DEF Edit, IInv, TypeOK
    <2>3. phase' \in Phases /\ intact' \in BOOLEAN
      BY <1>2 DEF Edit, Phases, Returned
    <2> QED
      BY <1>2, <2>1, <2>2, <2>3, Zenon DEF Edit, IInv, TypeOK, callVars
  <1>3. ASSUME NEW b \in Batches, ApplyBegin(b)
       PROVE  TypeOK'
    BY <1>3, ApplicationAssumption DEF ApplyBegin, IInv, TypeOK, callVars,
       historyVars, boundVars, Phases, Returned, NoEntry
  <1>4. ASSUME NEW change \in Change, Skip(change)
       PROVE  TypeOK'
    BY <1>4 DEF Skip, IInv, TypeOK, Examines, callVars, historyVars,
       boundVars
  <1>5. ASSUME NEW change \in Change, Plan(change)
       PROVE  TypeOK'
    <2>1. plan' \in Seq(Change)
      BY <1>5, AppendTypes DEF Plan, IInv, TypeOK
    <2>2. change.path \in Paths /\ change.content \in Contents
      BY DEF Change
    <2>3. backups' \in [Paths -> Held \cup {None}]
      BY <1>5, <2>2 DEF Plan, Existing, IInv, TypeOK, Held, File
    <2>4. virtual' \in [Paths -> Contents \cup {None}]
      BY <1>5, <2>2 DEF Plan, IInv, TypeOK
    <2> QED
      BY <1>5, <2>1, <2>3, <2>4 DEF Plan, Examines, IInv, TypeOK, boundVars,
         historyVars
  <1>6. ASSUME PreflightRaises
       PROVE  TypeOK'
    BY <1>6, ApplicationAssumption DEF PreflightRaises, IInv, TypeOK, Fault,
       Phases, Returned, callVars, historyVars, boundVars
  <1>7. ASSUME PreflightEnds
       PROVE  TypeOK'
    BY <1>7 DEF PreflightEnds, IInv, TypeOK, Phases, Returned, callVars,
       historyVars, boundVars
  <1>8. ASSUME WriteBegin
       PROVE  TypeOK'
    <2>1. tree' \in [Paths -> Held]
      BY <1>8, PlanTypes DEF WriteBegin, IInv, TypeOK, Held, File, Truncates,
         Bounds
    <2> QED
      BY <1>8, <2>1, PlanTypes DEF WriteBegin, IInv, TypeOK, Truncates, Bounds,
         callVars, historyVars, boundVars
  <1>9. ASSUME WriteEnd
       PROVE  TypeOK'
    <2>1. tree' \in [Paths -> Held]
      BY <1>9, PlanTypes DEF WriteEnd, IInv, TypeOK, Held, File, Fills, Writing
    <2> QED
      BY <1>9, <2>1, PlanTypes DEF WriteEnd, IInv, TypeOK, Fills, callVars,
         historyVars, boundVars
  <1>10. ASSUME WriteRaises
       PROVE  TypeOK'
    BY <1>10, ApplicationAssumption DEF WriteRaises, IInv, TypeOK, Fault,
       Bounds, Phases, Returned, callVars, historyVars, boundVars
  <1>11. ASSUME RepairDelete
       PROVE  TypeOK'
    <2>1. tree' \in [Paths -> Held]
      BY <1>11 DEF RepairDelete, IInv, TypeOK, Held, File, Deletes
    <2> QED
      BY <1>11, <2>1 DEF RepairDelete, IInv, TypeOK, Deletes, callVars,
         historyVars, boundVars
  <1>12. ASSUME RepairBegin
       PROVE  TypeOK'
    <2>1. tree' \in [Paths -> Held]
      BY <1>12, PlanTypes DEF RepairBegin, IInv, TypeOK, Held, File, Truncates,
         Bounds
    <2> QED
      BY <1>12, <2>1, PlanTypes DEF RepairBegin, IInv, TypeOK, Truncates,
         Bounds, callVars, historyVars, boundVars
  <1>13. ASSUME RepairEnd
       PROVE  TypeOK'
    BY <1>13, ApplicationAssumption DEF RepairEnd, IInv, TypeOK, Fills,
       Writing, Planned, Held, File, callVars, historyVars, boundVars
  <1>14. ASSUME RepairRaises
       PROVE  TypeOK'
    <2>1. failures' \in 0..MaxFailures
      BY <1>14, ApplicationAssumption DEF RepairRaises, Fault, IInv, TypeOK
    <2>2. phase' \in Phases /\ intact' \in BOOLEAN
      BY <1>14 DEF RepairRaises, Phases, Returned
    <2> QED
      BY <1>14, <2>1, <2>2, Zenon DEF RepairRaises, IInv, TypeOK, callVars
  <1>15. ASSUME RepairEnds
       PROVE  TypeOK'
    BY <1>15 DEF RepairEnds, IInv, TypeOK, Phases, Returned, callVars,
       historyVars, boundVars
  <1>16. ASSUME Returns
       PROVE  TypeOK'
    BY <1>16 DEF Returns, IInv, TypeOK, Phases, Returned, callVars,
       historyVars, boundVars
  <1>17. ASSUME RevertBegin
       PROVE  TypeOK'
    BY <1>17 DEF RevertBegin, IInv, TypeOK, Entries, Phases, Returned,
       callVars, historyVars, boundVars
  <1>18. ASSUME NEW p \in Paths, RevertDelete(p)
       PROVE  TypeOK'
    BY <1>18 DEF RevertDelete, IInv, TypeOK, Deletes, Held, callVars,
       historyVars, boundVars
  <1>19. ASSUME NEW p \in Paths, RevertWriteBegin(p)
       PROVE  TypeOK'
    BY <1>19 DEF RevertWriteBegin, IInv, TypeOK, Truncates, Held, File,
       callVars, historyVars, boundVars
  <1>20. ASSUME RevertWriteEnd
       PROVE  TypeOK'
    BY <1>20, ApplicationAssumption DEF RevertWriteEnd, IInv, TypeOK, Fills,
       Writing, Reverting, Entries, Held, File, callVars, historyVars,
       boundVars
  <1>21. ASSUME RevertRaises
       PROVE  TypeOK'
    BY <1>21, ApplicationAssumption DEF RevertRaises, IInv, TypeOK, Fault,
       Phases, Returned, callVars, historyVars, boundVars
  <1>22. ASSUME RevertEnds
       PROVE  TypeOK'
    BY <1>22 DEF RevertEnds, IInv, TypeOK, NoEntry, Phases, Returned,
       callVars, historyVars, boundVars
  <1>23. ASSUME Interrupt
       PROVE  TypeOK'
    BY <1>23, ApplicationAssumption DEF Interrupt, IInv, TypeOK, Fault,
       Phases, Returned, callVars, historyVars, boundVars
  <1> QED
    BY <1>1, <1>2, <1>3, <1>4, <1>5, <1>6, <1>7, <1>8, <1>9, <1>10, <1>11,
       <1>12, <1>13, <1>14, <1>15, <1>16, <1>17, <1>18, <1>19, <1>20, <1>21,
       <1>22, <1>23
    DEF Next, Apply, Revert, Failure, Call, Examines, vars, callVars,
        historyVars, boundVars

\* The position stays inside the list.
LEMMA BoundsStep ==
  ASSUME IInv, [Next]_vars
  PROVE  Bounds'
  <1>1. ASSUME UNCHANGED <<phase, position, batch, plan>>
       PROVE  Bounds'
    BY <1>1 DEF IInv, Bounds
  <1>2. ASSUME NEW p \in Paths, Edit(p)
       PROVE  Bounds'
    BY <1>2 DEF Edit, IInv, TypeOK, Bounds, Returned, callVars, historyVars,
       boundVars
  <1>3. ASSUME PreflightRaises
       PROVE  Bounds'
    BY <1>3 DEF PreflightRaises, IInv, TypeOK, Bounds, Returned, callVars,
       historyVars, boundVars
  <1>4. ASSUME RepairRaises
       PROVE  Bounds'
    BY <1>4 DEF RepairRaises, IInv, TypeOK, Bounds, Returned, callVars,
       historyVars, boundVars
  <1>5. ASSUME RepairEnds
       PROVE  Bounds'
    BY <1>5 DEF RepairEnds, IInv, TypeOK, Bounds, Returned, callVars,
       historyVars, boundVars
  <1>6. ASSUME Returns
       PROVE  Bounds'
    BY <1>6 DEF Returns, IInv, TypeOK, Bounds, Returned, callVars,
       historyVars, boundVars
  <1>7. ASSUME RevertBegin
       PROVE  Bounds'
    BY <1>7 DEF RevertBegin, IInv, TypeOK, Bounds, Returned, callVars,
       historyVars, boundVars
  <1>8. ASSUME RevertRaises
       PROVE  Bounds'
    BY <1>8 DEF RevertRaises, IInv, TypeOK, Bounds, Returned, callVars,
       historyVars, boundVars
  <1>9. ASSUME RevertEnds
       PROVE  Bounds'
    BY <1>9 DEF RevertEnds, IInv, TypeOK, Bounds, Returned, callVars,
       historyVars, boundVars
  <1>10. ASSUME Interrupt
       PROVE  Bounds'
    BY <1>10 DEF Interrupt, IInv, TypeOK, Bounds, Returned, callVars,
       historyVars, boundVars
  <1>11. ASSUME NEW b \in Batches, ApplyBegin(b)
       PROVE  Bounds'
    BY <1>11, ApplicationAssumption DEF ApplyBegin, IInv, TypeOK, Bounds,
       callVars, historyVars, boundVars
  <1>12. ASSUME NEW change \in Change, Skip(change)
       PROVE  Bounds'
    BY <1>12 DEF Skip, IInv, TypeOK, Bounds, Examines, callVars,
       historyVars, boundVars
  <1>13. ASSUME NEW change \in Change, Plan(change)
       PROVE  Bounds'
    BY <1>13 DEF Plan, IInv, TypeOK, Bounds, Examines, callVars,
       historyVars, boundVars
  <1>14. ASSUME PreflightEnds
       PROVE  Bounds'
    BY <1>14 DEF PreflightEnds, IInv, TypeOK, Bounds, Writing, callVars,
       historyVars, boundVars
  <1>15. ASSUME WriteEnd
       PROVE  Bounds'
    BY <1>15 DEF WriteEnd, IInv, TypeOK, Bounds, Writing, callVars,
       historyVars, boundVars
  <1>16. ASSUME RepairDelete
       PROVE  Bounds'
    BY <1>16 DEF RepairDelete, IInv, TypeOK, Bounds, Writing, callVars,
       historyVars, boundVars
  <1>17. ASSUME RepairEnd
       PROVE  Bounds'
    BY <1>17 DEF RepairEnd, IInv, TypeOK, Bounds, Writing, callVars,
       historyVars, boundVars
  <1>18. ASSUME WriteRaises
       PROVE  Bounds'
    BY <1>18 DEF WriteRaises, IInv, TypeOK, Bounds, Repeated, callVars,
       historyVars, boundVars
  <1> QED
    BY <1>1, <1>2, <1>3, <1>4, <1>5, <1>6, <1>7, <1>8, <1>9, <1>10, <1>11,
       <1>12, <1>13, <1>14, <1>15, <1>16, <1>17, <1>18
    DEF Next, Apply, Revert, Failure, Call, WriteBegin, RepairBegin,
        RevertDelete, RevertWriteBegin, RevertWriteEnd, Examines, vars,
        callVars, historyVars, boundVars

\* A file is being written only at the position, or of the entries to be
\* done.
LEMMA WritingStep ==
  ASSUME IInv, [Next]_vars
  PROVE  Writing'
  <1>1. ASSUME UNCHANGED <<phase, current, position, plan, todo>>
       PROVE  Writing'
    BY <1>1 DEF IInv, Writing
  <1>2. ASSUME NEW p \in Paths, Edit(p)
       PROVE  Writing'
    BY <1>2 DEF Edit, IInv, TypeOK, Writing, Returned, Bounds, callVars,
       historyVars, boundVars
  <1>3. ASSUME NEW b \in Batches, ApplyBegin(b)
       PROVE  Writing'
    BY <1>3 DEF ApplyBegin, IInv, TypeOK, Writing, Returned, Bounds,
       callVars, historyVars, boundVars
  <1>4. ASSUME PreflightRaises
       PROVE  Writing'
    BY <1>4 DEF PreflightRaises, IInv, TypeOK, Writing, Returned, Bounds,
       callVars, historyVars, boundVars
  <1>5. ASSUME PreflightEnds
       PROVE  Writing'
    BY <1>5 DEF PreflightEnds, IInv, TypeOK, Writing, Returned, Bounds,
       callVars, historyVars, boundVars
  <1>6. ASSUME WriteRaises
       PROVE  Writing'
    BY <1>6 DEF WriteRaises, IInv, TypeOK, Writing, Returned, Bounds,
       callVars, historyVars, boundVars
  <1>7. ASSUME RepairRaises
       PROVE  Writing'
    BY <1>7 DEF RepairRaises, IInv, TypeOK, Writing, Returned, Bounds,
       callVars, historyVars, boundVars
  <1>8. ASSUME RepairEnds
       PROVE  Writing'
    BY <1>8 DEF RepairEnds, IInv, TypeOK, Writing, Returned, Bounds,
       callVars, historyVars, boundVars
  <1>9. ASSUME Returns
       PROVE  Writing'
    BY <1>9 DEF Returns, IInv, TypeOK, Writing, Returned, Bounds, callVars,
       historyVars, boundVars
  <1>10. ASSUME RevertBegin
       PROVE  Writing'
    BY <1>10 DEF RevertBegin, IInv, TypeOK, Writing, Returned, Bounds,
       callVars, historyVars, boundVars
  <1>11. ASSUME RevertRaises
       PROVE  Writing'
    BY <1>11 DEF RevertRaises, IInv, TypeOK, Writing, Returned, Bounds,
       callVars, historyVars, boundVars
  <1>12. ASSUME RevertEnds
       PROVE  Writing'
    BY <1>12 DEF RevertEnds, IInv, TypeOK, Writing, Returned, Bounds,
       callVars, historyVars, boundVars
  <1>13. ASSUME Interrupt
       PROVE  Writing'
    BY <1>13 DEF Interrupt, IInv, TypeOK, Writing, Returned, Bounds,
       callVars, historyVars, boundVars
  <1>14. ASSUME NEW change \in Change, Skip(change)
       PROVE  Writing'
    BY <1>14 DEF Skip, IInv, TypeOK, Writing, Examines, callVars,
       historyVars, boundVars
  <1>15. ASSUME NEW change \in Change, Plan(change)
       PROVE  Writing'
    BY <1>15 DEF Plan, IInv, TypeOK, Writing, Examines, callVars,
       historyVars, boundVars
  <1>16. ASSUME WriteBegin
       PROVE  Writing'
    BY <1>16 DEF WriteBegin, IInv, TypeOK, Writing, Truncates, Bounds,
       callVars, historyVars, boundVars
  <1>17. ASSUME RepairBegin
       PROVE  Writing'
    BY <1>17 DEF RepairBegin, IInv, TypeOK, Writing, Truncates, Bounds,
       callVars, historyVars, boundVars
  <1>18. ASSUME WriteEnd
       PROVE  Writing'
    BY <1>18 DEF WriteEnd, IInv, TypeOK, Writing, Fills, callVars,
       historyVars, boundVars
  <1>19. ASSUME RepairEnd
       PROVE  Writing'
    BY <1>19 DEF RepairEnd, IInv, TypeOK, Writing, Fills, callVars,
       historyVars, boundVars
  <1>20. ASSUME RepairDelete
       PROVE  Writing'
    BY <1>20 DEF RepairDelete, IInv, TypeOK, Writing, callVars, historyVars,
       boundVars
  <1>21. ASSUME NEW p \in Paths, RevertDelete(p)
       PROVE  Writing'
    BY <1>21 DEF RevertDelete, IInv, TypeOK, Writing, callVars, historyVars,
       boundVars
  <1>22. ASSUME NEW p \in Paths, RevertWriteBegin(p)
       PROVE  Writing'
    BY <1>22 DEF RevertWriteBegin, IInv, TypeOK, Writing, Truncates,
       callVars, historyVars, boundVars
  <1>23. ASSUME RevertWriteEnd
       PROVE  Writing'
    BY <1>23 DEF RevertWriteEnd, IInv, TypeOK, Writing, Fills, callVars,
       historyVars, boundVars
  <1> QED
    BY <1>1, <1>2, <1>3, <1>4, <1>5, <1>6, <1>7, <1>8, <1>9, <1>10, <1>11,
       <1>12, <1>13, <1>14, <1>15, <1>16, <1>17, <1>18, <1>19, <1>20, <1>21,
       <1>22, <1>23
    DEF Next, Apply, Revert, Failure, Call, Examines, vars, callVars,
        historyVars, boundVars

\* The plan and its backups keep agreeing with what the targets held.
LEMMA PlannedStep ==
  ASSUME IInv, [Next]_vars
  PROVE  Planned'
  <1>1. ASSUME UNCHANGED <<phase, batch, plan, backups, virtual, before>>
       PROVE  Planned'
    BY <1>1 DEF IInv, Planned, Intended
  <1>2. ASSUME NEW p \in Paths, Edit(p)
       PROVE  Planned'
    BY <1>2 DEF Edit, IInv, Planned, callVars, historyVars, boundVars,
       Returned
  <1>3. ASSUME PreflightRaises
       PROVE  Planned'
    BY <1>3 DEF PreflightRaises, IInv, Planned, callVars, historyVars,
       boundVars, Returned
  <1>4. ASSUME RepairRaises
       PROVE  Planned'
    BY <1>4 DEF RepairRaises, IInv, Planned, callVars, historyVars,
       boundVars, Returned
  <1>5. ASSUME RepairEnds
       PROVE  Planned'
    BY <1>5 DEF RepairEnds, IInv, Planned, callVars, historyVars, boundVars,
       Returned
  <1>6. ASSUME Returns
       PROVE  Planned'
    BY <1>6 DEF Returns, IInv, Planned, callVars, historyVars, boundVars,
       Returned
  <1>7. ASSUME RevertBegin
       PROVE  Planned'
    BY <1>7 DEF RevertBegin, IInv, Planned, callVars, historyVars,
       boundVars, Returned
  <1>8. ASSUME RevertRaises
       PROVE  Planned'
    BY <1>8 DEF RevertRaises, IInv, Planned, callVars, historyVars,
       boundVars, Returned
  <1>9. ASSUME RevertEnds
       PROVE  Planned'
    BY <1>9 DEF RevertEnds, IInv, Planned, callVars, historyVars, boundVars,
       Returned
  <1>10. ASSUME Interrupt
       PROVE  Planned'
    BY <1>10 DEF Interrupt, IInv, Planned, callVars, historyVars, boundVars,
       Returned
  <1>11. ASSUME NEW b \in Batches, ApplyBegin(b)
       PROVE  Planned'
    <2>1. \A p \in Paths : Holds(<<>>, 0, p, tree[p], tree[p])
      BY DEF Holds, Names
    <2> QED
      BY <1>11, <2>1 DEF ApplyBegin, Planned, Intended, NoEntry
  <1>12. ASSUME NEW change \in Change, Skip(change)
       PROVE  Planned'
    BY <1>12 DEF Skip, IInv, Planned, Examines, Intended, callVars,
       historyVars, boundVars
  <1>13. ASSUME NEW change \in Change, Plan(change)
       PROVE  Planned'
    <2>1. plan \in Seq(Change) /\ plan' \in Seq(Change) /\ plan' = Append(plan, change)
      BY <1>13, AppendTypes DEF Plan, IInv, TypeOK
    <2>2. /\ Len(plan') = Len(plan) + 1 /\ plan'[Len(plan')] = change
          /\ \A j \in 1..Len(plan) : plan'[j] = plan[j]
      BY <2>1, AppendTypes
    <2>3. change.path \in Paths /\ change.content \in Contents
      BY DEF Change
    <2>4. /\ phase = "preflight" /\ phase' = "preflight" /\ before' = before
          /\ tree = before /\ change.path \in Allowed /\ batch' = batch
          /\ \A p \in Paths : Existing(p) = Intended(p) /\ Intended(p) # None
      BY <1>13, ApplicationAssumption
      DEF Plan, Examines, historyVars, IInv, TypeOK, Examined, Existing,
          Intended, Held, File
    <2>5. \A p \in Paths : Intended(p)' = IF p = change.path THEN change.content
                                                          ELSE Intended(p)
      BY <1>13, <2>3, <2>4, ApplicationAssumption DEF Plan, Intended, IInv, TypeOK
    <2>6. \A p \in Paths :
            Holds(plan', Len(plan'), p, before[p], Intended(p)')
      <3> TAKE p \in Paths
      <3>1. Len(plan') \in 1..Len(plan') /\ Len(plan') - 1 = Len(plan)
        BY <2>1, <2>2
      <3>2. CASE p = change.path
        BY <2>1, <2>2, <2>5, <3>1, <3>2, HoldsNext
      <3>3. CASE p # change.path
        <4>1. Holds(plan, Len(plan), p, before[p], Intended(p))
          BY <2>4 DEF IInv, Planned
        <4>2. Holds(plan', Len(plan), p, before[p], Intended(p))
          BY <2>1, <4>1, HoldsAppend
        <4> QED
          BY <2>1, <2>2, <2>5, <3>1, <3>3, <4>2, HoldsNext
      <3> QED
        BY <3>2, <3>3
    <2>7. \A p \in Paths : /\ backups'[p] \in {None, before[p]}
                           /\ backups'[p] # None => p \in Allowed
                           /\ virtual'[p] # None <=> backups'[p] # None
                           /\ backups[p] # None => backups'[p] # None
      BY <1>13, <2>3, <2>4, ApplicationAssumption
      DEF Plan, IInv, TypeOK, Planned, Intended
    <2>8. backups'[change.path] # None
      BY <1>13, <2>3, <2>4 DEF Plan, IInv, TypeOK
    <2>9. \A j \in 1..Len(plan') :
            plan'[j].path \in Allowed /\ backups'[plan'[j].path] # None
      <3> TAKE j \in 1..Len(plan')
      <3>1. CASE j = Len(plan')
        BY <2>2, <2>4, <2>8, <3>1
      <3>2. CASE j # Len(plan')
        <4>1. j \in 1..Len(plan) /\ plan'[j] = plan[j]
          BY <2>1, <2>2, <3>2
        <4> QED
          BY <2>4, <2>7, <4>1, PlanTypes DEF IInv, Planned
      <3> QED
        BY <3>1, <3>2
    <2> QED
      BY <2>4, <2>6, <2>7, <2>9 DEF IInv, Planned
  <1>14. ASSUME PreflightEnds
       PROVE  Planned'
    BY <1>14 DEF PreflightEnds, IInv, Planned, Intended, callVars,
       historyVars, boundVars
  <1>15. ASSUME WriteEnd
       PROVE  Planned'
    BY <1>15 DEF WriteEnd, IInv, Planned, Intended, callVars, historyVars,
       boundVars
  <1>16. ASSUME WriteRaises
       PROVE  Planned'
    BY <1>16 DEF WriteRaises, IInv, Planned, Intended, callVars,
       historyVars, boundVars
  <1>17. ASSUME RepairDelete
       PROVE  Planned'
    BY <1>17 DEF RepairDelete, IInv, Planned, Intended, callVars,
       historyVars, boundVars
  <1>18. ASSUME RepairEnd
       PROVE  Planned'
    BY <1>18 DEF RepairEnd, IInv, Planned, Intended, callVars, historyVars,
       boundVars
  <1> QED
    BY <1>1, <1>2, <1>3, <1>4, <1>5, <1>6, <1>7, <1>8, <1>9, <1>10, <1>11,
       <1>12, <1>13, <1>14, <1>15, <1>16, <1>17, <1>18
    DEF Next, Apply, Revert, Failure, Call, WriteBegin, RepairBegin,
        RevertDelete, RevertWriteBegin, RevertWriteEnd, Examines, vars,
        callVars, historyVars, boundVars

\* The examined part of the batch asks for what is intended.
LEMMA ExaminedStep ==
  ASSUME IInv, [Next]_vars
  PROVE  Examined'
  <1>1. ASSUME UNCHANGED <<phase, batch, position, virtual, before, tree>>
       PROVE  Examined'
    BY <1>1 DEF IInv, Examined, Intended
  <1>2. ASSUME NEW p \in Paths, Edit(p)
       PROVE  Examined'
    BY <1>2 DEF Edit, IInv, Examined, callVars, historyVars, boundVars,
       Returned
  <1>3. ASSUME PreflightRaises
       PROVE  Examined'
    BY <1>3 DEF PreflightRaises, IInv, Examined, callVars, historyVars,
       boundVars, Returned
  <1>4. ASSUME WriteRaises
       PROVE  Examined'
    BY <1>4 DEF WriteRaises, IInv, Examined, callVars, historyVars,
       boundVars, Returned
  <1>5. ASSUME RepairRaises
       PROVE  Examined'
    BY <1>5 DEF RepairRaises, IInv, Examined, callVars, historyVars,
       boundVars, Returned
  <1>6. ASSUME RepairEnds
       PROVE  Examined'
    BY <1>6 DEF RepairEnds, IInv, Examined, callVars, historyVars,
       boundVars, Returned
  <1>7. ASSUME Returns
       PROVE  Examined'
    BY <1>7 DEF Returns, IInv, Examined, callVars, historyVars, boundVars,
       Returned
  <1>8. ASSUME RevertBegin
       PROVE  Examined'
    BY <1>8 DEF RevertBegin, IInv, Examined, callVars, historyVars,
       boundVars, Returned
  <1>9. ASSUME RevertRaises
       PROVE  Examined'
    BY <1>9 DEF RevertRaises, IInv, Examined, callVars, historyVars,
       boundVars, Returned
  <1>10. ASSUME RevertEnds
       PROVE  Examined'
    BY <1>10 DEF RevertEnds, IInv, Examined, callVars, historyVars,
       boundVars, Returned
  <1>11. ASSUME Interrupt
       PROVE  Examined'
    BY <1>11 DEF Interrupt, IInv, Examined, callVars, historyVars,
       boundVars, Returned
  <1>12. ASSUME NEW b \in Batches, ApplyBegin(b)
       PROVE  Examined'
    <2>1. \A p \in Paths : Holds(b, 0, p, tree[p], tree[p])
      BY DEF Holds, Names
    <2> QED
      BY <1>12, <2>1 DEF ApplyBegin, Examined, Intended, NoEntry
  <1>13. ASSUME NEW change \in Change, Skip(change)
       PROVE  Examined'
    <2>1. /\ phase = "preflight" /\ phase' = phase /\ tree' = tree
          /\ before' = before /\ tree = before /\ batch' = batch
          /\ position' - 1 = position /\ change = batch[position]
          /\ batch \in Seq(Change) /\ position \in 1..Len(batch)
      BY <1>13 DEF Skip, Examines, historyVars, IInv, TypeOK, Examined, Bounds
    <2>2. change.path \in Paths /\ change.content \in Contents
      BY DEF Change
    <2>3. \A p \in Paths :
            /\ p # change.path => Intended(p)' = Intended(p)
            /\ p = change.path /\ p \in Allowed => Intended(p)' = change.content
            /\ p \notin Allowed => Intended(p)' = Intended(p)
      BY <1>13, <2>1, <2>2, ApplicationAssumption
      DEF Skip, Existing, Intended, IInv, TypeOK
    <2>4. ASSUME NEW p \in Allowed
          PROVE  Holds(batch, position, p, before[p], Intended(p)')
      <3>1. p \in Paths
        BY ApplicationAssumption
      <3>2. CASE p = change.path
        BY <2>1, <2>3, <3>1, <3>2, HoldsNext
      <3>3. CASE p # change.path
        <4>1. Holds(batch, position - 1, p, before[p], Intended(p))
          BY <2>1, <3>1 DEF IInv, Examined
        <4> QED
          BY <2>1, <2>3, <3>1, <3>3, <4>1, HoldsNext
      <3> QED
        BY <3>2, <3>3
    <2>5. \A p \in Paths : p \notin Allowed => Intended(p)' = before[p]
      BY <2>1, <2>3 DEF IInv, Examined
    <2> QED
      BY <2>1, <2>4, <2>5 DEF Examined
  <1>14. ASSUME NEW change \in Change, Plan(change)
       PROVE  Examined'
    <2>1. /\ phase = "preflight" /\ phase' = phase /\ tree' = tree
          /\ before' = before /\ tree = before /\ batch' = batch
          /\ position' - 1 = position /\ change = batch[position]
          /\ batch \in Seq(Change) /\ position \in 1..Len(batch)
      BY <1>14 DEF Plan, Examines, historyVars, IInv, TypeOK, Examined, Bounds
    <2>2. change.path \in Paths /\ change.content \in Contents
      BY DEF Change
    <2>3. \A p \in Paths :
            /\ p # change.path => Intended(p)' = Intended(p)
            /\ p = change.path /\ p \in Allowed => Intended(p)' = change.content
            /\ p \notin Allowed => Intended(p)' = Intended(p)
      BY <1>14, <2>1, <2>2, ApplicationAssumption
      DEF Plan, Existing, Intended, IInv, TypeOK
    <2>4. ASSUME NEW p \in Allowed
          PROVE  Holds(batch, position, p, before[p], Intended(p)')
      <3>1. p \in Paths
        BY ApplicationAssumption
      <3>2. CASE p = change.path
        BY <2>1, <2>3, <3>1, <3>2, HoldsNext
      <3>3. CASE p # change.path
        <4>1. Holds(batch, position - 1, p, before[p], Intended(p))
          BY <2>1, <3>1 DEF IInv, Examined
        <4> QED
          BY <2>1, <2>3, <3>1, <3>3, <4>1, HoldsNext
      <3> QED
        BY <3>2, <3>3
    <2>5. \A p \in Paths : p \notin Allowed => Intended(p)' = before[p]
      BY <2>1, <2>3 DEF IInv, Examined
    <2> QED
      BY <2>1, <2>4, <2>5 DEF Examined
  <1>15. ASSUME PreflightEnds
       PROVE  Examined'
    BY <1>15 DEF PreflightEnds, IInv, Examined, Intended, Bounds, callVars,
       historyVars, boundVars
  <1>16. ASSUME WriteBegin
       PROVE  Examined'
    BY <1>16 DEF WriteBegin, IInv, Examined, Intended, callVars,
       historyVars, boundVars
  <1>17. ASSUME WriteEnd
       PROVE  Examined'
    BY <1>17 DEF WriteEnd, IInv, Examined, Intended, callVars, historyVars,
       boundVars
  <1>18. ASSUME RepairDelete
       PROVE  Examined'
    BY <1>18 DEF RepairDelete, IInv, Examined, Intended, callVars,
       historyVars, boundVars
  <1>19. ASSUME RepairBegin
       PROVE  Examined'
    BY <1>19 DEF RepairBegin, IInv, Examined, Intended, callVars,
       historyVars, boundVars
  <1>20. ASSUME RepairEnd
       PROVE  Examined'
    BY <1>20 DEF RepairEnd, IInv, Examined, Intended, callVars, historyVars,
       boundVars
  <1>21. ASSUME NEW p \in Paths, RevertDelete(p)
       PROVE  Examined'
    BY <1>21 DEF RevertDelete, IInv, Examined, Intended, callVars,
       historyVars, boundVars
  <1>22. ASSUME NEW p \in Paths, RevertWriteBegin(p)
       PROVE  Examined'
    BY <1>22 DEF RevertWriteBegin, IInv, Examined, Intended, callVars,
       historyVars, boundVars
  <1>23. ASSUME RevertWriteEnd
       PROVE  Examined'
    BY <1>23 DEF RevertWriteEnd, IInv, Examined, Intended, callVars,
       historyVars, boundVars
  <1> QED
    BY <1>1, <1>2, <1>3, <1>4, <1>5, <1>6, <1>7, <1>8, <1>9, <1>10, <1>11,
       <1>12, <1>13, <1>14, <1>15, <1>16, <1>17, <1>18, <1>19, <1>20, <1>21,
       <1>22, <1>23
    DEF Next, Apply, Revert, Failure, Call, Examines, vars, callVars,
        historyVars, boundVars

\* Only what the plan has been carried out on differs from before.
LEMMA WrittenStep ==
  ASSUME IInv, [Next]_vars
  PROVE  Written'
  <1>1. ASSUME UNCHANGED <<phase, position, plan, before, tree, current>>
       PROVE  Written'
    BY <1>1 DEF IInv, Written
  <1>2. ASSUME NEW p \in Paths, Edit(p)
       PROVE  Written'
    BY <1>2 DEF Edit, IInv, Written, callVars, historyVars, boundVars,
       Returned
  <1>3. ASSUME NEW b \in Batches, ApplyBegin(b)
       PROVE  Written'
    BY <1>3 DEF ApplyBegin, IInv, Written, callVars, historyVars, boundVars,
       Returned
  <1>4. ASSUME PreflightRaises
       PROVE  Written'
    BY <1>4 DEF PreflightRaises, IInv, Written, callVars, historyVars,
       boundVars, Returned
  <1>5. ASSUME RepairRaises
       PROVE  Written'
    BY <1>5 DEF RepairRaises, IInv, Written, callVars, historyVars,
       boundVars, Returned
  <1>6. ASSUME RepairEnds
       PROVE  Written'
    BY <1>6 DEF RepairEnds, IInv, Written, callVars, historyVars, boundVars,
       Returned
  <1>7. ASSUME Returns
       PROVE  Written'
    BY <1>7 DEF Returns, IInv, Written, callVars, historyVars, boundVars,
       Returned
  <1>8. ASSUME RevertBegin
       PROVE  Written'
    BY <1>8 DEF RevertBegin, IInv, Written, callVars, historyVars,
       boundVars, Returned
  <1>9. ASSUME RevertRaises
       PROVE  Written'
    BY <1>9 DEF RevertRaises, IInv, Written, callVars, historyVars,
       boundVars, Returned
  <1>10. ASSUME RevertEnds
       PROVE  Written'
    BY <1>10 DEF RevertEnds, IInv, Written, callVars, historyVars,
       boundVars, Returned
  <1>11. ASSUME Interrupt
       PROVE  Written'
    BY <1>11 DEF Interrupt, IInv, Written, callVars, historyVars, boundVars,
       Returned
  <1>12. ASSUME NEW change \in Change, Skip(change)
       PROVE  Written'
    BY <1>12 DEF Skip, IInv, Written, Examines, callVars, historyVars,
       boundVars
  <1>13. ASSUME NEW change \in Change, Plan(change)
       PROVE  Written'
    BY <1>13 DEF Plan, IInv, Written, Examines, callVars, historyVars,
       boundVars
  <1>14. ASSUME PreflightEnds
       PROVE  Written'
    BY <1>14 DEF PreflightEnds, IInv, Written, Examined, Holds, Names,
       callVars, historyVars, boundVars
  <1>15. ASSUME WriteBegin
       PROVE  Written'
    BY <1>15, ApplicationAssumption DEF WriteBegin, IInv, Written,
       Truncates, TypeOK, callVars, historyVars, boundVars
  <1>16. ASSUME WriteEnd
       PROVE  Written'
    <2>1. /\ phase = "write" /\ phase' = phase /\ plan' = plan
          /\ before' = before /\ current = plan[position].path
          /\ position \in 1..Len(plan) /\ position' - 1 = position
          /\ plan \in Seq(Change) /\ current \in Paths
      BY <1>16, PlanTypes DEF WriteEnd, IInv, TypeOK, Writing, historyVars
    <2>2. \A p \in Paths :
            /\ p = current => tree'[p] = plan[position].content
            /\ p # current => tree'[p] = tree[p]
      BY <1>16, <2>1 DEF WriteEnd, Fills, IInv, TypeOK
    <2>3. ASSUME NEW p \in Paths
          PROVE  Holds(plan, position, p, before[p], tree'[p])
      <3>1. CASE p = current
        BY <2>1, <2>2, <3>1, HoldsNext
      <3>2. CASE p # current
        <4>1. Holds(plan, position - 1, p, before[p], tree[p])
          BY <2>1, <3>2 DEF IInv, Written
        <4> QED
          BY <2>1, <2>2, <3>2, <4>1, HoldsNext
      <3> QED
        BY <3>1, <3>2
    <2> QED
      BY <2>1, <2>3 DEF Written
  <1>17. ASSUME WriteRaises
       PROVE  Written'
    <2>1. /\ phase = "write" /\ phase' = "repair" /\ plan' = plan
          /\ before' = before /\ tree' = tree /\ position \in 1..Len(plan)
          /\ position' \in {position - 1, position}
          /\ position' = position \/ Repeated(position)
      BY <1>17 DEF WriteRaises, IInv, Bounds, historyVars
    <2>2. ASSUME NEW p \in Paths, tree[p] # before[p]
          PROVE  Names(plan, position', p)
      <3>1. CASE p = current
        BY <2>1, <3>1, ApplicationAssumption
        DEF IInv, Writing, Names, Repeated
      <3>2. CASE p # current
        <4>1. Names(plan, position - 1, p)
          BY <2>1, <2>2, <3>2 DEF IInv, Written, Holds
        <4> QED
          BY <2>1, <4>1 DEF Names
      <3> QED
        BY <3>1, <3>2
    <2> QED
      BY <2>1, <2>2 DEF Written
  <1>18. ASSUME RepairDelete
       PROVE  Written'
    BY <1>18, PlanTypes DEF RepairDelete, IInv, Written, Deletes, Names,
       TypeOK, Bounds, Planned, callVars, historyVars, boundVars
  <1>19. ASSUME RepairBegin
       PROVE  Written'
    BY <1>19, PlanTypes DEF RepairBegin, IInv, Written, Truncates, Names,
       TypeOK, Bounds, callVars, historyVars, boundVars
  <1>20. ASSUME RepairEnd
       PROVE  Written'
    BY <1>20, PlanTypes DEF RepairEnd, IInv, Written, Fills, Names, TypeOK,
       Bounds, Writing, Planned, callVars, historyVars, boundVars
  <1>21. ASSUME NEW p \in Paths, RevertDelete(p)
       PROVE  Written'
    BY <1>21 DEF RevertDelete, IInv, Written, callVars, historyVars,
       boundVars
  <1>22. ASSUME NEW p \in Paths, RevertWriteBegin(p)
       PROVE  Written'
    BY <1>22 DEF RevertWriteBegin, IInv, Written, callVars, historyVars,
       boundVars
  <1>23. ASSUME RevertWriteEnd
       PROVE  Written'
    BY <1>23 DEF RevertWriteEnd, IInv, Written, callVars, historyVars,
       boundVars
  <1> QED
    BY <1>1, <1>2, <1>3, <1>4, <1>5, <1>6, <1>7, <1>8, <1>9, <1>10, <1>11,
       <1>12, <1>13, <1>14, <1>15, <1>16, <1>17, <1>18, <1>19, <1>20, <1>21,
       <1>22, <1>23
    DEF Next, Apply, Revert, Failure, Call, Examines, vars, callVars,
        historyVars, boundVars

\* When the last write returned, the files hold what was intended.
LEMMA WrittenAll ==
  ASSUME IInv, Returns, NEW p \in Paths
  PROVE  tree[p] = Intended(p)
  <1>1. /\ phase = "write" /\ plan \in Seq(Change) /\ p # current
        /\ position - 1 = Len(plan) /\ Len(plan) \in 0..Len(plan)
    BY ApplicationAssumption DEF Returns, IInv, TypeOK, Bounds
  <1>2. Holds(plan, Len(plan), p, before[p], tree[p])
    BY <1>1 DEF IInv, Written
  <1>3. Holds(plan, Len(plan), p, before[p], Intended(p))
    BY <1>1 DEF IInv, Planned
  <1> QED
    BY <1>1, <1>2, <1>3, HoldsOnce

\* A batch that is rejected has been undone to the last file.
LEMMA RejectedStep ==
  ASSUME IInv, [Next]_vars
  PROVE  FailedBatchLeavesNothing'
  <1>1. ASSUME UNCHANGED <<phase, tree, before>>
       PROVE  FailedBatchLeavesNothing'
    BY <1>1 DEF IInv, FailedBatchLeavesNothing
  <1>2. ASSUME NEW p \in Paths, Edit(p)
       PROVE  FailedBatchLeavesNothing'
    BY <1>2 DEF Edit, IInv, FailedBatchLeavesNothing, callVars, historyVars,
       boundVars, Returned
  <1>3. ASSUME NEW b \in Batches, ApplyBegin(b)
       PROVE  FailedBatchLeavesNothing'
    BY <1>3 DEF ApplyBegin, IInv, FailedBatchLeavesNothing, callVars,
       historyVars, boundVars, Returned
  <1>4. ASSUME PreflightRaises
       PROVE  FailedBatchLeavesNothing'
    BY <1>4 DEF PreflightRaises, IInv, FailedBatchLeavesNothing, callVars,
       historyVars, boundVars, Returned
  <1>5. ASSUME PreflightEnds
       PROVE  FailedBatchLeavesNothing'
    BY <1>5 DEF PreflightEnds, IInv, FailedBatchLeavesNothing, callVars,
       historyVars, boundVars, Returned
  <1>6. ASSUME WriteRaises
       PROVE  FailedBatchLeavesNothing'
    BY <1>6 DEF WriteRaises, IInv, FailedBatchLeavesNothing, callVars,
       historyVars, boundVars, Returned
  <1>7. ASSUME RepairRaises
       PROVE  FailedBatchLeavesNothing'
    BY <1>7 DEF RepairRaises, IInv, FailedBatchLeavesNothing, callVars,
       historyVars, boundVars, Returned
  <1>8. ASSUME Returns
       PROVE  FailedBatchLeavesNothing'
    BY <1>8 DEF Returns, IInv, FailedBatchLeavesNothing, callVars,
       historyVars, boundVars, Returned
  <1>9. ASSUME RevertBegin
       PROVE  FailedBatchLeavesNothing'
    BY <1>9 DEF RevertBegin, IInv, FailedBatchLeavesNothing, callVars,
       historyVars, boundVars, Returned
  <1>10. ASSUME RevertRaises
       PROVE  FailedBatchLeavesNothing'
    BY <1>10 DEF RevertRaises, IInv, FailedBatchLeavesNothing, callVars,
       historyVars, boundVars, Returned
  <1>11. ASSUME RevertEnds
       PROVE  FailedBatchLeavesNothing'
    BY <1>11 DEF RevertEnds, IInv, FailedBatchLeavesNothing, callVars,
       historyVars, boundVars, Returned
  <1>12. ASSUME Interrupt
       PROVE  FailedBatchLeavesNothing'
    BY <1>12 DEF Interrupt, IInv, FailedBatchLeavesNothing, callVars,
       historyVars, boundVars, Returned
  <1>13. ASSUME WriteBegin
       PROVE  FailedBatchLeavesNothing'
    BY <1>13 DEF WriteBegin, IInv, FailedBatchLeavesNothing, callVars,
       historyVars, boundVars
  <1>14. ASSUME WriteEnd
       PROVE  FailedBatchLeavesNothing'
    BY <1>14 DEF WriteEnd, IInv, FailedBatchLeavesNothing, callVars,
       historyVars, boundVars
  <1>15. ASSUME RepairDelete
       PROVE  FailedBatchLeavesNothing'
    BY <1>15 DEF RepairDelete, IInv, FailedBatchLeavesNothing, callVars,
       historyVars, boundVars
  <1>16. ASSUME RepairBegin
       PROVE  FailedBatchLeavesNothing'
    BY <1>16 DEF RepairBegin, IInv, FailedBatchLeavesNothing, callVars,
       historyVars, boundVars
  <1>17. ASSUME RepairEnd
       PROVE  FailedBatchLeavesNothing'
    BY <1>17 DEF RepairEnd, IInv, FailedBatchLeavesNothing, callVars,
       historyVars, boundVars
  <1>18. ASSUME NEW p \in Paths, RevertDelete(p)
       PROVE  FailedBatchLeavesNothing'
    BY <1>18 DEF RevertDelete, IInv, FailedBatchLeavesNothing, callVars,
       historyVars, boundVars
  <1>19. ASSUME NEW p \in Paths, RevertWriteBegin(p)
       PROVE  FailedBatchLeavesNothing'
    BY <1>19 DEF RevertWriteBegin, IInv, FailedBatchLeavesNothing, callVars,
       historyVars, boundVars
  <1>20. ASSUME RevertWriteEnd
       PROVE  FailedBatchLeavesNothing'
    BY <1>20 DEF RevertWriteEnd, IInv, FailedBatchLeavesNothing, callVars,
       historyVars, boundVars
  <1>21. ASSUME RepairEnds
       PROVE  FailedBatchLeavesNothing'
    <2>1. \A p \in Paths : tree[p] = before[p]
      BY <1>21 DEF RepairEnds, IInv, Written, Names
    <2> QED
      BY <1>21, <2>1 DEF RepairEnds, IInv, TypeOK, FailedBatchLeavesNothing,
         historyVars
  <1> QED
    BY <1>1, <1>2, <1>3, <1>4, <1>5, <1>6, <1>7, <1>8, <1>9, <1>10, <1>11,
       <1>12, <1>13, <1>14, <1>15, <1>16, <1>17, <1>18, <1>19, <1>20, <1>21
    DEF Next, Apply, Revert, Failure, Call, Skip, Plan, Examines, vars,
        callVars, historyVars, boundVars

\* A batch that is applied has had its last word on every file.
LEMMA AppliedStep ==
  ASSUME IInv, [Next]_vars
  PROVE  AppliedIsLastWrite'
  <1>1. ASSUME UNCHANGED <<phase, tree, before, batch>>
       PROVE  AppliedIsLastWrite'
    BY <1>1 DEF IInv, AppliedIsLastWrite
  <1>2. ASSUME NEW p \in Paths, Edit(p)
       PROVE  AppliedIsLastWrite'
    BY <1>2 DEF Edit, IInv, AppliedIsLastWrite, callVars, historyVars,
       boundVars, Returned
  <1>3. ASSUME NEW b \in Batches, ApplyBegin(b)
       PROVE  AppliedIsLastWrite'
    BY <1>3 DEF ApplyBegin, IInv, AppliedIsLastWrite, callVars, historyVars,
       boundVars, Returned
  <1>4. ASSUME PreflightRaises
       PROVE  AppliedIsLastWrite'
    BY <1>4 DEF PreflightRaises, IInv, AppliedIsLastWrite, callVars,
       historyVars, boundVars, Returned
  <1>5. ASSUME PreflightEnds
       PROVE  AppliedIsLastWrite'
    BY <1>5 DEF PreflightEnds, IInv, AppliedIsLastWrite, callVars,
       historyVars, boundVars, Returned
  <1>6. ASSUME WriteRaises
       PROVE  AppliedIsLastWrite'
    BY <1>6 DEF WriteRaises, IInv, AppliedIsLastWrite, callVars,
       historyVars, boundVars, Returned
  <1>7. ASSUME RepairRaises
       PROVE  AppliedIsLastWrite'
    BY <1>7 DEF RepairRaises, IInv, AppliedIsLastWrite, callVars,
       historyVars, boundVars, Returned
  <1>8. ASSUME RepairEnds
       PROVE  AppliedIsLastWrite'
    BY <1>8 DEF RepairEnds, IInv, AppliedIsLastWrite, callVars, historyVars,
       boundVars, Returned
  <1>9. ASSUME RevertBegin
       PROVE  AppliedIsLastWrite'
    BY <1>9 DEF RevertBegin, IInv, AppliedIsLastWrite, callVars,
       historyVars, boundVars, Returned
  <1>10. ASSUME RevertRaises
       PROVE  AppliedIsLastWrite'
    BY <1>10 DEF RevertRaises, IInv, AppliedIsLastWrite, callVars,
       historyVars, boundVars, Returned
  <1>11. ASSUME RevertEnds
       PROVE  AppliedIsLastWrite'
    BY <1>11 DEF RevertEnds, IInv, AppliedIsLastWrite, callVars,
       historyVars, boundVars, Returned
  <1>12. ASSUME Interrupt
       PROVE  AppliedIsLastWrite'
    BY <1>12 DEF Interrupt, IInv, AppliedIsLastWrite, callVars, historyVars,
       boundVars, Returned
  <1>13. ASSUME WriteBegin
       PROVE  AppliedIsLastWrite'
    BY <1>13 DEF WriteBegin, IInv, AppliedIsLastWrite, callVars,
       historyVars, boundVars
  <1>14. ASSUME WriteEnd
       PROVE  AppliedIsLastWrite'
    BY <1>14 DEF WriteEnd, IInv, AppliedIsLastWrite, callVars, historyVars,
       boundVars
  <1>15. ASSUME RepairDelete
       PROVE  AppliedIsLastWrite'
    BY <1>15 DEF RepairDelete, IInv, AppliedIsLastWrite, callVars,
       historyVars, boundVars
  <1>16. ASSUME RepairBegin
       PROVE  AppliedIsLastWrite'
    BY <1>16 DEF RepairBegin, IInv, AppliedIsLastWrite, callVars,
       historyVars, boundVars
  <1>17. ASSUME RepairEnd
       PROVE  AppliedIsLastWrite'
    BY <1>17 DEF RepairEnd, IInv, AppliedIsLastWrite, callVars, historyVars,
       boundVars
  <1>18. ASSUME NEW p \in Paths, RevertDelete(p)
       PROVE  AppliedIsLastWrite'
    BY <1>18 DEF RevertDelete, IInv, AppliedIsLastWrite, callVars,
       historyVars, boundVars
  <1>19. ASSUME NEW p \in Paths, RevertWriteBegin(p)
       PROVE  AppliedIsLastWrite'
    BY <1>19 DEF RevertWriteBegin, IInv, AppliedIsLastWrite, callVars,
       historyVars, boundVars
  <1>20. ASSUME RevertWriteEnd
       PROVE  AppliedIsLastWrite'
    BY <1>20 DEF RevertWriteEnd, IInv, AppliedIsLastWrite, callVars,
       historyVars, boundVars
  <1>21. ASSUME Returns
       PROVE  AppliedIsLastWrite'
    <2>1. /\ batch' = batch /\ before' = before /\ tree' = tree
          /\ phase = "write"
      BY <1>21 DEF Returns, callVars
    <2>2. ASSUME NEW p \in Paths
          PROVE  IF p \in Allowed /\ Names(batch, Len(batch), p)
                   THEN LastIs(batch, Len(batch), p, tree[p])
                   ELSE tree[p] = before[p]
      BY <1>21, <2>1, WrittenAll DEF IInv, Examined, Holds
    <2> QED
      BY <2>1, <2>2 DEF AppliedIsLastWrite
  <1> QED
    BY <1>1, <1>2, <1>3, <1>4, <1>5, <1>6, <1>7, <1>8, <1>9, <1>10, <1>11,
       <1>12, <1>13, <1>14, <1>15, <1>16, <1>17, <1>18, <1>19, <1>20, <1>21
    DEF Next, Apply, Revert, Failure, Call, Skip, Plan, Examines, vars,
        callVars, historyVars, boundVars

\* The record stays the way back to the base.
LEMMA RecordedStep ==
  ASSUME IInv, [Next]_vars
  PROVE  Recorded'
  <1>1. ASSUME UNCHANGED <<phase, tree, before, record, base, intact>>
       PROVE  Recorded'
    BY <1>1 DEF IInv, Recorded, View, InCall, Entries
  <1>2. ASSUME NEW p \in Paths, Edit(p)
       PROVE  Recorded'
    BY <1>2 DEF Edit, IInv, Recorded, Entries, callVars, historyVars,
       boundVars
  <1>3. ASSUME NEW b \in Batches, ApplyBegin(b)
       PROVE  Recorded'
    BY <1>3 DEF ApplyBegin, IInv, Recorded, View, InCall, Entries, callVars,
       historyVars, boundVars, Returned
  <1>4. ASSUME PreflightRaises
       PROVE  Recorded'
    BY <1>4 DEF PreflightRaises, IInv, Recorded, Examined, View, InCall,
       Entries, callVars, historyVars, boundVars, Returned
  <1>5. ASSUME PreflightEnds
       PROVE  Recorded'
    BY <1>5 DEF PreflightEnds, IInv, Recorded, View, InCall, Entries,
       callVars, historyVars, boundVars
  <1>6. ASSUME WriteRaises
       PROVE  Recorded'
    BY <1>6 DEF WriteRaises, IInv, Recorded, View, InCall, Entries,
       callVars, historyVars, boundVars
  <1>7. ASSUME RepairRaises
       PROVE  Recorded'
    BY <1>7 DEF RepairRaises, IInv, Recorded, Entries, callVars,
       historyVars, boundVars
  <1>8. ASSUME RepairEnds
       PROVE  Recorded'
    BY <1>8 DEF RepairEnds, IInv, Recorded, View, InCall, Entries, Written,
       Names, callVars, historyVars, boundVars
  <1>9. ASSUME WriteBegin
       PROVE  Recorded'
    BY <1>9 DEF WriteBegin, IInv, Recorded, View, InCall, Entries, callVars,
       historyVars, boundVars
  <1>10. ASSUME WriteEnd
       PROVE  Recorded'
    BY <1>10 DEF WriteEnd, IInv, Recorded, View, InCall, Entries, callVars,
       historyVars, boundVars
  <1>11. ASSUME RepairDelete
       PROVE  Recorded'
    BY <1>11 DEF RepairDelete, IInv, Recorded, View, InCall, Entries,
       callVars, historyVars, boundVars
  <1>12. ASSUME RepairBegin
       PROVE  Recorded'
    BY <1>12 DEF RepairBegin, IInv, Recorded, View, InCall, Entries,
       callVars, historyVars, boundVars
  <1>13. ASSUME RepairEnd
       PROVE  Recorded'
    BY <1>13 DEF RepairEnd, IInv, Recorded, View, InCall, Entries, callVars,
       historyVars, boundVars
  <1>14. ASSUME NEW p \in Paths, RevertDelete(p)
       PROVE  Recorded'
    BY <1>14 DEF RevertDelete, IInv, Recorded, View, InCall, Entries,
       callVars, historyVars, boundVars
  <1>15. ASSUME NEW p \in Paths, RevertWriteBegin(p)
       PROVE  Recorded'
    BY <1>15 DEF RevertWriteBegin, IInv, Recorded, View, InCall, Entries,
       callVars, historyVars, boundVars
  <1>16. ASSUME RevertWriteEnd
       PROVE  Recorded'
    BY <1>16 DEF RevertWriteEnd, IInv, Recorded, View, InCall, Entries,
       callVars, historyVars, boundVars
  <1>17. ASSUME Returns
       PROVE  Recorded'
    <2>1. /\ phase = "write" /\ phase' = "applied" /\ tree' = tree
          /\ before' = before /\ ~InCall' /\ InCall
      BY <1>17 DEF Returns, InCall
    <2>2. \A p \in Paths : backups[p] = None => tree[p] = before[p]
      BY <2>1, <1>17, WrittenAll DEF IInv, Planned, Intended
    <2>3. CASE Entries(backups) # {} /\ record' = backups /\ base' = before
      BY <2>1, <2>2, <2>3 DEF IInv, Planned, Recorded, View, Entries
    <2>4. CASE Entries(backups) = {} /\ UNCHANGED <<record, base, intact>>
      <3>1. \A p \in Paths : View'[p] = View[p]
        BY <2>1, <2>2, <2>4 DEF View, Entries
      <3> QED
        BY <2>4, <3>1 DEF IInv, Recorded, Entries
    <2> QED
      BY <1>17, <2>3, <2>4 DEF Returns
  <1>18. ASSUME RevertBegin
       PROVE  Recorded'
    BY <1>18 DEF RevertBegin, IInv, Recorded, View, InCall, Entries,
       callVars, historyVars, boundVars, Returned
  <1>19. ASSUME RevertRaises
       PROVE  Recorded'
    BY <1>19 DEF RevertRaises, IInv, Recorded, View, InCall, Entries,
       Reverting, Examined, callVars, historyVars, boundVars, Returned
  <1>20. ASSUME Interrupt
       PROVE  Recorded'
    BY <1>20 DEF Interrupt, IInv, Recorded, View, InCall, Entries,
       Reverting, Examined, callVars, historyVars, boundVars, Returned
  <1>21. ASSUME RevertEnds
       PROVE  Recorded'
    BY <1>21 DEF RevertEnds, IInv, Recorded, Entries, NoEntry, callVars,
       historyVars, boundVars
  <1> QED
    BY <1>1, <1>2, <1>3, <1>4, <1>5, <1>6, <1>7, <1>8, <1>9, <1>10, <1>11,
       <1>12, <1>13, <1>14, <1>15, <1>16, <1>17, <1>18, <1>19, <1>20, <1>21
    DEF Next, Apply, Revert, Failure, Call, Skip, Plan, Examines, vars,
        callVars, historyVars, boundVars

\* A rollback has restored what it no longer lists.
LEMMA RevertingStep ==
  ASSUME IInv, [Next]_vars
  PROVE  Reverting'
  <1>1. ASSUME UNCHANGED <<phase, tree, before, record, todo, current>>
       PROVE  Reverting'
    BY <1>1 DEF IInv, Reverting, Entries
  <1>2. ASSUME NEW p \in Paths, Edit(p)
       PROVE  Reverting'
    BY <1>2 DEF Edit, IInv, Reverting, callVars, historyVars, boundVars,
       Returned
  <1>3. ASSUME NEW b \in Batches, ApplyBegin(b)
       PROVE  Reverting'
    BY <1>3 DEF ApplyBegin, IInv, Reverting, callVars, historyVars,
       boundVars, Returned
  <1>4. ASSUME PreflightRaises
       PROVE  Reverting'
    BY <1>4 DEF PreflightRaises, IInv, Reverting, callVars, historyVars,
       boundVars, Returned
  <1>5. ASSUME PreflightEnds
       PROVE  Reverting'
    BY <1>5 DEF PreflightEnds, IInv, Reverting, callVars, historyVars,
       boundVars, Returned
  <1>6. ASSUME WriteRaises
       PROVE  Reverting'
    BY <1>6 DEF WriteRaises, IInv, Reverting, callVars, historyVars,
       boundVars, Returned
  <1>7. ASSUME RepairRaises
       PROVE  Reverting'
    BY <1>7 DEF RepairRaises, IInv, Reverting, callVars, historyVars,
       boundVars, Returned
  <1>8. ASSUME RepairEnds
       PROVE  Reverting'
    BY <1>8 DEF RepairEnds, IInv, Reverting, callVars, historyVars,
       boundVars, Returned
  <1>9. ASSUME Returns
       PROVE  Reverting'
    BY <1>9 DEF Returns, IInv, Reverting, callVars, historyVars, boundVars,
       Returned
  <1>10. ASSUME RevertRaises
       PROVE  Reverting'
    BY <1>10 DEF RevertRaises, IInv, Reverting, callVars, historyVars,
       boundVars, Returned
  <1>11. ASSUME RevertEnds
       PROVE  Reverting'
    BY <1>11 DEF RevertEnds, IInv, Reverting, callVars, historyVars,
       boundVars, Returned
  <1>12. ASSUME Interrupt
       PROVE  Reverting'
    BY <1>12 DEF Interrupt, IInv, Reverting, callVars, historyVars,
       boundVars, Returned
  <1>13. ASSUME WriteBegin
       PROVE  Reverting'
    BY <1>13 DEF WriteBegin, IInv, Reverting, callVars, historyVars,
       boundVars
  <1>14. ASSUME WriteEnd
       PROVE  Reverting'
    BY <1>14 DEF WriteEnd, IInv, Reverting, callVars, historyVars, boundVars
  <1>15. ASSUME RepairDelete
       PROVE  Reverting'
    BY <1>15 DEF RepairDelete, IInv, Reverting, callVars, historyVars,
       boundVars
  <1>16. ASSUME RepairBegin
       PROVE  Reverting'
    BY <1>16 DEF RepairBegin, IInv, Reverting, callVars, historyVars,
       boundVars
  <1>17. ASSUME RepairEnd
       PROVE  Reverting'
    BY <1>17 DEF RepairEnd, IInv, Reverting, callVars, historyVars,
       boundVars
  <1>18. ASSUME RevertBegin
       PROVE  Reverting'
    BY <1>18 DEF RevertBegin, IInv, Reverting, Recorded, Entries, callVars,
       historyVars, boundVars
  <1>19. ASSUME NEW p \in Paths, RevertDelete(p)
       PROVE  Reverting'
    BY <1>19, ApplicationAssumption DEF RevertDelete, IInv, Reverting,
       Deletes, Entries, TypeOK, Writing, callVars, historyVars, boundVars
  <1>20. ASSUME NEW p \in Paths, RevertWriteBegin(p)
       PROVE  Reverting'
    BY <1>20, ApplicationAssumption DEF RevertWriteBegin, IInv, Reverting,
       Truncates, Entries, TypeOK, Writing, callVars, historyVars, boundVars
  <1>21. ASSUME RevertWriteEnd
       PROVE  Reverting'
    BY <1>21, ApplicationAssumption DEF RevertWriteEnd, IInv, Reverting,
       Fills, Entries, TypeOK, Writing, callVars, historyVars, boundVars
  <1> QED
    BY <1>1, <1>2, <1>3, <1>4, <1>5, <1>6, <1>7, <1>8, <1>9, <1>10, <1>11,
       <1>12, <1>13, <1>14, <1>15, <1>16, <1>17, <1>18, <1>19, <1>20, <1>21
    DEF Next, Apply, Revert, Failure, Call, Skip, Plan, Examines, vars,
        callVars, historyVars, boundVars

\* A rollback that returned, of a tree nothing else touched, gives the base.
LEMMA RevertedStep ==
  ASSUME IInv, [Next]_vars
  PROVE  RevertRestores'
  <1>1. ASSUME UNCHANGED <<phase, tree, base, intact>>
       PROVE  RevertRestores'
    BY <1>1 DEF IInv, RevertRestores
  <1>2. ASSUME NEW p \in Paths, Edit(p)
       PROVE  RevertRestores'
    BY <1>2 DEF Edit, IInv, RevertRestores, callVars, historyVars,
       boundVars, Returned
  <1>3. ASSUME NEW b \in Batches, ApplyBegin(b)
       PROVE  RevertRestores'
    BY <1>3 DEF ApplyBegin, IInv, RevertRestores, callVars, historyVars,
       boundVars, Returned
  <1>4. ASSUME PreflightRaises
       PROVE  RevertRestores'
    BY <1>4 DEF PreflightRaises, IInv, RevertRestores, callVars,
       historyVars, boundVars, Returned
  <1>5. ASSUME PreflightEnds
       PROVE  RevertRestores'
    BY <1>5 DEF PreflightEnds, IInv, RevertRestores, callVars, historyVars,
       boundVars, Returned
  <1>6. ASSUME WriteRaises
       PROVE  RevertRestores'
    BY <1>6 DEF WriteRaises, IInv, RevertRestores, callVars, historyVars,
       boundVars, Returned
  <1>7. ASSUME RepairRaises
       PROVE  RevertRestores'
    BY <1>7 DEF RepairRaises, IInv, RevertRestores, callVars, historyVars,
       boundVars, Returned
  <1>8. ASSUME RepairEnds
       PROVE  RevertRestores'
    BY <1>8 DEF RepairEnds, IInv, RevertRestores, callVars, historyVars,
       boundVars, Returned
  <1>9. ASSUME Returns
       PROVE  RevertRestores'
    BY <1>9 DEF Returns, IInv, RevertRestores, callVars, historyVars,
       boundVars, Returned
  <1>10. ASSUME RevertBegin
       PROVE  RevertRestores'
    BY <1>10 DEF RevertBegin, IInv, RevertRestores, callVars, historyVars,
       boundVars, Returned
  <1>11. ASSUME RevertRaises
       PROVE  RevertRestores'
    BY <1>11 DEF RevertRaises, IInv, RevertRestores, callVars, historyVars,
       boundVars, Returned
  <1>12. ASSUME Interrupt
       PROVE  RevertRestores'
    BY <1>12 DEF Interrupt, IInv, RevertRestores, callVars, historyVars,
       boundVars, Returned
  <1>13. ASSUME WriteBegin
       PROVE  RevertRestores'
    BY <1>13 DEF WriteBegin, IInv, RevertRestores, callVars, historyVars,
       boundVars
  <1>14. ASSUME WriteEnd
       PROVE  RevertRestores'
    BY <1>14 DEF WriteEnd, IInv, RevertRestores, callVars, historyVars,
       boundVars
  <1>15. ASSUME RepairDelete
       PROVE  RevertRestores'
    BY <1>15 DEF RepairDelete, IInv, RevertRestores, callVars, historyVars,
       boundVars
  <1>16. ASSUME RepairBegin
       PROVE  RevertRestores'
    BY <1>16 DEF RepairBegin, IInv, RevertRestores, callVars, historyVars,
       boundVars
  <1>17. ASSUME RepairEnd
       PROVE  RevertRestores'
    BY <1>17 DEF RepairEnd, IInv, RevertRestores, callVars, historyVars,
       boundVars
  <1>18. ASSUME NEW p \in Paths, RevertDelete(p)
       PROVE  RevertRestores'
    BY <1>18 DEF RevertDelete, IInv, RevertRestores, callVars, historyVars,
       boundVars
  <1>19. ASSUME NEW p \in Paths, RevertWriteBegin(p)
       PROVE  RevertRestores'
    BY <1>19 DEF RevertWriteBegin, IInv, RevertRestores, callVars,
       historyVars, boundVars
  <1>20. ASSUME RevertWriteEnd
       PROVE  RevertRestores'
    BY <1>20 DEF RevertWriteEnd, IInv, RevertRestores, callVars,
       historyVars, boundVars
  <1>21. ASSUME RevertEnds
       PROVE  RevertRestores'
    <2>1. /\ phase = "revert" /\ todo = {} /\ tree' = tree /\ base' = base
          /\ intact' = intact /\ View = before
      BY <1>21 DEF RevertEnds, historyVars, View, InCall
    <2>2. ASSUME intact PROVE \A p \in Paths : tree[p] = base[p]
      BY <2>1, <2>2 DEF IInv, Reverting, Recorded, Entries
    <2> QED
      BY <2>1, <2>2 DEF IInv, TypeOK, RevertRestores
  <1> QED
    BY <1>1, <1>2, <1>3, <1>4, <1>5, <1>6, <1>7, <1>8, <1>9, <1>10, <1>11,
       <1>12, <1>13, <1>14, <1>15, <1>16, <1>17, <1>18, <1>19, <1>20, <1>21
    DEF Next, Apply, Revert, Failure, Call, Skip, Plan, Examines, vars,
        callVars, historyVars, boundVars

\* Every step keeps the invariant.
LEMMA InvStep ==
  ASSUME IInv, [Next]_vars
  PROVE  IInv'
  BY TypeStep, BoundsStep, WritingStep, PlannedStep, ExaminedStep,
     WrittenStep, RecordedStep, RevertingStep, RejectedStep, AppliedStep,
     RevertedStep DEF IInv

\* Every reachable state satisfies the invariant.
THEOREM Invariant == Spec => []IInv
  BY InitInv, InvStep, PTL DEF Spec

\* What the variables of the application of code changes may hold.
THEOREM TypeCorrect == Spec => []TypeOK
  <1>1. IInv => TypeOK
    BY DEF IInv
  <1> QED
    BY Invariant, <1>1, PTL

\* apply_code_changes_to_root_async that raised "Failed to apply code changes
\* atomically" left every file of the tree as it was.
THEOREM RejectedIsUnchanged == Spec => []FailedBatchLeavesNothing
  <1>1. IInv => FailedBatchLeavesNothing
    BY DEF IInv
  <1> QED
    BY Invariant, <1>1, PTL

\* apply_code_changes_to_root_async that returned gave each permitted file
\* its last change and touched no other.
THEOREM AppliedIsWhole == Spec => []AppliedIsLastWrite
  <1>1. IInv => AppliedIsLastWrite
    BY DEF IInv
  <1> QED
    BY Invariant, <1>1, PTL

\* rollback_code_changes_async that returned gives the tree from before the
\* batch of the record, whatever calls failed in between.
THEOREM RevertIsExact == Spec => []RevertRestores
  <1>1. IInv => RevertRestores
    BY DEF IInv
  <1> QED
    BY Invariant, <1>1, PTL

-----------------------------------------------------------------------------
(* The file-by-file handlers implement AtomicBatch. *)

\* What the caller may take back.
Undo == IF Entries(record) = {} THEN {} ELSE {base}

\* The variables of AtomicBatch under the refinement mapping.
atomicVars ==
  <<IF InCall THEN before ELSE tree,
    IF Entries(record) = {} THEN {} ELSE {base}, ~intact>>

\* What the caller sees next is a tree.
LEMMA ViewType ==
  ASSUME TypeOK'
  PROVE  View' \in Atomic!Trees
  <1>1. Held = Contents \cup {Absent, Torn}
    BY DEF Held, File
  <1> QED
    BY <1>1 DEF TypeOK, View, Atomic!Trees

\* The mapping starts where AtomicBatch starts.
LEMMA InitAtomic == Init => Atomic!Init
  BY DEF Init, Atomic!Init, InCall, Entries, NoEntry

\* Edits, failed repairs and interrupted writes disturb the tree.
LEMMA Disturbs ==
  ASSUME TypeOK', intact' = FALSE, Undo' = Undo
  PROVE  Atomic!Disturb
  BY ViewType DEF Atomic!Disturb, View, Undo

\* A batch that returns commits.
LEMMA Commits ==
  ASSUME IInv, TypeOK', Returns
  PROVE  Atomic!Commit
  <1>1. /\ phase = "write" /\ phase' = "applied" /\ tree' = tree
        /\ before' = before /\ InCall /\ ~InCall' /\ View' = tree
        /\ batch \in Batches /\ batch \in Seq(Change)
    BY DEF Returns, InCall, View, IInv, Planned, TypeOK
  <1>2. ASSUME NEW p \in Paths, p \notin Allowed \/ ~Names(batch, Len(batch), p)
        PROVE  tree[p] = before[p]
    BY <1>1, <1>2, WrittenAll DEF IInv, Examined, Holds
  <1>3. ASSUME NEW p \in Paths, p \in Allowed, Names(batch, Len(batch), p)
        PROVE  LastIs(batch, Len(batch), p, tree[p])
    BY <1>1, <1>3, WrittenAll DEF IInv, Examined, Holds
  <1>4. Atomic!Result(batch, tree)
    <2> SUFFICES ASSUME NEW p \in Paths
                 PROVE  \/ /\ \A j \in 1..Len(batch) :
                                batch[j].path # p \/ p \notin Allowed
                           /\ tree[p] = before[p]
                        \/ \E j \in 1..Len(batch) :
                             /\ batch[j].path = p /\ p \in Allowed
                             /\ tree[p] = batch[j].content
                             /\ \A k \in 1..Len(batch) :
                                  k > j => batch[k].path # p
      BY <1>1 DEF Atomic!Result
    <2>1. CASE p \notin Allowed \/ ~Names(batch, Len(batch), p)
      BY <1>2, <2>1 DEF Names
    <2>2. CASE p \in Allowed /\ Names(batch, Len(batch), p)
      <3>1. PICK j \in 1..Len(batch) :
              /\ batch[j] = [path |-> p, content |-> tree[p]]
              /\ \A k \in 1..Len(batch) : k > j => batch[k].path # p
        BY <1>3, <2>2 DEF LastIs
      <3>2. batch[j].path = p /\ batch[j].content = tree[p]
        BY <3>1
      <3> QED
        BY <2>2, <3>1, <3>2
    <2> QED
      BY <2>1, <2>2
  <1>5. View' \in Atomic!Trees
    BY ViewType
  <1>6. CASE Entries(backups) # {} /\ record' = backups /\ base' = before /\ intact'
    <2>1. Entries(record)' # {}
      BY <1>6 DEF Entries
    <2> QED
      BY <1>1, <1>4, <1>5, <1>6, <2>1 DEF Atomic!Commit, View
  <1>7. CASE Entries(backups) = {} /\ UNCHANGED <<record, base, intact>>
    <2>1. \A p \in Paths : tree[p] = before[p]
      BY <1>1, <1>7, WrittenAll DEF IInv, Planned, Intended, Entries
    <2>2. tree = before
      BY <2>1 DEF IInv, TypeOK
    <2>3. Entries(record)' = Entries(record)
      BY <1>7 DEF Entries
    <2> QED
      BY <1>1, <1>4, <1>5, <1>7, <2>2, <2>3 DEF Atomic!Commit, View
  <1> QED
    BY <1>6, <1>7 DEF Returns

\* A rollback that returns takes the batch back.
LEMMA TakesBack ==
  ASSUME IInv, TypeOK', RevertRestores', RevertEnds
  PROVE  Atomic!TakeBack
  <1>1. Entries(record) # {} /\ Entries(record)' = {} /\ ~InCall'
    BY DEF RevertEnds, IInv, Reverting, Entries, NoEntry, InCall
  <1>2. /\ phase' = "reverted" /\ intact' = intact /\ base' = base
        /\ View' = tree'
    BY <1>1 DEF RevertEnds, historyVars, View
  <1>3. intact => tree' = base
    BY <1>2 DEF RevertRestores
  <1> QED
    BY <1>1, <1>2, <1>3, ViewType DEF Atomic!TakeBack, View

\* A rollback that raises or is interrupted takes a part back.
LEMMA TakesPartBack ==
  ASSUME IInv, TypeOK', phase = "revert", phase' \in Returned,
         tree' = tree, UNCHANGED <<record, base, intact>>
  PROVE  Atomic!TakePartBack
  <1>1. InCall /\ ~InCall' /\ Entries(record) # {} /\ View' = tree
    BY DEF InCall, Returned, IInv, Reverting, View
  <1>2. PICK q \in Paths : current # None => q = current
    BY DEF IInv, Reverting, Entries, TypeOK
  <1>3. ASSUME intact, NEW p \in Paths
        PROVE  tree[p] \in {before[p], base[p]} \cup (IF p = q THEN {Torn} ELSE {})
    BY <1>2, <1>3, ApplicationAssumption
    DEF IInv, Reverting, Recorded, Entries, TypeOK
  <1>4. Entries(record)' = Entries(record)
    BY DEF Entries
  <1> QED
    BY <1>1, <1>3, <1>4, ViewType DEF Atomic!TakePartBack, View

\* Every step is a step of AtomicBatch or is not seen by the caller.
LEMMA AtomicStep ==
  ASSUME IInv, [Next]_vars
  PROVE  Atomic!Next \/ UNCHANGED atomicVars
  <1> USE InvStep
  <1>0. IInv' /\ TypeOK'
    BY DEF IInv
  <1>1. ASSUME View' = View, record' = record, base' = base, intact' = intact
        PROVE  UNCHANGED atomicVars
    BY <1>1 DEF View, atomicVars, Entries
  <1>2. ASSUME NEW p \in Paths, Edit(p)
        PROVE  Atomic!Disturb
    BY <1>0, <1>2, Disturbs DEF Edit, Undo, Entries
  <1>3. ASSUME RepairRaises
        PROVE  Atomic!Disturb
    BY <1>0, <1>3, Disturbs DEF RepairRaises, Undo, Entries
  <1>4. CASE Interrupt
    <2>1. CASE phase \in {"write", "repair"}
      <3>1. intact' = FALSE /\ Undo' = Undo
        BY <1>4, <2>1 DEF Interrupt, Undo, Entries
      <3> QED
        BY <1>0, <3>1, Disturbs DEF Atomic!Next
    <2>2. CASE phase = "preflight"
      <3>1. View' = View /\ intact' = intact
        BY <1>4, <2>2 DEF Interrupt, View, InCall, IInv, Examined, TypeOK
      <3> QED
        BY <1>1, <1>4, <3>1 DEF Interrupt
    <2>3. CASE phase = "revert"
      <3>1. intact' = intact /\ phase' \in Returned
        BY <1>4, <2>3 DEF Interrupt, IInv, TypeOK, Returned
      <3> QED
        BY <1>0, <1>4, <2>3, <3>1, TakesPartBack DEF Interrupt, Atomic!Next
    <2> QED
      BY <1>4, <2>1, <2>2, <2>3 DEF Interrupt, IInv, TypeOK, Phases
  <1>5. CASE RevertRaises
    BY <1>0, <1>5, TakesPartBack
    DEF RevertRaises, historyVars, Returned, Atomic!Next
  <1>6. CASE RevertEnds
    <2>1. RevertRestores'
      BY <1>0 DEF IInv
    <2> QED
      BY <1>0, <1>6, <2>1, TakesBack DEF Atomic!Next
  <1>7. CASE Returns
    BY <1>0, <1>7, Commits DEF Atomic!Next
  <1>8. CASE PreflightRaises \/ RepairEnds
    <2>1. View' = View
      BY <1>0, <1>8
      DEF PreflightRaises, RepairEnds, View, InCall, IInv, Examined,
          FailedBatchLeavesNothing, historyVars
    <2> QED
      BY <1>1, <1>8, <2>1 DEF PreflightRaises, RepairEnds, historyVars
  <1>9. CASE RevertBegin \/ \E b \in Batches : ApplyBegin(b)
    <2>1. View' = View
      BY <1>9 DEF RevertBegin, ApplyBegin, View, InCall, Returned
    <2> QED
      BY <1>1, <1>9, <2>1 DEF RevertBegin, ApplyBegin
  <1>10. CASE \/ UNCHANGED vars
              \/ \E change \in Change : Skip(change) \/ Plan(change)
              \/ PreflightEnds \/ WriteBegin \/ WriteEnd \/ WriteRaises
              \/ RepairDelete \/ RepairBegin \/ RepairEnd
              \/ \E p \in Paths : RevertDelete(p) \/ RevertWriteBegin(p)
              \/ RevertWriteEnd
    <2>1. /\ View' = View /\ record' = record /\ base' = base
          /\ intact' = intact
      BY <1>10
      DEF Skip, Plan, Examines, PreflightEnds, WriteBegin, WriteEnd,
          WriteRaises, RepairDelete, RepairBegin, RepairEnd, RevertDelete,
          RevertWriteBegin, RevertWriteEnd, View, InCall, vars, historyVars
    <2> QED
      BY <1>1, <2>1
  <1> QED
    BY <1>2, <1>3, <1>4, <1>5, <1>6, <1>7, <1>8, <1>9, <1>10
    DEF Next, Apply, Revert, Failure, Call, Atomic!Next

\* What the caller sees of any execution is an execution of AtomicBatch.
THEOREM ImplementsAtomicBatch == Spec => IsAtomicBatch
  <1>1. IInv /\ [Next]_vars => [Atomic!Next]_atomicVars
    BY AtomicStep
  <1> QED
    BY InitAtomic, Invariant, <1>1, PTL
    DEF Spec, IsAtomicBatch, Atomic!Spec, atomicVars
=============================================================================
