----------------------- MODULE ImprovementLoopProofs -----------------------
(***************************************************************************)
(* What holds of every run of the program, for all command lines, answers  *)
(* of the model and numbers of cycles, failures, restarts and kills; and,  *)
(* in the second part, of the event writer that every run logs through,    *)
(* for all sizes of its queues and batches and numbers of callers, events  *)
(* and failed writes.                                                      *)
(***************************************************************************)
EXTENDS ImprovementLoop, EventWriter, SequenceTheorems, WellFoundedInduction,
        TLAPS

\* A step is only taken when a cycle is left to make.
Going == phase \in InStep /\ main.opt.target # 0 =>
           main.completed < main.opt.target

\* What a run on its way to its end knows.
Ending ==
  /\ phase \in {"close", "judge", "finish", "save_end"} /\ ~main.raised =>
       main.completed = main.opt.target
  /\ phase \in {"finish", "save_end"} /\ main.raised => Exhausted(main)
  /\ phase = "save_end" =>
       memory.mode = IF main.raised THEN "error" ELSE "stopped"

\* The cycles that may fail in the sessions that are over.
Spent(m) == AttemptsPerSession(m.opt) * m.restarts

\* The failures of this session are counted by consecutive, up to its end.
Counted ==
  /\ phase \in {"announce", "start", "loop", "save"} \cup InStep =>
       /\ main.consecutive < AttemptsPerSession(main.opt)
       /\ streak <= Spent(main) + main.consecutive
  /\ phase = "save_error" =>
       /\ main.consecutive <= AttemptsPerSession(main.opt)
       /\ streak <= Spent(main) + main.consecutive
       /\ main.opt.continuous /\ main.opt.continueOnError
  /\ phase = "save_restart" => streak <= Spent(main)
  /\ streak <= Spent(main) + AttemptsPerSession(main.opt)

\* Outside safe mode all is calm; in safe mode stable counts the calm cycles.
SafeModeCounts(m) ==
  IF m.safe THEN m.calm = m.stable ELSE m.calm = StableRequired

Calm ==
  /\ SafeModeCounts(memory) /\ SafeModeCounts(saved)
  /\ phase = "evolve" /\ cycle.batch => ~memory.safe
  /\ phase \notin {"evolve", "feedback", "report"} => ~cycle.batch

\* A command line is one.
LEMMA OptionType ==
  ASSUME NEW o \in Options
  PROVE  /\ o \in Option /\ Fresh(o).opt = o
         /\ AttemptsPerSession(o) \in Nat \ {0}
         /\ o.continuous /\ o.continueOnError =>
              AttemptsPerSession(o) = o.maxConsecutive
         /\ ~(o.continuous /\ o.continueOnError) => AttemptsPerSession(o) = 1
  <1>1. o \in Option
    BY ImprovementLoopAssumption
  <1> QED
    BY <1>1 DEF Option, AttemptsPerSession, Fresh

\* A restart grants one more session's worth of attempts.
LEMMA Grants ==
  ASSUME NEW a \in Nat, NEW r \in Nat
  PROVE  a * r \in Nat /\ a * (r + 1) = a * r + a /\ a * 0 = 0
  OBVIOUS

\* What decide_code_changes may come up with.
LEMMA ProposalType ==
  ASSUME memory \in Memory, NEW p \in Proposals
  PROVE  /\ p[1] \in {None, "some", "empty"} /\ p[2] \in BOOLEAN
         /\ memory.safe => p[2] = FALSE
  <1>1. ChangesAnswers \subseteq {None, "some", "empty"}
    BY DEF ChangesAnswers, Memory
  <1>2. memory.changes \in {None, "some", "empty"}
    BY DEF Memory
  <1>3. CASE memory.safe
    <2>1. p = <<memory.changes, FALSE>>
      BY <1>3 DEF Proposals
    <2>2. p[1] = memory.changes /\ p[2] = FALSE
      BY <2>1
    <2> QED
      BY <1>2, <2>2
  <1>4. CASE ~memory.safe
    <2>1. p \in ChangesAnswers \X BOOLEAN
      BY <1>4 DEF Proposals
    <2> QED
      BY <1>1, <1>4, <2>1
  <1> QED
    BY <1>3, <1>4

\* The invariants hold at the start.
LEMMA InitInv == Init => TypeOK /\ Going /\ Ending /\ Counted /\ Calm
  <1> SUFFICES ASSUME Init PROVE TypeOK /\ Going /\ Ending /\ Counted /\ Calm
    OBVIOUS
  <1>1. PICK o \in Options : main = Fresh(o)
    BY DEF Init
  <1>2. memory \in Memory
    BY ImprovementLoopAssumption DEF Init, Memory
  <1>3. TypeOK
    BY <1>1, <1>2, ImprovementLoopAssumption, OptionType
    DEF Init, TypeOK, Fresh, NoCycle, Phases, Down, Option
  <1>4. Counted
    <2>1. main.opt = o /\ main.restarts = 0 /\ streak = 0 /\ phase = "ended"
      BY <1>1 DEF Init, Fresh
    <2>2. AttemptsPerSession(o) \in Nat
      BY OptionType
    <2> QED
      BY <2>1, <2>2, Grants DEF Counted, Spent, InStep
  <1> QED
    BY <1>3, <1>4 DEF Init, Going, Ending, InStep, Calm, SafeModeCounts, NoCycle

\* Every step keeps the types.
LEMMA TypeStep ==
  ASSUME TypeOK, Going, [Next]_vars
  PROVE  TypeOK'
  <1>1. ASSUME UNCHANGED <<vars>>
       PROVE  TypeOK'
    BY <1>1 DEF TypeOK, vars
  <1>2. ASSUME StepBegins
       PROVE  TypeOK'
    BY <1>2 DEF StepBegins, TypeOK, Going, Phases, InStep, Down, Save
  <1>3. ASSUME Announce
       PROVE  TypeOK'
    BY <1>3 DEF Announce, TypeOK, Going, Phases, InStep, Down, Save
  <1>4. ASSUME Start
       PROVE  TypeOK'
    BY <1>4 DEF Start, TypeOK, Going, Phases, InStep, Down, Save
  <1>5. ASSUME SaveCycle
       PROVE  TypeOK'
    BY <1>5 DEF SaveCycle, TypeOK, Going, Phases, InStep, Down, Save
  <1>6. ASSUME LoopEnds
       PROVE  TypeOK'
    BY <1>6 DEF LoopEnds, TypeOK, Going, Phases, InStep, Down, Save
  <1>7. ASSUME Close
       PROVE  TypeOK'
    BY <1>7 DEF Close, TypeOK, Going, Phases, InStep, Down, Save
  <1>8. ASSUME SessionOver
       PROVE  TypeOK'
    BY <1>8 DEF SessionOver, TypeOK, Going, Phases, InStep, Down, Save
  <1>9. ASSUME SaveEnd
       PROVE  TypeOK'
    BY <1>9 DEF SaveEnd, TypeOK, Going, Phases, InStep, Down, Save
  <1>10. ASSUME SaveBreaks
       PROVE  TypeOK'
    BY <1>10 DEF SaveBreaks, TypeOK, Going, Phases, InStep, Down, Save
  <1>11. ASSUME Evolve
       PROVE  TypeOK'
    BY <1>11 DEF Evolve, TypeOK, Going, Phases, InStep, Down, Memory
  <1>12. ASSUME NEW own \in OwnEvaluations, Evaluate(own)
       PROVE  TypeOK'
    <2>1. PICK r \in IF memory.evaluation = None THEN Request(own)
                     ELSE {<<memory.evaluation, memory.evaluation>>} :
            /\ memory' = [memory EXCEPT !.evaluation = r[2]]
            /\ cycle' = [cycle EXCEPT !.used = r[1],
                                      !.due = own.errors /\ memory.backups]
      BY <1>12 DEF Evaluate
    <2>2. own \in Evaluations /\ own.errors \in BOOLEAN
      BY DEF OwnEvaluations, Evaluations
    <2>3. memory \in Memory /\ memory.backups \in BOOLEAN
      BY DEF TypeOK, Memory
    <2>4. r[1] \in Evaluations /\ r[2] \in Evaluations \cup {None}
      <3>1. CASE memory.evaluation = None
        BY <2>1, <2>2, <3>1, ImprovementLoopAssumption DEF Request, Evaluations
      <3>2. CASE memory.evaluation # None
        BY <2>1, <2>3, <3>2 DEF Memory
      <3> QED
        BY <3>1, <3>2
    <2>5. memory' \in Memory
      BY <2>1, <2>3, <2>4 DEF Memory
    <2>6. cycle' \in [used : Evaluations \cup {None}, batch : BOOLEAN, due : BOOLEAN]
      BY <2>1, <2>2, <2>3, <2>4 DEF TypeOK
    <2> QED
      BY <1>12, <2>5, <2>6 DEF Evaluate, TypeOK, Phases, InStep
  <1>13. ASSUME Decide
       PROVE  TypeOK'
    <2>1. PICK p \in Proposals, valid \in BOOLEAN :
            IF Alarm /\ memory.backups
            THEN /\ memory' = [memory EXCEPT !.changes = p[1], !.backups = FALSE]
                 /\ UNCHANGED cycle
            ELSE /\ memory' = [memory EXCEPT !.changes = p[1]]
                 /\ cycle' = [cycle EXCEPT !.batch = p[2] /\ valid]
      BY <1>13 DEF Decide
    <2>2. p[1] \in {None, "some", "empty"} /\ p[2] \in BOOLEAN
      BY ProposalType DEF TypeOK
    <2>3. memory' \in Memory
      <3>1. CASE Alarm /\ memory.backups
        <4>1. PICK c \in {None, "some", "empty"} :
                memory' = [memory EXCEPT !.changes = c, !.backups = FALSE]
          BY <2>1, <2>2, <3>1
        <4> QED
          BY <4>1 DEF TypeOK, Memory
      <3>2. CASE ~(Alarm /\ memory.backups)
        BY <2>1, <2>2, <3>2 DEF TypeOK, Memory
      <3> QED
        BY <3>1, <3>2
    <2>4. cycle' \in [used : Evaluations \cup {None}, batch : BOOLEAN, due : BOOLEAN]
      BY <2>1, <2>2 DEF TypeOK
    <2> QED
      BY <1>13, <2>3, <2>4 DEF Decide, TypeOK, Phases, InStep
  <1>14. ASSUME Feedback
       PROVE  TypeOK'
    <2>1. memory \in Memory /\ StableRequired \in Nat
      BY ImprovementLoopAssumption DEF TypeOK
    <2>2. \A n \in 0..StableRequired : Capped(n + 1) \in 0..StableRequired
      BY <2>1 DEF Capped
    <2>3. memory' \in Memory
      <3>1. CASE cycle.used.errors
        <4>1. 0 \in 0..StableRequired
          BY <2>1
        <4> QED
          BY <1>14, <2>1, <3>1, <4>1 DEF Feedback, Memory
      <3>2. CASE ~cycle.used.errors
        <4>1. /\ Capped(memory.stable + 1) \in 0..StableRequired
              /\ Capped(memory.calm + 1) \in 0..StableRequired
          BY <2>1, <2>2 DEF Memory
        <4>2. (memory.safe /\ memory.stable + 1 < StableRequired) \in BOOLEAN
          OBVIOUS
        <4> QED
          BY <1>14, <2>1, <3>2, <4>1, <4>2 DEF Feedback, Memory
      <3> QED
        BY <3>1, <3>2
    <2> QED
      BY <1>14, <2>3 DEF Feedback, TypeOK, Phases, InStep
  <1>15. ASSUME StepReturns
       PROVE  TypeOK'
    <2>1. memory' \in Memory
      BY <1>15 DEF StepReturns, Measured, TypeOK, Memory
    <2>2. main.completed + 1 \in Nat /\ main.completed \in Nat /\ main.opt \in Options
      BY DEF TypeOK
    <2>3. /\ main' \in [opt : Options, completed : Nat, consecutive : Nat,
                        restarts : Nat, raised : BOOLEAN]
          /\ main'.opt = main.opt /\ main'.completed = main.completed + 1
          /\ main.completed \in Nat /\ main.opt \in Options
      BY <1>15, <2>2 DEF StepReturns, TypeOK
    <2>4. main.opt.target \in Nat
      BY <2>3, OptionType DEF Option
    <2>5. main'.opt.target # 0 => main'.completed <= main'.opt.target
      BY <1>15, <2>3, <2>4 DEF StepReturns, Going, InStep
    <2> QED
      BY <1>15, <2>1, <2>3, <2>5 DEF StepReturns, TypeOK, NoCycle, Phases
  <1>16. ASSUME StepRaises
       PROVE  TypeOK'
    <2>1. memory' \in Memory
      <3>1. CASE UNCHANGED memory
        BY <3>1 DEF TypeOK
      <3>2. CASE \E p \in Proposals : memory' = [memory EXCEPT !.changes = p[1]]
        BY <3>2, ProposalType DEF TypeOK, Memory
      <3>3. CASE memory' = Measured
        BY <3>3 DEF Measured, TypeOK, Memory
      <3> QED
        BY <1>16, <3>1, <3>2, <3>3 DEF StepRaises
    <2>2. main.consecutive + 1 \in Nat
      BY DEF TypeOK
    <2>3. /\ main' \in [opt : Options, completed : Nat, consecutive : Nat,
                        restarts : Nat, raised : BOOLEAN]
          /\ main'.opt = main.opt /\ main'.completed = main.completed
          /\ phase' \in Phases
      BY <1>16, <2>2 DEF StepRaises, Handled, TypeOK, Phases
    <2> QED
      BY <1>16, <2>1, <2>3 DEF StepRaises, TypeOK, NoCycle
  <1>17. ASSUME SaveCycleRaises
       PROVE  TypeOK'
    <2>1. main.consecutive + 1 \in Nat
      BY DEF TypeOK
    <2>2. /\ main' \in [opt : Options, completed : Nat, consecutive : Nat,
                        restarts : Nat, raised : BOOLEAN]
          /\ main'.opt = main.opt /\ main'.completed = main.completed
          /\ phase' \in Phases
      BY <1>17, <2>1 DEF SaveCycleRaises, Handled, TypeOK, Phases
    <2> QED
      BY <1>17, <2>2 DEF SaveCycleRaises, TypeOK
  <1>18. ASSUME NEW o \in Options, Launch(o)
       PROVE  TypeOK'
    <2>1. main' = Fresh(o) /\ o \in Option
      BY <1>18, OptionType DEF Launch
    <2>2. /\ main' \in [opt : Options, completed : Nat, consecutive : Nat,
                        restarts : Nat, raised : BOOLEAN]
          /\ main'.opt = o /\ main'.completed = 0
      BY <2>1 DEF Fresh
    <2>3. main'.opt.target # 0 => main'.completed <= main'.opt.target
      BY <2>1, <2>2 DEF Option
    <2>4. memory' \in Memory /\ online' \in BOOLEAN
      BY <1>18, ImprovementLoopAssumption DEF Launch, TypeOK, Memory
    <2> QED
      BY <1>18, <2>2, <2>3, <2>4 DEF Launch, TypeOK, Phases
  <1>19. ASSUME Kill
       PROVE  TypeOK'
    <2>1. main' = Fresh(main.opt) /\ main.opt \in Options
      BY <1>19 DEF Kill, TypeOK
    <2>2. main.opt \in Option
      BY <2>1, OptionType
    <2>3. /\ main' \in [opt : Options, completed : Nat, consecutive : Nat,
                        restarts : Nat, raised : BOOLEAN]
          /\ main'.opt = main.opt /\ main'.completed = 0
      BY <2>1 DEF Fresh
    <2>4. main'.opt.target # 0 => main'.completed <= main'.opt.target
      BY <2>2, <2>3 DEF Option
    <2> QED
      BY <1>19, <2>3, <2>4 DEF Kill, TypeOK, NoCycle, Phases, Down
  <1>20. ASSUME SaveError
       PROVE  TypeOK'
    BY <1>20 DEF SaveError, TypeOK, Going, Phases, InStep, Down, Save
  <1>21. ASSUME SaveRestart
       PROVE  TypeOK'
    BY <1>21 DEF SaveRestart, TypeOK, Going, Phases, InStep, Down, Save
  <1>22. ASSUME SessionRaises
       PROVE  TypeOK'
    BY <1>22 DEF SessionRaises, TypeOK, Going, Phases, InStep, Down
  <1>23. ASSUME Restart
       PROVE  TypeOK'
    BY <1>23 DEF Restart, TypeOK, Going, Phases, InStep, Down
  <1>24. ASSUME Finish
       PROVE  TypeOK'
    BY <1>24 DEF Finish, TypeOK, Going, Phases, InStep, Down, Memory
  <1> QED
    BY <1>1, <1>2, <1>3, <1>4, <1>5, <1>6, <1>7, <1>8, <1>9, <1>10, <1>11,
       <1>12, <1>13, <1>14, <1>15, <1>16, <1>17, <1>18, <1>19, <1>20, <1>21,
       <1>22, <1>23, <1>24
    DEF Next, Works, vars

\* A cycle begins when one is left to make.
LEMMA GoingStep ==
  ASSUME TypeOK, Going, [Next]_vars
  PROVE  Going'
  <1>1. ASSUME UNCHANGED <<vars>>
       PROVE  Going'
    BY <1>1 DEF Going, vars
  <1>2. ASSUME StepBegins
       PROVE  Going'
    BY <1>2 DEF StepBegins, Going, InStep, TypeOK, Down
  <1>3. ASSUME NEW own \in OwnEvaluations, Evaluate(own)
       PROVE  Going'
    BY <1>3 DEF Evaluate, Going, InStep, TypeOK, Down
  <1>4. ASSUME Decide
       PROVE  Going'
    BY <1>4 DEF Decide, Going, InStep, TypeOK, Down
  <1>5. ASSUME Evolve
       PROVE  Going'
    BY <1>5 DEF Evolve, Going, InStep, TypeOK, Down
  <1>6. ASSUME Feedback
       PROVE  Going'
    BY <1>6 DEF Feedback, Going, InStep, TypeOK, Down
  <1>7. ASSUME StepReturns
       PROVE  Going'
    BY <1>7 DEF StepReturns, Going, InStep, TypeOK, Down
  <1>8. ASSUME Announce
       PROVE  Going'
    BY <1>8 DEF Announce, Going, InStep, TypeOK, Down
  <1>9. ASSUME Start
       PROVE  Going'
    BY <1>9 DEF Start, Going, InStep, TypeOK, Down
  <1>10. ASSUME SaveCycle
       PROVE  Going'
    BY <1>10 DEF SaveCycle, Going, InStep, TypeOK, Down
  <1>11. ASSUME LoopEnds
       PROVE  Going'
    BY <1>11 DEF LoopEnds, Going, InStep, TypeOK, Down
  <1>12. ASSUME Close
       PROVE  Going'
    BY <1>12 DEF Close, Going, InStep, TypeOK, Down
  <1>13. ASSUME SessionOver
       PROVE  Going'
    BY <1>13 DEF SessionOver, Going, InStep, TypeOK, Down
  <1>14. ASSUME SaveEnd
       PROVE  Going'
    BY <1>14 DEF SaveEnd, Going, InStep, TypeOK, Down
  <1>15. ASSUME SaveBreaks
       PROVE  Going'
    BY <1>15 DEF SaveBreaks, Going, InStep, TypeOK, Down
  <1>16. ASSUME SessionRaises
       PROVE  Going'
    BY <1>16 DEF SessionRaises, Going, InStep, TypeOK, Down
  <1>17. ASSUME Restart
       PROVE  Going'
    BY <1>17 DEF Restart, Going, InStep, TypeOK, Down
  <1>18. ASSUME SaveRestart
       PROVE  Going'
    BY <1>18 DEF SaveRestart, Going, InStep, TypeOK, Down
  <1>19. ASSUME Finish
       PROVE  Going'
    BY <1>19 DEF Finish, Going, InStep, TypeOK, Down
  <1>20. ASSUME NEW o \in Options, Launch(o)
       PROVE  Going'
    BY <1>20 DEF Launch, Going, InStep, TypeOK, Down
  <1>21. ASSUME Kill
       PROVE  Going'
    BY <1>21 DEF Kill, Going, InStep, TypeOK, Down
  <1>22. ASSUME SaveError
       PROVE  Going'
    BY <1>22 DEF SaveError, Going, InStep, TypeOK, Down
  <1>23. ASSUME StepRaises
       PROVE  Going'
    BY <1>23 DEF StepRaises, Going, InStep, TypeOK, Down, Handled
  <1>24. ASSUME SaveCycleRaises
       PROVE  Going'
    BY <1>24 DEF SaveCycleRaises, Going, InStep, TypeOK, Down, Handled
  <1> QED
    BY <1>1, <1>2, <1>3, <1>4, <1>5, <1>6, <1>7, <1>8, <1>9, <1>10, <1>11,
       <1>12, <1>13, <1>14, <1>15, <1>16, <1>17, <1>18, <1>19, <1>20, <1>21,
       <1>22, <1>23, <1>24
    DEF Next, Works, vars

\* What the state file holds when a cycle begins.
LEMMA SavedStep ==
  ASSUME CyclesStartSaved, [Next]_vars
  PROVE  CyclesStartSaved'
  <1>1. ASSUME UNCHANGED <<vars>>
       PROVE  CyclesStartSaved'
    BY <1>1 DEF CyclesStartSaved, vars
  <1>2. ASSUME StepBegins
       PROVE  CyclesStartSaved'
    BY <1>2 DEF StepBegins, CyclesStartSaved
  <1>3. ASSUME NEW own \in OwnEvaluations, Evaluate(own)
       PROVE  CyclesStartSaved'
    BY <1>3 DEF Evaluate, CyclesStartSaved
  <1>4. ASSUME Decide
       PROVE  CyclesStartSaved'
    BY <1>4 DEF Decide, CyclesStartSaved
  <1>5. ASSUME Evolve
       PROVE  CyclesStartSaved'
    BY <1>5 DEF Evolve, CyclesStartSaved
  <1>6. ASSUME Feedback
       PROVE  CyclesStartSaved'
    BY <1>6 DEF Feedback, CyclesStartSaved
  <1>7. ASSUME StepReturns
       PROVE  CyclesStartSaved'
    BY <1>7 DEF StepReturns, CyclesStartSaved
  <1>8. ASSUME LoopEnds
       PROVE  CyclesStartSaved'
    BY <1>8 DEF LoopEnds, CyclesStartSaved
  <1>9. ASSUME Close
       PROVE  CyclesStartSaved'
    BY <1>9 DEF Close, CyclesStartSaved
  <1>10. ASSUME SessionRaises
       PROVE  CyclesStartSaved'
    BY <1>10 DEF SessionRaises, CyclesStartSaved
  <1>11. ASSUME SessionOver
       PROVE  CyclesStartSaved'
    BY <1>11 DEF SessionOver, CyclesStartSaved
  <1>12. ASSUME Restart
       PROVE  CyclesStartSaved'
    BY <1>12 DEF Restart, CyclesStartSaved
  <1>13. ASSUME Finish
       PROVE  CyclesStartSaved'
    BY <1>13 DEF Finish, CyclesStartSaved
  <1>14. ASSUME SaveBreaks
       PROVE  CyclesStartSaved'
    BY <1>14 DEF SaveBreaks, CyclesStartSaved
  <1>15. ASSUME Kill
       PROVE  CyclesStartSaved'
    BY <1>15 DEF Kill, CyclesStartSaved
  <1>16. ASSUME Start
       PROVE  CyclesStartSaved'
    BY <1>16 DEF Start, CyclesStartSaved
  <1>17. ASSUME NEW o \in Options, Launch(o)
       PROVE  CyclesStartSaved'
    BY <1>17 DEF Launch, CyclesStartSaved
  <1>18. ASSUME StepRaises
       PROVE  CyclesStartSaved'
    BY <1>18 DEF StepRaises, CyclesStartSaved, Handled
  <1>19. ASSUME SaveCycleRaises
       PROVE  CyclesStartSaved'
    BY <1>19 DEF SaveCycleRaises, CyclesStartSaved, Handled
  <1>20. ASSUME Announce
       PROVE  CyclesStartSaved'
    BY <1>20 DEF Announce, CyclesStartSaved, Save
  <1>21. ASSUME SaveCycle
       PROVE  CyclesStartSaved'
    BY <1>21 DEF SaveCycle, CyclesStartSaved, Save
  <1>22. ASSUME SaveError
       PROVE  CyclesStartSaved'
    BY <1>22 DEF SaveError, CyclesStartSaved, Save
  <1>23. ASSUME SaveRestart
       PROVE  CyclesStartSaved'
    BY <1>23 DEF SaveRestart, CyclesStartSaved, Save
  <1>24. ASSUME SaveEnd
       PROVE  CyclesStartSaved'
    BY <1>24 DEF SaveEnd, CyclesStartSaved, Save
  <1> QED
    BY <1>1, <1>2, <1>3, <1>4, <1>5, <1>6, <1>7, <1>8, <1>9, <1>10, <1>11,
       <1>12, <1>13, <1>14, <1>15, <1>16, <1>17, <1>18, <1>19, <1>20, <1>21,
       <1>22, <1>23, <1>24
    DEF Next, Works, vars

\* The run ends as its last session did.
LEMMA EndStep ==
  ASSUME TypeOK, Ending, EndIsHonest, [Next]_vars
  PROVE  Ending' /\ EndIsHonest'
  <1>1. ASSUME UNCHANGED <<vars>>
       PROVE  Ending' /\ EndIsHonest'
    BY <1>1 DEF Ending, EndIsHonest, Exhausted, vars
  <1>2. ASSUME StepBegins
       PROVE  Ending' /\ EndIsHonest'
    BY <1>2 DEF StepBegins, Ending, EndIsHonest, InStep
  <1>3. ASSUME NEW own \in OwnEvaluations, Evaluate(own)
       PROVE  Ending' /\ EndIsHonest'
    BY <1>3 DEF Evaluate, Ending, EndIsHonest, InStep
  <1>4. ASSUME Decide
       PROVE  Ending' /\ EndIsHonest'
    BY <1>4 DEF Decide, Ending, EndIsHonest, InStep
  <1>5. ASSUME Evolve
       PROVE  Ending' /\ EndIsHonest'
    BY <1>5 DEF Evolve, Ending, EndIsHonest, InStep
  <1>6. ASSUME Feedback
       PROVE  Ending' /\ EndIsHonest'
    BY <1>6 DEF Feedback, Ending, EndIsHonest, InStep
  <1>7. ASSUME StepReturns
       PROVE  Ending' /\ EndIsHonest'
    BY <1>7 DEF StepReturns, Ending, EndIsHonest, InStep
  <1>8. ASSUME Start
       PROVE  Ending' /\ EndIsHonest'
    BY <1>8 DEF Start, Ending, EndIsHonest, InStep
  <1>9. ASSUME Kill
       PROVE  Ending' /\ EndIsHonest'
    BY <1>9 DEF Kill, Ending, EndIsHonest, InStep
  <1>10. ASSUME NEW o \in Options, Launch(o)
       PROVE  Ending' /\ EndIsHonest'
    BY <1>10 DEF Launch, Ending, EndIsHonest, InStep
  <1>11. ASSUME LoopEnds
       PROVE  Ending' /\ EndIsHonest'
    BY <1>11, ImprovementLoopAssumption DEF LoopEnds, Ending, EndIsHonest,
       TypeOK, Option
  <1>12. ASSUME Close
       PROVE  Ending' /\ EndIsHonest'
    BY <1>12 DEF Close, Ending, EndIsHonest, Exhausted
  <1>13. ASSUME SessionOver
       PROVE  Ending' /\ EndIsHonest'
    BY <1>13 DEF SessionOver, Ending, EndIsHonest, Exhausted
  <1>14. ASSUME SaveBreaks
       PROVE  Ending' /\ EndIsHonest'
    BY <1>14 DEF SaveBreaks, Ending, EndIsHonest, Exhausted
  <1>15. ASSUME Restart
       PROVE  Ending' /\ EndIsHonest'
    BY <1>15 DEF Restart, Ending, EndIsHonest, TypeOK
  <1>16. ASSUME SessionRaises
       PROVE  Ending' /\ EndIsHonest'
    BY <1>16 DEF SessionRaises, Ending, EndIsHonest, TypeOK
  <1>17. ASSUME Finish
       PROVE  Ending' /\ EndIsHonest'
    BY <1>17 DEF Finish, Ending, EndIsHonest, Exhausted, TypeOK, Memory
  <1>18. ASSUME StepRaises
       PROVE  Ending' /\ EndIsHonest'
    BY <1>18 DEF StepRaises, Ending, EndIsHonest, Handled, TypeOK
  <1>19. ASSUME SaveCycleRaises
       PROVE  Ending' /\ EndIsHonest'
    BY <1>19 DEF SaveCycleRaises, Ending, EndIsHonest, Handled, TypeOK
  <1>20. ASSUME Announce
       PROVE  Ending' /\ EndIsHonest'
    BY <1>20 DEF Announce, Ending, EndIsHonest, Save
  <1>21. ASSUME SaveCycle
       PROVE  Ending' /\ EndIsHonest'
    BY <1>21 DEF SaveCycle, Ending, EndIsHonest, Save
  <1>22. ASSUME SaveRestart
       PROVE  Ending' /\ EndIsHonest'
    BY <1>22 DEF SaveRestart, Ending, EndIsHonest, Save
  <1>23. ASSUME SaveError
       PROVE  Ending' /\ EndIsHonest'
    BY <1>23 DEF SaveError, Ending, EndIsHonest, Save, TypeOK
  <1>24. ASSUME SaveEnd
       PROVE  Ending' /\ EndIsHonest'
    BY <1>24 DEF SaveEnd, Ending, EndIsHonest, Save, Exhausted
  <1> QED
    BY <1>1, <1>2, <1>3, <1>4, <1>5, <1>6, <1>7, <1>8, <1>9, <1>10, <1>11,
       <1>12, <1>13, <1>14, <1>15, <1>16, <1>17, <1>18, <1>19, <1>20, <1>21,
       <1>22, <1>23, <1>24
    DEF Next, Works, vars

\* The sessions that are over granted so many attempts.
LEMMA SpentType ==
  ASSUME TypeOK
  PROVE  Spent(main) \in Nat /\ AttemptsPerSession(main.opt) \in Nat \ {0}
  <1>1. main.opt \in Options /\ main.restarts \in Nat
    BY DEF TypeOK
  <1>2. AttemptsPerSession(main.opt) \in Nat \ {0}
    BY <1>1, OptionType
  <1> QED
    BY <1>1, <1>2, Grants DEF Spent

\* Failures in a row are paid for by sessions and by consecutive.
LEMMA CountStep ==
  ASSUME TypeOK, Counted, [Next]_vars
  PROVE  Counted'
  <1>1. ASSUME UNCHANGED <<vars>>
       PROVE  Counted'
    BY <1>1 DEF Counted, Spent, vars
  <1>2. ASSUME StepBegins
       PROVE  Counted'
    <2>1. main' = main /\ streak' = streak
      BY <1>2 DEF StepBegins, Save
    <2>2. Spent(main') = Spent(main)
      BY <2>1
    <2> QED
      BY <1>2, <2>1, <2>2 DEF StepBegins, Counted, InStep, Down
  <1>3. ASSUME NEW own \in OwnEvaluations, Evaluate(own)
       PROVE  Counted'
    <2>1. main' = main /\ streak' = streak
      BY <1>3 DEF Evaluate, Save
    <2>2. Spent(main') = Spent(main)
      BY <2>1
    <2> QED
      BY <1>3, <2>1, <2>2 DEF Evaluate, Counted, InStep, Down
  <1>4. ASSUME Decide
       PROVE  Counted'
    <2>1. main' = main /\ streak' = streak
      BY <1>4 DEF Decide, Save
    <2>2. Spent(main') = Spent(main)
      BY <2>1
    <2> QED
      BY <1>4, <2>1, <2>2 DEF Decide, Counted, InStep, Down
  <1>5. ASSUME Evolve
       PROVE  Counted'
    <2>1. main' = main /\ streak' = streak
      BY <1>5 DEF Evolve, Save
    <2>2. Spent(main') = Spent(main)
      BY <2>1
    <2> QED
      BY <1>5, <2>1, <2>2 DEF Evolve, Counted, InStep, Down
  <1>6. ASSUME Feedback
       PROVE  Counted'
    <2>1. main' = main /\ streak' = streak
      BY <1>6 DEF Feedback, Save
    <2>2. Spent(main') = Spent(main)
      BY <2>1
    <2> QED
      BY <1>6, <2>1, <2>2 DEF Feedback, Counted, InStep, Down
  <1>7. ASSUME Announce
       PROVE  Counted'
    <2>1. main' = main /\ streak' = streak
      BY <1>7 DEF Announce, Save
    <2>2. Spent(main') = Spent(main)
      BY <2>1
    <2> QED
      BY <1>7, <2>1, <2>2 DEF Announce, Counted, InStep, Down
  <1>8. ASSUME Start
       PROVE  Counted'
    <2>1. main' = main /\ streak' = streak
      BY <1>8 DEF Start, Save
    <2>2. Spent(main') = Spent(main)
      BY <2>1
    <2> QED
      BY <1>8, <2>1, <2>2 DEF Start, Counted, InStep, Down
  <1>9. ASSUME SaveCycle
       PROVE  Counted'
    <2>1. main' = main /\ streak' = streak
      BY <1>9 DEF SaveCycle, Save
    <2>2. Spent(main') = Spent(main)
      BY <2>1
    <2> QED
      BY <1>9, <2>1, <2>2 DEF SaveCycle, Counted, InStep, Down
  <1>10. ASSUME LoopEnds
       PROVE  Counted'
    <2>1. main' = main /\ streak' = streak
      BY <1>10 DEF LoopEnds, Save
    <2>2. Spent(main') = Spent(main)
      BY <2>1
    <2> QED
      BY <1>10, <2>1, <2>2 DEF LoopEnds, Counted, InStep, Down
  <1>11. ASSUME Close
       PROVE  Counted'
    <2>1. main' = main /\ streak' = streak
      BY <1>11 DEF Close, Save
    <2>2. Spent(main') = Spent(main)
      BY <2>1
    <2> QED
      BY <1>11, <2>1, <2>2 DEF Close, Counted, InStep, Down
  <1>12. ASSUME SessionOver
       PROVE  Counted'
    <2>1. main' = main /\ streak' = streak
      BY <1>12 DEF SessionOver, Save
    <2>2. Spent(main') = Spent(main)
      BY <2>1
    <2> QED
      BY <1>12, <2>1, <2>2 DEF SessionOver, Counted, InStep, Down
  <1>13. ASSUME Finish
       PROVE  Counted'
    <2>1. main' = main /\ streak' = streak
      BY <1>13 DEF Finish, Save
    <2>2. Spent(main') = Spent(main)
      BY <2>1
    <2> QED
      BY <1>13, <2>1, <2>2 DEF Finish, Counted, InStep, Down
  <1>14. ASSUME SaveEnd
       PROVE  Counted'
    <2>1. main' = main /\ streak' = streak
      BY <1>14 DEF SaveEnd, Save
    <2>2. Spent(main') = Spent(main)
      BY <2>1
    <2> QED
      BY <1>14, <2>1, <2>2 DEF SaveEnd, Counted, InStep, Down
  <1>15. ASSUME SaveBreaks
       PROVE  Counted'
    <2>1. main' = main /\ streak' = streak
      BY <1>15 DEF SaveBreaks, Save
    <2>2. Spent(main') = Spent(main)
      BY <2>1
    <2> QED
      BY <1>15, <2>1, <2>2 DEF SaveBreaks, Counted, InStep, Down
  <1>16. ASSUME StepReturns
       PROVE  Counted'
    <2>1. main'.opt = main.opt /\ main'.restarts = main.restarts
      BY <1>16 DEF StepReturns, TypeOK
    <2>2. Spent(main') = Spent(main)
      BY <2>1 DEF Spent
    <2>3. Spent(main) \in Nat /\ AttemptsPerSession(main.opt) \in Nat \ {0}
      BY SpentType
    <2>4. main \in [opt : Options, completed : Nat, consecutive : Nat,
                    restarts : Nat, raised : BOOLEAN] /\ streak \in Nat
      BY DEF TypeOK
    <2> QED
      BY <1>16, <2>1, <2>2, <2>3, <2>4 DEF StepReturns, Counted, InStep
  <1>17. ASSUME StepRaises
       PROVE  Counted'
    <2>1. main'.opt = main.opt /\ main'.restarts = main.restarts
      BY <1>17 DEF StepRaises, TypeOK, Handled
    <2>2. Spent(main') = Spent(main)
      BY <2>1 DEF Spent
    <2>3. Spent(main) \in Nat /\ AttemptsPerSession(main.opt) \in Nat \ {0}
      BY SpentType
    <2>4. main \in [opt : Options, completed : Nat, consecutive : Nat,
                    restarts : Nat, raised : BOOLEAN] /\ streak \in Nat
      BY DEF TypeOK
    <2>5. CASE main.opt.continuous /\ main.opt.continueOnError
      BY <1>17, <2>1, <2>2, <2>3, <2>4, <2>5 DEF StepRaises, Handled, Counted, InStep
    <2>6. CASE ~(main.opt.continuous /\ main.opt.continueOnError)
      <3>1. AttemptsPerSession(main.opt) = 1
        BY <2>4, <2>6, OptionType
      <3> QED
        BY <1>17, <2>1, <2>2, <2>3, <2>4, <2>6, <3>1
        DEF StepRaises, Handled, Counted, InStep
    <2> QED
      BY <2>5, <2>6
  <1>18. ASSUME SaveCycleRaises
       PROVE  Counted'
    <2>1. main'.opt = main.opt /\ main'.restarts = main.restarts
      BY <1>18 DEF SaveCycleRaises, TypeOK, Handled
    <2>2. Spent(main') = Spent(main)
      BY <2>1 DEF Spent
    <2>3. Spent(main) \in Nat /\ AttemptsPerSession(main.opt) \in Nat \ {0}
      BY SpentType
    <2>4. main \in [opt : Options, completed : Nat, consecutive : Nat,
                    restarts : Nat, raised : BOOLEAN] /\ streak \in Nat
      BY DEF TypeOK
    <2>5. CASE main.opt.continuous /\ main.opt.continueOnError
      BY <1>18, <2>1, <2>2, <2>3, <2>4, <2>5 DEF SaveCycleRaises, Handled, Counted, InStep
    <2>6. CASE ~(main.opt.continuous /\ main.opt.continueOnError)
      <3>1. AttemptsPerSession(main.opt) = 1
        BY <2>4, <2>6, OptionType
      <3> QED
        BY <1>18, <2>1, <2>2, <2>3, <2>4, <2>6, <3>1
        DEF SaveCycleRaises, Handled, Counted, InStep
    <2> QED
      BY <2>5, <2>6
  <1>19. ASSUME SaveError
       PROVE  Counted'
    <2>1. main'.opt = main.opt /\ main'.restarts = main.restarts
      BY <1>19 DEF SaveError, TypeOK
    <2>2. Spent(main') = Spent(main)
      BY <2>1 DEF Spent
    <2>3. Spent(main) \in Nat /\ AttemptsPerSession(main.opt) \in Nat \ {0}
      BY SpentType
    <2>4. main \in [opt : Options, completed : Nat, consecutive : Nat,
                    restarts : Nat, raised : BOOLEAN] /\ streak \in Nat
      BY DEF TypeOK
    <2>5. AttemptsPerSession(main.opt) = main.opt.maxConsecutive
      BY <1>19, <2>4, OptionType DEF SaveError, Counted
    <2>6. main.opt.maxConsecutive \in Nat
      BY <2>4, OptionType DEF Option
    <2> QED
      BY <1>19, <2>1, <2>2, <2>3, <2>4, <2>5, <2>6 DEF SaveError, Save, Counted, InStep
  <1>20. ASSUME SessionRaises
       PROVE  Counted'
    <2>1. main'.opt = main.opt /\ main'.restarts = main.restarts
      BY <1>20 DEF SessionRaises, TypeOK
    <2>2. Spent(main') = Spent(main)
      BY <2>1 DEF Spent
    <2>3. Spent(main) \in Nat /\ AttemptsPerSession(main.opt) \in Nat \ {0}
      BY SpentType
    <2>4. main \in [opt : Options, completed : Nat, consecutive : Nat,
                    restarts : Nat, raised : BOOLEAN] /\ streak \in Nat
      BY DEF TypeOK
    <2> QED
      BY <1>20, <2>1, <2>2, <2>3, <2>4 DEF SessionRaises, Save, Counted, InStep
  <1>21. ASSUME SaveRestart
       PROVE  Counted'
    <2>1. main'.opt = main.opt /\ main'.restarts = main.restarts
      BY <1>21 DEF SaveRestart, TypeOK
    <2>2. Spent(main') = Spent(main)
      BY <2>1 DEF Spent
    <2>3. Spent(main) \in Nat /\ AttemptsPerSession(main.opt) \in Nat \ {0}
      BY SpentType
    <2>4. main \in [opt : Options, completed : Nat, consecutive : Nat,
                    restarts : Nat, raised : BOOLEAN] /\ streak \in Nat
      BY DEF TypeOK
    <2> QED
      BY <1>21, <2>1, <2>2, <2>3, <2>4 DEF SaveRestart, Save, Counted, InStep
  <1>22. ASSUME Restart
       PROVE  Counted'
    <2>1. main'.opt = main.opt /\ main'.restarts = main.restarts + 1
      BY <1>22 DEF Restart, TypeOK
    <2>2. main.restarts \in Nat /\ AttemptsPerSession(main.opt) \in Nat
      BY SpentType DEF TypeOK
    <2>3. Spent(main') = Spent(main) + AttemptsPerSession(main.opt)
      BY <2>1, <2>2, Grants DEF Spent
    <2>4. Spent(main) \in Nat /\ streak \in Nat /\ streak' = streak
      BY <1>22, SpentType DEF Restart, TypeOK
    <2> QED
      BY <1>22, <2>1, <2>2, <2>3, <2>4 DEF Restart, Counted, InStep
  <1>23. ASSUME NEW o \in Options, Launch(o)
       PROVE  Counted'
    <2>1. PICK c \in Options : main' = Fresh(c)
      BY <1>23 DEF Launch, TypeOK
    <2>2. main'.opt = c /\ main'.restarts = 0 /\ main'.consecutive = 0
      BY <2>1 DEF Fresh
    <2>3. AttemptsPerSession(c) \in Nat \ {0}
      BY OptionType
    <2>4. Spent(main') = 0
      BY <2>2, <2>3, Grants DEF Spent
    <2>5. streak' = 0 /\ phase' \in {"announce", "start", "killed"}
      BY <1>23 DEF Launch
    <2> QED
      BY <2>2, <2>3, <2>4, <2>5 DEF Counted
  <1>24. ASSUME Kill
       PROVE  Counted'
    <2>1. PICK c \in Options : main' = Fresh(c)
      BY <1>24 DEF Kill, TypeOK
    <2>2. main'.opt = c /\ main'.restarts = 0 /\ main'.consecutive = 0
      BY <2>1 DEF Fresh
    <2>3. AttemptsPerSession(c) \in Nat \ {0}
      BY OptionType
    <2>4. Spent(main') = 0
      BY <2>2, <2>3, Grants DEF Spent
    <2>5. streak' = 0 /\ phase' \in {"announce", "start", "killed"}
      BY <1>24 DEF Kill
    <2> QED
      BY <2>2, <2>3, <2>4, <2>5 DEF Counted
  <1> QED
    BY <1>1, <1>2, <1>3, <1>4, <1>5, <1>6, <1>7, <1>8, <1>9, <1>10, <1>11,
       <1>12, <1>13, <1>14, <1>15, <1>16, <1>17, <1>18, <1>19, <1>20, <1>21,
       <1>22, <1>23, <1>24
    DEF Next, Works, vars

\* Only a calm enough memory leaves safe mode.
LEMMA CalmStep ==
  ASSUME TypeOK, Calm, [Next]_vars
  PROVE  Calm'
  <1>1. ASSUME UNCHANGED <<vars>>
       PROVE  Calm'
    BY <1>1 DEF Calm, SafeModeCounts, vars
  <1>2. ASSUME StepBegins
       PROVE  Calm'
    BY <1>2 DEF StepBegins, Calm, SafeModeCounts, NoCycle
  <1>3. ASSUME LoopEnds
       PROVE  Calm'
    BY <1>3 DEF LoopEnds, Calm, SafeModeCounts, NoCycle
  <1>4. ASSUME Close
       PROVE  Calm'
    BY <1>4 DEF Close, Calm, SafeModeCounts, NoCycle
  <1>5. ASSUME SessionRaises
       PROVE  Calm'
    BY <1>5 DEF SessionRaises, Calm, SafeModeCounts, NoCycle
  <1>6. ASSUME SessionOver
       PROVE  Calm'
    BY <1>6 DEF SessionOver, Calm, SafeModeCounts, NoCycle
  <1>7. ASSUME Restart
       PROVE  Calm'
    BY <1>7 DEF Restart, Calm, SafeModeCounts, NoCycle
  <1>8. ASSUME SaveBreaks
       PROVE  Calm'
    BY <1>8 DEF SaveBreaks, Calm, SafeModeCounts, NoCycle
  <1>9. ASSUME Start
       PROVE  Calm'
    BY <1>9 DEF Start, Calm, SafeModeCounts, NoCycle
  <1>10. ASSUME Kill
       PROVE  Calm'
    BY <1>10 DEF Kill, Calm, SafeModeCounts, NoCycle
  <1>11. ASSUME Announce
       PROVE  Calm'
    BY <1>11 DEF Announce, Calm, Save, SafeModeCounts
  <1>12. ASSUME SaveCycle
       PROVE  Calm'
    BY <1>12 DEF SaveCycle, Calm, Save, SafeModeCounts
  <1>13. ASSUME SaveError
       PROVE  Calm'
    BY <1>13 DEF SaveError, Calm, Save, SafeModeCounts
  <1>14. ASSUME SaveRestart
       PROVE  Calm'
    BY <1>14 DEF SaveRestart, Calm, Save, SafeModeCounts
  <1>15. ASSUME SaveEnd
       PROVE  Calm'
    BY <1>15 DEF SaveEnd, Calm, Save, SafeModeCounts
  <1>16. ASSUME NEW o \in Options, Launch(o)
       PROVE  Calm'
    BY <1>16 DEF Launch, Calm, SafeModeCounts, TypeOK, Memory, Down
  <1>17. ASSUME Finish
       PROVE  Calm'
    BY <1>17 DEF Finish, Calm, SafeModeCounts, TypeOK, Memory, Down
  <1>18. ASSUME NEW own \in OwnEvaluations, Evaluate(own)
       PROVE  Calm'
    BY <1>18 DEF Evaluate, Calm, SafeModeCounts, TypeOK, Memory, Down
  <1>19. ASSUME Evolve
       PROVE  Calm'
    BY <1>19 DEF Evolve, Calm, SafeModeCounts, TypeOK, Memory, Down
  <1>20. ASSUME Decide
       PROVE  Calm'
    <2>1. PICK p \in Proposals, valid \in BOOLEAN :
            IF Alarm /\ memory.backups
            THEN /\ memory' = [memory EXCEPT !.changes = p[1], !.backups = FALSE]
                 /\ UNCHANGED cycle
            ELSE /\ memory' = [memory EXCEPT !.changes = p[1]]
                 /\ cycle' = [cycle EXCEPT !.batch = p[2] /\ valid]
      BY <1>20 DEF Decide
    <2>2. /\ memory'.safe = memory.safe /\ memory'.stable = memory.stable
          /\ memory'.calm = memory.calm
      BY <2>1 DEF TypeOK, Memory
    <2>3. memory.safe => p[2] = FALSE
      BY ProposalType DEF TypeOK
    <2>4. memory.safe => ~cycle'.batch
      BY <1>20, <2>1, <2>3 DEF Decide, TypeOK, Calm
    <2> QED
      BY <1>20, <2>2, <2>4 DEF Decide, Calm, SafeModeCounts
  <1>21. ASSUME StepRaises
       PROVE  Calm'
    BY <1>21 DEF StepRaises, Calm, SafeModeCounts, TypeOK, Memory, Handled,
       Measured, NoCycle
  <1>22. ASSUME SaveCycleRaises
       PROVE  Calm'
    BY <1>22 DEF SaveCycleRaises, Calm, SafeModeCounts, Handled
  <1>23. ASSUME StepReturns
       PROVE  Calm'
    BY <1>23 DEF StepReturns, Calm, SafeModeCounts, TypeOK, Memory,
       Measured, NoCycle
  <1>24. ASSUME Feedback
       PROVE  Calm'
    BY <1>24, ImprovementLoopAssumption DEF Feedback, Calm, SafeModeCounts,
       TypeOK, Memory, Capped
  <1> QED
    BY <1>1, <1>2, <1>3, <1>4, <1>5, <1>6, <1>7, <1>8, <1>9, <1>10, <1>11,
       <1>12, <1>13, <1>14, <1>15, <1>16, <1>17, <1>18, <1>19, <1>20, <1>21,
       <1>22, <1>23, <1>24
    DEF Next, Works, vars

-----------------------------------------------------------------------------
\* Every variable keeps to its type, and no run makes more cycles than asked.
THEOREM TypeCorrect == Spec => []TypeOK
  <1>1. Init => TypeOK /\ Going
    BY InitInv
  <1>2. TypeOK /\ Going /\ [Next]_vars => (TypeOK /\ Going)'
    BY TypeStep, GoingStep
  <1> QED
    BY <1>1, <1>2, PTL DEF Spec

\* A cycle of a running process, of every run and after every failure, begins
\* with all that came before it in the state file.
THEOREM NothingUnsavedBehind == Spec => []CyclesStartSaved
  <1>1. Init => CyclesStartSaved
    BY DEF Init, CyclesStartSaved
  <1>2. CyclesStartSaved /\ [Next]_vars => CyclesStartSaved'
    BY SavedStep
  <1> QED
    BY <1>1, <1>2, PTL DEF Spec

\* A continuous run that ends by itself leaves the truth in the state file.
THEOREM HonestEnd == Spec => []EndIsHonest
  <1>1. Init => Ending /\ EndIsHonest
    BY InitInv DEF Init, EndIsHonest
  <1>2. TypeOK /\ Ending /\ EndIsHonest /\ [Next]_vars => (Ending /\ EndIsHonest)'
    BY EndStep
  <1> QED
    BY <1>1, <1>2, TypeCorrect, PTL DEF Spec

\* No more cycles fail in a row than the limits allow together.
THEOREM FailuresBounded == Spec => []StreakBounded
  <1>1. Init => Counted
    BY InitInv
  <1>2. TypeOK /\ Counted /\ [Next]_vars => Counted'
    BY CountStep
  <1>3. TypeOK /\ Counted => StreakBounded
    <2> SUFFICES ASSUME TypeOK, Counted PROVE StreakBounded
      OBVIOUS
    <2>1. main.restarts \in Nat /\ AttemptsPerSession(main.opt) \in Nat
      BY SpentType DEF TypeOK
    <2> QED
      BY <2>1, Grants DEF Counted, Spent, StreakBounded
  <1> QED
    BY <1>1, <1>2, <1>3, TypeCorrect, PTL DEF Spec

\* No batch of code is tried too soon after a cycle with errors.
THEOREM ChangesWhenCalm == Spec => []CalmBeforeChange
  <1>1. Init => Calm
    BY InitInv
  <1>2. TypeOK /\ Calm /\ [Next]_vars => Calm'
    BY CalmStep
  <1>3. TypeOK /\ Calm => CalmBeforeChange
    BY ImprovementLoopAssumption DEF Calm, SafeModeCounts, CalmBeforeChange
  <1> QED
    BY <1>1, <1>2, <1>3, TypeCorrect, PTL DEF Spec

-----------------------------------------------------------------------------
(* The event writer: EventWriter.                                          *)
(*                                                                         *)
(* Sorted (types and unmarked items) is inductive and gives WriterTypeOK.  *)
(* With it, Single (no event is twice in the log, a main batch, the main   *)
(* queue or a waiting call) is inductive, and so is Healthy (one pair of   *)
(* loops, the stages of stop, the order and the place of every event, as   *)
(* long as no loop was ended by an error).                                 *)

LEMMA ItemsAppended ==
  ASSUME NEW S, NEW s \in Seq(S), NEW x \in S
  PROVE  ToSet(Append(s, x)) = ToSet(s) \cup {x}
  <1>1. /\ Append(s, x) \in Seq(S) /\ Len(Append(s, x)) = Len(s) + 1
        /\ \A i \in 1..Len(s) : Append(s, x)[i] = s[i]
        /\ Append(s, x)[Len(s) + 1] = x
    BY AppendProperties
  <1>2. DOMAIN Append(s, x) = 1..(Len(s) + 1) /\ DOMAIN s = 1..Len(s) /\ Len(s) \in Nat
    BY <1>1, LenProperties
  <1>3. ASSUME NEW y \in ToSet(Append(s, x)) PROVE y \in ToSet(s) \cup {x}
    <2>1. PICK i \in 1..(Len(s) + 1) : y = Append(s, x)[i]
      BY <1>2, <1>3 DEF ToSet
    <2>2. i \in 1..Len(s) \/ i = Len(s) + 1
      BY <1>2
    <2> QED
      BY <2>1, <2>2, <1>1, <1>2 DEF ToSet
  <1>4. ASSUME NEW y \in ToSet(s) PROVE y \in ToSet(Append(s, x))
    <2>1. PICK i \in 1..Len(s) : y = s[i]
      BY <1>2, <1>4 DEF ToSet
    <2>2. i \in 1..(Len(s) + 1) /\ Append(s, x)[i] = y
      BY <2>1, <1>1, <1>2
    <2> QED
      BY <2>2, <1>2 DEF ToSet
  <1>5. x \in ToSet(Append(s, x))
    <2>1. Len(s) + 1 \in 1..(Len(s) + 1)
      BY <1>2
    <2> QED
      BY <2>1, <1>1, <1>2 DEF ToSet
  <1> QED
    BY <1>3, <1>4, <1>5

LEMMA ItemsOfTail ==
  ASSUME NEW S, NEW s \in Seq(S), s # <<>>
  PROVE  /\ Head(s) = s[1] /\ Head(s) \in S /\ Len(s) \in Nat \ {0}
         /\ ToSet(s) = {Head(s)} \cup ToSet(Tail(s))
  <1>1. /\ Head(s) = s[1] /\ Tail(s) \in Seq(S) /\ Len(Tail(s)) = Len(s) - 1
        /\ \A i \in 1..(Len(s) - 1) : Tail(s)[i] = s[i + 1]
        /\ Head(s) \in S
    BY HeadTailProperties
  <1>2. /\ DOMAIN Tail(s) = 1..(Len(s) - 1) /\ DOMAIN s = 1..Len(s)
        /\ Len(s) \in Nat \ {0}
    BY <1>1, LenProperties, EmptySeq
  <1>3. ASSUME NEW y \in ToSet(s) PROVE y = Head(s) \/ y \in ToSet(Tail(s))
    <2>1. PICK i \in 1..Len(s) : y = s[i]
      BY <1>2, <1>3 DEF ToSet
    <2>2. CASE i = 1
      BY <2>1, <2>2, <1>1
    <2>3. CASE i # 1
      <3>1. i - 1 \in 1..(Len(s) - 1) /\ (i - 1) + 1 = i
        BY <2>3, <1>2
      <3>2. Tail(s)[i - 1] = y
        BY <3>1, <2>1, <1>1
      <3> QED
        BY <3>1, <3>2, <1>2 DEF ToSet
    <2> QED
      BY <2>2, <2>3
  <1>4. ASSUME NEW y \in ToSet(Tail(s)) PROVE y \in ToSet(s)
    <2>1. PICK i \in 1..(Len(s) - 1) : y = Tail(s)[i]
      BY <1>2, <1>4 DEF ToSet
    <2>2. i + 1 \in 1..Len(s) /\ y = s[i + 1]
      BY <2>1, <1>1, <1>2
    <2> QED
      BY <2>2, <1>2 DEF ToSet
  <1>5. Head(s) \in ToSet(s)
    BY <1>1, <1>2 DEF ToSet
  <1> QED
    BY <1>1, <1>2, <1>3, <1>4, <1>5

LEMMA ItemsJoined ==
  ASSUME NEW S, NEW s \in Seq(S), NEW u \in Seq(S)
  PROVE  ToSet(s \o u) = ToSet(s) \cup ToSet(u)
  <1>1. /\ s \o u \in Seq(S) /\ Len(s \o u) = Len(s) + Len(u)
        /\ \A i \in 1..(Len(s) + Len(u)) :
             (s \o u)[i] = IF i <= Len(s) THEN s[i] ELSE u[i - Len(s)]
    BY ConcatProperties
  <1>2. /\ DOMAIN (s \o u) = 1..(Len(s) + Len(u)) /\ DOMAIN s = 1..Len(s)
        /\ DOMAIN u = 1..Len(u) /\ Len(s) \in Nat /\ Len(u) \in Nat
    BY <1>1, LenProperties
  <1>3. ASSUME NEW y \in ToSet(s \o u) PROVE y \in ToSet(s) \cup ToSet(u)
    <2>1. PICK i \in 1..(Len(s) + Len(u)) : y = (s \o u)[i]
      BY <1>2, <1>3 DEF ToSet
    <2>2. i <= Len(s) => i \in 1..Len(s)
      BY <1>2
    <2>3. ~(i <= Len(s)) => i - Len(s) \in 1..Len(u)
      BY <1>2
    <2> QED
      BY <2>1, <2>2, <2>3, <1>1, <1>2 DEF ToSet
  <1>4. ASSUME NEW y \in ToSet(s) PROVE y \in ToSet(s \o u)
    <2>1. PICK i \in 1..Len(s) : y = s[i]
      BY <1>2, <1>4 DEF ToSet
    <2>2. i \in 1..(Len(s) + Len(u)) /\ i <= Len(s)
      BY <1>2
    <2> QED
      BY <2>1, <2>2, <1>1, <1>2 DEF ToSet
  <1>5. ASSUME NEW y \in ToSet(u) PROVE y \in ToSet(s \o u)
    <2>1. PICK i \in 1..Len(u) : y = u[i]
      BY <1>2, <1>5 DEF ToSet
    <2>2. i + Len(s) \in 1..(Len(s) + Len(u)) /\ ~(i + Len(s) <= Len(s))
          /\ (i + Len(s)) - Len(s) = i
      BY <1>2
    <2> QED
      BY <2>1, <2>2, <1>1, <1>2 DEF ToSet
  <1> QED
    BY <1>3, <1>4, <1>5

LEMMA ItemsType ==
  ASSUME NEW S, NEW s \in Seq(S)
  PROVE  /\ ToSet(s) \subseteq S /\ DOMAIN s = 1..Len(s) /\ Len(s) \in Nat
         /\ \A i \in 1..Len(s) : s[i] \in S /\ s[i] \in ToSet(s)
         /\ \A x \in ToSet(s) : \E i \in 1..Len(s) : s[i] = x
         /\ Len(s) = 0 <=> s = <<>>
         /\ ToSet(s) = {} <=> s = <<>>
  <1>1. DOMAIN s = 1..Len(s) /\ Len(s) \in Nat /\ \A i \in 1..Len(s) : s[i] \in S
    BY LenProperties
  <1>2. Len(s) = 0 <=> s = <<>>
    BY EmptySeq
  <1>3. ToSet(s) = {} => s = <<>>
    <2>1. s # <<>> => 1 \in 1..Len(s)
      BY <1>1, <1>2
    <2> QED
      BY <2>1, <1>1 DEF ToSet
  <1>4. s = <<>> => ToSet(s) = {}
    BY <1>1, <1>2 DEF ToSet
  <1> QED
    BY <1>1, <1>2, <1>3, <1>4 DEF ToSet

\* What [queue, open, dropped] can be when a events were accepted.
StoreOf(a) == [queue : [Kinds -> Seq(0..a)], open : [Kinds -> Int],
               dropped : SUBSET (1..a)]
Slack(s, k) == s.open[k] - Len(s.queue[k])
Carried(s) == ToSet(s.queue["main"]) \cup ToSet(s.queue["safe"]) \cup s.dropped

\* r is s after the lines of the set es were spilled: they and all that was
\* there are in the safe queue or counted, and every item has its task.
Spilled(a, s, r, es) ==
  /\ r \in StoreOf(a) /\ Len(r.queue["safe"]) <= SafeSize
  /\ r.queue["main"] = s.queue["main"] /\ r.open["main"] = s.open["main"]
  /\ Slack(r, "safe") = Slack(s, "safe")
  /\ Carried(r) = Carried(s) \cup es

\* r is s with x at the end of queue k.
IsPut(a, s, k, x, r) ==
  /\ r \in StoreOf(a)
  /\ r.queue = [s.queue EXCEPT ![k] = Append(s.queue[k], x)]
  /\ r.open = [s.open EXCEPT ![k] = s.open[k] + 1]
  /\ r.dropped = s.dropped
  /\ \A j \in Kinds : Slack(r, j) = Slack(s, j)
  /\ Len(r.queue[k]) = Len(s.queue[k]) + 1
  /\ Carried(r) = Carried(s) \cup {x}

LEMMA PutEffect ==
  ASSUME NEW a \in Nat, NEW s \in StoreOf(a), NEW k \in Kinds, NEW x \in 0..a
  PROVE  IsPut(a, s, k, x, Put(s, k, x))
  <1> DEFINE r == Put(s, k, x)
             q == s.queue[k]
  <1>1. /\ r.queue = [s.queue EXCEPT ![k] = Append(q, x)]
        /\ r.open = [s.open EXCEPT ![k] = s.open[k] + 1]
        /\ r.dropped = s.dropped
        /\ r = [queue |-> r.queue, open |-> r.open, dropped |-> r.dropped]
    <2>1. /\ DOMAIN s = {"queue", "open", "dropped"}
          /\ s.queue \in [Kinds -> Seq(0..a)] /\ s.open \in [Kinds -> Int]
      BY DEF StoreOf
    <2>2. r = [s EXCEPT !.queue = [s.queue EXCEPT ![k] = Append(q, x)],
                        !.open = [s.open EXCEPT ![k] = s.open[k] + 1]]
      BY <2>1, Zenon DEF Put
    <2> QED
      BY Zenon, <2>1, <2>2
  <1>2. /\ q \in Seq(0..a) /\ s.queue \in [Kinds -> Seq(0..a)]
        /\ s.open \in [Kinds -> Int] /\ s.dropped \in SUBSET (1..a)
    BY DEF StoreOf
  <1>3. /\ Append(q, x) \in Seq(0..a) /\ Len(Append(q, x)) = Len(q) + 1
        /\ ToSet(Append(q, x)) = ToSet(q) \cup {x}
    BY <1>2, AppendProperties, ItemsAppended
  <1> HIDE DEF r, q
  <1>4. r \in StoreOf(a)
    <2>1. r.queue \in [Kinds -> Seq(0..a)] /\ r.open \in [Kinds -> Int]
      BY <1>1, <1>2, <1>3
    <2> QED
      BY Zenon, <2>1, <1>1, <1>2 DEF StoreOf
  <1>5. \A j \in Kinds : Slack(r, j) = Slack(s, j)
    <2> SUFFICES ASSUME NEW j \in Kinds PROVE Slack(r, j) = Slack(s, j)
      OBVIOUS
    <2>1. s.open[j] \in Int /\ Len(s.queue[j]) \in Nat
      BY <1>2, LenProperties
    <2>2. CASE j = k
      <3>1. r.open[j] = s.open[j] + 1 /\ Len(r.queue[j]) = Len(s.queue[j]) + 1
        BY <2>2, <1>1, <1>2, <1>3 DEF q
      <3>2. (s.open[j] + 1) - (Len(s.queue[j]) + 1) = s.open[j] - Len(s.queue[j])
        <4> DEFINE o == s.open[j]
                   l == Len(s.queue[j])
        <4>1. o \in Int /\ l \in Int
          BY <2>1
        <4> HIDE DEF o, l
        <4>2. (o + 1) - (l + 1) = o - l
          BY <4>1
        <4> QED
          BY <4>2 DEF o, l
      <3> QED
        BY <3>1, <3>2, Zenon DEF Slack
    <2>3. CASE j # k
      BY <2>3, <1>1, <1>2 DEF Slack
    <2> QED
      BY <2>2, <2>3
  <1>6. Carried(r) = Carried(s) \cup {x}
    <2>1. CASE k = "main"
      <3>1. ToSet(r.queue["main"]) = ToSet(s.queue["main"]) \cup {x}
            /\ r.queue["safe"] = s.queue["safe"]
        BY Zenon, <2>1, <1>1, <1>2, <1>3 DEF Kinds, q
      <3> QED
        BY <3>1, <1>1, Zenon DEF Carried
    <2>2. CASE k = "safe"
      <3>1. ToSet(r.queue["safe"]) = ToSet(s.queue["safe"]) \cup {x}
            /\ r.queue["main"] = s.queue["main"]
        BY Zenon, <2>2, <1>1, <1>2, <1>3 DEF Kinds, q
      <3> QED
        BY <3>1, <1>1, Zenon DEF Carried
    <2> QED
      BY <2>1, <2>2 DEF Kinds
  <1>7. Len(r.queue[k]) = Len(s.queue[k]) + 1
    BY <1>1, <1>2, <1>3 DEF q
  <1> QED
    BY <1>1, <1>4, <1>5, <1>6, <1>7 DEF r, q, IsPut

\* r is s with x at the end of queue k instead of the head.
IsReplaced(a, s, k, x, r) ==
  /\ r \in StoreOf(a)
  /\ r.queue = [s.queue EXCEPT ![k] = Append(Tail(s.queue[k]), x)]
  /\ r.open = s.open
  /\ r.dropped = s.dropped
  /\ \A j \in Kinds : Slack(r, j) = Slack(s, j)
  /\ Len(r.queue[k]) = Len(s.queue[k])
  /\ Carried(r) \cup {Head(s.queue[k])} = Carried(s) \cup {x}
  /\ Head(s.queue[k]) \in 0..a

LEMMA ReplaceEffect ==
  ASSUME NEW a \in Nat, NEW s \in StoreOf(a), NEW k \in Kinds, NEW x \in 0..a,
         s.queue[k] # <<>>
  PROVE  IsReplaced(a, s, k, x, ReplaceOldest(s, k, x))
  <1> DEFINE r == ReplaceOldest(s, k, x)
             q == s.queue[k]
             o == Head(s.queue[k])
             u == Append(Tail(s.queue[k]), x)
  <1>1. /\ r.queue = [s.queue EXCEPT ![k] = u]
        /\ r.open = s.open
        /\ r.dropped = s.dropped
        /\ r = [queue |-> r.queue, open |-> r.open, dropped |-> r.dropped]
    <2>1. /\ DOMAIN s = {"queue", "open", "dropped"}
          /\ s.queue \in [Kinds -> Seq(0..a)]
      BY DEF StoreOf
    <2>2. r = [s EXCEPT !.queue = [s.queue EXCEPT ![k] = u]]
      BY <2>1, Zenon DEF ReplaceOldest
    <2> QED
      BY Zenon, <2>1, <2>2
  <1>2. /\ q \in Seq(0..a) /\ s.queue \in [Kinds -> Seq(0..a)]
        /\ s.open \in [Kinds -> Int] /\ s.dropped \in SUBSET (1..a)
    BY DEF StoreOf
  <1>3. /\ Tail(q) \in Seq(0..a) /\ Len(Tail(q)) = Len(q) - 1 /\ Len(q) \in Nat
        /\ ToSet(q) = {o} \cup ToSet(Tail(q)) /\ o \in 0..a
    BY Zenon, <1>2, HeadTailProperties, ItemsOfTail
  <1>4. /\ u \in Seq(0..a) /\ Len(u) = Len(Tail(q)) + 1
        /\ ToSet(u) = ToSet(Tail(q)) \cup {x}
    BY <1>3, AppendProperties, ItemsAppended
  <1>5. Len(u) = Len(q) /\ ToSet(u) \cup {o} = ToSet(q) \cup {x}
    BY <1>3, <1>4
  <1> HIDE DEF r, u, o, q
  <1>6. r \in StoreOf(a)
    <2>1. r.queue \in [Kinds -> Seq(0..a)]
      BY <1>1, <1>2, <1>4
    <2> QED
      BY Zenon, <2>1, <1>1, <1>2 DEF StoreOf
  <1>7. r.queue[k] = u /\ \A j \in Kinds : j # k => r.queue[j] = s.queue[j]
    BY <1>1, <1>2
  <1>8. \A j \in Kinds : Len(r.queue[j]) = Len(s.queue[j])
    BY <1>7, <1>5 DEF q
  <1>9. Carried(r) \cup {o} = Carried(s) \cup {x}
    <2>1. CASE k = "main"
      <3>1. ToSet(r.queue["main"]) \cup {o} = ToSet(s.queue["main"]) \cup {x}
            /\ r.queue["safe"] = s.queue["safe"]
        BY <2>1, <1>7, <1>5 DEF Kinds, q
      <3> QED
        BY <3>1, <1>1 DEF Carried
    <2>2. CASE k = "safe"
      <3>1. ToSet(r.queue["safe"]) \cup {o} = ToSet(s.queue["safe"]) \cup {x}
            /\ r.queue["main"] = s.queue["main"]
        BY <2>2, <1>7, <1>5 DEF Kinds, q
      <3> QED
        BY <3>1, <1>1 DEF Carried
    <2> QED
      BY <2>1, <2>2 DEF Kinds
  <1> QED
    BY <1>1, <1>3, <1>6, <1>8, <1>9 DEF r, u, o, Slack, IsReplaced

LEMMA SpillOne ==
  ASSUME NEW a \in Nat, NEW s \in StoreOf(a), NEW e \in 1..a,
         Len(s.queue["safe"]) <= SafeSize
  PROVE  Spilled(a, s, SpillLine(s, e), {e})
  <1> DEFINE q == s.queue["safe"]
             o == Head(s.queue["safe"])
  <1>1. /\ q \in Seq(0..a) /\ Len(q) \in Nat /\ "safe" \in Kinds /\ "main" \in Kinds
        /\ s.queue \in [Kinds -> Seq(0..a)] /\ s.open \in [Kinds -> Int]
        /\ s.dropped \in SUBSET (1..a)
    BY LenProperties DEF StoreOf, Kinds
  <1>2. SafeSize \in Nat \ {0} /\ e \in 0..a /\ Stop \in 0..a /\ "main" # "safe"
    BY EventWriterAssumption DEF Stop
  <1>3. CASE Len(q) < SafeSize
    <2>1. SpillLine(s, e) = Put(s, "safe", e)
      BY <1>3 DEF SpillLine
    <2> DEFINE r == Put(s, "safe", e)
    <2>2. /\ r \in StoreOf(a)
          /\ r.queue = [s.queue EXCEPT !["safe"] = Append(@, e)]
          /\ r.open = [s.open EXCEPT !["safe"] = @ + 1]
          /\ Slack(r, "safe") = Slack(s, "safe")
          /\ Len(r.queue["safe"]) = Len(q) + 1
          /\ Carried(r) = Carried(s) \cup {e}
      <3>1. IsPut(a, s, "safe", e, r)
        BY PutEffect, <1>1, <1>2
      <3> HIDE DEF r
      <3> QED
        BY <3>1, <1>1 DEF IsPut
    <2> HIDE DEF r
    <2>3. r.queue["main"] = s.queue["main"] /\ r.open["main"] = s.open["main"]
      BY <2>2, <1>1, <1>2
    <2>4. Len(r.queue["safe"]) <= SafeSize
      BY <2>2, <1>3, <1>1, <1>2
    <2> QED
      BY <2>1, <2>2, <2>3, <2>4 DEF Spilled, r
  <1>4. CASE ~(Len(q) < SafeSize)
    <2>1. q # <<>>
      BY <1>1, <1>2, <1>4, EmptySeq
    <2>2. ASSUME NEW x \in 0..a, NEW d \in 1..a, (x = o /\ d = e) \/ (x = e /\ d = o)
          PROVE  Spilled(a, s, [ReplaceOldest(s, "safe", x) EXCEPT !.dropped = @ \cup {d}], {e})
      <3> DEFINE m == ReplaceOldest(s, "safe", x)
                 r == [m EXCEPT !.dropped = @ \cup {d}]
      <3>1. /\ m \in StoreOf(a)
            /\ m.queue = [s.queue EXCEPT !["safe"] = Append(Tail(@), x)]
            /\ m.open = s.open /\ m.dropped = s.dropped
            /\ Slack(m, "safe") = Slack(s, "safe")
            /\ Len(m.queue["safe"]) = Len(q)
            /\ Carried(m) \cup {o} = Carried(s) \cup {x}
        <4>1. IsReplaced(a, s, "safe", x, m)
          BY ReplaceEffect, <1>1, <2>1
        <4> HIDE DEF m
        <4> QED
          BY <4>1, <1>1 DEF IsReplaced
      <3> HIDE DEF m
      <3>2. /\ r.queue = m.queue /\ r.open = m.open /\ r.dropped = m.dropped \cup {d}
            /\ r \in StoreOf(a)
        BY Zenon, <3>1 DEF StoreOf
      <3> HIDE DEF r
      <3>3. Carried(r) = Carried(m) \cup {d}
        BY <3>2 DEF Carried
      <3>4. o \in Carried(s) /\ x \in Carried(m)
        <4>1. o \in ToSet(q)
          BY ItemsOfTail, <1>1, <2>1
        <4>2. /\ Tail(q) \in Seq(0..a)
              /\ m.queue["safe"] = Append(Tail(q), x)
          BY Zenon, <3>1, <1>1, <2>1, HeadTailProperties
        <4>3. x \in ToSet(m.queue["safe"])
          BY <4>2, ItemsAppended
        <4> QED
          BY <4>1, <4>3 DEF Carried
      <3>5. Carried(r) = Carried(s) \cup {e}
        <4>1. CASE x = o /\ d = e
          BY <4>1, <3>1, <3>3, <3>4
        <4>2. CASE x = e /\ d = o
          BY <4>2, <3>1, <3>3
        <4> QED
          BY <4>1, <4>2, <2>2
      <3>6. r.queue["main"] = s.queue["main"] /\ r.open["main"] = s.open["main"]
        BY <3>1, <3>2, <1>1, <1>2
      <3>7. Slack(r, "safe") = Slack(s, "safe")
        BY <3>1, <3>2 DEF Slack
      <3>8. Len(r.queue["safe"]) <= SafeSize
        BY <3>1, <3>2
      <3> QED
        BY Zenon, <3>2, <3>5, <3>6, <3>7, <3>8 DEF Spilled, r, m
    <2>3. o \in 0..a
      BY Zenon, ItemsOfTail, <1>1, <2>1
    <2>4. CASE o = Stop
      <3>1. SpillLine(s, e) = [ReplaceOldest(s, "safe", Stop) EXCEPT !.dropped = @ \cup {e}]
        BY <1>4, <2>4 DEF SpillLine
      <3> QED
        BY Zenon, <3>1, <2>2, <2>4, <1>2
    <2>5. CASE o # Stop
      <3>1. SpillLine(s, e) = [ReplaceOldest(s, "safe", e) EXCEPT !.dropped = @ \cup {o}]
        BY <1>4, <2>5 DEF SpillLine
      <3>2. o \in 1..a
        BY <2>3, <2>5 DEF Stop
      <3> QED
        BY Zenon, <3>1, <3>2, <2>2, <1>2
    <2> QED
      BY <2>4, <2>5
  <1> QED
    BY <1>3, <1>4

\* The recursion of SpillLines.
LEMMA SpillRecursion ==
  ASSUME NEW s, NEW lines, Len(lines) \in Nat
  PROVE  \E f : /\ f = [i \in 0..Len(lines) |->
                          IF i = 0 THEN s ELSE SpillLine(f[i - 1], lines[i])]
                /\ SpillLines(s, lines) = f[Len(lines)]
  <1> DEFINE Rec(f, n) == f = [i \in 0..n |->
                                 IF i = 0 THEN s ELSE SpillLine(f[i - 1], lines[i])]
             U == {n \in Nat : ~ \E f : Rec(f, n)}
             N == Len(lines)
  <1>1. U = {}
    <2> SUFFICES ASSUME U # {} PROVE FALSE
      OBVIOUS
    <2>1. PICK n \in U : \A m \in U : <<m, n>> \notin OpToRel(<, Nat)
      BY WFMin, NatLessThanWellFounded, Zenon
    <2>2. n \in Nat /\ \A m \in U : ~(m < n)
      BY <2>1, Zenon DEF OpToRel
    <2>0. ~ \E f : Rec(f, n)
      <3> HIDE DEF Rec
      <3> QED
        BY <2>1, Zenon
    <2>3. CASE n = 0
      <3> DEFINE f == [i \in 0..0 |-> s]
      <3>1. \A i \in 0..0 : i = 0
        OBVIOUS
      <3>2. f = [i \in 0..0 |-> IF i = 0 THEN s ELSE SpillLine(f[i - 1], lines[i])]
        BY <3>1
      <3>3. Rec(f, 0)
        BY <3>2
      <3> QED
        <4> HIDE DEF Rec, f
        <4> QED
          BY <3>3, <2>0, <2>3
    <2>4. CASE n # 0
      <3>1. n - 1 \in Nat /\ n - 1 < n
        BY <2>2, <2>4
      <3>2. n - 1 \notin U
        BY Zenon, <3>1, <2>2
      <3>3. PICK g : Rec(g, n - 1)
        BY <3>1, <3>2
      <3> DEFINE f == [i \in 0..n |-> IF i = n THEN SpillLine(g[n - 1], lines[n]) ELSE g[i]]
      <3>4. ASSUME NEW i \in 0..n
            PROVE  f[i] = IF i = 0 THEN s ELSE SpillLine(f[i - 1], lines[i])
        <4>1. CASE i = n
          <5>1. n - 1 \in 0..n /\ n - 1 # n
            BY <2>2, <2>4
          <5>2. f[n - 1] = g[n - 1]
            BY <5>1
          <5>3. f[i] = SpillLine(g[n - 1], lines[n])
            BY <4>1
          <5> QED
            BY <5>2, <5>3, <4>1, <2>4
        <4>2. CASE i # n
          <5>1. i \in 0..(n - 1) /\ (i # 0 => i - 1 \in 0..n /\ i - 1 # n)
            BY <2>2, <4>2
          <5>2. f[i] = g[i] /\ (i # 0 => f[i - 1] = g[i - 1])
            BY <5>1, <4>2
          <5>3. g[i] = IF i = 0 THEN s ELSE SpillLine(g[i - 1], lines[i])
            BY <3>3, <5>1
          <5> QED
            BY <5>2, <5>3
        <4> QED
          BY <4>1, <4>2
      <3>5. f = [i \in 0..n |-> f[i]]
        OBVIOUS
      <3> HIDE DEF f
      <3>6. f = [i \in 0..n |-> IF i = 0 THEN s ELSE SpillLine(f[i - 1], lines[i])]
        BY Zenon, <3>4, <3>5
      <3>7. Rec(f, n)
        BY <3>6
      <3> QED
        <4> HIDE DEF Rec
        <4> QED
          BY <3>7, <2>0
    <2> QED
      BY <2>3, <2>4
  <1>2. \E f : Rec(f, N)
    BY <1>1
  <1> DEFINE h == CHOOSE f : Rec(f, N)
  <1>3. Rec(h, N)
    <2> HIDE DEF Rec
    <2> QED
      BY <1>2, Zenon
  <1>4. SpillLines(s, lines) = h[N]
    BY Zenon DEF SpillLines
  <1> HIDE DEF h
  <1> QED
    BY Zenon, <1>3, <1>4

LEMMA SpillAll ==
  ASSUME NEW a \in Nat, NEW s \in StoreOf(a), NEW lines \in Seq(1..a),
         Len(s.queue["safe"]) <= SafeSize
  PROVE  Spilled(a, s, SpillLines(s, lines), ToSet(lines))
  <1>1. /\ Len(lines) \in Nat /\ DOMAIN lines = 1..Len(lines)
        /\ \A i \in 1..Len(lines) : lines[i] \in 1..a
    BY LenProperties
  <1>2. PICK f : /\ f = [i \in 0..Len(lines) |->
                           IF i = 0 THEN s ELSE SpillLine(f[i - 1], lines[i])]
                 /\ SpillLines(s, lines) = f[Len(lines)]
    BY Zenon, <1>1, SpillRecursion
  <1>3. /\ f[0] = s
        /\ \A i \in 1..Len(lines) : f[i] = SpillLine(f[i - 1], lines[i])
    <2>1. \A i \in 0..Len(lines) : f[i] = IF i = 0 THEN s ELSE SpillLine(f[i - 1], lines[i])
      BY <1>2, Zenon
    <2>2. 0 \in 0..Len(lines) /\ \A i \in 1..Len(lines) : i \in 0..Len(lines) /\ i # 0
      BY <1>1
    <2> QED
      BY <2>1, <2>2
  <1> DEFINE E(n) == {lines[i] : i \in 1..n}
             Bad == {n \in Nat : n <= Len(lines) /\ ~Spilled(a, s, f[n], E(n))}
  <1>4. Bad = {}
    <2> SUFFICES ASSUME Bad # {} PROVE FALSE
      BY Zenon
    <2>1. PICK n \in Bad : \A m \in Bad : <<m, n>> \notin OpToRel(<, Nat)
      BY WFMin, NatLessThanWellFounded, Zenon
    <2>2. n \in Bad /\ \A m \in Bad : ~(m < n)
      BY <2>1, Zenon DEF OpToRel
    <2>3. n \in Nat /\ n <= Len(lines) /\ ~Spilled(a, s, f[n], E(n))
      <3> HIDE DEF E
      <3> QED
        BY <2>2
    <2>4. CASE n = 0
      <3>1. E(0) = {}
        OBVIOUS
      <3>2. Spilled(a, s, s, {})
        BY DEF Spilled
      <3> QED
        BY Zenon, <3>1, <3>2, <2>3, <2>4, <1>3
    <2>5. CASE n # 0
      <3>1. n - 1 \in Nat /\ n - 1 < n /\ n - 1 <= Len(lines) /\ n \in 1..Len(lines)
        BY <2>3, <2>5, <1>1
      <3>2. Spilled(a, s, f[n - 1], E(n - 1))
        BY Zenon, <3>1, <2>2
      <3>3. lines[n] \in 1..a /\ f[n - 1] \in StoreOf(a) /\ Len(f[n - 1].queue["safe"]) <= SafeSize
        BY <3>1, <3>2, <1>1 DEF Spilled
      <3>4. Spilled(a, f[n - 1], f[n], {lines[n]})
        BY Zenon, <3>1, <3>3, <1>3, SpillOne
      <3>5. E(n) = E(n - 1) \cup {lines[n]}
        <4>1. \A i \in 1..n : i \in 1..(n - 1) \/ i = n
          BY <3>1
        <4>2. n \in 1..n /\ \A i \in 1..(n - 1) : i \in 1..n
          BY <3>1
        <4> QED
          BY Zenon, <4>1, <4>2
      <3> HIDE DEF E, Bad
      <3>6. Spilled(a, s, f[n], E(n))
        BY <3>2, <3>4, <3>5 DEF Spilled
      <3> QED
        BY <3>6, <2>3
    <2> QED
      BY <2>4, <2>5
  <1>5. E(Len(lines)) = ToSet(lines)
    BY <1>1 DEF ToSet
  <1>6. Spilled(a, s, f[Len(lines)], E(Len(lines)))
    <2> HIDE DEF E
    <2> QED
      BY <1>1, <1>4
  <1> QED
    BY Zenon, <1>2, <1>5, <1>6

\* r is s after append_event put e.
IsEnqueued(a, s, e, r) ==
  /\ r \in StoreOf(a)
  /\ Len(r.queue["main"]) <= QueueSize /\ Len(r.queue["safe"]) <= SafeSize
  /\ Slack(r, "main") = Slack(s, "main") /\ Slack(r, "safe") = Slack(s, "safe")
  /\ Carried(r) = Carried(s) \cup {e}
  /\ \/ r.queue["main"] = Append(s.queue["main"], e)
     \/ /\ s.queue["main"] # <<>>
        /\ r.queue["main"] = Append(Tail(s.queue["main"]), e)
     \/ /\ s.queue["main"] # <<>> /\ Head(s.queue["main"]) = Stop
        /\ r.queue["main"] = Append(Tail(s.queue["main"]), Stop)

LEMMA EnqueueEffect ==
  ASSUME NEW a \in Nat, NEW s \in StoreOf(a), NEW e \in 1..a,
         Len(s.queue["main"]) <= QueueSize, Len(s.queue["safe"]) <= SafeSize
  PROVE  IsEnqueued(a, s, e, Enqueue(s, e))
  <1> DEFINE q == s.queue["main"]
             o == Head(s.queue["main"])
  <1>1. /\ q \in Seq(0..a) /\ Len(q) \in Nat /\ "safe" \in Kinds /\ "main" \in Kinds
        /\ s.queue \in [Kinds -> Seq(0..a)] /\ s.open \in [Kinds -> Int]
        /\ s.dropped \in SUBSET (1..a) /\ "main" # "safe"
    BY LenProperties DEF StoreOf, Kinds
  <1>2. QueueSize \in Nat \ {0} /\ e \in 0..a /\ Stop \in 0..a
    BY EventWriterAssumption DEF Stop
  <1>3. CASE Len(q) < QueueSize
    <2> DEFINE r == Put(s, "main", e)
    <2>1. Enqueue(s, e) = r
      BY <1>3 DEF Enqueue
    <2>2. IsPut(a, s, "main", e, r)
      BY PutEffect, <1>1, <1>2
    <2> HIDE DEF r
    <2>3. Len(r.queue["main"]) <= QueueSize
      BY <2>2, <1>1, <1>2, <1>3 DEF IsPut
    <2>4. r.queue["safe"] = s.queue["safe"] /\ r.queue["main"] = Append(q, e)
      BY Zenon, <2>2, <1>1 DEF IsPut
    <2> QED
      BY <2>1, <2>2, <2>3, <2>4, <1>1 DEF IsPut, IsEnqueued
  <1>4. CASE ~(Len(q) < QueueSize)
    <2>1. q # <<>>
      BY <1>1, <1>2, <1>4, EmptySeq
    <2>2. ASSUME NEW x \in 0..a, NEW d \in 1..a,
                 (x = o /\ d = e /\ o = Stop) \/ (x = e /\ d = o)
          PROVE  IsEnqueued(a, s, e, SpillLine(ReplaceOldest(s, "main", x), d))
      <3> DEFINE m == ReplaceOldest(s, "main", x)
                 r == SpillLine(m, d)
      <3>1. IsReplaced(a, s, "main", x, m)
        BY ReplaceEffect, <1>1, <2>1
      <3> HIDE DEF m
      <3>2. /\ m \in StoreOf(a) /\ m.queue["safe"] = s.queue["safe"]
            /\ m.queue["main"] = Append(Tail(q), x)
            /\ Len(m.queue["main"]) = Len(q)
            /\ Carried(m) \cup {o} = Carried(s) \cup {x}
            /\ Slack(m, "main") = Slack(s, "main") /\ Slack(m, "safe") = Slack(s, "safe")
        BY Zenon, <3>1, <1>1 DEF IsReplaced
      <3>3. Spilled(a, m, r, {d})
        BY <3>2, SpillOne
      <3> HIDE DEF r
      <3>4. o \in Carried(s) /\ x \in Carried(m)
        <4>1. o \in ToSet(q)
          BY ItemsOfTail, <1>1, <2>1
        <4>2. Tail(q) \in Seq(0..a)
          BY Zenon, <1>1, <2>1, HeadTailProperties
        <4>3. x \in ToSet(m.queue["main"])
          BY <4>2, <3>2, ItemsAppended
        <4> QED
          BY <4>1, <4>3 DEF Carried
      <3>5. Carried(r) = Carried(m) \cup {d}
        BY <3>3 DEF Spilled
      <3>6. Carried(r) = Carried(s) \cup {e}
        <4>1. CASE x = o /\ d = e
          BY <4>1, <3>2, <3>4, <3>5
        <4>2. CASE x = e /\ d = o
          BY <4>2, <3>2, <3>5
        <4> QED
          BY <4>1, <4>2, <2>2
      <3>7. /\ r \in StoreOf(a) /\ Len(r.queue["safe"]) <= SafeSize
            /\ r.queue["main"] = m.queue["main"] /\ Slack(r, "safe") = Slack(m, "safe")
            /\ r.open["main"] = m.open["main"]
        BY <3>3 DEF Spilled
      <3>8. Slack(r, "main") = Slack(m, "main")
        BY <3>7 DEF Slack
      <3>9. Len(r.queue["main"]) <= QueueSize
        BY <3>7, <3>2
      <3> QED
        BY Zenon, <3>2, <3>6, <3>7, <3>8, <3>9, <2>1, <2>2 DEF IsEnqueued, r, m
    <2>3. o \in 0..a
      BY ItemsOfTail, <1>1, <2>1
    <2>4. CASE o = Stop
      <3>1. Enqueue(s, e) = SpillLine(ReplaceOldest(s, "main", Stop), e)
        BY <1>4, <2>4 DEF Enqueue
      <3> QED
        BY <3>1, <2>2, <2>4, <1>2
    <2>5. CASE o # Stop
      <3>1. Enqueue(s, e) = SpillLine(ReplaceOldest(s, "main", e), o)
        BY <1>4, <2>5 DEF Enqueue
      <3>2. o \in 1..a
        BY <2>3, <2>5 DEF Stop
      <3> QED
        BY <3>1, <3>2, <2>2, <1>2
    <2> QED
      BY <2>4, <2>5
  <1> QED
    BY <1>3, <1>4

\* r is s with queue k emptied.
IsDrained(a, s, k, r) ==
  /\ r \in StoreOf(a)
  /\ r.queue = [s.queue EXCEPT ![k] = <<>>] /\ r.dropped = s.dropped
  /\ \A j \in Kinds : Slack(r, j) = Slack(s, j)

LEMMA DrainEffect ==
  ASSUME NEW a \in Nat, NEW s \in StoreOf(a), NEW k \in Kinds
  PROVE  IsDrained(a, s, k, Drain(s, k))
  <1> DEFINE r == Drain(s, k)
             n == Len(s.queue[k])
  <1>1. /\ s.queue \in [Kinds -> Seq(0..a)] /\ s.open \in [Kinds -> Int]
        /\ s.dropped \in SUBSET (1..a) /\ DOMAIN s = {"queue", "open", "dropped"}
    BY DEF StoreOf
  <1>2. /\ r.queue = [s.queue EXCEPT ![k] = <<>>]
        /\ r.open = [s.open EXCEPT ![k] = s.open[k] - n]
        /\ r.dropped = s.dropped
        /\ r = [queue |-> r.queue, open |-> r.open, dropped |-> r.dropped]
    <2>1. r = [s EXCEPT !.queue = [s.queue EXCEPT ![k] = <<>>],
                        !.open = [s.open EXCEPT ![k] = s.open[k] - n]]
      BY <1>1, Zenon DEF Drain
    <2> QED
      BY Zenon, <2>1, <1>1
  <1>3. n \in Nat /\ <<>> \in Seq(0..a) /\ Len(<<>>) = 0
    BY <1>1, LenProperties, EmptySeq
  <1> HIDE DEF r
  <1>4. r \in StoreOf(a)
    <2>1. s.open[k] - n \in Int
      BY <1>1, <1>3
    <2> HIDE DEF n
    <2>2. r.queue \in [Kinds -> Seq(0..a)] /\ r.open \in [Kinds -> Int]
      BY <2>1, <1>1, <1>2, <1>3
    <2> QED
      BY Zenon, <2>2, <1>1, <1>2 DEF StoreOf
  <1>5. ASSUME NEW j \in Kinds PROVE Slack(r, j) = Slack(s, j)
    <2>1. CASE j = k
      <3>1. r.open[j] = s.open[j] - n /\ Len(r.queue[j]) = 0 /\ n = Len(s.queue[j])
        BY <2>1, <1>1, <1>2, <1>3
      <3>2. (s.open[j] - n) - 0 = s.open[j] - n
        BY <1>1, <1>3
      <3> QED
        BY <3>1, <3>2 DEF Slack
    <2>2. CASE j # k
      BY <2>2, <1>1, <1>2 DEF Slack
    <2> QED
      BY <2>1, <2>2
  <1> QED
    BY <1>2, <1>4, <1>5 DEF IsDrained, r

\* r is s with n items of queue k marked.
IsDone(a, s, k, n, r) ==
  /\ r \in StoreOf(a)
  /\ r.queue = s.queue /\ r.dropped = s.dropped
  /\ Slack(r, k) = Slack(s, k) - n
  /\ \A j \in Kinds : j # k => Slack(r, j) = Slack(s, j)

LEMMA DoneEffect ==
  ASSUME NEW a \in Nat, NEW s \in StoreOf(a), NEW k \in Kinds, NEW n \in Nat
  PROVE  IsDone(a, s, k, n, Done(s, k, n))
  <1> DEFINE r == Done(s, k, n)
  <1>1. /\ s.queue \in [Kinds -> Seq(0..a)] /\ s.open \in [Kinds -> Int]
        /\ s.dropped \in SUBSET (1..a) /\ DOMAIN s = {"queue", "open", "dropped"}
    BY DEF StoreOf
  <1>2. /\ r.queue = s.queue /\ r.dropped = s.dropped
        /\ r.open = [s.open EXCEPT ![k] = s.open[k] - n]
        /\ r = [queue |-> r.queue, open |-> r.open, dropped |-> r.dropped]
    <2>1. r = [s EXCEPT !.open = [s.open EXCEPT ![k] = s.open[k] - n]]
      BY <1>1, Zenon DEF Done
    <2> QED
      BY Zenon, <2>1, <1>1
  <1> HIDE DEF r
  <1>3. r \in StoreOf(a)
    BY <1>1, <1>2 DEF StoreOf
  <1>4. Slack(r, k) = Slack(s, k) - n
    <2>1. Len(s.queue[k]) \in Nat /\ s.open[k] \in Int /\ r.open[k] = s.open[k] - n
      BY <1>1, <1>2, LenProperties
    <2>2. (s.open[k] - n) - Len(s.queue[k]) = (s.open[k] - Len(s.queue[k])) - n
      <3>1. \A x, y, z \in Int : (x - y) - z = (x - z) - y
        OBVIOUS
      <3> QED
        BY <2>1, <3>1
    <2> QED
      BY <2>1, <2>2, <1>2 DEF Slack
  <1>5. \A j \in Kinds : j # k => Slack(r, j) = Slack(s, j)
    BY <1>1, <1>2 DEF Slack
  <1> QED
    BY <1>2, <1>3, <1>4, <1>5 DEF IsDone, r

\* n tasks with these loads fit into m: w[i] is for the first i of them.
Reserved(load, n, m) ==
  \E w \in [0..n -> Nat] :
    /\ \A i, j \in 0..n : i < j => w[i] + load[j] <= w[j]
    /\ w[n] <= m

LEMMA Sums ==
  ASSUME NEW x \in Nat, NEW y \in Nat, NEW z \in Nat, x + y <= z
  PROVE  x <= z /\ y <= z
  OBVIOUS

\* A number between two sums moves with the second and the third.
LEMMA MovedSums ==
  ASSUME NEW x \in Nat, NEW y \in Nat, NEW z \in Nat, NEW d \in Int, x + y <= z
  PROVE  /\ x + (y + d) <= z + d
         /\ (x + d) + y <= z + d
         /\ \A u, v \in Nat : u + v <= x /\ v + d >= 0 => u + y <= z + d
  <1>1. x + (y + d) <= z + d /\ (x + d) + y <= z + d
    OBVIOUS
  <1>2. ASSUME NEW u \in Nat, NEW v \in Nat, u + v <= x, v + d >= 0
        PROVE  u + y <= z + d
    BY <1>2
  <1> QED
    BY <1>1, <1>2

LEMMA ReservedBounds ==
  ASSUME NEW n \in Nat, NEW load \in [1..n -> Nat], NEW m \in Int,
         Reserved(load, n, m)
  PROVE  m >= 0 /\ \A t \in 1..n : load[t] <= m
  <1>1. PICK w \in [0..n -> Nat] :
          /\ \A i, j \in 0..n : i < j => w[i] + load[j] <= w[j]
          /\ w[n] <= m
    BY Zenon DEF Reserved
  <1>2. w[n] \in Nat /\ m >= 0
    BY <1>1
  <1>3. ASSUME NEW t \in 1..n PROVE load[t] <= m
    <2>1. /\ 0 \in 0..n /\ t \in 0..n /\ n \in 0..n /\ 0 < t /\ load[t] \in Nat
          /\ w[0] \in Nat /\ w[t] \in Nat
      OBVIOUS
    <2>2. w[0] + load[t] <= w[t]
      BY <1>1, <2>1
    <2>3. w[t] <= w[n]
      <3>1. CASE t = n
        BY <3>1, <1>2
      <3>2. CASE t # n
        <4>1. t < n /\ n \in 1..n /\ load[n] \in Nat
          BY <3>2
        <4>2. w[t] + load[n] <= w[n]
          BY <4>1, <2>1, <1>1
        <4>3. w[t] \in Nat /\ w[n] \in Nat /\ load[n] \in Nat
          BY <4>1, <2>1, <1>2
        <4> QED
          BY Zenon, <4>2, <4>3, Sums
      <3> QED
        BY <3>1, <3>2
    <2>4. load[t] <= w[t] /\ w[t] \in Nat /\ w[n] \in Nat /\ load[t] \in Nat
      BY <2>1, <2>2, <1>2, Sums
    <2>5. \A x, y, z, v \in Int : x <= y /\ y <= z /\ z <= v => x <= v
      OBVIOUS
    <2>6. w[n] <= m
      BY <1>1
    <2> QED
      BY <2>3, <2>4, <2>5, <2>6
  <1> QED
    BY <1>2, <1>3

LEMMA ReservedChange ==
  ASSUME NEW n \in Nat, NEW load \in [1..n -> Nat], NEW new \in [1..n -> Nat],
         NEW t \in 1..n, \A u \in 1..n : u # t => new[u] = load[u],
         NEW m \in Int, NEW k \in Int, k - m >= new[t] - load[t],
         Reserved(load, n, m)
  PROVE  Reserved(new, n, k)
  <1>1. PICK w \in [0..n -> Nat] :
          /\ \A i, j \in 0..n : i < j => w[i] + load[j] <= w[j]
          /\ w[n] <= m
    BY Zenon DEF Reserved
  <1> DEFINE d == new[t] - load[t]
             v == [i \in 0..n |-> IF i < t THEN w[i] ELSE w[i] + d]
  <1>2. /\ new[t] \in Nat /\ load[t] \in Nat /\ d \in Int /\ load[t] + d = new[t]
        /\ t \in 0..n /\ 0 \in 0..n /\ 0 < t /\ w[t] \in Nat /\ w[0] \in Nat
        /\ n \in 0..n /\ ~(n < t)
    <2>1. new[t] \in Nat /\ load[t] \in Nat
      OBVIOUS
    <2>2. t \in 0..n /\ 0 \in 0..n /\ 0 < t /\ n \in 0..n /\ ~(n < t)
      OBVIOUS
    <2>3. w[t] \in Nat /\ w[0] \in Nat
      BY <2>2
    <2> QED
      BY <2>1, <2>2, <2>3
  <1> HIDE DEF d
  <1>3. \A i \in 0..n : w[i] \in Nat /\ (i \in 1..n => new[i] \in Nat /\ load[i] \in Nat)
    BY Zenon
  <1>4. w[0] + load[t] <= w[t]
    BY <1>1, <1>2
  <1>5. \A i \in 0..n : t < i => w[t] + load[i] <= w[i]
    BY <1>1, <1>2
  <1>6. \A i \in 0..n : ~(i < t) => w[t] <= w[i]
    <2> SUFFICES ASSUME NEW i \in 0..n, ~(i < t) PROVE w[t] <= w[i]
      OBVIOUS
    <2>1. CASE i = t
      BY <2>1, <1>2
    <2>2. CASE i # t
      <3>1. t < i /\ i \in 1..n
        BY <2>2
      <3>2. w[t] + load[i] <= w[i] /\ w[i] \in Nat /\ load[i] \in Nat
        BY Zenon, <3>1, <1>3, <1>5
      <3> QED
        BY Zenon, <3>2, <1>2, Sums
    <2> QED
      BY <2>1, <2>2
  <1>7. \A i \in 0..n : v[i] = IF i < t THEN w[i] ELSE w[i] + d
    OBVIOUS
  <1>8. v \in [0..n -> Nat]
    <2>1. ASSUME NEW i \in 0..n PROVE (IF i < t THEN w[i] ELSE w[i] + d) \in Nat
      <3>1. CASE i < t
        BY Zenon, <3>1, <1>3
      <3>2. CASE ~(i < t)
        <4>1. w[t] <= w[i] /\ w[i] \in Nat
          BY <3>2, <1>3, <1>6
        <4> DEFINE y == w[i]
                   z == w[t]
                   b == w[0]
                   p == load[t]
                   q == new[t]
        <4>2. /\ y \in Nat /\ z \in Nat /\ b \in Nat /\ p \in Nat /\ q \in Nat /\ d \in Int
              /\ z <= y /\ b + p <= z /\ p + d = q
          BY Zenon, <4>1, <1>2, <1>4
        <4> HIDE DEF y, z, b, p, q
        <4>3. y + d >= 0 /\ y + d \in Int
          BY <4>2
        <4>4. y + d \in Nat
          BY <4>3
        <4> QED
          BY Zenon, <3>2, <4>4 DEF y
      <3> QED
        BY <3>1, <3>2
    <2> QED
      BY Zenon, <2>1
  <1> HIDE DEF v
  <1>9. ASSUME NEW i \in 0..n, NEW j \in 0..n, i < j
        PROVE  v[i] + new[j] <= v[j]
    <2>1. j \in 1..n /\ w[i] + load[j] <= w[j] /\ w[i] \in Nat /\ w[j] \in Nat
          /\ new[j] \in Nat /\ load[j] \in Nat
      BY <1>9, <1>1, <1>3
    <2>2. CASE j < t
      <3>1. i < t /\ j # t
        BY <2>2, <1>9, <1>2
      <3>2. v[i] = w[i] /\ v[j] = w[j] /\ new[j] = load[j]
        BY Zenon, <3>1, <2>1, <2>2, <1>7
      <3> QED
        BY <3>2, <2>1
    <2>3. CASE j = t
      <3>1. i < t /\ ~(j < t)
        BY <2>3, <1>9, <1>2
      <3>2. v[i] = w[i] /\ v[j] = w[j] + d
        BY Zenon, <3>1, <1>7
      <3>3. load[j] + d = new[j]
        BY <2>3, <1>2
      <3>4. w[i] + (load[j] + d) <= w[j] + d
        BY Zenon, <2>1, <1>2, MovedSums
      <3> QED
        BY Zenon, <3>2, <3>3, <3>4
    <2>4. CASE t < j
      <3>1. v[j] = w[j] + d /\ new[j] = load[j]
        <4>1. ~(j < t) /\ j # t
          BY <2>4, <1>2
        <4> QED
          BY <4>1, <2>1, <1>7
      <3>2. CASE ~(i < t)
        <4>1. v[i] = w[i] + d
          BY <3>2, <1>7
        <4>2. (w[i] + d) + load[j] <= w[j] + d
          BY Zenon, <2>1, <1>2, MovedSums
        <4> QED
          BY <4>1, <4>2, <3>1
      <3>3. CASE i < t
        <4>1. v[i] = w[i]
          BY Zenon, <3>3, <1>7
        <4>2. w[t] + load[j] <= w[j] /\ w[i] + load[t] <= w[t]
          BY Zenon, <2>4, <3>3, <1>1, <1>2
        <4>3. load[t] + d >= 0
          BY <1>2
        <4>4. w[i] + load[j] <= w[j] + d
          BY Zenon, <4>2, <4>3, <2>1, <1>2, MovedSums
        <4> QED
          BY <4>1, <4>4, <3>1
      <3> QED
        BY <3>2, <3>3
    <2>5. j < t \/ j = t \/ t < j
      BY <1>2
    <2> QED
      BY <2>2, <2>3, <2>4, <2>5
  <1>10. v[n] <= k
    <2>1. v[n] = w[n] + d /\ w[n] \in Nat
      BY <1>2, <1>3, <1>7
    <2>2. k - m >= d /\ w[n] <= m
      BY <1>1 DEF d
    <2>3. \A x, y, z, e \in Int : x <= y /\ z - y >= e => x + e <= z
      OBVIOUS
    <2> QED
      BY <2>1, <2>2, <2>3, <1>2
  <1> QED
    BY Zenon, <1>8, <1>9, <1>10 DEF Reserved

LEMMA ReservedKept ==
  ASSUME NEW n \in Nat, NEW load \in [1..n -> Nat], NEW new \in [1..n -> Nat],
         \A u \in 1..n : new[u] = load[u],
         NEW m \in Int, NEW k \in Int, m <= k, Reserved(load, n, m)
  PROVE  Reserved(new, n, k)
  <1>1. PICK w \in [0..n -> Nat] :
          /\ \A i, j \in 0..n : i < j => w[i] + load[j] <= w[j]
          /\ w[n] <= m
    BY Zenon DEF Reserved
  <1>2. w[n] <= k
    <2>1. w[n] \in Nat
      OBVIOUS
    <2> QED
      BY <2>1, <1>1
  <1>3. ASSUME NEW i \in 0..n, NEW j \in 0..n, i < j PROVE w[i] + new[j] <= w[j]
    <2>1. j \in 1..n
      BY <1>3
    <2> QED
      BY <2>1, <1>1, <1>3
  <1> QED
    BY Zenon, <1>2, <1>3 DEF Reserved

LEMMA ReservedForMore ==
  ASSUME NEW n \in Nat, NEW load \in [1..n -> Nat], NEW m \in Int,
         NEW new \in [1..(n + 2) -> Nat],
         \A u \in 1..n : new[u] = load[u], new[n + 1] = 0, new[n + 2] = 0,
         Reserved(load, n, m)
  PROVE  Reserved(new, n + 2, m)
  <1>1. PICK w \in [0..n -> Nat] :
          /\ \A i, j \in 0..n : i < j => w[i] + load[j] <= w[j]
          /\ w[n] <= m
    BY Zenon DEF Reserved
  <1> DEFINE v == [i \in 0..(n + 2) |-> IF i <= n THEN w[i] ELSE w[n]]
  <1>2. v \in [0..(n + 2) -> Nat] /\ v[n + 2] = w[n]
        /\ \A i \in 0..(n + 2) : v[i] = IF i <= n THEN w[i] ELSE w[n]
    OBVIOUS
  <1> HIDE DEF v
  <1>3. ASSUME NEW i \in 0..(n + 2), NEW j \in 0..(n + 2), i < j
        PROVE  v[i] + new[j] <= v[j]
    <2>1. CASE j <= n
      <3>1. i \in 0..n /\ j \in 0..n /\ j \in 1..n
        BY <1>3, <2>1
      <3> QED
        BY <3>1, <2>1, <1>1, <1>2, <1>3
    <2>2. CASE ~(j <= n)
      <3>1. j = n + 1 \/ j = n + 2
        BY <2>2
      <3>2. v[j] = w[n] /\ new[j] = 0 /\ w[n] \in Nat
        BY <3>1, <2>2, <1>2
      <3>3. v[i] <= w[n] /\ v[i] \in Nat
        <4>1. CASE i < n
          <5>1. i \in 0..n /\ n \in 0..n /\ n \in 1..n /\ load[n] \in Nat /\ w[i] \in Nat
            BY <4>1
          <5>2. w[i] + load[n] <= w[n] /\ v[i] = w[i]
            BY <5>1, <4>1, <1>1, <1>2
          <5> QED
            BY Zenon, <5>1, <5>2, <3>2, Sums
        <4>2. CASE ~(i < n)
          <5>1. v[i] = w[n]
            <6>1. i <= n => i = n
              BY <4>2
            <6> QED
              BY <6>1, <1>2
          <5> QED
            BY <5>1, <3>2
        <4> QED
          BY <4>1, <4>2
      <3> QED
        BY <3>2, <3>3
    <2> QED
      BY <2>1, <2>2
  <1> QED
    BY Zenon, <1>1, <1>2, <1>3 DEF Reserved

-----------------------------------------------------------------------------
(* Types, and the items that are not marked task_done yet.                 *)

TaskOf(a) == [kind : Kinds, pc : Waiting \cup Finished, batch : Seq(1..a),
              lines : SUBSET (1..a), cancel : BOOLEAN]
CallOf(a, n) == [pc : Labels, event : 0..a, lines : SUBSET (1..a),
                 awaits : SUBSET (1..n)]
Queues(a, s) ==
  /\ s \in StoreOf(a)
  /\ Len(s.queue["main"]) <= QueueSize /\ Len(s.queue["safe"]) <= SafeSize

\* The types, but for the number of open tasks, which Tickets is about.
Typed ==
  /\ Queues(accepted, Now)
  /\ tasks \in Seq(TaskOf(accepted))
  /\ current \in [Kinds -> 0..Len(tasks)] /\ running \in BOOLEAN
  /\ log \in Seq(1..accepted)
  /\ stored \in SUBSET (1..accepted) /\ failed \in SUBSET (1..accepted)
  /\ call \in [Callers \cup {"stop"} -> CallOf(accepted, Len(tasks))]
  /\ accepted \in 0..MaxEvents /\ faults \in 0..MaxFaults

\* Where a task of which kind can be, and what it holds there.
Role(r) ==
  /\ r.pc \in {"retry", "last"} => r.kind = "safe"
  /\ r.pc = "dying" => r.batch = <<>>
  /\ r.pc \in {"gather", "write", "retry"} => r.batch # <<>>
Roles ==
  /\ \A t \in 1..Len(tasks) : Role(tasks[t])
  /\ \A p \in Callers :
       call[p].pc \in {"store", "await", "own"} => call[p].event # Stop

\* Every item that was put and is not marked is in its queue or in a batch of
\* one task; what a cancelled task gathered may stay unmarked for ever.
Loads(k) == [t \in 1..Len(tasks) |->
              IF tasks[t].kind = k THEN Len(tasks[t].batch) ELSE 0]
Tickets == \A k \in Kinds : Reserved(Loads(k), Len(tasks), Slack(Now, k))

Sorted == Typed /\ Roles /\ Tickets

LEMMA TypedIsTypeOK ==
  ASSUME Typed, Tickets
  PROVE  WriterTypeOK
  <1>1. ASSUME NEW k \in Kinds PROVE open[k] \in Nat
    <2>1. /\ queue[k] \in Seq(0..accepted) /\ open[k] \in Int
      BY DEF Typed, Queues, StoreOf, Now
    <2>2. Len(tasks) \in Nat /\ \A t \in 1..Len(tasks) : tasks[t] \in TaskOf(accepted)
      BY LenProperties DEF Typed
    <2>3. Loads(k) \in [1..Len(tasks) -> Nat]
      <3>1. \A t \in 1..Len(tasks) : Len(tasks[t].batch) \in Nat
        BY <2>2, LenProperties DEF TaskOf
      <3> QED
        BY <3>1 DEF Loads
    <2>4. Len(queue[k]) \in Nat /\ Slack(Now, k) = open[k] - Len(queue[k])
      BY <2>1, LenProperties DEF Slack, Now
    <2>5. Slack(Now, k) \in Int
      BY <2>1, <2>4
    <2>6. Slack(Now, k) >= 0
      BY <2>2, <2>3, <2>5, ReservedBounds DEF Tickets
    <2> QED
      BY <2>1, <2>4, <2>6
  <1>2. /\ queue \in [Kinds -> Seq(0..accepted)] /\ open \in [Kinds -> Int]
        /\ dropped \in SUBSET (1..accepted)
        /\ Len(queue["main"]) <= QueueSize /\ Len(queue["safe"]) <= SafeSize
    BY Zenon DEF Typed, Queues, StoreOf, Now
  <1>3. open \in [Kinds -> Nat]
    BY <1>1, <1>2
  <1>4. DOMAIN tasks = 1..Len(tasks)
    BY LenProperties DEF Typed
  <1> QED
    BY Zenon, <1>2, <1>3, <1>4 DEF Typed, WriterTypeOK, TaskOf, CallOf

\* Only task t is another one afterwards.
OnlyTask(a, t, pc, batch, lines) ==
  /\ tasks' \in Seq(TaskOf(a)) /\ Len(tasks') = Len(tasks)
  /\ \A u \in 1..Len(tasks) : u # t => tasks'[u] = tasks[u]
  /\ tasks'[t] = [kind |-> tasks[t].kind, pc |-> pc, batch |-> batch,
                  lines |-> lines, cancel |-> FALSE]

LEMMA TaskChange ==
  ASSUME NEW a \in Nat, tasks \in Seq(TaskOf(a)), NEW t \in 1..Len(tasks),
         NEW pc \in Waiting \cup Finished, NEW batch \in Seq(1..a),
         NEW lines \in SUBSET (1..a),
         tasks' = [tasks EXCEPT ![t].pc = pc, ![t].batch = batch,
                                ![t].lines = lines, ![t].cancel = FALSE]
  PROVE  OnlyTask(a, t, pc, batch, lines)
  <1> DEFINE r == [kind |-> tasks[t].kind, pc |-> pc, batch |-> batch,
                   lines |-> lines, cancel |-> FALSE]
  <1>1. tasks[t] \in TaskOf(a) /\ DOMAIN tasks = 1..Len(tasks)
    BY LenProperties
  <1>2. r \in TaskOf(a)
    BY <1>1 DEF TaskOf
  <1>3. tasks' = [tasks EXCEPT ![t] = [tasks[t] EXCEPT !.pc = pc, !.batch = batch,
                                            !.lines = lines, !.cancel = FALSE]]
    BY Zenon, <1>1
  <1>4. [tasks[t] EXCEPT !.pc = pc, !.batch = batch, !.lines = lines, !.cancel = FALSE] = r
    <2> DEFINE e == [tasks[t] EXCEPT !.pc = pc, !.batch = batch, !.lines = lines,
                                     !.cancel = FALSE]
    <2>1. DOMAIN tasks[t] = {"kind", "pc", "batch", "lines", "cancel"}
      BY <1>1 DEF TaskOf
    <2>2. /\ e.kind = tasks[t].kind /\ e.pc = pc /\ e.batch = batch /\ e.lines = lines
          /\ e.cancel = FALSE
      BY <2>1
    <2>3. e = [kind |-> e.kind, pc |-> e.pc, batch |-> e.batch, lines |-> e.lines,
               cancel |-> e.cancel]
      <3>1. e \in TaskOf(a)
        BY Zenon, <1>1 DEF TaskOf
      <3> HIDE DEF e
      <3> QED
        BY <3>1 DEF TaskOf
    <2> HIDE DEF e
    <2>4. e = r
      BY <2>2, <2>3, Zenon
    <2> QED
      BY <2>4 DEF e
  <1>5. tasks' = [tasks EXCEPT ![t] = r]
    BY Zenon, <1>3, <1>4
  <1> HIDE DEF r
  <1>6. /\ tasks' \in Seq(TaskOf(a)) /\ Len(tasks') = Len(tasks)
        /\ \A u \in 1..Len(tasks) : tasks'[u] = IF u = t THEN r ELSE tasks[u]
    <2> DEFINE s == [tasks EXCEPT ![t] = r]
    <2>1. /\ s \in Seq(TaskOf(a)) /\ Len(s) = Len(tasks)
          /\ \A u \in 1..Len(tasks) : s[u] = IF u = t THEN r ELSE tasks[u]
      BY <1>2, ExceptSeq
    <2> HIDE DEF s
    <2>2. tasks' = s
      BY Zenon, <1>5 DEF s
    <2> QED
      BY Zenon, <2>1, <2>2
  <1> QED
    BY Zenon, <1>6 DEF OnlyTask, r

LEMMA BecomesChange ==
  ASSUME NEW a \in Nat, tasks \in Seq(TaskOf(a)), NEW t \in 1..Len(tasks),
         NEW pc \in Waiting \cup Finished, NEW batch \in Seq(1..a),
         Becomes(t, pc, batch)
  PROVE  OnlyTask(a, t, pc, batch, {})
  <1>1. {} \in SUBSET (1..a)
    OBVIOUS
  <1> QED
    BY <1>1, TaskChange, Zenon DEF Becomes

LEMMA LoadsType ==
  ASSUME NEW a \in Nat, tasks \in Seq(TaskOf(a)), NEW k \in Kinds
  PROVE  /\ Len(tasks) \in Nat /\ Loads(k) \in [1..Len(tasks) -> Nat]
         /\ \A t \in 1..Len(tasks) :
              /\ tasks[t] \in TaskOf(a) /\ Len(tasks[t].batch) \in Nat
              /\ Loads(k)[t] = IF tasks[t].kind = k THEN Len(tasks[t].batch) ELSE 0
  <1>1. Len(tasks) \in Nat /\ \A t \in 1..Len(tasks) : tasks[t] \in TaskOf(a)
    BY LenProperties
  <1>2. \A t \in 1..Len(tasks) : Len(tasks[t].batch) \in Nat
    BY <1>1, LenProperties DEF TaskOf
  <1> QED
    BY <1>1, <1>2 DEF Loads

LEMMA SlackType ==
  ASSUME NEW a \in Nat, NEW s \in StoreOf(a), NEW k \in Kinds
  PROVE  Slack(s, k) \in Int
  <1>1. s.open[k] \in Int /\ Len(s.queue[k]) \in Nat
    BY LenProperties DEF StoreOf
  <1> QED
    BY <1>1 DEF Slack

LEMMA SequencesGrow ==
  ASSUME NEW a \in Nat, NEW b \in Nat, a <= b
  PROVE  /\ Seq(1..a) \subseteq Seq(1..b) /\ Seq(0..a) \subseteq Seq(0..b)
         /\ 1..a \subseteq 1..b /\ 0..a \subseteq 0..b
  <1>1. 1..a \subseteq 1..b /\ 0..a \subseteq 0..b
    OBVIOUS
  <1> QED
    BY <1>1, SeqMonotonic

LEMMA TypesGrow ==
  ASSUME NEW a \in Nat, NEW b \in Nat, a <= b
  PROVE  /\ StoreOf(a) \subseteq StoreOf(b) /\ TaskOf(a) \subseteq TaskOf(b)
         /\ \A n, m \in Nat : n <= m => CallOf(a, n) \subseteq CallOf(b, m)
  <1>1. /\ Seq(1..a) \subseteq Seq(1..b) /\ Seq(0..a) \subseteq Seq(0..b)
        /\ 1..a \subseteq 1..b /\ 0..a \subseteq 0..b
    BY SequencesGrow
  <1>2. StoreOf(a) \subseteq StoreOf(b)
    <2>1. [Kinds -> Seq(0..a)] \subseteq [Kinds -> Seq(0..b)]
      BY <1>1
    <2>2. SUBSET (1..a) \subseteq SUBSET (1..b)
      BY <1>1
    <2> QED
      BY <2>1, <2>2 DEF StoreOf
  <1>3. TaskOf(a) \subseteq TaskOf(b)
    <2>1. SUBSET (1..a) \subseteq SUBSET (1..b)
      BY <1>1
    <2> QED
      BY <2>1, <1>1 DEF TaskOf
  <1>4. ASSUME NEW n \in Nat, NEW m \in Nat, n <= m
        PROVE  CallOf(a, n) \subseteq CallOf(b, m)
    <2>1. SUBSET (1..a) \subseteq SUBSET (1..b) /\ 1..n \subseteq 1..m
      BY <1>1, <1>4
    <2>2. SUBSET (1..n) \subseteq SUBSET (1..m)
      BY <2>1
    <2> QED
      BY <2>1, <2>2, <1>1 DEF CallOf
  <1> QED
    BY <1>2, <1>3, <1>4

\* A step of one task: what it gives up or takes must show in the slack.
LEMMA TaskMoves ==
  ASSUME Sorted, NEW t \in 1..Len(tasks), NEW pc \in Waiting \cup Finished,
         NEW batch \in Seq(1..accepted), NEW lines \in SUBSET (1..accepted),
         OnlyTask(accepted, t, pc, batch, lines),
         pc \in {"retry", "last"} => tasks[t].kind = "safe",
         pc = "dying" => batch = <<>>,
         pc \in {"gather", "write", "retry"} => batch # <<>>,
         Queues(accepted, Now'),
         Slack(Now', tasks[t].kind) - Slack(Now, tasks[t].kind)
           >= Len(batch) - Len(tasks[t].batch),
         \A k \in Kinds : k # tasks[t].kind => Slack(Now', k) >= Slack(Now, k),
         UNCHANGED <<current, running, call, accepted>>,
         log' \in Seq(1..accepted),
         stored' \in SUBSET (1..accepted), failed' \in SUBSET (1..accepted),
         faults' \in 0..MaxFaults
  PROVE  Sorted'
  <1> DEFINE a == accepted
             n == Len(tasks)
             kind == tasks[t].kind
  <1>1. /\ a \in Nat /\ tasks \in Seq(TaskOf(a)) /\ tasks' \in Seq(TaskOf(a))
        /\ Len(tasks') = n /\ n \in Nat /\ accepted' = a
        /\ kind \in Kinds
    <2>1. accepted \in 0..MaxEvents /\ MaxEvents \in Nat
      BY EventWriterAssumption DEF Sorted, Typed
    <2>2. tasks \in Seq(TaskOf(a)) /\ tasks' \in Seq(TaskOf(a)) /\ Len(tasks') = n
      BY DEF Sorted, Typed, OnlyTask
    <2>3. n \in Nat /\ tasks[t] \in TaskOf(a)
      BY <2>2, LenProperties
    <2> QED
      BY <2>1, <2>2, <2>3 DEF TaskOf
  <1>2. /\ \A u \in 1..n : u # t => tasks'[u] = tasks[u]
        /\ tasks'[t] = [kind |-> kind, pc |-> pc, batch |-> batch,
                        lines |-> lines, cancel |-> FALSE]
    BY DEF OnlyTask
  <1>3. Typed'
    <2>1. /\ current \in [Kinds -> 0..n] /\ running \in BOOLEAN
          /\ call \in [Callers \cup {"stop"} -> CallOf(a, n)]
          /\ accepted \in 0..MaxEvents
      BY Zenon DEF Sorted, Typed
    <2>2. /\ current' = current /\ running' = running /\ call' = call
          /\ accepted' = accepted
      OBVIOUS
    <2> QED
      BY Zenon, <2>1, <2>2, <1>1 DEF Typed
  <1>4. Roles'
    <2>1. ASSUME NEW u \in 1..Len(tasks') PROVE Role(tasks'[u])
      <3>1. CASE u = t
        BY <3>1, <1>2 DEF Role
      <3>2. CASE u # t
        BY <3>2, <1>1, <1>2 DEF Sorted, Roles
      <3> QED
        BY <3>1, <3>2
    <2>2. \A p \in Callers :
            call'[p].pc \in {"store", "await", "own"} => call'[p].event # Stop
      BY DEF Sorted, Roles
    <2> QED
      BY <2>1, <2>2 DEF Roles
  <1>5. Tickets'
    <2> SUFFICES ASSUME NEW k \in Kinds
                 PROVE  Reserved(Loads(k)', Len(tasks'), Slack(Now', k))
      BY DEF Tickets
    <2> DEFINE load == Loads(k)
               new == Loads(k)'
               m == Slack(Now, k)
               room == Slack(Now', k)
    <2>1. /\ load \in [1..n -> Nat]
          /\ \A u \in 1..n : load[u] = IF tasks[u].kind = k THEN Len(tasks[u].batch) ELSE 0
      BY Zenon, <1>1, LoadsType
    <2>2. /\ new \in [1..n -> Nat]
          /\ \A u \in 1..n : new[u] = IF tasks'[u].kind = k THEN Len(tasks'[u].batch) ELSE 0
      <3>1. ASSUME NEW u \in 1..n PROVE Len(tasks'[u].batch) \in Nat
        <4>1. tasks'[u] \in TaskOf(a)
          BY <1>1, LenProperties
        <4>2. tasks'[u].batch \in Seq(1..a)
          BY <4>1 DEF TaskOf
        <4> QED
          BY Zenon, <4>2, LenProperties
      <3> QED
        BY Zenon, <3>1, <1>1 DEF Loads
    <2> HIDE DEF load, new
    <2>3. \A u \in 1..n : u # t => new[u] = load[u]
      BY Zenon, <2>1, <2>2, <1>2
    <2>4. m \in Int /\ room \in Int
      BY Zenon, <1>1, SlackType DEF Sorted, Typed, Queues
    <2>5. Reserved(load, n, m)
      BY DEF Sorted, Tickets, load
    <2>6. /\ load[t] = IF kind = k THEN Len(tasks[t].batch) ELSE 0
          /\ new[t] = IF kind = k THEN Len(batch) ELSE 0
      BY <2>1, <2>2, <1>2
    <2>7. room - m >= new[t] - load[t]
      <3>1. CASE kind = k
        BY <3>1, <2>6
      <3>2. CASE kind # k
        <4>1. room >= m /\ new[t] = 0 /\ load[t] = 0
          BY <3>2, <2>6
        <4> QED
          BY <4>1, <2>4
      <3> QED
        BY <3>1, <3>2
    <2> HIDE DEF m, room
    <2>8. Reserved(new, n, room)
      BY Zenon, <1>1, <2>1, <2>2, <2>3, <2>4, <2>5, <2>7, ReservedChange
    <2> QED
      BY <2>8, <1>1 DEF new, room
  <1> QED
    BY <1>3, <1>4, <1>5 DEF Sorted

\* A step of a call: the tasks hold what they held, and two may be new.
SameTasks ==
  /\ Len(tasks') \in {Len(tasks), Len(tasks) + 2}
  /\ \A u \in 1..Len(tasks) :
       /\ tasks'[u].kind = tasks[u].kind /\ tasks'[u].pc = tasks[u].pc
       /\ tasks'[u].batch = tasks[u].batch /\ tasks'[u].lines = tasks[u].lines
  /\ \A u \in 1..Len(tasks') : u > Len(tasks) =>
       tasks'[u].pc = "get" /\ tasks'[u].batch = <<>> /\ tasks'[u].lines = {}

LEMMA CallMoves ==
  ASSUME Sorted, accepted <= accepted', accepted' \in 0..MaxEvents,
         Queues(accepted', Now'),
         \A k \in Kinds : Slack(Now', k) >= Slack(Now, k),
         tasks' \in Seq(TaskOf(accepted')), SameTasks,
         current' \in [Kinds -> 0..Len(tasks')], running' \in BOOLEAN,
         call' \in [Callers \cup {"stop"} -> CallOf(accepted', Len(tasks'))],
         \A p \in Callers :
           call'[p].pc \in {"store", "await", "own"} => call'[p].event # Stop,
         log' = log,
         stored' \in SUBSET (1..accepted'), failed' \in SUBSET (1..accepted'),
         faults' \in 0..MaxFaults
  PROVE  Sorted'
  <1> DEFINE a == accepted
             b == accepted'
             n == Len(tasks)
  <1>1. /\ a \in Nat /\ b \in Nat /\ a <= b /\ tasks \in Seq(TaskOf(a)) /\ n \in Nat
        /\ tasks' \in Seq(TaskOf(b)) /\ Len(tasks') \in {n, n + 2}
    <2>1. accepted \in 0..MaxEvents /\ MaxEvents \in Nat
      BY EventWriterAssumption DEF Sorted, Typed
    <2>2. tasks \in Seq(TaskOf(a))
      BY DEF Sorted, Typed
    <2>3. n \in Nat
      BY <2>2, LenProperties
    <2> QED
      BY <2>1, <2>2, <2>3 DEF SameTasks
  <1>2. Typed'
    <2>1. log' \in Seq(1..b)
      BY <1>1, SequencesGrow DEF Sorted, Typed
    <2> QED
      BY <2>1 DEF Typed
  <1>3. Roles'
    <2>1. ASSUME NEW u \in 1..Len(tasks') PROVE Role(tasks'[u])
      <3>1. CASE u \in 1..n
        BY <3>1 DEF Sorted, Roles, Role, SameTasks
      <3>2. CASE u \notin 1..n
        <4>1. u > n
          BY <3>2, <1>1
        <4> QED
          BY <4>1 DEF SameTasks, Role
      <3> QED
        BY <3>1, <3>2
    <2> QED
      BY <2>1 DEF Roles
  <1>4. Tickets'
    <2> SUFFICES ASSUME NEW k \in Kinds
                 PROVE  Reserved(Loads(k)', Len(tasks'), Slack(Now', k))
      BY DEF Tickets
    <2> DEFINE load == Loads(k)
               new == Loads(k)'
               m == Slack(Now, k)
               room == Slack(Now', k)
               size == Len(tasks')
    <2>1. /\ load \in [1..n -> Nat]
          /\ \A u \in 1..n : load[u] = IF tasks[u].kind = k THEN Len(tasks[u].batch) ELSE 0
      BY <1>1, LoadsType
    <2>2. /\ new \in [1..size -> Nat]
          /\ \A u \in 1..size : new[u] = IF tasks'[u].kind = k THEN Len(tasks'[u].batch) ELSE 0
      <3>1. ASSUME NEW u \in 1..Len(tasks') PROVE Len(tasks'[u].batch) \in Nat
        <4>1. tasks'[u] \in TaskOf(b)
          BY <1>1, LenProperties
        <4>2. tasks'[u].batch \in Seq(1..b)
          BY Zenon, <4>1 DEF TaskOf
        <4> QED
          BY <4>2, LenProperties
      <3> QED
        BY <3>1, <1>1 DEF Loads
    <2> HIDE DEF load, new
    <2>3. \A u \in 1..n : new[u] = load[u]
      <3> SUFFICES ASSUME NEW u \in 1..n PROVE new[u] = load[u]
        OBVIOUS
      <3>1. u \in 1..size
        BY <1>1
      <3>2. tasks'[u].kind = tasks[u].kind /\ tasks'[u].batch = tasks[u].batch
        BY DEF SameTasks
      <3> QED
        BY <2>1, <2>2, <3>1, <3>2, Zenon
    <2>4. m \in Int /\ room \in Int /\ m <= room
      BY <1>1, SlackType DEF Sorted, Typed, Queues
    <2>5. Reserved(load, n, m)
      BY DEF Sorted, Tickets, load
    <2> HIDE DEF m, room, size
    <2>6. CASE size = n
      <3>1. Reserved(new, n, room)
        BY Zenon, <1>1, <2>1, <2>2, <2>3, <2>4, <2>5, <2>6, ReservedKept
      <3> QED
        BY <3>1, <2>6 DEF new, room, size
    <2>7. CASE size = n + 2
      <3>1. Reserved(load, n, room)
        BY Zenon, <1>1, <2>1, <2>4, <2>5, ReservedKept
      <3>2. new[n + 1] = 0 /\ new[n + 2] = 0
        <4>1. n + 1 \in 1..size /\ n + 2 \in 1..size /\ n + 1 > n /\ n + 2 > n
          BY <1>1, <2>7
        <4>2. tasks'[n + 1].batch = <<>> /\ tasks'[n + 2].batch = <<>> /\ Len(<<>>) = 0
          BY <4>1 DEF SameTasks, size
        <4> QED
          BY Zenon, <4>1, <4>2, <2>2
      <3>3. Reserved(new, n + 2, room)
        BY Zenon, <1>1, <2>1, <2>2, <2>3, <2>4, <2>7, <3>1, <3>2, ReservedForMore
      <3> QED
        BY <3>3, <2>7 DEF new, room, size
    <2> QED
      BY <2>6, <2>7, <1>1 DEF size
  <1> QED
    BY <1>2, <1>3, <1>4 DEF Sorted

\* q holds, in their order, what s holds behind its first d items, and
\* perhaps stop items.
Drawn(s, q, d) ==
  \A i \in DOMAIN q : q[i] # Stop => i + d \in DOMAIN s /\ q[i] = s[i + d]

LEMMA DrawnSuffix ==
  ASSUME NEW a \in Nat, NEW s \in Seq(0..a), NEW n \in 0..Len(s)
  PROVE  LET q == SubSeq(s, n + 1, Len(s))
         IN /\ q \in Seq(0..a) /\ Len(q) = Len(s) - n /\ Drawn(s, q, n)
            /\ \A j \in 1..Len(s) : j > n => s[j] \in ToSet(q)
            /\ ToSet(q) \subseteq ToSet(s)
  <1> DEFINE q == SubSeq(s, n + 1, Len(s))
  <1>1. DOMAIN s = 1..Len(s) /\ Len(s) \in Nat /\ \A i \in 1..Len(s) : s[i] \in 0..a
    BY LenProperties
  <1>2. /\ q \in Seq(0..a)
        /\ Len(q) = IF n + 1 <= Len(s) THEN Len(s) - (n + 1) + 1 ELSE 0
        /\ \A i \in 1..(Len(s) - (n + 1) + 1) : q[i] = s[(n + 1) + i - 1]
    <2>1. n + 1 \in Int /\ Len(s) \in Int /\ \A i \in (n + 1)..Len(s) : s[i] \in 0..a
      BY <1>1
    <2> QED
      BY <2>1, SubSeqProperties
  <1> HIDE DEF q
  <1>3. Len(q) = Len(s) - n /\ n \in Nat
    <2>1. \A x \in Nat : \A y \in 0..x :
            /\ (IF y + 1 <= x THEN x - (y + 1) + 1 ELSE 0) = x - y
            /\ y \in Nat
      OBVIOUS
    <2> QED
      BY <2>1, <1>1, <1>2, Zenon
  <1>4. \A i \in 1..Len(q) : i + n \in 1..Len(s) /\ q[i] = s[i + n]
    <2> SUFFICES ASSUME NEW i \in 1..Len(q) PROVE i + n \in 1..Len(s) /\ q[i] = s[i + n]
      OBVIOUS
    <2>1. i \in 1..(Len(s) - (n + 1) + 1) /\ (n + 1) + i - 1 = i + n /\ i + n \in 1..Len(s)
      BY <1>1, <1>3
    <2> QED
      BY <2>1, <1>2
  <1>5. DOMAIN q = 1..Len(q)
    BY <1>2, LenProperties
  <1>6. ASSUME NEW j \in 1..Len(s), j > n PROVE s[j] \in ToSet(q)
    <2>1. j - n \in 1..Len(q) /\ (j - n) + n = j
      BY <1>1, <1>3, <1>6
    <2>2. q[j - n] = s[j]
      BY <2>1, <1>4
    <2> QED
      BY Zenon, <2>1, <2>2, <1>5 DEF ToSet
  <1>7. ToSet(q) \subseteq ToSet(s)
    BY Zenon, <1>1, <1>4, <1>5 DEF ToSet
  <1>8. Drawn(s, q, n)
    BY Zenon, <1>1, <1>4, <1>5 DEF Drawn
  <1> QED
    BY <1>2, <1>3, <1>6, <1>7, <1>8 DEF q

LEMMA DrawnTail ==
  ASSUME NEW a \in Nat, NEW s \in Seq(0..a), NEW q \in Seq(0..a), NEW n \in Nat,
         Drawn(s, q, n), q # <<>>
  PROVE  /\ Tail(q) \in Seq(0..a) /\ Len(Tail(q)) = Len(q) - 1 /\ Len(q) \in Nat
         /\ Drawn(s, Tail(q), n + 1)
         /\ ToSet(q) = {Head(q)} \cup ToSet(Tail(q))
         /\ Head(q) \in 0..a
  <1>1. /\ Tail(q) \in Seq(0..a) /\ Len(Tail(q)) = Len(q) - 1
        /\ \A i \in 1..Len(Tail(q)) : Tail(q)[i] = q[i + 1]
    BY HeadTailProperties
  <1>2. /\ DOMAIN q = 1..Len(q) /\ Len(q) \in Nat
        /\ DOMAIN Tail(q) = 1..Len(Tail(q))
    BY <1>1, LenProperties
  <1>3. ASSUME NEW i \in DOMAIN Tail(q), Tail(q)[i] # Stop
        PROVE  i + (n + 1) \in DOMAIN s /\ Tail(q)[i] = s[i + (n + 1)]
    <2>0. i \in 1..(Len(q) - 1) /\ i \in 1..Len(Tail(q))
      BY <1>1, <1>2
    <2>1. i + 1 \in DOMAIN q /\ Tail(q)[i] = q[i + 1]
      <3>1. \A y \in Nat : \A j \in 1..(y - 1) : j + 1 \in 1..y
        OBVIOUS
      <3>2. i + 1 \in 1..Len(q)
        BY Zenon, <3>1, <2>0, <1>2
      <3> QED
        BY <3>2, <2>0, <1>1, <1>2, Zenon
    <2>2. (i + 1) + n \in DOMAIN s /\ q[i + 1] = s[(i + 1) + n]
      BY <2>1, <1>3 DEF Drawn
    <2>3. (i + 1) + n = i + (n + 1)
      BY <2>0
    <2> QED
      BY <2>1, <2>2, <2>3
  <1>4. Drawn(s, Tail(q), n + 1)
    BY Zenon, <1>3 DEF Drawn
  <1>5. ToSet(q) = {Head(q)} \cup ToSet(Tail(q)) /\ Head(q) \in 0..a
    BY ItemsOfTail
  <1> QED
    BY <1>1, <1>2, <1>4, <1>5

LEMMA DrawnStop ==
  ASSUME NEW a \in Nat, NEW s \in Seq(0..a), NEW q \in Seq(0..a), NEW n \in Nat,
         Drawn(s, q, n)
  PROVE  /\ Append(q, Stop) \in Seq(0..a) /\ Len(Append(q, Stop)) = Len(q) + 1
         /\ Drawn(s, Append(q, Stop), n)
         /\ ToSet(Append(q, Stop)) = ToSet(q) \cup {Stop}
  <1>0. Stop \in 0..a
    BY DEF Stop
  <1>1. /\ Append(q, Stop) \in Seq(0..a) /\ Len(Append(q, Stop)) = Len(q) + 1
        /\ \A i \in 1..Len(q) : Append(q, Stop)[i] = q[i]
        /\ Append(q, Stop)[Len(q) + 1] = Stop
    BY <1>0, AppendProperties
  <1>2. DOMAIN Append(q, Stop) = 1..(Len(q) + 1) /\ DOMAIN q = 1..Len(q) /\ Len(q) \in Nat
    BY <1>1, LenProperties
  <1>3. Drawn(s, Append(q, Stop), n)
    <2> SUFFICES ASSUME NEW i \in 1..(Len(q) + 1), Append(q, Stop)[i] # Stop
                 PROVE  i + n \in DOMAIN s /\ Append(q, Stop)[i] = s[i + n]
      BY Zenon, <1>2 DEF Drawn
    <2>1. i \in 1..Len(q)
      BY <1>1, <1>2
    <2> QED
      BY Zenon, <2>1, <1>1, <1>2 DEF Drawn
  <1>4. ToSet(Append(q, Stop)) = ToSet(q) \cup {Stop}
    BY <1>0, ItemsAppended
  <1> QED
    BY <1>1, <1>3, <1>4

\* What a task takes from its queue, and what it leaves there.
Takes(a, t, n, pc, batch, q, d) ==
  LET k == tasks[t].kind
  IN /\ batch = tasks[t].batch \o SubSeq(queue[k], 1, n)
     /\ \A i \in 1..n : queue[k][i] # Stop
     /\ Drawn(queue[k], q, d) /\ d \in {n, n + 1}
     /\ \A j \in 1..Len(queue[k]) :
          j > n => queue[k][j] = Stop \/ queue[k][j] \in ToSet(q)
     /\ Stop \in ToSet(q) => Stop \in ToSet(queue[k])
     /\ pc = "done" => Stop \in ToSet(queue[k])
     /\ pc = "done" <=> batch = <<>>
     /\ Len(q) <= Len(queue[k]) /\ queue' = [queue EXCEPT ![k] = q]
     /\ open' \in [Kinds -> Int]
     /\ open'[k] - Len(q) = (open[k] - Len(queue[k])) + n
     /\ \A j \in Kinds : j # k => open'[j] = open[j]
     /\ OnlyTask(a, t, pc, batch, {})

LEMMA CollectEffect ==
  ASSUME Typed, NEW t \in 1..Len(tasks), Collect(t)
  PROVE  \E n \in 0..Len(queue[tasks[t].kind]), pc \in {"gather", "write", "done"},
            batch \in Seq(1..accepted), q \in Seq(0..accepted), d \in Nat :
           Takes(accepted, t, n, pc, batch, q, d)
  <1> DEFINE a == accepted
             k == tasks[t].kind
             items == queue[k]
             full == BatchSize - Len(tasks[t].batch)
  <1>1. /\ a \in Nat /\ tasks \in Seq(TaskOf(a)) /\ tasks[t] \in TaskOf(a)
        /\ k \in Kinds /\ tasks[t].batch \in Seq(1..a)
    <2>1. a \in Nat /\ tasks \in Seq(TaskOf(a))
      BY EventWriterAssumption DEF Typed
    <2>2. tasks[t] \in TaskOf(a)
      BY <2>1, LenProperties
    <2> QED
      BY <2>1, <2>2 DEF TaskOf
  <1>2. /\ queue \in [Kinds -> Seq(0..a)] /\ open \in [Kinds -> Int]
        /\ items \in Seq(0..a) /\ Len(items) \in Nat
    <2>1. queue \in [Kinds -> Seq(0..a)] /\ open \in [Kinds -> Int]
      BY Zenon DEF Typed, Queues, StoreOf, Now
    <2> QED
      BY <2>1, <1>1, LenProperties
  <1>3. PICK n \in 0..Len(items) :
          /\ items # <<>> /\ n <= full
          /\ \A i \in 1..n : items[i] # Stop
          /\ LET rest == SubSeq(items, n + 1, Len(items))
                 batch == tasks[t].batch \o SubSeq(items, 1, n)
             IN \/ /\ n = full \/ rest = <<>>
                   /\ queue' = [queue EXCEPT ![k] = rest]
                   /\ open' = open
                   /\ Becomes(t, IF n = full THEN "write" ELSE "gather", batch)
                \/ /\ n < full /\ rest # <<>> /\ Head(rest) = Stop
                   /\ batch = <<>>
                   /\ queue' = [queue EXCEPT ![k] = Tail(rest)]
                   /\ open' = [open EXCEPT ![k] = @ - 1]
                   /\ Becomes(t, "done", batch)
                \/ /\ n < full /\ rest # <<>> /\ Head(rest) = Stop
                   /\ batch # <<>>
                   /\ queue' = [queue EXCEPT ![k] = Append(Tail(rest), Stop)]
                   /\ open' = open
                   /\ Becomes(t, "write", batch)
    BY Zenon DEF Collect
  <1> DEFINE rest == SubSeq(items, n + 1, Len(items))
             first == SubSeq(items, 1, n)
             batch == tasks[t].batch \o first
  <1>4. /\ rest \in Seq(0..a) /\ Len(rest) = Len(items) - n /\ Drawn(items, rest, n)
        /\ \A j \in 1..Len(items) : j > n => items[j] \in ToSet(rest)
        /\ ToSet(rest) \subseteq ToSet(items)
    BY Zenon, <1>1, <1>2, DrawnSuffix
  <1>5. first \in Seq(1..a) /\ Len(first) = n
    <2>1. \A i \in 1..n : items[i] \in 1..a
      <3>1. \A i \in 1..Len(items) : items[i] \in 0..a
        BY Zenon, <1>2, LenProperties
      <3>2. \A i \in 1..n : i \in 1..Len(items)
        BY <1>2
      <3> SUFFICES ASSUME NEW i \in 1..n PROVE items[i] \in 1..a
        OBVIOUS
      <3> DEFINE y == items[i]
      <3>3. y \in 0..a /\ y # Stop
        BY Zenon, <3>1, <3>2, <1>3
      <3> HIDE DEF y
      <3>4. y \in 1..a
        BY <3>3, <1>1 DEF Stop
      <3> QED
        BY <3>4 DEF y
    <2>2. /\ first \in Seq(1..a)
          /\ Len(first) = IF 1 <= n THEN n - 1 + 1 ELSE 0
      BY <2>1, SubSeqProperties
    <2> QED
      BY <2>2
  <1>6. /\ batch \in Seq(1..a) /\ Len(batch) = Len(tasks[t].batch) + n
        /\ Len(tasks[t].batch) \in Nat
    <2> DEFINE old == tasks[t].batch
    <2>1. old \in Seq(1..a)
      BY Zenon, <1>1
    <2> HIDE DEF first, old
    <2>2. old \o first \in Seq(1..a) /\ Len(old \o first) = Len(old) + Len(first)
      BY Zenon, <2>1, <1>5, ConcatProperties
    <2>3. Len(old) \in Nat
      BY Zenon, <2>1, LenProperties
    <2> QED
      BY Zenon, <2>2, <2>3, <1>5 DEF old
  <1>7. /\ \A i \in 1..n : items[i] # Stop
        /\ n \in Nat /\ n + 1 \in Nat /\ Len(rest) \in Nat /\ Len(rest) <= Len(items)
        /\ n = Len(items) - Len(rest)
    <2>1. Len(rest) \in Nat
      BY <1>4, LenProperties
    <2>2. \A x, y \in Nat : \A z \in 0..x :
            y = x - z => z \in Nat /\ z + 1 \in Nat /\ y <= x /\ z = x - y
      OBVIOUS
    <2>3. n \in Nat /\ n + 1 \in Nat /\ Len(rest) <= Len(items) /\ n = Len(items) - Len(rest)
      BY <2>1, <2>2, <1>2, <1>4, Zenon
    <2> QED
      BY <1>3, <2>1, <2>3, Zenon
  <1> HIDE DEF rest, first, full
  <1>8. ASSUME NEW pc \in {"gather", "write"}, Becomes(t, pc, batch), open' = open,
               queue' = [queue EXCEPT ![k] = rest]
        PROVE  batch # <<>> => Takes(a, t, n, pc, batch, rest, n)
    <2>1. OnlyTask(a, t, pc, batch, {})
      BY Zenon, <1>1, <1>6, <1>8, BecomesChange DEF Waiting
    <2>2. open[k] - Len(rest) = (open[k] - Len(items)) + n
      <3>1. \A x, y \in Int : x - (y - n) = (x - y) + n
        OBVIOUS
      <3> QED
        BY <3>1, <1>1, <1>2, <1>4
    <2>3. pc # "done" /\ Len(rest) <= Len(items) /\ n \in {n, n + 1}
      BY <1>7
    <2> QED
      BY Zenon, <2>1, <2>2, <2>3, <1>1, <1>2, <1>4, <1>7, <1>8 DEF Takes, first
  <1>9. ASSUME rest # <<>>, Head(rest) = Stop, batch = <<>>, Becomes(t, "done", batch),
               open' = [open EXCEPT ![k] = @ - 1],
               queue' = [queue EXCEPT ![k] = Tail(rest)]
        PROVE  Takes(a, t, n, "done", batch, Tail(rest), n + 1)
    <2>1. OnlyTask(a, t, "done", batch, {})
      BY Zenon, <1>1, <1>6, <1>9, BecomesChange DEF Finished
    <2>2. /\ Len(Tail(rest)) = Len(rest) - 1
          /\ Drawn(items, Tail(rest), n + 1)
          /\ ToSet(rest) = {Stop} \cup ToSet(Tail(rest))
      BY <1>1, <1>2, <1>4, <1>7, <1>9, DrawnTail, Zenon
    <2>3. n = 0
      <3>1. Len(batch) = 0
        BY <1>9
      <3> QED
        BY <3>1, <1>6
    <2>4. open'[k] - Len(Tail(rest)) = (open[k] - Len(items)) + n
      <3>1. \A x, y \in Int : (x - 1) - ((y - 0) - 1) = (x - y) + 0
        OBVIOUS
      <3>2. open'[k] = open[k] - 1
        BY <1>1, <1>2, <1>9
      <3>3. (open[k] - 1) - ((Len(items) - 0) - 1) = (open[k] - Len(items)) + 0
        BY <3>1, <1>1, <1>2
      <3> QED
        BY <3>2, <3>3, <2>2, <2>3, <1>4
    <2>5. open' \in [Kinds -> Int] /\ \A j \in Kinds : j # k => open'[j] = open[j]
      BY <1>1, <1>2, <1>9
    <2>6. Len(Tail(rest)) <= Len(items) /\ n + 1 \in {n, n + 1}
      <3>1. \A x, y \in Nat : x <= y => x - 1 <= y
        OBVIOUS
      <3> QED
        BY <3>1, <2>2, <1>7, <1>2, Zenon
    <2> QED
      BY Zenon, <2>1, <2>2, <2>4, <2>5, <2>6, <1>4, <1>7, <1>9 DEF Takes, first
  <1>10. ASSUME rest # <<>>, Head(rest) = Stop, batch # <<>>, Becomes(t, "write", batch), open' = open,
                queue' = [queue EXCEPT ![k] = Append(Tail(rest), Stop)]
         PROVE  Takes(a, t, n, "write", batch, Append(Tail(rest), Stop), n + 1)
    <2> DEFINE q == Append(Tail(rest), Stop)
    <2>1. OnlyTask(a, t, "write", batch, {})
      BY Zenon, <1>1, <1>6, <1>10, BecomesChange DEF Waiting
    <2>2. /\ Tail(rest) \in Seq(0..a) /\ Len(Tail(rest)) = Len(rest) - 1
          /\ Drawn(items, Tail(rest), n + 1)
          /\ ToSet(rest) = {Stop} \cup ToSet(Tail(rest))
      BY <1>1, <1>2, <1>4, <1>7, <1>10, DrawnTail, Zenon
    <2>3. /\ Len(q) = Len(Tail(rest)) + 1 /\ Drawn(items, q, n + 1)
          /\ ToSet(q) = ToSet(Tail(rest)) \cup {Stop}
      BY <2>2, <1>1, <1>2, <1>7, DrawnStop, Zenon
    <2> HIDE DEF q
    <2>4. Len(q) = Len(items) - n
      BY <2>2, <2>3, <1>2, <1>4, <1>7
    <2>5. open[k] - Len(q) = (open[k] - Len(items)) + n
      <3>1. \A x, y \in Int : x - (y - n) = (x - y) + n
        OBVIOUS
      <3> QED
        <4>1. open[k] \in Int /\ Len(items) \in Int
          BY <1>1, <1>2
        <4> QED
          BY <4>1, <3>1, <2>4, Zenon
    <2>6. Len(q) <= Len(items) /\ n + 1 \in {n, n + 1} /\ "write" # "done"
      BY <2>4, <1>2, <1>7
    <2>7. Stop \in ToSet(items)
      BY <2>2, <1>4
    <2>8. queue' = [queue EXCEPT ![k] = q]
      BY <1>10 DEF q
    <2>9. Takes(a, t, n, "write", batch, q, n + 1)
      BY Zenon, <2>1, <2>2, <2>3, <2>5, <2>6, <2>7, <2>8, <1>1, <1>2, <1>4, <1>7, <1>10
         DEF Takes, first
    <2> QED
      BY <2>9 DEF q
  <1>11. CASE /\ n = full \/ rest = <<>>
              /\ queue' = [queue EXCEPT ![k] = rest]
              /\ open' = open
              /\ Becomes(t, IF n = full THEN "write" ELSE "gather", batch)
    <2>1. PICK pc \in {"gather", "write"} : Becomes(t, pc, batch)
      BY <1>11
    <2>2. batch # <<>>
      <3>1. n = full \/ Len(rest) = 0
        BY <1>11
      <3>2. CASE n = full
        <4>1. BatchSize \in Nat /\ BatchSize # 0
          BY EventWriterAssumption
        <4>2. \A x, y, z \in Nat : z = x - y => y + z = x
          OBVIOUS
        <4>3. Len(batch) = BatchSize
          BY <4>1, <4>2, <3>2, <1>6, <1>7, Zenon DEF full
        <4> QED
          BY <4>1, <4>3
      <3>3. CASE Len(rest) = 0
        <4>1. Len(items) # 0
          <5>1. items # <<>>
            BY <1>3
          <5> QED
            BY <5>1, <1>2, ItemsType
        <4>2. Len(batch) # 0
          <5>1. \A x, y, z \in Nat : x # 0 /\ z = 0 => y + (x - z) # 0
            OBVIOUS
          <5> QED
            BY <5>1, <4>1, <3>3, <1>2, <1>6, <1>7, Zenon
        <4> QED
          BY <4>2
      <3> QED
        BY <3>1, <3>2, <3>3
    <2>4. Takes(a, t, n, pc, batch, rest, n)
      BY <2>1, <2>2, <1>8, <1>11
    <2>3. n \in Nat /\ pc \in {"gather", "write", "done"}
      OBVIOUS
    <2> HIDE DEF batch, items
    <2> QED
      BY Zenon, <2>4, <2>3, <1>4, <1>6 DEF items
  <1>12. CASE /\ n < full /\ rest # <<>> /\ Head(rest) = Stop
              /\ batch = <<>>
              /\ queue' = [queue EXCEPT ![k] = Tail(rest)]
              /\ open' = [open EXCEPT ![k] = @ - 1]
              /\ Becomes(t, "done", batch)
    <2>1. Takes(a, t, n, "done", batch, Tail(rest), n + 1)
      BY <1>9, <1>12
    <2>2. Tail(rest) \in Seq(0..a) /\ n + 1 \in Nat
      BY <1>1, <1>2, <1>4, <1>12, DrawnTail
    <2> HIDE DEF batch
    <2> QED
      BY Zenon, <2>1, <2>2, <1>6
  <1>13. CASE /\ n < full /\ rest # <<>> /\ Head(rest) = Stop
              /\ batch # <<>>
              /\ queue' = [queue EXCEPT ![k] = Append(Tail(rest), Stop)]
              /\ open' = open
              /\ Becomes(t, "write", batch)
    <2>1. Takes(a, t, n, "write", batch, Append(Tail(rest), Stop), n + 1)
      BY <1>10, <1>13
    <2>2. Tail(rest) \in Seq(0..a) /\ n + 1 \in Nat /\ Drawn(items, Tail(rest), n + 1)
      BY <1>1, <1>2, <1>4, <1>13, DrawnTail
    <2>3. Append(Tail(rest), Stop) \in Seq(0..a)
      BY Zenon, <2>2, <1>1, <1>2, <1>7, DrawnStop
    <2> HIDE DEF batch
    <2> QED
      BY Zenon, <2>1, <2>2, <2>3, <1>6
  <1> QED
    BY <1>3, <1>11, <1>12, <1>13, Zenon DEF rest, first, full

-----------------------------------------------------------------------------
(* What a step of a task does.                                             *)

LEMMA AtQueues ==
  ASSUME Sorted
  PROVE  /\ accepted \in Nat /\ accepted \in 0..MaxEvents /\ Queues(accepted, Now)
         /\ Now \in StoreOf(accepted) /\ \A k \in Kinds : Slack(Now, k) \in Int
         /\ queue \in [Kinds -> Seq(0..accepted)] /\ open \in [Kinds -> Int]
         /\ dropped \in SUBSET (1..accepted)
         /\ Now.queue = queue /\ Now.open = open /\ Now.dropped = dropped
         /\ log \in Seq(1..accepted) /\ stored \in SUBSET (1..accepted)
         /\ failed \in SUBSET (1..accepted) /\ faults \in 0..MaxFaults
  <1>1. accepted \in Nat
    BY EventWriterAssumption DEF Sorted, Typed
  <1>2. Queues(accepted, Now) /\ Now \in StoreOf(accepted)
    BY DEF Sorted, Typed, Queues
  <1>3. /\ queue \in [Kinds -> Seq(0..accepted)] /\ open \in [Kinds -> Int]
        /\ dropped \in SUBSET (1..accepted)
    BY <1>2 DEF StoreOf, Now
  <1>4. \A k \in Kinds : Slack(Now, k) \in Int
    BY <1>1, <1>2, SlackType
  <1> QED
    BY <1>1, <1>2, <1>3, <1>4 DEF Sorted, Typed, Now

LEMMA AtTask ==
  ASSUME Sorted, NEW t \in 1..Len(tasks)
  PROVE  /\ tasks \in Seq(TaskOf(accepted)) /\ Len(tasks) \in Nat
         /\ DOMAIN tasks = 1..Len(tasks)
         /\ tasks[t] \in TaskOf(accepted) /\ tasks[t].kind \in Kinds
         /\ tasks[t].batch \in Seq(1..accepted) /\ Len(tasks[t].batch) \in Nat
         /\ tasks[t].lines \in SUBSET (1..accepted)
         /\ ToSet(tasks[t].batch) \in SUBSET (1..accepted)
         /\ Role(tasks[t])
  <1>1. tasks \in Seq(TaskOf(accepted))
    BY DEF Sorted, Typed
  <1>2. /\ tasks[t] \in TaskOf(accepted) /\ Len(tasks) \in Nat
        /\ DOMAIN tasks = 1..Len(tasks)
    BY <1>1, LenProperties
  <1>3. /\ tasks[t].kind \in Kinds /\ tasks[t].batch \in Seq(1..accepted)
        /\ tasks[t].lines \in SUBSET (1..accepted)
    BY <1>2 DEF TaskOf
  <1>4. Len(tasks[t].batch) \in Nat /\ ToSet(tasks[t].batch) \subseteq 1..accepted
    BY Zenon, <1>3, ItemsType
  <1> QED
    BY <1>1, <1>2, <1>3, <1>4 DEF Sorted, Roles

LEMMA BecomeNow ==
  ASSUME NEW a, NEW s \in StoreOf(a), Become(s)
  PROVE  Now' = s
  <1>1. s = [queue |-> s.queue, open |-> s.open, dropped |-> s.dropped]
    BY DEF StoreOf
  <1> QED
    BY <1>1 DEF Become, Now

LEMMA FaultType ==
  ASSUME Sorted, Fault
  PROVE  faults' \in 0..MaxFaults
  BY EventWriterAssumption DEF Fault, Sorted, Typed

\* A store whose unmarked items became fewer by those that t gave up.
Gives(t, pc, batch, lines) ==
  /\ OnlyTask(accepted, t, pc, batch, lines)
  /\ Queues(accepted, Now')
  /\ Slack(Now', tasks[t].kind) - Slack(Now, tasks[t].kind)
       >= Len(batch) - Len(tasks[t].batch)
  /\ \A k \in Kinds : k # tasks[t].kind => Slack(Now', k) >= Slack(Now, k)

LEMMA GivesSorted ==
  ASSUME Sorted, NEW t \in 1..Len(tasks), NEW pc \in Waiting \cup Finished,
         NEW batch \in Seq(1..accepted), NEW lines \in SUBSET (1..accepted),
         Gives(t, pc, batch, lines),
         pc \in {"retry", "last"} => tasks[t].kind = "safe",
         pc = "dying" => batch = <<>>,
         pc \in {"gather", "write", "retry"} => batch # <<>>,
         UNCHANGED <<current, running, call, accepted>>,
         log' \in Seq(1..accepted),
         stored' \in SUBSET (1..accepted), failed' \in SUBSET (1..accepted),
         faults' \in 0..MaxFaults
  PROVE  Sorted'
  BY Zenon, TaskMoves DEF Gives

\* The task keeps its batch and the queues are what they were.
LEMMA GivesNothing ==
  ASSUME Sorted, NEW t \in 1..Len(tasks), NEW pc \in Waiting \cup Finished,
         Becomes(t, pc, tasks[t].batch), UNCHANGED queues
  PROVE  Gives(t, pc, tasks[t].batch, {})
  <1>1. OnlyTask(accepted, t, pc, tasks[t].batch, {})
    BY AtQueues, AtTask, BecomesChange
  <1>2. Now' = Now
    BY DEF Now, queues
  <1>3. \A k \in Kinds : Slack(Now', k) = Slack(Now, k) /\ Slack(Now, k) \in Int
    BY <1>2, AtQueues
  <1>4. \A x \in Int, y \in Nat : x - x >= y - y /\ x >= x
    OBVIOUS
  <1>5. Slack(Now', tasks[t].kind) - Slack(Now, tasks[t].kind)
          >= Len(tasks[t].batch) - Len(tasks[t].batch)
    BY <1>3, <1>4, AtTask
  <1>6. \A k \in Kinds : k # tasks[t].kind => Slack(Now', k) >= Slack(Now, k)
    BY <1>3, <1>4
  <1> QED
    BY <1>1, <1>2, <1>5, <1>6, AtQueues DEF Gives

\* The task marks its batch and has none.
LEMMA GivesBatch ==
  ASSUME Sorted, NEW t \in 1..Len(tasks), NEW pc \in Waiting \cup Finished,
         NEW lines \in SUBSET (1..accepted),
         OnlyTask(accepted, t, pc, <<>>, lines), Queues(accepted, Now'),
         Slack(Now', tasks[t].kind)
           \in {Slack(Now, tasks[t].kind),
                Slack(Now, tasks[t].kind) - Len(tasks[t].batch)},
         \A k \in Kinds : k # tasks[t].kind => Slack(Now', k) = Slack(Now, k)
  PROVE  Gives(t, pc, <<>>, lines)
  <1>1. \A k \in Kinds : Slack(Now, k) \in Int
    BY AtQueues
  <1>2. \A x \in Int : \A y \in Nat : x - x >= 0 - y /\ (x - y) - x >= 0 - y /\ x >= x
    OBVIOUS
  <1>3. Len(tasks[t].batch) \in Nat /\ tasks[t].kind \in Kinds
    BY AtTask
  <1>4. Slack(Now', tasks[t].kind) - Slack(Now, tasks[t].kind)
          >= 0 - Len(tasks[t].batch)
    <2> DEFINE m == Slack(Now, tasks[t].kind)
               y == Len(tasks[t].batch)
               x == Slack(Now', tasks[t].kind)
    <2>1. m \in Int /\ y \in Nat /\ (x = m \/ x = m - y)
      BY <1>1, <1>3
    <2> HIDE DEF m, y, x
    <2>2. x - m >= 0 - y
      BY <2>1, <1>2
    <2> QED
      BY <2>2 DEF m, y, x
  <1>5. \A k \in Kinds : k # tasks[t].kind => Slack(Now', k) >= Slack(Now, k)
    BY <1>1, <1>2
  <1>6. Len(<<>>) = 0
    OBVIOUS
  <1> QED
    BY <1>4, <1>5, <1>6 DEF Gives

LEMMA FlushTimerEffect ==
  ASSUME Sorted, NEW t \in 1..Len(tasks), FlushTimer(t)
  PROVE  Sorted' /\ OnlyTask(accepted, t, "write", tasks[t].batch, {})
  <1>1. /\ tasks[t].pc = "gather" /\ Becomes(t, "write", tasks[t].batch)
        /\ UNCHANGED queues
        /\ UNCHANGED <<current, running, log, stored, failed, call, accepted, faults>>
    BY DEF FlushTimer, Live, Task
  <1>2. Gives(t, "write", tasks[t].batch, {})
    BY <1>1, GivesNothing DEF Waiting
  <1>3. tasks[t].batch # <<>> /\ tasks[t].batch \in Seq(1..accepted)
    BY <1>1, AtTask DEF Role
  <1>4. {} \in SUBSET (1..accepted) /\ "write" \in Waiting \cup Finished
    BY DEF Waiting
  <1>5. /\ log' \in Seq(1..accepted) /\ stored' \in SUBSET (1..accepted)
        /\ failed' \in SUBSET (1..accepted) /\ faults' \in 0..MaxFaults
    BY <1>1, AtQueues
  <1>6. Sorted'
    BY <1>1, <1>2, <1>3, <1>4, <1>5, GivesSorted
  <1> QED
    BY <1>2, <1>6 DEF Gives

LEMMA FirstItems ==
  ASSUME NEW S, NEW s \in Seq(S), NEW n \in 0..Len(s)
  PROVE  /\ SubSeq(s, 1, n) \in Seq(S) /\ Len(SubSeq(s, 1, n)) = n /\ n \in Nat
         /\ \A i \in 1..n : SubSeq(s, 1, n)[i] = s[i] /\ i \in 1..Len(s)
         /\ ToSet(SubSeq(s, 1, n)) \subseteq ToSet(s)
  <1> DEFINE f == SubSeq(s, 1, n)
  <1>1. /\ Len(s) \in Nat /\ DOMAIN s = 1..Len(s)
        /\ \A i \in 1..Len(s) : s[i] \in S
    BY LenProperties
  <1>2. n \in Nat /\ \A i \in 1..n : i \in 1..Len(s)
    BY <1>1
  <1>3. /\ f \in Seq(S) /\ Len(f) = IF 1 <= n THEN n - 1 + 1 ELSE 0
        /\ \A i \in 1..(n - 1 + 1) : f[i] = s[1 + i - 1]
    <2>1. 1 \in Int /\ n \in Int /\ \A i \in 1..n : s[i] \in S
      BY <1>1, <1>2
    <2> QED
      BY <2>1, SubSeqProperties
  <1> HIDE DEF f
  <1>4. Len(f) = n
    BY <1>2, <1>3
  <1>5. \A i \in 1..n : f[i] = s[i]
    <2> SUFFICES ASSUME NEW i \in 1..n PROVE f[i] = s[i]
      OBVIOUS
    <2>1. i \in 1..(n - 1 + 1) /\ 1 + i - 1 = i
      BY <1>2
    <2> QED
      BY <2>1, <1>3
  <1>6. DOMAIN f = 1..n
    BY <1>3, <1>4, LenProperties
  <1>7. ToSet(f) \subseteq ToSet(s)
    BY <1>1, <1>2, <1>5, <1>6 DEF ToSet
  <1> QED
    BY <1>2, <1>3, <1>4, <1>5, <1>7 DEF f

\* s is the store after the batch of t was marked.
Marked(t, k, s) ==
  /\ s \in StoreOf(accepted) /\ Queues(accepted, s)
  /\ s.queue["main"] = queue["main"]
  /\ Slack(s, k) = Slack(Now, k) - Len(tasks[t].batch)
  /\ \A j \in Kinds : j # k => Slack(s, j) = Slack(Now, j)

LEMMA MarkedBatch ==
  ASSUME Sorted, NEW t \in 1..Len(tasks), NEW k \in Kinds
  PROVE  LET s == Done(Now, k, Len(tasks[t].batch))
         IN Marked(t, k, s) /\ s.queue = queue /\ s.dropped = dropped
  <1> DEFINE s == Done(Now, k, Len(tasks[t].batch))
             a == accepted
             n == Len(tasks[t].batch)
  <1>1. a \in Nat /\ Now \in StoreOf(a) /\ n \in Nat /\ Queues(a, Now)
    BY AtQueues, AtTask
  <1>2. IsDone(a, Now, k, n, s)
    <2> HIDE DEF n
    <2> QED
      BY <1>1, DoneEffect DEF n
  <1> HIDE DEF s
  <1>3. Queues(a, s) /\ s.queue = queue /\ s.dropped = dropped
    BY <1>1, <1>2, AtQueues DEF IsDone, Queues
  <1> QED
    BY <1>2, <1>3 DEF IsDone, Marked, s

LEMMA SpilledBatch ==
  ASSUME Sorted, NEW t \in 1..Len(tasks)
  PROVE  LET s == Done(SpillLines(Now, tasks[t].batch), "main",
                       Len(tasks[t].batch))
         IN Marked(t, "main", s) /\ Carried(s) = Carried(Now) \cup ToSet(tasks[t].batch)
  <1> DEFINE a == accepted
             batch == tasks[t].batch
             n == Len(tasks[t].batch)
             r == SpillLines(Now, batch)
             s == Done(r, "main", n)
  <1>1. /\ a \in Nat /\ Now \in StoreOf(a) /\ n \in Nat /\ Queues(a, Now)
        /\ batch \in Seq(1..a) /\ "main" \in Kinds
    BY Zenon, AtQueues, AtTask DEF Kinds
  <1> HIDE DEF n, batch
  <1>2. Spilled(a, Now, r, ToSet(batch))
    BY <1>1, SpillAll DEF Queues
  <1> HIDE DEF r
  <1>3. r \in StoreOf(a)
    BY <1>2 DEF Spilled
  <1>4. IsDone(a, r, "main", n, s)
    BY <1>1, <1>3, DoneEffect
  <1> HIDE DEF s
  <1>5. r.queue["main"] = Now.queue["main"] /\ r.open["main"] = Now.open["main"]
    BY <1>2 DEF Spilled
  <1>6. s.queue["main"] = queue["main"]
    BY <1>5, <1>4, AtQueues DEF IsDone
  <1>7. Slack(r, "main") = Slack(Now, "main")
    BY <1>5 DEF Slack
  <1>8. s \in StoreOf(a) /\ Queues(a, s)
    BY <1>1, <1>2, <1>4, <1>5 DEF Queues, IsDone, Spilled
  <1>9. Carried(s) = Carried(Now) \cup ToSet(batch)
    BY <1>2, <1>4 DEF IsDone, Spilled, Carried
  <1>10. \A j \in Kinds : j # "main" => Slack(s, j) = Slack(Now, j)
    BY <1>2, <1>4 DEF Kinds, IsDone, Spilled
  <1>11. Slack(s, "main") = Slack(Now, "main") - n
    BY <1>4, <1>7 DEF IsDone
  <1>12. Marked(t, "main", s)
    BY <1>6, <1>8, <1>10, <1>11 DEF Marked, n
  <1> QED
    BY <1>9, <1>12 DEF s, r, n, batch

\* A task that marks its batch and goes on, or ends, without one.
LEMMA MarkedSorted ==
  ASSUME Sorted, NEW t \in 1..Len(tasks), NEW pc \in {"get", "failed"},
         Becomes(t, pc, <<>>), Marked(t, tasks[t].kind, Now'),
         UNCHANGED <<current, running, call, accepted>>,
         log' \in Seq(1..accepted),
         stored' \in SUBSET (1..accepted), failed' \in SUBSET (1..accepted),
         faults' \in 0..MaxFaults
  PROVE  Sorted' /\ OnlyTask(accepted, t, pc, <<>>, {})
  <1>1. pc \in Waiting \cup Finished /\ <<>> \in Seq(1..accepted)
        /\ {} \in SUBSET (1..accepted)
    BY DEF Waiting, Finished
  <1>2. OnlyTask(accepted, t, pc, <<>>, {})
    BY Zenon, <1>1, AtQueues, AtTask, BecomesChange
  <1>3. Gives(t, pc, <<>>, {})
    BY <1>1, <1>2, GivesBatch DEF Marked
  <1>4. Sorted'
    BY Zenon, <1>1, <1>3, GivesSorted
  <1> QED
    BY <1>2, <1>4

LEMMA LogWriteEffect ==
  ASSUME Sorted, NEW t \in 1..Len(tasks), LogWrite(t)
  PROVE  /\ Sorted' /\ OnlyTask(accepted, t, "get", <<>>, {})
         /\ tasks[t].kind = "main" /\ tasks[t].pc = "write"
         /\ queue' = queue /\ dropped' = dropped
         /\ log' = log \o tasks[t].batch
  <1>1. /\ tasks[t].kind = "main" /\ tasks[t].pc = "write"
        /\ log' = log \o tasks[t].batch
        /\ Become(Done(Now, "main", Len(tasks[t].batch)))
        /\ Becomes(t, "get", <<>>)
        /\ UNCHANGED <<current, running, stored, failed, call, accepted, faults>>
    BY DEF LogWrite, Live, Task, IsMain
  <1> DEFINE s == Done(Now, "main", Len(tasks[t].batch))
  <1>2. Marked(t, "main", s) /\ s.queue = queue /\ s.dropped = dropped
    BY MarkedBatch DEF Kinds
  <1> HIDE DEF s
  <1>3. Now' = s
    BY <1>1, <1>2, BecomeNow DEF Marked, s
  <1>4. queue' = queue /\ dropped' = dropped
    BY <1>2, <1>3 DEF Now
  <1>5. log' \in Seq(1..accepted)
    BY <1>1, AtQueues, AtTask, ConcatProperties
  <1>6. /\ stored' \in SUBSET (1..accepted)
        /\ failed' \in SUBSET (1..accepted) /\ faults' \in 0..MaxFaults
    BY <1>1, AtQueues
  <1>7. Marked(t, tasks[t].kind, Now')
    BY <1>1, <1>2, <1>3
  <1> QED
    BY Zenon, <1>1, <1>4, <1>5, <1>6, <1>7, MarkedSorted

LEMMA LogWriteFailsEffect ==
  ASSUME Sorted, NEW t \in 1..Len(tasks), LogWriteFails(t)
  PROVE  /\ Sorted' /\ OnlyTask(accepted, t, "get", <<>>, {})
         /\ tasks[t].kind = "main" /\ tasks[t].pc = "write"
         /\ queue'["main"] = queue["main"]
         /\ Carried(Now') = Carried(Now) \cup ToSet(tasks[t].batch)
         /\ \E n \in 0..Len(tasks[t].batch) :
              log' = log \o SubSeq(tasks[t].batch, 1, n)
         /\ UNCHANGED stored
  <1>1. /\ tasks[t].kind = "main" /\ tasks[t].pc = "write" /\ Fault
        /\ \E n \in 0..Len(tasks[t].batch) :
             log' = log \o SubSeq(tasks[t].batch, 1, n)
        /\ Become(Done(SpillLines(Now, tasks[t].batch), "main",
                       Len(tasks[t].batch)))
        /\ Becomes(t, "get", <<>>)
        /\ UNCHANGED <<current, running, stored, failed, call, accepted>>
    BY Zenon DEF LogWriteFails, Live, Task, IsMain
  <1> DEFINE s == Done(SpillLines(Now, tasks[t].batch), "main",
                       Len(tasks[t].batch))
  <1>2. Marked(t, "main", s) /\ Carried(s) = Carried(Now) \cup ToSet(tasks[t].batch)
    BY SpilledBatch
  <1> HIDE DEF s
  <1>3. Now' = s
    BY <1>1, <1>2, BecomeNow DEF Marked, s
  <1>4. queue'["main"] = queue["main"]
    BY <1>2, <1>3 DEF Now, Marked
  <1>5. log' \in Seq(1..accepted)
    <2>1. PICK n \in 0..Len(tasks[t].batch) :
            log' = log \o SubSeq(tasks[t].batch, 1, n)
      BY Zenon, <1>1
    <2>2. SubSeq(tasks[t].batch, 1, n) \in Seq(1..accepted)
      BY Zenon, AtTask, FirstItems
    <2> QED
      BY <2>1, <2>2, AtQueues, ConcatProperties
  <1>6. stored' \in SUBSET (1..accepted) /\ failed' \in SUBSET (1..accepted)
    BY <1>1, AtQueues
  <1>7. Marked(t, tasks[t].kind, Now') /\ faults' \in 0..MaxFaults
    BY <1>1, <1>2, <1>3, FaultType
  <1> QED
    BY Zenon, <1>1, <1>2, <1>3, <1>4, <1>5, <1>6, <1>7, MarkedSorted

LEMMA SafeWriteEffect ==
  ASSUME Sorted, NEW t \in 1..Len(tasks), SafeWrite(t)
  PROVE  /\ Sorted' /\ OnlyTask(accepted, t, "get", <<>>, {})
         /\ tasks[t].kind = "safe" /\ tasks[t].pc \in {"write", "retry"}
         /\ queue' = queue /\ dropped' = dropped /\ log' = log
         /\ stored' = stored \cup ToSet(tasks[t].batch)
  <1>1. /\ tasks[t].kind = "safe" /\ tasks[t].pc \in {"write", "retry"}
        /\ stored' = stored \cup ToSet(tasks[t].batch)
        /\ Become(Done(Now, "safe", Len(tasks[t].batch)))
        /\ Becomes(t, "get", <<>>)
        /\ UNCHANGED <<current, running, log, failed, call, accepted, faults>>
    BY AtTask DEF SafeWrite, Live, Task, IsMain, Kinds
  <1> DEFINE s == Done(Now, "safe", Len(tasks[t].batch))
  <1>2. Marked(t, "safe", s) /\ s.queue = queue /\ s.dropped = dropped
    BY MarkedBatch DEF Kinds
  <1> HIDE DEF s
  <1>3. Now' = s
    BY <1>1, <1>2, BecomeNow DEF Marked, s
  <1>4. queue' = queue /\ dropped' = dropped
    BY <1>2, <1>3 DEF Now
  <1>5. /\ log' \in Seq(1..accepted) /\ failed' \in SUBSET (1..accepted)
        /\ faults' \in 0..MaxFaults
    BY <1>1, AtQueues
  <1>6. stored' \in SUBSET (1..accepted)
    BY Zenon, <1>1, AtQueues, AtTask
  <1>7. Marked(t, tasks[t].kind, Now')
    BY <1>1, <1>2, <1>3
  <1> QED
    BY Zenon, <1>1, <1>4, <1>5, <1>6, <1>7, MarkedSorted

LEMMA SafeWriteFailsEffect ==
  ASSUME Sorted, NEW t \in 1..Len(tasks), SafeWriteFails(t)
  PROVE  /\ Sorted' /\ tasks[t].kind = "safe" /\ tasks[t].pc \in {"write", "retry"}
         /\ log' = log /\ stored' = stored /\ queue' = queue /\ dropped' = dropped
         /\ \/ OnlyTask(accepted, t, "retry", tasks[t].batch, {})
            \/ OnlyTask(accepted, t, "failed", <<>>, {})
  <1>1. /\ tasks[t].kind = "safe" /\ tasks[t].pc \in {"write", "retry"} /\ Fault
        /\ UNCHANGED <<current, running, log, stored, call, accepted>>
    BY AtTask DEF SafeWriteFails, Live, Task, IsMain, Kinds
  <1>2. /\ log' \in Seq(1..accepted) /\ stored' \in SUBSET (1..accepted)
        /\ faults' \in 0..MaxFaults
    BY <1>1, AtQueues, FaultType
  <1>3. CASE tasks[t].pc = "write"
    <2>1. Becomes(t, "retry", tasks[t].batch) /\ UNCHANGED <<queues, failed>>
      BY <1>3 DEF SafeWriteFails
    <2>2. Gives(t, "retry", tasks[t].batch, {})
      BY <2>1, GivesNothing DEF Waiting
    <2>3. tasks[t].batch # <<>> /\ tasks[t].batch \in Seq(1..accepted)
      BY <1>3, AtTask DEF Role
    <2>4. {} \in SUBSET (1..accepted) /\ "retry" \in Waiting \cup Finished
      BY DEF Waiting
    <2>5. failed' \in SUBSET (1..accepted)
      BY <2>1, AtQueues
    <2>6. Sorted'
      BY Zenon, <1>1, <1>2, <2>1, <2>2, <2>3, <2>4, <2>5, GivesSorted
    <2> QED
      BY <1>1, <2>1, <2>2, <2>6 DEF Gives, queues
  <1>4. CASE tasks[t].pc # "write"
    <2> DEFINE s == Done(Now, "safe", Len(tasks[t].batch))
    <2>1. /\ Becomes(t, "failed", <<>>) /\ Become(s)
          /\ failed' = failed \cup ToSet(tasks[t].batch)
      BY <1>4 DEF SafeWriteFails
    <2>2. Marked(t, "safe", s) /\ s.queue = queue /\ s.dropped = dropped
      BY MarkedBatch DEF Kinds
    <2> HIDE DEF s
    <2>3. Now' = s
      BY <2>1, <2>2, BecomeNow DEF Marked
    <2>4. queue' = queue /\ dropped' = dropped
      BY <2>2, <2>3 DEF Now
    <2>5. failed' \in SUBSET (1..accepted)
      BY <2>1, AtQueues, AtTask
    <2>6. Marked(t, tasks[t].kind, Now')
      BY <1>1, <2>2, <2>3
    <2> QED
      BY <1>1, <1>2, <2>1, <2>4, <2>5, <2>6, MarkedSorted
  <1> QED
    BY <1>3, <1>4

LEMMA CollectSorted ==
  ASSUME Sorted, NEW t \in 1..Len(tasks), Collect(t)
  PROVE  /\ Sorted'
         /\ UNCHANGED <<dropped, current, running, log, stored, failed, call, accepted>>
         /\ \E n \in 0..Len(queue[tasks[t].kind]), pc \in {"gather", "write", "done"},
               batch \in Seq(1..accepted), q \in Seq(0..accepted), d \in Nat :
              Takes(accepted, t, n, pc, batch, q, d)
  <1> DEFINE a == accepted
             k == tasks[t].kind
  <1>1. PICK n \in 0..Len(queue[k]), pc \in {"gather", "write", "done"},
             batch \in Seq(1..a), q \in Seq(0..a), d \in Nat :
          Takes(a, t, n, pc, batch, q, d)
    BY CollectEffect DEF Sorted
  <1>2. UNCHANGED <<dropped, current, running, log, stored, failed, call, accepted, faults>>
    BY DEF Collect
  <1>3. /\ OnlyTask(a, t, pc, batch, {}) /\ open' \in [Kinds -> Int]
        /\ queue' = [queue EXCEPT ![k] = q] /\ Len(q) <= Len(queue[k])
        /\ open'[k] - Len(q) = (open[k] - Len(queue[k])) + n
        /\ \A j \in Kinds : j # k => open'[j] = open[j]
        /\ batch = tasks[t].batch \o SubSeq(queue[k], 1, n)
        /\ pc = "done" <=> batch = <<>>
    BY Zenon, <1>1 DEF Takes
  <1>4. /\ k \in Kinds /\ tasks[t].batch \in Seq(1..a) /\ Len(tasks[t].batch) \in Nat
        /\ queue[k] \in Seq(0..a) /\ queue \in [Kinds -> Seq(0..a)] /\ a \in Nat
        /\ Len(queue[k]) \in Nat /\ Len(q) \in Nat /\ open \in [Kinds -> Int]
    BY Zenon, AtTask, AtQueues, LenProperties
  <1>5. /\ queue' \in [Kinds -> Seq(0..a)] /\ queue'[k] = q
        /\ \A j \in Kinds : j # k => queue'[j] = queue[j]
    BY <1>3, <1>4
  <1>6. Queues(a, Now')
    <2>1. Now' = [queue |-> queue', open |-> open', dropped |-> dropped']
      BY DEF Now
    <2>2. dropped' \in SUBSET (1..a)
      BY <1>2, AtQueues
    <2>3. Now' \in StoreOf(a)
      BY <2>1, <2>2, <1>3, <1>5 DEF StoreOf
    <2>4. Len(queue["main"]) <= QueueSize /\ Len(queue["safe"]) <= SafeSize
      BY Zenon, AtQueues DEF Queues
    <2>5. QueueSize \in Nat /\ SafeSize \in Nat
      BY EventWriterAssumption
    <2>6. \A x, y, z \in Nat : x <= y /\ y <= z => x <= z
      OBVIOUS
    <2>7. CASE k = "main"
      <3>1. Len(queue'["main"]) <= QueueSize /\ queue'["safe"] = queue["safe"]
        BY <2>7, <1>3, <1>4, <1>5, <2>4, <2>5, <2>6 DEF Kinds
      <3> QED
        BY <3>1, <2>1, <2>3, <2>4 DEF Queues
    <2>8. CASE k = "safe"
      <3>1. Len(queue'["safe"]) <= SafeSize /\ queue'["main"] = queue["main"]
        BY <2>8, <1>3, <1>4, <1>5, <2>4, <2>5, <2>6 DEF Kinds
      <3> QED
        BY <3>1, <2>1, <2>3, <2>4 DEF Queues
    <2> QED
      BY <2>7, <2>8, <1>4 DEF Kinds
  <1>7. Len(batch) = Len(tasks[t].batch) + n /\ n \in Nat
    <2> DEFINE s == queue[k]
               f == SubSeq(s, 1, n)
    <2>1. n \in 0..Len(s) /\ s \in Seq(0..a) /\ batch = tasks[t].batch \o f
      BY <1>3, <1>4
    <2> HIDE DEF s
    <2>2. f \in Seq(0..a) /\ Len(f) = n /\ n \in Nat
      BY Zenon, <2>1, FirstItems
    <2> HIDE DEF f
    <2>3. tasks[t].batch \in Seq(0..a)
      <3>1. 1..a \subseteq 0..a
        BY <1>4
      <3> QED
        BY <3>1, <1>4, SeqMonotonic
    <2> QED
      BY Zenon, <2>1, <2>2, <2>3, ConcatProperties
  <1>8. Slack(Now', k) = Slack(Now, k) + n
    BY <1>3, <1>5 DEF Slack, Now
  <1>9. Slack(Now', k) - Slack(Now, k) >= Len(batch) - Len(tasks[t].batch)
    <2>1. \A x \in Int : \A y, z \in Nat : (x + y) - x >= (z + y) - z
      OBVIOUS
    <2> QED
      BY Zenon, <2>1, <1>4, <1>7, <1>8, AtQueues
  <1>10. \A j \in Kinds : j # k => Slack(Now', j) >= Slack(Now, j)
    <2> SUFFICES ASSUME NEW j \in Kinds, j # k PROVE Slack(Now', j) >= Slack(Now, j)
      OBVIOUS
    <2>1. Slack(Now', j) = Slack(Now, j)
      BY Zenon, <1>3, <1>5 DEF Slack, Now
    <2> QED
      BY <2>1, AtQueues
  <1>11. Gives(t, pc, batch, {})
    BY <1>3, <1>6, <1>9, <1>10 DEF Gives
  <1>12. Sorted'
    <2>1. /\ pc \in Waiting \cup Finished /\ {} \in SUBSET (1..a)
          /\ pc \notin {"retry", "last", "dying"}
          /\ pc \in {"gather", "write", "retry"} => batch # <<>>
      BY Zenon, <1>3 DEF Waiting, Finished
    <2>2. /\ log' \in Seq(1..a) /\ stored' \in SUBSET (1..a)
          /\ failed' \in SUBSET (1..a) /\ faults' \in 0..MaxFaults
      BY Zenon, <1>2, AtQueues
    <2> QED
      BY Zenon, <2>1, <2>2, <1>2, <1>11, GivesSorted
  <1> QED
    BY <1>1, <1>2, <1>12

\* The end of a cancelled task: it has no batch, its lane of the main queue
\* went to the log, was spilled or is gone.
GivesUp(t) ==
  /\ \E pc \in Waiting \cup Finished, batch \in Seq(1..accepted),
        lines \in SUBSET (1..accepted) : OnlyTask(accepted, t, pc, batch, lines)
  /\ tasks[t].kind = "safe" => log' = log /\ queue'["main"] = queue["main"]
  /\ tasks[t].kind = "main" =>
       /\ tasks'[t].batch = <<>>
       /\ log' \in {log, log \o tasks[t].batch}
       /\ queue'["main"] \in {queue["main"], <<>>}

LEMMA EndCancelledEffect ==
  ASSUME Sorted, NEW t \in 1..Len(tasks), NEW s \in StoreOf(accepted),
         Queues(accepted, s), s.queue["main"] = queue["main"],
         EndCancelled(t, s)
  PROVE  /\ \E pc \in {"cancelled", "dying"}, lines \in SUBSET (1..accepted) :
              OnlyTask(accepted, t, pc, <<>>, lines)
         /\ Queues(accepted, Now') /\ \A j \in Kinds : Slack(Now', j) = Slack(s, j)
         /\ queue'["main"] = IF tasks[t].kind = "main" THEN <<>> ELSE queue["main"]
  <1> DEFINE a == accepted
             k == tasks[t].kind
             r == Drain(s, k)
             pending == Pending(s, k)
             pc == IF pending = {} THEN "cancelled" ELSE "dying"
  <1>1. /\ Become(r)
        /\ tasks' = [tasks EXCEPT ![t].pc = pc, ![t].batch = <<>>,
                                  ![t].lines = pending, ![t].cancel = FALSE]
    BY Zenon DEF EndCancelled
  <1>2. /\ a \in Nat /\ k \in Kinds /\ tasks \in Seq(TaskOf(a))
        /\ "main" \in Kinds /\ "safe" \in Kinds
    BY Zenon, AtQueues, AtTask DEF Kinds
  <1>3. pending \in SUBSET (1..a)
    <2> DEFINE q == s.queue[k]
    <2>1. q \in Seq(0..a) /\ pending = ToSet(q) \ {Stop}
      BY <1>2 DEF StoreOf, Pending
    <2> HIDE DEF q, pending
    <2>2. ToSet(q) \subseteq 0..a
      BY Zenon, <2>1, ItemsType
    <2> QED
      BY <2>1, <2>2, <1>2 DEF Stop
  <1>4. IsDrained(a, s, k, r)
    BY <1>2, DrainEffect
  <1> HIDE DEF pending, r
  <1>5. Now' = r
    <2>1. r \in StoreOf(a)
      BY <1>4 DEF IsDrained
    <2> QED
      BY <2>1, <1>1, BecomeNow, Zenon
  <1>6. pc \in {"cancelled", "dying"} /\ pc \in Waiting \cup Finished
        /\ <<>> \in Seq(1..a)
    BY DEF Waiting, Finished
  <1> HIDE DEF pc
  <1>7. OnlyTask(a, t, pc, <<>>, pending)
    BY <1>1, <1>2, <1>3, <1>6, TaskChange, Zenon
  <1>8. s.queue \in [Kinds -> Seq(0..a)]
    BY DEF StoreOf
  <1>9. r.queue = [s.queue EXCEPT ![k] = <<>>] /\ Len(<<>>) = 0
        /\ r.queue[k] = <<>> /\ \A j \in Kinds : j # k => r.queue[j] = s.queue[j]
    BY <1>2, <1>4, <1>8 DEF IsDrained
  <1>10. Queues(a, r)
    <2>1. Len(s.queue["main"]) <= QueueSize /\ Len(s.queue["safe"]) <= SafeSize
          /\ 0 <= QueueSize /\ 0 <= SafeSize
      BY EventWriterAssumption DEF Queues
    <2>2. Len(r.queue["main"]) <= QueueSize /\ Len(r.queue["safe"]) <= SafeSize
      BY <2>1, <1>2, <1>9
    <2> QED
      BY <2>2, <1>4 DEF IsDrained, Queues
  <1>11. queue'["main"] = IF k = "main" THEN <<>> ELSE queue["main"]
    BY Zenon, <1>2, <1>5, <1>9 DEF Now
  <1>12. \A j \in Kinds : Slack(Now', j) = Slack(s, j)
    BY <1>4, <1>5 DEF IsDrained
  <1> QED
    BY <1>3, <1>5, <1>6, <1>7, <1>10, <1>11, <1>12

LEMMA EndedSorted ==
  ASSUME Sorted, NEW t \in 1..Len(tasks), NEW s,
         s = Now \/ Marked(t, tasks[t].kind, s), EndCancelled(t, s),
         tasks[t].kind = "safe" => log' = log,
         tasks[t].kind = "main" => log' \in {log, log \o tasks[t].batch},
         UNCHANGED <<current, running, call, accepted>>,
         stored' \in SUBSET (1..accepted), failed' \in SUBSET (1..accepted),
         faults' \in 0..MaxFaults
  PROVE  Sorted' /\ GivesUp(t)
  <1>1. s \in StoreOf(accepted) /\ Queues(accepted, s) /\ s.queue["main"] = queue["main"]
    BY AtQueues DEF Marked
  <1>2. PICK pc \in {"cancelled", "dying"}, lines \in SUBSET (1..accepted) :
          OnlyTask(accepted, t, pc, <<>>, lines)
    BY <1>1, EndCancelledEffect
  <1>3. /\ Queues(accepted, Now') /\ \A j \in Kinds : Slack(Now', j) = Slack(s, j)
        /\ queue'["main"] = IF tasks[t].kind = "main" THEN <<>> ELSE queue["main"]
    BY <1>1, EndCancelledEffect
  <1>4. tasks[t].kind \in Kinds /\ tasks[t].batch \in Seq(1..accepted)
    BY AtTask
  <1>5. /\ Slack(Now', tasks[t].kind)
             \in {Slack(Now, tasks[t].kind),
                  Slack(Now, tasks[t].kind) - Len(tasks[t].batch)}
        /\ \A k \in Kinds : k # tasks[t].kind => Slack(Now', k) = Slack(Now, k)
    BY <1>3, <1>4 DEF Marked
  <1>6. pc \in Waiting \cup Finished /\ <<>> \in Seq(1..accepted)
        /\ pc \notin {"retry", "last", "gather", "write"}
    BY DEF Waiting, Finished
  <1>7. Gives(t, pc, <<>>, lines)
    BY <1>2, <1>3, <1>5, <1>6, GivesBatch
  <1>8. log' \in Seq(1..accepted)
    <2>1. log \in Seq(1..accepted) /\ log \o tasks[t].batch \in Seq(1..accepted)
      BY <1>4, AtQueues, ConcatProperties
    <2> QED
      BY Zenon, <2>1, <1>4 DEF Kinds
  <1>9. Sorted'
    BY Zenon, <1>6, <1>7, <1>8, GivesSorted
  <1>10. GivesUp(t)
    <2>1. tasks'[t].batch = <<>>
      BY <1>2 DEF OnlyTask
    <2> QED
      BY Zenon, <2>1, <1>2, <1>3, <1>6 DEF GivesUp
  <1> QED
    BY <1>9, <1>10

LEMMA CancelledEffect ==
  ASSUME Sorted, NEW t \in 1..Len(tasks), Cancelled(t)
  PROVE  Sorted' /\ GivesUp(t) /\ tasks[t].cancel
         /\ tasks[t].pc # "failed" /\ UNCHANGED <<call, accepted>>
  <1> DEFINE batch == tasks[t].batch
             kind == tasks[t].kind
             a == accepted
  <1>1. /\ tasks[t].pc \in Waiting /\ tasks[t].cancel
        /\ UNCHANGED <<current, running, failed, call, accepted, faults>>
    BY DEF Cancelled, Task
  <1>2. /\ kind \in Kinds /\ batch \in Seq(1..a) /\ tasks[t].lines \in SUBSET (1..a)
        /\ ToSet(batch) \in SUBSET (1..a) /\ Role(tasks[t])
    BY AtTask
  <1>3. /\ stored \in SUBSET (1..a) /\ log \in Seq(1..a)
        /\ failed' \in SUBSET (1..a) /\ faults' \in 0..MaxFaults
    BY <1>1, AtQueues
  <1>4. CASE /\ tasks[t].pc \in {"get", "gather"}
             /\ EndCancelled(t, Now) /\ UNCHANGED <<log, stored>>
    BY <1>1, <1>3, <1>4, EndedSorted DEF Waiting
  <1>5. CASE /\ tasks[t].pc = "write" /\ IsMain(t)
             /\ log' \in {log, log \o batch}
             /\ EndCancelled(t, Done(SpillLines(Now, batch), "main", Len(batch)))
             /\ UNCHANGED stored
    <2> DEFINE s == Done(SpillLines(Now, batch), "main", Len(batch))
    <2>1. Marked(t, kind, s) /\ kind = "main"
      BY <1>5, SpilledBatch DEF IsMain
    <2> HIDE DEF s
    <2>2. EndCancelled(t, s) /\ stored' \in SUBSET (1..a)
      BY <1>3, <1>5 DEF s
    <2> QED
      BY Zenon, <2>1, <2>2, <1>1, <1>3, <1>5, EndedSorted DEF Waiting
  <1>6. CASE /\ tasks[t].pc = "write" /\ ~IsMain(t)
             /\ stored' \in {stored, stored \cup ToSet(batch)}
             /\ Becomes(t, "last", batch)
             /\ UNCHANGED <<queues, log>>
    <2>1. Gives(t, "last", batch, {})
      BY <1>6, GivesNothing DEF Waiting
    <2>2. /\ "last" \in Waiting \cup Finished /\ {} \in SUBSET (1..a)
          /\ kind = "safe"
      BY <1>2, <1>6 DEF Waiting, Kinds, IsMain
    <2>3. stored' \in SUBSET (1..a) /\ log' \in Seq(1..a)
      BY <1>2, <1>3, <1>6
    <2>4. Sorted'
      BY Zenon, <1>1, <1>2, <1>3, <2>1, <2>2, <2>3, GivesSorted
    <2>5. OnlyTask(a, t, "last", batch, {})
      BY <2>1 DEF Gives
    <2>6. queue' = queue /\ log' = log
      BY <1>6 DEF queues
    <2>7. GivesUp(t)
      BY <1>2, <2>2, <2>5, <2>6 DEF GivesUp
    <2> QED
      BY <1>1, <1>6, <2>4, <2>7
  <1>7. CASE /\ tasks[t].pc \in {"retry", "last"}
             /\ stored' \in {stored, stored \cup ToSet(batch)}
             /\ EndCancelled(t, Done(Now, "safe", Len(batch)))
             /\ UNCHANGED log
    <2> DEFINE s == Done(Now, "safe", Len(batch))
    <2>1. Marked(t, "safe", s) /\ kind = "safe"
      BY <1>2, <1>7, MarkedBatch DEF Role, Kinds
    <2> HIDE DEF s
    <2>2. EndCancelled(t, s) /\ stored' \in SUBSET (1..a) /\ Marked(t, kind, s)
      BY <1>2, <1>3, <1>7, <2>1 DEF s
    <2> QED
      BY <2>1, <2>2, <1>1, <1>3, <1>7, EndedSorted
  <1>8. CASE /\ tasks[t].pc = "dying"
             /\ stored' \in {stored, stored \cup tasks[t].lines}
             /\ Becomes(t, "cancelled", <<>>)
             /\ UNCHANGED <<queues, log>>
    <2>1. batch = <<>>
      BY <1>2, <1>8 DEF Role
    <2>2. Gives(t, "cancelled", <<>>, {})
      BY Zenon, <1>8, <2>1, GivesNothing DEF Finished
    <2>3. /\ "cancelled" \in Waiting \cup Finished /\ {} \in SUBSET (1..a)
          /\ <<>> \in Seq(1..a)
      BY DEF Finished
    <2>4. stored' \in SUBSET (1..a) /\ log' \in Seq(1..a)
      BY <1>2, <1>3, <1>8
    <2>5. Sorted'
      BY Zenon, <1>1, <1>3, <2>2, <2>3, <2>4, GivesSorted
    <2>6. OnlyTask(a, t, "cancelled", <<>>, {}) /\ queue' = queue /\ log' = log
      BY <1>8, <2>2 DEF Gives, queues
    <2>7. tasks'[t].batch = <<>>
      BY <2>6 DEF OnlyTask
    <2>8. GivesUp(t)
      BY Zenon, <2>3, <2>6, <2>7 DEF GivesUp
    <2> QED
      BY <1>1, <1>8, <2>5, <2>8
  <1> QED
    BY <1>4, <1>5, <1>6, <1>7, <1>8 DEF Cancelled

LEMMA LastWriteEffect ==
  ASSUME Sorted, NEW t \in 1..Len(tasks), LastWrite(t)
  PROVE  Sorted' /\ GivesUp(t) /\ tasks[t].pc \in {"last", "dying"}
         /\ UNCHANGED <<call, accepted>>
  <1> DEFINE batch == tasks[t].batch
             kind == tasks[t].kind
             a == accepted
  <1>1. /\ tasks[t].pc \in {"last", "dying"}
        /\ stored' = stored \cup Unwritten(t)
        /\ UNCHANGED <<current, running, log, failed, call, accepted, faults>>
    BY DEF LastWrite, Live, Task
  <1>2. /\ kind \in Kinds /\ batch \in Seq(1..a) /\ tasks[t].lines \in SUBSET (1..a)
        /\ ToSet(batch) \in SUBSET (1..a) /\ Role(tasks[t])
    BY AtTask
  <1>3. /\ stored' \in SUBSET (1..a) /\ log' \in Seq(1..a)
        /\ failed' \in SUBSET (1..a) /\ faults' \in 0..MaxFaults
    <2>1. stored \in SUBSET (1..a) /\ Unwritten(t) \in SUBSET (1..a)
      BY Zenon, <1>2, AtQueues DEF Unwritten
    <2> QED
      BY Zenon, <2>1, <1>1, AtQueues
  <1>4. CASE tasks[t].pc = "last"
    <2> DEFINE s == Done(Now, "safe", Len(batch))
    <2>1. Marked(t, "safe", s) /\ kind = "safe" /\ EndCancelled(t, s)
      BY <1>2, <1>4, MarkedBatch DEF Role, Kinds, LastWrite
    <2> HIDE DEF s
    <2>2. Marked(t, kind, s)
      BY <2>1
    <2> QED
      BY <2>1, <2>2, <1>1, <1>3, EndedSorted
  <1>5. CASE tasks[t].pc = "dying"
    <2>1. Becomes(t, "cancelled", <<>>) /\ UNCHANGED queues
      BY <1>5 DEF LastWrite
    <2>2. batch = <<>>
      BY <1>2, <1>5 DEF Role
    <2>3. Gives(t, "cancelled", <<>>, {})
      BY Zenon, <2>1, <2>2, GivesNothing DEF Finished
    <2>4. /\ "cancelled" \in Waiting \cup Finished /\ {} \in SUBSET (1..a)
          /\ <<>> \in Seq(1..a)
      BY DEF Finished
    <2>5. Sorted'
      BY Zenon, <1>1, <1>3, <2>3, <2>4, GivesSorted
    <2>6. OnlyTask(a, t, "cancelled", <<>>, {}) /\ queue' = queue /\ log' = log
      BY <1>1, <2>1, <2>3 DEF Gives, queues
    <2>7. tasks'[t].batch = <<>>
      BY <2>6 DEF OnlyTask
    <2>8. GivesUp(t)
      BY Zenon, <2>4, <2>6, <2>7 DEF GivesUp
    <2> QED
      BY <1>1, <2>5, <2>8
  <1> QED
    BY <1>1, <1>4, <1>5

LEMMA LastWriteFailsEffect ==
  ASSUME Sorted, NEW t \in 1..Len(tasks), LastWriteFails(t)
  PROVE  Sorted' /\ GivesUp(t) /\ tasks[t].pc \in {"last", "dying"}
         /\ UNCHANGED <<call, accepted>>
  <1> DEFINE batch == tasks[t].batch
             kind == tasks[t].kind
             a == accepted
             s == Done(Now, "safe", Len(batch))
  <1>1. /\ tasks[t].pc \in {"last", "dying"} /\ Fault
        /\ failed' = failed \cup Unwritten(t)
        /\ Become(s) /\ Becomes(t, "failed", <<>>)
        /\ UNCHANGED <<current, running, log, stored, call, accepted>>
    BY DEF LastWriteFails, Live, Task
  <1>2. /\ kind \in Kinds /\ batch \in Seq(1..a) /\ tasks[t].lines \in SUBSET (1..a)
        /\ ToSet(batch) \in SUBSET (1..a) /\ Role(tasks[t])
    BY AtTask
  <1>3. /\ stored' \in SUBSET (1..a) /\ log' \in Seq(1..a)
        /\ failed' \in SUBSET (1..a) /\ faults' \in 0..MaxFaults
    <2>1. failed \in SUBSET (1..a) /\ Unwritten(t) \in SUBSET (1..a)
      BY Zenon, <1>2, AtQueues DEF Unwritten
    <2> QED
      BY Zenon, <2>1, <1>1, AtQueues, FaultType
  <1>4. Marked(t, "safe", s) /\ s.queue = queue
    BY MarkedBatch DEF Kinds
  <1> HIDE DEF s
  <1>5. Now' = s
    BY <1>1, <1>4, BecomeNow DEF Marked
  <1>6. queue' = queue
    BY <1>4, <1>5 DEF Now
  <1>7. kind = "main" => batch = <<>>
    BY <1>1, <1>2 DEF Role
  <1>8. Marked(t, kind, Now')
    <2>1. CASE kind = "safe"
      BY <2>1, <1>4, <1>5
    <2>2. CASE kind = "main"
      <3>1. Len(batch) = 0 /\ "main" \in Kinds /\ "safe" \in Kinds
        BY <2>2, <1>7 DEF Kinds
      <3>2. Slack(Now, "main") \in Int /\ Slack(Now, "safe") \in Int
        BY <3>1, AtQueues
      <3>3. \A x \in Int : x - 0 = x
        OBVIOUS
      <3>4. \A j \in Kinds : Slack(s, j) = Slack(Now, j)
        BY <3>1, <3>2, <3>3, <1>4 DEF Marked, Kinds
      <3>5. Slack(s, "main") = Slack(Now, "main") - Len(batch)
        BY <3>1, <3>2, <3>3, <3>4
      <3> QED
        BY <2>2, <3>4, <3>5, <1>4, <1>5 DEF Marked
    <2> QED
      BY <2>1, <2>2, <1>2 DEF Kinds
  <1>9. Sorted' /\ OnlyTask(a, t, "failed", <<>>, {})
    BY <1>1, <1>3, <1>8, MarkedSorted
  <1>10. GivesUp(t)
    <2>1. tasks'[t].batch = <<>> /\ log' = log
      BY <1>1, <1>9 DEF OnlyTask
    <2>2. "failed" \in Waiting \cup Finished /\ <<>> \in Seq(1..a) /\ {} \in SUBSET (1..a)
      BY DEF Finished
    <2> QED
      BY Zenon, <2>1, <2>2, <1>6, <1>9 DEF GivesUp
  <1> QED
    BY <1>1, <1>9, <1>10

LEMMA WritersSorted ==
  ASSUME Sorted, Writers
  PROVE  Sorted'
  <1>1. DOMAIN tasks = 1..Len(tasks)
    BY LenProperties DEF Sorted, Typed
  <1>2. PICK t \in 1..Len(tasks) :
          \/ Collect(t) \/ FlushTimer(t)
          \/ LogWrite(t) \/ LogWriteFails(t) \/ SafeWrite(t) \/ SafeWriteFails(t)
          \/ Cancelled(t) \/ LastWrite(t) \/ LastWriteFails(t)
    BY <1>1 DEF Writers
  <1> QED
    BY <1>2, CollectSorted, FlushTimerEffect, LogWriteEffect, LogWriteFailsEffect,
       SafeWriteEffect, SafeWriteFailsEffect, CancelledEffect, LastWriteEffect,
       LastWriteFailsEffect

-----------------------------------------------------------------------------
(* What a step of a call does.                                             *)

People == Callers \cup {"stop"}

LEMMA AtCall ==
  ASSUME Sorted, accepted <= accepted', accepted' \in 0..MaxEvents
  PROVE  /\ accepted' \in Nat /\ Now \in StoreOf(accepted') /\ Queues(accepted', Now)
         /\ tasks \in Seq(TaskOf(accepted)) /\ tasks \in Seq(TaskOf(accepted'))
         /\ Len(tasks) \in Nat /\ DOMAIN tasks = 1..Len(tasks)
         /\ \A m \in Nat : Len(tasks) <= m =>
              /\ CallOf(accepted, Len(tasks)) \subseteq CallOf(accepted', m)
              /\ call \in [People -> CallOf(accepted', m)]
         /\ call \in [People -> CallOf(accepted, Len(tasks))]
         /\ current \in [Kinds -> 0..Len(tasks)] /\ running \in BOOLEAN
         /\ stored \in SUBSET (1..accepted') /\ failed \in SUBSET (1..accepted')
  <1>1. accepted' \in Nat /\ accepted \in Nat
    BY EventWriterAssumption DEF Sorted, Typed
  <1>2. /\ StoreOf(accepted) \subseteq StoreOf(accepted')
        /\ TaskOf(accepted) \subseteq TaskOf(accepted')
        /\ \A n, m \in Nat : n <= m => CallOf(accepted, n) \subseteq CallOf(accepted', m)
    BY <1>1, TypesGrow
  <1>3. /\ tasks \in Seq(TaskOf(accepted)) /\ Queues(accepted, Now)
        /\ call \in [People -> CallOf(accepted, Len(tasks))]
        /\ current \in [Kinds -> 0..Len(tasks)] /\ running \in BOOLEAN
        /\ stored \in SUBSET (1..accepted) /\ failed \in SUBSET (1..accepted)
    BY DEF Sorted, Typed, People
  <1>4. Len(tasks) \in Nat /\ DOMAIN tasks = 1..Len(tasks)
    BY <1>3, LenProperties
  <1>5. tasks \in Seq(TaskOf(accepted'))
    BY <1>2, <1>3, SeqMonotonic
  <1>6. Now \in StoreOf(accepted') /\ Queues(accepted', Now)
    BY <1>2, <1>3 DEF Queues
  <1>7. stored \in SUBSET (1..accepted') /\ failed \in SUBSET (1..accepted')
    <2>1. 1..accepted \subseteq 1..accepted'
      BY <1>1
    <2> QED
      BY Zenon, <2>1, <1>3
  <1>8. \A m \in Nat : Len(tasks) <= m =>
              /\ CallOf(accepted, Len(tasks)) \subseteq CallOf(accepted', m)
              /\ call \in [People -> CallOf(accepted', m)]
    BY <1>2, <1>3, <1>4
  <1> QED
    BY <1>1, <1>3, <1>4, <1>5, <1>6, <1>7, <1>8

LEMMA CallChange ==
  ASSUME Sorted, accepted <= accepted', accepted' \in 0..MaxEvents,
         NEW m \in Nat, Len(tasks) <= m,
         NEW p \in People, NEW c \in CallOf(accepted', m),
         call' = [call EXCEPT ![p] = c]
  PROVE  /\ call' \in [People -> CallOf(accepted', m)] /\ call'[p] = c
         /\ \A q \in People : q # p => call'[q] = call[q]
  BY AtCall

\* The tasks are those that were there.
LEMMA TasksKept ==
  ASSUME Sorted, accepted <= accepted', accepted' \in 0..MaxEvents,
         UNCHANGED tasks
  PROVE  tasks' \in Seq(TaskOf(accepted')) /\ SameTasks
  <1>1. tasks \in Seq(TaskOf(accepted')) /\ Len(tasks) \in Nat
    BY AtCall
  <1> QED
    BY <1>1 DEF SameTasks

LEMMA TasksAdded ==
  ASSUME Sorted, accepted <= accepted', accepted' \in 0..MaxEvents,
         tasks' = tasks \o <<NewTask("main"), NewTask("safe")>>
  PROVE  /\ tasks' \in Seq(TaskOf(accepted')) /\ SameTasks
         /\ Len(tasks') = Len(tasks) + 2
         /\ tasks'[Len(tasks) + 1] = NewTask("main")
         /\ tasks'[Len(tasks) + 2] = NewTask("safe")
  <1> DEFINE b == accepted'
             n == Len(tasks)
             two == <<NewTask("main"), NewTask("safe")>>
  <1>1. tasks \in Seq(TaskOf(b)) /\ n \in Nat /\ b \in Nat
    BY AtCall
  <1>2. NewTask("main") \in TaskOf(b) /\ NewTask("safe") \in TaskOf(b)
    <2>1. <<>> \in Seq(1..b) /\ {} \in SUBSET (1..b)
      OBVIOUS
    <2> QED
      BY <2>1 DEF NewTask, TaskOf, Kinds, Waiting
  <1>3. /\ two \in Seq(TaskOf(b)) /\ Len(two) = 2
        /\ two[1] = NewTask("main") /\ two[2] = NewTask("safe")
    BY <1>2
  <1> HIDE DEF two
  <1>4. /\ tasks' \in Seq(TaskOf(b)) /\ Len(tasks') = n + 2
        /\ \A i \in 1..(n + 2) :
             tasks'[i] = IF i <= n THEN tasks[i] ELSE two[i - n]
    BY <1>1, <1>3, ConcatProperties DEF two
  <1>5. \A u \in 1..n : tasks'[u] = tasks[u]
    BY <1>1, <1>4
  <1>6. tasks'[n + 1] = NewTask("main") /\ tasks'[n + 2] = NewTask("safe")
    <2>1. /\ n + 1 \in 1..(n + 2) /\ n + 2 \in 1..(n + 2)
          /\ ~(n + 1 <= n) /\ ~(n + 2 <= n) /\ (n + 1) - n = 1 /\ (n + 2) - n = 2
      BY <1>1
    <2> QED
      BY <2>1, <1>3, <1>4
  <1>7. \A u \in 1..(n + 2) : u > n => u = n + 1 \/ u = n + 2
    BY <1>1
  <1>8. /\ NewTask("main").pc = "get" /\ NewTask("main").batch = <<>>
        /\ NewTask("main").lines = {}
        /\ NewTask("safe").pc = "get" /\ NewTask("safe").batch = <<>>
        /\ NewTask("safe").lines = {}
    BY DEF NewTask
  <1>9. \A u \in 1..(n + 2) : u > n =>
          tasks'[u].pc = "get" /\ tasks'[u].batch = <<>> /\ tasks'[u].lines = {}
    BY <1>6, <1>7, <1>8
  <1> QED
    BY Zenon, <1>4, <1>5, <1>6, <1>9 DEF SameTasks

\* The call p of event e goes on with the store s: it waits, is through, or
\* has put its event.
Resumes(p, s, e) ==
  /\ tasks' \in Seq(TaskOf(accepted')) /\ SameTasks
  /\ current' \in [Kinds -> 0..Len(tasks')] /\ running' \in BOOLEAN
  /\ call' \in [People -> CallOf(accepted', Len(tasks'))]
  /\ \A q \in People : q # p => call'[q] = call[q]
  /\ p \in Callers /\ call'[p].pc \in {"store", "await", "own"}
       => call'[p].event = e
  /\ \/ /\ Now' = s
        /\ call'[p].pc \in {"store", "await", "own", "raised", "returned"}
     \/ /\ p \in Callers /\ call'[p].pc = "idle"
        /\ IsEnqueued(accepted', s, e, Now')

LEMMA IdleType ==
  ASSUME NEW b \in Nat, NEW m \in Nat
  PROVE  /\ Idle \in CallOf(b, m) /\ Idle.pc = "idle" /\ Idle.event = Stop
         /\ Idle = [pc |-> "idle", event |-> Stop, lines |-> {}, awaits |-> {}]
  <1>1. {} \in SUBSET (1..b) /\ {} \in SUBSET (1..m)
    OBVIOUS
  <1>2. Stop \in 0..b
    BY DEF Stop
  <1>3. "idle" \in Labels
    BY DEF Labels
  <1> QED
    BY <1>1, <1>2, <1>3 DEF Idle, CallOf

\* What a call becomes that is through.
LEMMA IdleBut ==
  ASSUME NEW b \in Nat, NEW m \in Nat, NEW pc \in Labels
  PROVE  /\ [Idle EXCEPT !.pc = pc] \in CallOf(b, m)
         /\ [Idle EXCEPT !.pc = pc].pc = pc
  <1>1. /\ Idle \in CallOf(b, m) /\ DOMAIN Idle = {"pc", "event", "lines", "awaits"}
    BY IdleType DEF CallOf
  <1> HIDE DEF Idle
  <1>2. [Idle EXCEPT !.pc = pc] \in CallOf(b, m)
    BY <1>1 DEF CallOf
  <1> QED
    BY <1>1, <1>2

LEMMA PeopleApart ==
  "stop" \notin Callers /\ "stop" \in People /\ Callers \subseteq People
  BY EventWriterAssumption DEF People

LEMMA StartAndEnqueueEffect ==
  ASSUME Sorted, NEW p \in Callers, accepted <= accepted',
         accepted' \in 0..MaxEvents, NEW e \in 1..accepted',
         StartAndEnqueue(p, Now, e)
  PROVE  Resumes(p, Now, e)
  <1> DEFINE b == accepted'
             r == Enqueue(Now, e)
  <1>1. b \in Nat /\ Now \in StoreOf(b) /\ Queues(b, Now) /\ Len(tasks) \in Nat
        /\ current \in [Kinds -> 0..Len(tasks)] /\ running \in BOOLEAN /\ p \in People
    BY AtCall, PeopleApart
  <1>2. /\ running' = TRUE /\ Become(r) /\ call' = [call EXCEPT ![p] = Idle]
        /\ IF running THEN UNCHANGED <<tasks, current>>
           ELSE /\ tasks' = tasks \o <<NewTask("main"), NewTask("safe")>>
                /\ current' = [main |-> Len(tasks) + 1, safe |-> Len(tasks) + 2]
    BY DEF StartAndEnqueue, Returns
  <1>3. IsEnqueued(b, Now, e, r)
    BY <1>1, EnqueueEffect DEF Queues
  <1> HIDE DEF r
  <1>4. Now' = r
    <2>1. r \in StoreOf(b)
      BY <1>3 DEF IsEnqueued
    <2> QED
      BY <2>1, <1>2, BecomeNow
  <1>5. /\ tasks' \in Seq(TaskOf(b)) /\ SameTasks
        /\ current' \in [Kinds -> 0..Len(tasks')] /\ Len(tasks) <= Len(tasks')
        /\ Len(tasks') \in Nat
    <2>1. CASE running
      <3>1. UNCHANGED <<tasks, current>>
        BY <2>1, <1>2
      <3> QED
        BY <3>1, <1>1, TasksKept
    <2>2. CASE ~running
      <3>1. /\ tasks' = tasks \o <<NewTask("main"), NewTask("safe")>>
            /\ current' = [main |-> Len(tasks) + 1, safe |-> Len(tasks) + 2]
        BY Zenon, <2>2, <1>2
      <3>2. tasks' \in Seq(TaskOf(b)) /\ SameTasks /\ Len(tasks') = Len(tasks) + 2
        BY <3>1, TasksAdded
      <3>3. current' \in [Kinds -> 0..Len(tasks')]
        BY <3>1, <3>2, <1>1 DEF Kinds
      <3> QED
        BY <3>2, <3>3, <1>1
    <2> QED
      BY <2>1, <2>2, <1>1
  <1>6. /\ call' \in [People -> CallOf(b, Len(tasks'))] /\ call'[p] = Idle
        /\ \A q \in People : q # p => call'[q] = call[q]
    <2>1. Idle \in CallOf(b, Len(tasks'))
      BY <1>1, <1>5, IdleType
    <2> QED
      BY Zenon, <2>1, <1>1, <1>2, <1>5, CallChange
  <1>7. call'[p].pc = "idle"
    BY <1>6 DEF Idle
  <1> QED
    BY <1>2, <1>3, <1>4, <1>5, <1>6, <1>7 DEF Resumes

LEMMA RestartedEffect ==
  ASSUME Sorted, NEW p \in People, accepted <= accepted',
         accepted' \in 0..MaxEvents, NEW s \in StoreOf(accepted'),
         Queues(accepted', s), NEW e \in 0..accepted', p # "stop" => e # Stop,
         Restarted(p, s, e)
  PROVE  Resumes(p, s, e)
  <1> DEFINE b == accepted'
  <1>1. b \in Nat /\ Len(tasks) \in Nat
    BY AtCall
  <1>2. CASE p = "stop"
    <2>1. /\ running' = FALSE /\ current' = [k \in Kinds |-> 0] /\ Become(s)
          /\ call' = [call EXCEPT ![p] = [Idle EXCEPT !.pc = "returned"]]
          /\ UNCHANGED tasks
      BY <1>2 DEF Restarted
    <2>2. tasks' \in Seq(TaskOf(b)) /\ SameTasks /\ Len(tasks') = Len(tasks)
      BY <2>1, TasksKept
    <2>3. current' \in [Kinds -> 0..Len(tasks')] /\ running' \in BOOLEAN
      <3>1. 0 \in 0..Len(tasks')
        BY <1>1, <2>2
      <3> QED
        BY Zenon, <3>1, <2>1
    <2> DEFINE c == [Idle EXCEPT !.pc = "returned"]
    <2>4. c \in CallOf(b, Len(tasks)) /\ c.pc = "returned"
      <3>1. "returned" \in Labels /\ 0 \in 0..b
        BY <1>1 DEF Labels
      <3> QED
        BY <3>1, <1>1, IdleBut, Zenon
    <2>9. call' = [call EXCEPT ![p] = c]
      BY <2>1
    <2> HIDE DEF c
    <2>5. /\ call' \in [People -> CallOf(b, Len(tasks))] /\ call'[p] = c
          /\ \A q \in People : q # p => call'[q] = call[q]
      <3>1. Len(tasks) <= Len(tasks)
        BY <1>1
      <3> QED
        BY Zenon, <3>1, <1>1, <2>9, <2>4, CallChange
    <2>6. Now' = s
      BY <2>1, BecomeNow
    <2>7. p \notin Callers /\ call'[p].pc = "returned"
      BY <1>2, <2>4, <2>5, PeopleApart
    <2> QED
      BY <2>2, <2>3, <2>5, <2>6, <2>7 DEF Resumes
  <1>3. CASE p # "stop"
    <2> DEFINE r == Enqueue(s, e)
    <2>1. /\ running' = TRUE
          /\ tasks' = tasks \o <<NewTask("main"), NewTask("safe")>>
          /\ current' = [main |-> Len(tasks) + 1, safe |-> Len(tasks) + 2]
          /\ Become(r) /\ call' = [call EXCEPT ![p] = Idle]
      BY Zenon, <1>3 DEF Restarted, Returns
    <2>2. e \in 1..b /\ p \in Callers
      BY <1>1, <1>3 DEF Stop, People
    <2>3. IsEnqueued(b, s, e, r)
      BY <1>1, <2>2, EnqueueEffect DEF Queues
    <2> HIDE DEF r
    <2>4. Now' = r
      <3>1. r \in StoreOf(b)
        BY <2>3 DEF IsEnqueued
      <3> QED
        BY <3>1, <2>1, BecomeNow
    <2>5. tasks' \in Seq(TaskOf(b)) /\ SameTasks /\ Len(tasks') = Len(tasks) + 2
      BY <2>1, TasksAdded
    <2>6. current' \in [Kinds -> 0..Len(tasks')] /\ Len(tasks') \in Nat
          /\ Len(tasks) <= Len(tasks')
      BY <1>1, <2>1, <2>5 DEF Kinds
    <2>7. /\ call' \in [People -> CallOf(b, Len(tasks'))] /\ call'[p] = Idle
          /\ \A q \in People : q # p => call'[q] = call[q]
      <3>1. Idle \in CallOf(b, Len(tasks'))
        BY <1>1, <2>6, IdleType
      <3> QED
        BY Zenon, <3>1, <2>1, <2>6, CallChange
    <2>8. call'[p].pc = "idle"
      BY <2>7 DEF Idle
    <2> QED
      BY <2>1, <2>2, <2>3, <2>4, <2>5, <2>6, <2>7, <2>8 DEF Resumes
  <1> QED
    BY <1>2, <1>3

LEMMA CancelOthersEffect ==
  ASSUME Sorted, NEW p \in People, accepted <= accepted',
         accepted' \in 0..MaxEvents, NEW s \in StoreOf(accepted'),
         Queues(accepted', s), NEW e \in 0..accepted', p # "stop" => e # Stop,
         CancelOthers(p, s, e)
  PROVE  Resumes(p, s, e)
  <1> DEFINE b == accepted'
             others == {current[k] : k \in {j \in Kinds : current[j] # 0 /\ ~Ended(j)}}
  <1>1. /\ b \in Nat /\ Len(tasks) \in Nat /\ DOMAIN tasks = 1..Len(tasks)
        /\ tasks \in Seq(TaskOf(b)) /\ current \in [Kinds -> 0..Len(tasks)]
        /\ running \in BOOLEAN
    BY AtCall
  <1>2. CASE others = {}
    <2>1. Restarted(p, s, e)
      BY Zenon, <1>2 DEF CancelOthers
    <2> QED
      BY <2>1, RestartedEffect
  <1>3. CASE others # {}
    <2>1. /\ tasks' = [t \in DOMAIN tasks |->
                        IF t \in others THEN [tasks[t] EXCEPT !.cancel = TRUE]
                        ELSE tasks[t]]
          /\ Become(s)
          /\ call' = [call EXCEPT ![p] = [pc |-> "await", event |-> e,
                                          lines |-> {}, awaits |-> others]]
          /\ UNCHANGED <<current, running>>
      BY <1>3 DEF CancelOthers
    <2>2. others \in SUBSET (1..Len(tasks))
      BY <1>1
    <2> HIDE DEF others
    <2>3. ASSUME NEW t \in 1..Len(tasks)
          PROVE  /\ tasks'[t] \in TaskOf(b)
                 /\ tasks'[t].kind = tasks[t].kind /\ tasks'[t].pc = tasks[t].pc
                 /\ tasks'[t].batch = tasks[t].batch /\ tasks'[t].lines = tasks[t].lines
      <3>1. tasks'[t] = IF t \in others THEN [tasks[t] EXCEPT !.cancel = TRUE]
                        ELSE tasks[t]
        BY <1>1, <2>1
      <3>2. tasks[t] \in TaskOf(b)
        BY <1>1, LenProperties
      <3> DEFINE r == [tasks[t] EXCEPT !.cancel = TRUE]
      <3>3. /\ r \in TaskOf(b) /\ r.kind = tasks[t].kind /\ r.pc = tasks[t].pc
            /\ r.batch = tasks[t].batch /\ r.lines = tasks[t].lines
        BY Zenon, <3>2 DEF TaskOf
      <3> HIDE DEF r
      <3>4. tasks'[t] = r \/ tasks'[t] = tasks[t]
        BY <3>1 DEF r
      <3> QED
        BY <3>2, <3>3, <3>4
    <2>4. tasks' \in Seq(TaskOf(b)) /\ Len(tasks') = Len(tasks)
      <3> DEFINE body(t) == IF t \in others THEN [tasks[t] EXCEPT !.cancel = TRUE]
                            ELSE tasks[t]
      <3>1. tasks' = [t \in 1..Len(tasks) |-> body(t)]
        BY <1>1, <2>1
      <3>2. \A t \in 1..Len(tasks) : body(t) \in TaskOf(b)
        <4> SUFFICES ASSUME NEW t \in 1..Len(tasks) PROVE body(t) \in TaskOf(b)
          OBVIOUS
        <4>1. tasks'[t] = body(t)
          BY <3>1
        <4> QED
          BY <4>1, <2>3
      <3> HIDE DEF body
      <3>3. tasks' \in [1..Len(tasks) -> TaskOf(b)]
        BY <3>1, <3>2
      <3> QED
        BY <3>3, <1>1, IsASeq, LenProperties
    <2>5. SameTasks
      <3>1. \A u \in 1..Len(tasks') : ~(u > Len(tasks))
        BY <1>1, <2>4
      <3> QED
        BY <3>1, <2>3, <2>4 DEF SameTasks
    <2> DEFINE c == [pc |-> "await", event |-> e, lines |-> {}, awaits |-> others]
    <2>6. c \in CallOf(b, Len(tasks)) /\ c.pc = "await" /\ c.event = e
      <3>1. {} \in SUBSET (1..b) /\ "await" \in Labels
        BY DEF Labels
      <3> QED
        BY <3>1, <2>2 DEF CallOf
    <2>7. call' = [call EXCEPT ![p] = c]
      BY <2>1
    <2> HIDE DEF c
    <2>8. /\ call' \in [People -> CallOf(b, Len(tasks))] /\ call'[p] = c
          /\ \A q \in People : q # p => call'[q] = call[q]
      <3>1. Len(tasks) <= Len(tasks)
        BY <1>1
      <3> QED
        BY Zenon, <3>1, <1>1, <2>6, <2>7, CallChange
    <2>9. Now' = s
      BY <2>1, BecomeNow
    <2>10. current' \in [Kinds -> 0..Len(tasks')] /\ running' \in BOOLEAN
      BY <1>1, <2>1, <2>4
    <2> QED
      BY <2>4, <2>5, <2>6, <2>8, <2>9, <2>10 DEF Resumes
  <1> QED
    BY Zenon, <1>2, <1>3

Emptied == Drain(Drain(Now, "main"), "safe")

LEMMA EmptiedEffect ==
  ASSUME Sorted, accepted <= accepted', accepted' \in 0..MaxEvents
  PROVE  /\ Emptied \in StoreOf(accepted') /\ Queues(accepted', Emptied)
         /\ \A k \in Kinds : Slack(Emptied, k) = Slack(Now, k)
         /\ Emptied.queue["main"] = <<>> /\ Emptied.queue["safe"] = <<>>
  <1> DEFINE b == accepted'
             r == Drain(Now, "main")
             s == Drain(r, "safe")
  <1>1. b \in Nat /\ Now \in StoreOf(b) /\ "main" \in Kinds /\ "safe" \in Kinds
    BY AtCall DEF Kinds
  <1>2. IsDrained(b, Now, "main", r)
    BY <1>1, DrainEffect
  <1> HIDE DEF r
  <1>3. r \in StoreOf(b) /\ r.queue["main"] = <<>>
    BY <1>1, <1>2 DEF IsDrained, StoreOf
  <1>4. IsDrained(b, r, "safe", s)
    BY <1>1, <1>3, DrainEffect
  <1> HIDE DEF s
  <1>5. s \in StoreOf(b) /\ s.queue["main"] = <<>> /\ s.queue["safe"] = <<>>
    BY Zenon, <1>1, <1>3, <1>4 DEF IsDrained, StoreOf
  <1>6. \A k \in Kinds : Slack(s, k) = Slack(Now, k)
    BY <1>2, <1>4 DEF IsDrained
  <1>7. Queues(b, s)
    <2>1. Len(<<>>) = 0 /\ 0 <= QueueSize /\ 0 <= SafeSize
      BY EventWriterAssumption
    <2> QED
      BY <2>1, <1>5 DEF Queues
  <1> QED
    BY <1>5, <1>6, <1>7 DEF s, r, Emptied

LEMMA HandleExitEffect ==
  ASSUME Sorted, NEW p \in People, accepted <= accepted',
         accepted' \in 0..MaxEvents, NEW e \in 0..accepted',
         p # "stop" => e # Stop, HandleExit(p, e)
  PROVE  Resumes(p, Emptied, e)
  <1> DEFINE b == accepted'
             pending == Pending(Now, "main") \cup Pending(Now, "safe")
  <1>1. /\ b \in Nat /\ Len(tasks) \in Nat /\ running \in BOOLEAN
        /\ current \in [Kinds -> 0..Len(tasks)]
    BY AtCall
  <1>2. Emptied \in StoreOf(b) /\ Queues(b, Emptied)
    BY EmptiedEffect
  <1>3. CASE pending = {}
    <2>1. CancelOthers(p, Emptied, e)
      BY <1>3 DEF HandleExit, Emptied
    <2> QED
      BY <2>1, <1>2, CancelOthersEffect
  <1>4. CASE pending # {}
    <2> DEFINE c == [pc |-> "store", event |-> e, lines |-> pending, awaits |-> {}]
    <2>1. /\ Become(Emptied) /\ call' = [call EXCEPT ![p] = c]
          /\ UNCHANGED <<tasks, current, running>>
      BY <1>4 DEF HandleExit, Emptied
    <2>2. pending \in SUBSET (1..b)
      <3>1. /\ queue["main"] \in Seq(0..accepted) /\ queue["safe"] \in Seq(0..accepted)
            /\ Now.queue = queue /\ accepted \in Nat
        BY AtQueues DEF Kinds
      <3>2. ToSet(queue["main"]) \subseteq 0..accepted /\ ToSet(queue["safe"]) \subseteq 0..accepted
        BY Zenon, <3>1, ItemsType
      <3>3. (0..accepted) \ {0} \subseteq 1..b
        BY <3>1, <1>1
      <3> QED
        BY <3>1, <3>2, <3>3, Zenon DEF Pending, Stop
    <2> HIDE DEF pending
    <2>3. c \in CallOf(b, Len(tasks)) /\ c.pc = "store" /\ c.event = e
      <3>1. {} \in SUBSET (1..Len(tasks)) /\ "store" \in Labels
        BY DEF Labels
      <3> QED
        BY <3>1, <2>2 DEF CallOf
    <2> HIDE DEF c
    <2>4. /\ call' \in [People -> CallOf(b, Len(tasks))] /\ call'[p] = c
          /\ \A q \in People : q # p => call'[q] = call[q]
      <3>1. Len(tasks) <= Len(tasks)
        BY <1>1
      <3> QED
        BY Zenon, <3>1, <1>1, <2>1, <2>3, CallChange
    <2>5. Now' = Emptied
      BY <1>2, <2>1, BecomeNow
    <2>6. tasks' \in Seq(TaskOf(b)) /\ SameTasks
      BY <2>1, TasksKept
    <2>7. /\ tasks' = tasks /\ current' = current /\ running' = running
      BY <2>1
    <2> QED
      BY <1>1, <2>3, <2>4, <2>5, <2>6, <2>7 DEF Resumes
  <1> QED
    BY <1>3, <1>4

LEMMA RaisedEffect ==
  ASSUME Sorted, NEW p \in People, UNCHANGED accepted, Raised(p),
         UNCHANGED <<queues, tasks, current, running>>
  PROVE  Resumes(p, Now, call[p].event)
  <1> DEFINE b == accepted'
             pc == IF p = "stop" THEN "raised" ELSE "own"
             c == [Idle EXCEPT !.pc = pc, !.event = call[p].event]
  <1>1. accepted <= accepted' /\ accepted' \in 0..MaxEvents
    BY AtQueues
  <1>2. /\ b \in Nat /\ Len(tasks) \in Nat /\ running \in BOOLEAN
        /\ current \in [Kinds -> 0..Len(tasks)] /\ Len(tasks) <= Len(tasks)
    BY <1>1, AtCall
  <1>3. call[p] \in CallOf(b, Len(tasks))
    BY <1>1, <1>2, AtCall
  <1>4. call[p].event \in 0..b /\ pc \in Labels /\ pc \in {"raised", "own"}
        /\ (p # "stop" => pc = "own")
    <2>1. call[p].event \in 0..b
      BY <1>3 DEF CallOf
    <2>2. pc \in Labels /\ pc \in {"raised", "own"} /\ (p # "stop" => pc = "own")
      BY DEF Labels
    <2> QED
      BY <2>1, <2>2
  <1>5. call' = [call EXCEPT ![p] = c]
    BY DEF Raised
  <1> HIDE DEF pc
  <1>6. c \in CallOf(b, Len(tasks)) /\ c.pc = pc /\ c.event = call[p].event
    <2> DEFINE m == Len(tasks)
               e == call[p].event
    <2>1. b \in Nat /\ m \in Nat /\ e \in 0..b /\ pc \in Labels
      BY <1>2, <1>4
    <2>2. c = [Idle EXCEPT !.pc = pc, !.event = e]
      OBVIOUS
    <2> HIDE DEF m, e, b, c
    <2>3. c \in CallOf(b, m) /\ c.pc = pc /\ c.event = e
      <3>1. Idle \in CallOf(b, m) /\ DOMAIN Idle = {"pc", "event", "lines", "awaits"}
        BY <2>1, IdleType DEF CallOf
      <3>2. c \in CallOf(b, m)
        BY Zenon, <3>1, <2>1, <2>2 DEF CallOf
      <3>3. c.pc = pc /\ c.event = e
        BY <3>1, <2>2
      <3> QED
        BY <3>2, <3>3
    <2> QED
      BY <2>3 DEF m, e, b
  <1> HIDE DEF c
  <1>7. /\ call' \in [People -> CallOf(b, Len(tasks))] /\ call'[p] = c
        /\ \A q \in People : q # p => call'[q] = call[q]
    BY Zenon, <1>1, <1>2, <1>5, <1>6, CallChange
  <1>8. Now' = Now /\ tasks' = tasks /\ current' = current /\ running' = running
    BY DEF Now, queues
  <1>9. tasks' \in Seq(TaskOf(b)) /\ SameTasks
    BY <1>1, <1>8, TasksKept
  <1> QED
    BY <1>2, <1>4, <1>6, <1>7, <1>8, <1>9, PeopleApart DEF Resumes

LEMMA ResumesSorted ==
  ASSUME Sorted, NEW p \in People, accepted <= accepted',
         accepted' \in 0..MaxEvents, NEW s, Queues(accepted', s),
         \A k \in Kinds : Slack(s, k) = Slack(Now, k),
         NEW e, p # "stop" => e # Stop, Resumes(p, s, e),
         log' = log, stored' \in SUBSET (1..accepted'),
         failed' \in SUBSET (1..accepted'), faults' \in 0..MaxFaults
  PROVE  Sorted'
  <1>1. Queues(accepted', Now') /\ \A k \in Kinds : Slack(Now', k) = Slack(s, k)
    <2>1. CASE Now' = s
      BY <2>1
    <2>2. CASE IsEnqueued(accepted', s, e, Now')
      BY <2>2 DEF IsEnqueued, Queues, Kinds
    <2> QED
      BY <2>1, <2>2 DEF Resumes
  <1>2. \A k \in Kinds : Slack(Now', k) >= Slack(Now, k)
    <2>1. \A k \in Kinds : Slack(Now, k) \in Int
      BY AtQueues
    <2> QED
      BY <2>1, <1>1
  <1>3. \A q \in Callers :
          call'[q].pc \in {"store", "await", "own"} => call'[q].event # Stop
    <2> SUFFICES ASSUME NEW q \in Callers, call'[q].pc \in {"store", "await", "own"}
                 PROVE  call'[q].event # Stop
      OBVIOUS
    <2>1. CASE q = p
      BY <2>1, PeopleApart DEF Resumes
    <2>2. CASE q # p
      BY <2>2, PeopleApart DEF Resumes, Sorted, Roles
    <2> QED
      BY <2>1, <2>2
  <1> QED
    BY <1>1, <1>2, <1>3, CallMoves DEF Resumes, People

LEMMA StorePendingEffect ==
  ASSUME Sorted, NEW p \in People, StorePending(p)
  PROVE  /\ Sorted' /\ Resumes(p, Now, call[p].event)
         /\ call[p].pc = "store" /\ UNCHANGED <<log, accepted>>
  <1>1. /\ call[p].pc = "store" /\ stored' = stored \cup call[p].lines
        /\ CancelOthers(p, Now, call[p].event)
        /\ UNCHANGED <<log, failed, accepted, faults>>
    BY DEF StorePending, Calls
  <1>2. accepted <= accepted' /\ accepted' \in 0..MaxEvents
        /\ failed' \in SUBSET (1..accepted') /\ faults' \in 0..MaxFaults
    BY <1>1, AtQueues
  <1>3. /\ Now \in StoreOf(accepted') /\ Queues(accepted', Now)
        /\ call[p] \in CallOf(accepted, Len(tasks))
    BY <1>2, AtCall
  <1>4. call[p].event \in 0..accepted' /\ call[p].lines \in SUBSET (1..accepted')
    BY <1>1, <1>3 DEF CallOf
  <1>5. p # "stop" => call[p].event # Stop
    BY <1>1 DEF Sorted, Roles, People
  <1>6. Resumes(p, Now, call[p].event)
    BY <1>1, <1>2, <1>3, <1>4, <1>5, CancelOthersEffect
  <1>7. stored' \in SUBSET (1..accepted')
    BY <1>1, <1>2, <1>4, AtCall
  <1>8. Sorted'
    BY <1>1, <1>2, <1>3, <1>5, <1>6, <1>7, ResumesSorted
  <1> QED
    BY <1>1, <1>6, <1>8

LEMMA StorePendingFailsEffect ==
  ASSUME Sorted, NEW p \in People, StorePendingFails(p)
  PROVE  /\ Sorted' /\ Resumes(p, Now, call[p].event)
         /\ call[p].pc = "store" /\ UNCHANGED <<log, accepted>>
  <1>1. /\ call[p].pc = "store" /\ failed' = failed \cup call[p].lines
        /\ Raised(p) /\ Fault
        /\ UNCHANGED <<queues, tasks, current, running, log, stored, accepted>>
    BY DEF StorePendingFails, Calls
  <1>2. accepted <= accepted' /\ accepted' \in 0..MaxEvents
        /\ stored' \in SUBSET (1..accepted') /\ faults' \in 0..MaxFaults
    BY <1>1, AtQueues, FaultType
  <1>3. /\ Queues(accepted', Now) /\ call[p] \in CallOf(accepted, Len(tasks))
    BY <1>2, AtCall
  <1>4. call[p].lines \in SUBSET (1..accepted')
    BY <1>1, <1>3 DEF CallOf
  <1>5. p # "stop" => call[p].event # Stop
    BY <1>1 DEF Sorted, Roles, People
  <1>6. Resumes(p, Now, call[p].event)
    BY <1>1, RaisedEffect
  <1>7. failed' \in SUBSET (1..accepted')
    BY <1>1, <1>2, <1>4, AtCall
  <1>8. Sorted'
    BY <1>1, <1>2, <1>3, <1>5, <1>6, <1>7, ResumesSorted
  <1> QED
    BY <1>1, <1>6, <1>8

LEMMA AwaitOthersEffect ==
  ASSUME Sorted, NEW p \in People, AwaitOthers(p)
  PROVE  /\ Sorted' /\ Resumes(p, Now, call[p].event)
         /\ call[p].pc = "await" /\ UNCHANGED <<log, accepted>>
  <1>1. /\ call[p].pc = "await"
        /\ UNCHANGED <<log, stored, failed, accepted, faults>>
    BY DEF AwaitOthers, Calls
  <1>2. accepted <= accepted' /\ accepted' \in 0..MaxEvents
        /\ stored' \in SUBSET (1..accepted') /\ failed' \in SUBSET (1..accepted')
        /\ faults' \in 0..MaxFaults
    BY <1>1, AtQueues
  <1>3. /\ Now \in StoreOf(accepted') /\ Queues(accepted', Now)
        /\ call[p] \in CallOf(accepted, Len(tasks))
    BY <1>2, AtCall
  <1>4. call[p].event \in 0..accepted'
    BY <1>1, <1>3 DEF CallOf
  <1>5. p # "stop" => call[p].event # Stop
    BY <1>1 DEF Sorted, Roles, People
  <1>6. Resumes(p, Now, call[p].event)
    <2>1. CASE Raised(p) /\ UNCHANGED <<queues, tasks, current, running>>
      BY <2>1, <1>1, RaisedEffect
    <2>2. CASE Restarted(p, Now, call[p].event)
      BY <2>2, <1>2, <1>3, <1>4, <1>5, RestartedEffect
    <2> QED
      BY <2>1, <2>2 DEF AwaitOthers
  <1>7. Sorted'
    BY <1>1, <1>2, <1>3, <1>5, <1>6, ResumesSorted
  <1> QED
    BY <1>1, <1>6, <1>7

LEMMA AppendEventEffect ==
  ASSUME Sorted, NEW p \in Callers, AppendEvent(p)
  PROVE  /\ Sorted' /\ call[p].pc = "idle" /\ call["stop"].pc = "idle"
         /\ \/ SomeEnded /\ Resumes(p, Emptied, accepted')
            \/ ~SomeEnded /\ Resumes(p, Now, accepted')
         /\ accepted' = accepted + 1 /\ UNCHANGED <<log, stored>>
  <1>1. /\ call[p].pc = "idle" /\ call["stop"].pc = "idle"
        /\ accepted < MaxEvents /\ accepted' = accepted + 1
        /\ IF SomeEnded THEN HandleExit(p, accepted')
           ELSE StartAndEnqueue(p, Now, accepted')
        /\ UNCHANGED <<log, stored, failed, faults>>
    BY DEF AppendEvent, Calls
  <1>2. accepted <= accepted' /\ accepted' \in 0..MaxEvents /\ accepted' \in 1..accepted'
        /\ accepted' \in 0..accepted' /\ accepted' # Stop
    BY <1>1, AtQueues, EventWriterAssumption DEF Stop
  <1>3. /\ stored' \in SUBSET (1..accepted') /\ failed' \in SUBSET (1..accepted')
        /\ faults' \in 0..MaxFaults /\ Queues(accepted', Now)
    BY <1>1, <1>2, AtQueues, AtCall
  <1>4. p \in People
    BY PeopleApart
  <1>5. CASE SomeEnded
    <2>1. HandleExit(p, accepted')
      BY <1>1, <1>5
    <2>2. Resumes(p, Emptied, accepted')
      BY <2>1, <1>2, <1>4, HandleExitEffect
    <2>3. Queues(accepted', Emptied) /\ \A k \in Kinds : Slack(Emptied, k) = Slack(Now, k)
      BY <1>2, EmptiedEffect
    <2>4. Sorted'
      BY <1>1, <1>2, <1>3, <1>4, <2>2, <2>3, ResumesSorted
    <2> QED
      BY <1>1, <1>5, <2>2, <2>4
  <1>6. CASE ~SomeEnded
    <2>1. StartAndEnqueue(p, Now, accepted')
      BY <1>1, <1>6
    <2>2. Resumes(p, Now, accepted')
      BY <2>1, <1>2, StartAndEnqueueEffect
    <2>3. Sorted'
      BY <1>1, <1>2, <1>3, <1>4, <2>2, ResumesSorted
    <2> QED
      BY <1>1, <1>6, <2>2, <2>3
  <1> QED
    BY <1>5, <1>6

\* A step of a call that starts nothing and puts no event.
LEMMA QuietSorted ==
  ASSUME Sorted, UNCHANGED <<tasks, log, accepted>>, Queues(accepted, Now'),
         \A k \in Kinds : Slack(Now', k) >= Slack(Now, k),
         current' \in [Kinds -> 0..Len(tasks)], running' \in BOOLEAN,
         call' \in [People -> CallOf(accepted, Len(tasks))],
         \A q \in Callers : call'[q] = call[q] \/ call'[q].pc = "idle",
         stored' \in SUBSET (1..accepted), failed' \in SUBSET (1..accepted),
         faults' \in 0..MaxFaults
  PROVE  Sorted'
  <1>1. accepted <= accepted' /\ accepted' \in 0..MaxEvents
    BY AtQueues
  <1>2. tasks' \in Seq(TaskOf(accepted')) /\ SameTasks
    BY <1>1, TasksKept
  <1>3. \A p \in Callers :
          call'[p].pc \in {"store", "await", "own"} => call'[p].event # Stop
    BY DEF Sorted, Roles
  <1> QED
    BY <1>1, <1>2, <1>3, CallMoves DEF People

LEMMA SlackKept ==
  ASSUME Sorted, UNCHANGED <<queues>>
  PROVE  /\ Queues(accepted, Now') /\ \A k \in Kinds : Slack(Now', k) >= Slack(Now, k)
         /\ queue' = queue /\ dropped' = dropped
  <1>1. Now' = Now /\ queue' = queue /\ dropped' = dropped
    BY DEF Now, queues
  <1>2. \A k \in Kinds : Slack(Now, k) \in Int
    BY AtQueues
  <1> QED
    BY <1>1, <1>2, AtQueues

LEMMA AtStop ==
  ASSUME Sorted
  PROVE  /\ call \in [People -> CallOf(accepted, Len(tasks))]
         /\ \A p \in People :
              /\ call[p] \in CallOf(accepted, Len(tasks))
              /\ call[p].lines \in SUBSET (1..accepted)
              /\ call[p].event \in 0..accepted
         /\ current \in [Kinds -> 0..Len(tasks)] /\ running \in BOOLEAN
         /\ Len(tasks) \in Nat /\ DOMAIN tasks = 1..Len(tasks)
         /\ tasks \in Seq(TaskOf(accepted))
  <1>1. /\ call \in [People -> CallOf(accepted, Len(tasks))]
        /\ current \in [Kinds -> 0..Len(tasks)] /\ running \in BOOLEAN
        /\ tasks \in Seq(TaskOf(accepted))
    BY DEF Sorted, Typed, People
  <1>2. Len(tasks) \in Nat /\ DOMAIN tasks = 1..Len(tasks)
    BY <1>1, LenProperties
  <1>3. \A p \in People : call[p] \in CallOf(accepted, Len(tasks))
    BY <1>1
  <1> QED
    BY <1>1, <1>2, <1>3 DEF CallOf

LEMMA ReturnsEffect ==
  ASSUME Sorted, NEW p \in Callers, Returns(p)
  PROVE  /\ call' \in [People -> CallOf(accepted, Len(tasks))]
         /\ call'[p].pc = "idle" /\ \A q \in People : q # p => call'[q] = call[q]
  <1>1. Idle \in CallOf(accepted, Len(tasks)) /\ Idle.pc = "idle"
    BY AtQueues, AtStop, IdleType
  <1> QED
    BY <1>1, AtStop, PeopleApart DEF Returns

LEMMA StoreOwnEffect ==
  ASSUME Sorted, NEW p \in Callers, StoreOwn(p) \/ StoreOwnFails(p)
  PROVE  /\ Sorted' /\ call[p].pc = "own"
         /\ call'[p].pc = "idle" /\ \A q \in People : q # p => call'[q] = call[q]
         /\ UNCHANGED <<queues, tasks, log, accepted>>
  <1>1. /\ call[p].pc = "own" /\ Returns(p)
        /\ UNCHANGED <<queues, tasks, current, running, log, accepted>>
    BY DEF StoreOwn, StoreOwnFails, Calls
  <1>2. call[p].event \in 1..accepted
    <2>1. call[p].event \in 0..accepted /\ call[p].event # Stop
      BY <1>1, AtStop, PeopleApart DEF Sorted, Roles
    <2> QED
      BY <2>1, AtQueues DEF Stop
  <1>3. /\ stored' \in SUBSET (1..accepted) /\ failed' \in SUBSET (1..accepted)
        /\ faults' \in 0..MaxFaults
    <2>1. CASE StoreOwn(p)
      BY <2>1, <1>2, AtQueues DEF StoreOwn
    <2>2. CASE StoreOwnFails(p)
      BY <2>2, <1>2, AtQueues, FaultType DEF StoreOwnFails
    <2> QED
      BY <2>1, <2>2
  <1>4. /\ call' \in [People -> CallOf(accepted, Len(tasks))]
        /\ call'[p].pc = "idle" /\ \A q \in People : q # p => call'[q] = call[q]
    BY <1>1, ReturnsEffect
  <1>5. \A q \in Callers : call'[q] = call[q] \/ call'[q].pc = "idle"
    BY <1>4, PeopleApart
  <1>6. Sorted'
    BY <1>1, <1>3, <1>4, <1>5, SlackKept, AtStop, QuietSorted
  <1> QED
    BY <1>1, <1>4, <1>6

\* Only the call of stop is another one afterwards.
OnlyStop(pc) ==
  /\ call' \in [People -> CallOf(accepted, Len(tasks))]
  /\ call'["stop"].pc = pc
  /\ \A q \in Callers : call'[q] = call[q]

LEMMA StopChange ==
  ASSUME Sorted, NEW c \in CallOf(accepted, Len(tasks)),
         call' = [call EXCEPT !["stop"] = c]
  PROVE  OnlyStop(c.pc) /\ call'["stop"] = c
  BY AtStop, PeopleApart DEF OnlyStop

LEMMA StopAtEffect ==
  ASSUME Sorted, NEW label \in Labels, StopAt(label)
  PROVE  OnlyStop(label)
  <1> DEFINE old == call["stop"]
             c == [old EXCEPT !.pc = label]
  <1>1. old \in CallOf(accepted, Len(tasks))
    BY AtStop, PeopleApart
  <1>2. call' = [call EXCEPT !["stop"] = c]
    BY DEF StopAt
  <1> HIDE DEF old
  <1>3. c \in CallOf(accepted, Len(tasks)) /\ c.pc = label
    BY <1>1 DEF CallOf
  <1> HIDE DEF c
  <1> QED
    BY Zenon, <1>2, <1>3, StopChange

LEMMA StopAwaitsEffect ==
  ASSUME Sorted, NEW k \in Kinds, StopAwaits(k)
  PROVE  /\ OnlyStop(Awaiting[k]) /\ call'["stop"].awaits = {current[k]} \ {0}
         /\ Awaiting["main"] = "awaitMain" /\ Awaiting["safe"] = "awaitSafe"
  <1> DEFINE old == call["stop"]
             who == {current[k]} \ {0}
             c == [old EXCEPT !.pc = Awaiting[k], !.lines = {}, !.awaits = who]
  <1>1. old \in CallOf(accepted, Len(tasks)) /\ who \in SUBSET (1..Len(tasks))
    BY AtStop, PeopleApart
  <1>2. call' = [call EXCEPT !["stop"] = c]
    BY Zenon DEF StopAwaits
  <1>3. /\ Awaiting[k] \in Labels /\ {} \in SUBSET (1..accepted)
        /\ Awaiting["main"] = "awaitMain" /\ Awaiting["safe"] = "awaitSafe"
    <2>1. Awaiting["main"] = "awaitMain" /\ Awaiting["safe"] = "awaitSafe"
      BY DEF Awaiting
    <2>2. "awaitMain" \in Labels /\ "awaitSafe" \in Labels
      BY DEF Labels
    <2>3. k = "main" \/ k = "safe"
      BY DEF Kinds
    <2>4. Awaiting[k] \in Labels
      BY <2>1, <2>2, <2>3
    <2>5. {} \in SUBSET (1..accepted)
      OBVIOUS
    <2> QED
      BY <2>1, <2>4, <2>5
  <1> HIDE DEF old, who
  <1>4. c \in CallOf(accepted, Len(tasks)) /\ c.pc = Awaiting[k] /\ c.awaits = who
    BY Zenon, <1>1, <1>3 DEF CallOf
  <1> HIDE DEF c
  <1> QED
    BY Zenon, <1>2, <1>3, <1>4, StopChange DEF who

LEMMA AdvanceEffect ==
  ASSUME Sorted, NEW k \in Kinds, Advance(k)
  PROVE  /\ \/ k = "main" /\ OnlyStop("awaitSafe")
            \/ k = "safe" /\ OnlyStop("returned")
         /\ current' \in [Kinds -> 0..Len(tasks)] /\ running' \in BOOLEAN
  <1>1. CASE k = "main"
    <2>1. StopAwaits("safe") /\ UNCHANGED <<current, running>>
      BY <1>1 DEF Advance
    <2>2. OnlyStop("awaitSafe")
      <3>1. "safe" \in Kinds
        BY DEF Kinds
      <3>2. OnlyStop(Awaiting["safe"]) /\ Awaiting["safe"] = "awaitSafe"
        BY <3>1, <2>1, StopAwaitsEffect
      <3> QED
        BY <3>2
    <2> QED
      BY <1>1, <2>1, <2>2, AtStop
  <1>2. CASE k # "main"
    <2>1. /\ StopAt("returned")
          /\ current' = [j \in Kinds |-> 0] /\ running' = FALSE
      BY <1>2 DEF Advance
    <2>2. OnlyStop("returned")
      <3>1. "returned" \in Labels
        BY DEF Labels
      <3> QED
        BY <3>1, <2>1, StopAtEffect
    <2>3. 0 \in 0..Len(tasks)
      BY AtStop
    <2> QED
      BY Zenon, <1>2, <2>1, <2>2, <2>3 DEF Kinds
  <1> QED
    BY <1>1, <1>2

\* What Single and Healthy have to know of a step of stop.
StopStep ==
  /\ UNCHANGED <<tasks, log, accepted>> /\ \A q \in Callers : call'[q] = call[q]
  /\ queue'["main"] \in {queue["main"], <<>>, Append(queue["main"], Stop)}

LEMMA StopBeginEffect ==
  ASSUME Sorted, StopBegin
  PROVE  /\ Sorted' /\ call["stop"].pc = "idle" /\ running
         /\ UNCHANGED <<log, stored, accepted>>
         /\ \/ SomeEnded /\ Resumes("stop", Emptied, Stop)
            \/ ~SomeEnded /\ StopStep /\ OnlyStop("joinMain")
               /\ UNCHANGED <<queues, tasks, current, running>>
  <1>1. /\ call["stop"].pc = "idle" /\ running
        /\ UNCHANGED <<log, stored, failed, accepted, faults>>
    BY DEF StopBegin, Calls
  <1>2. accepted <= accepted' /\ accepted' \in 0..MaxEvents /\ Stop \in 0..accepted'
        /\ stored' \in SUBSET (1..accepted') /\ failed' \in SUBSET (1..accepted')
        /\ faults' \in 0..MaxFaults
    BY <1>1, AtQueues DEF Stop
  <1>3. CASE SomeEnded
    <2>1. HandleExit("stop", Stop)
      BY <1>3 DEF StopBegin
    <2>2. Resumes("stop", Emptied, Stop)
      BY <2>1, <1>2, PeopleApart, HandleExitEffect
    <2>3. Queues(accepted', Emptied) /\ \A k \in Kinds : Slack(Emptied, k) = Slack(Now, k)
      BY <1>2, EmptiedEffect
    <2>4. Sorted'
      BY <1>1, <1>2, <2>2, <2>3, PeopleApart, ResumesSorted
    <2> QED
      BY <1>1, <1>3, <2>2, <2>4
  <1>4. CASE ~SomeEnded
    <2>1. StopAt("joinMain") /\ UNCHANGED <<queues, tasks, current, running>>
      BY <1>4 DEF StopBegin
    <2>2. OnlyStop("joinMain")
      <3>1. "joinMain" \in Labels
        BY DEF Labels
      <3> QED
        BY <3>1, <2>1, StopAtEffect
    <2>3. Sorted'
      BY <1>1, <1>2, <2>1, <2>2, SlackKept, AtStop, QuietSorted DEF OnlyStop
    <2>4. StopStep
      BY <1>1, <2>1, <2>2 DEF StopStep, OnlyStop, queues
    <2> QED
      BY <1>1, <1>4, <2>1, <2>2, <2>3, <2>4
  <1> QED
    BY <1>3, <1>4

LEMMA JoinMainEffect ==
  ASSUME Sorted, JoinMain
  PROVE  /\ Sorted' /\ StopStep /\ OnlyStop("joinSafe")
         /\ call["stop"].pc = "joinMain" /\ open["main"] = 0
         /\ UNCHANGED <<queues, tasks, current, running, log, stored, accepted>>
  <1>1. /\ call["stop"].pc = "joinMain" /\ open["main"] = 0 /\ StopAt("joinSafe")
        /\ UNCHANGED <<queues, tasks, current, running, log, stored, failed,
                       accepted, faults>>
    BY DEF JoinMain, Calls
  <1>2. OnlyStop("joinSafe")
    <2>1. "joinSafe" \in Labels
      BY DEF Labels
    <2> QED
      BY <2>1, <1>1, StopAtEffect
  <1>3. Sorted'
    BY <1>1, <1>2, AtQueues, SlackKept, AtStop, QuietSorted DEF OnlyStop
  <1>4. StopStep
    BY <1>1, <1>2 DEF StopStep, OnlyStop, queues
  <1> QED
    BY <1>1, <1>2, <1>3, <1>4

LEMMA JoinSafeEffect ==
  ASSUME Sorted, JoinSafe
  PROVE  /\ Sorted' /\ StopStep /\ OnlyStop("awaitMain")
         /\ call'["stop"].awaits = {current["main"]} \ {0}
         /\ call["stop"].pc = "joinSafe" /\ open["safe"] = 0
         /\ \A k \in Kinds : queue'[k] = Append(queue[k], Stop)
         /\ UNCHANGED <<dropped, tasks, current, running, log, stored, accepted>>
  <1> DEFINE a == accepted
             r == Put(Now, "main", Stop)
             s == Put(r, "safe", Stop)
  <1>1. /\ call["stop"].pc = "joinSafe" /\ open["safe"] = 0
        /\ Len(queue["main"]) < QueueSize /\ Become(s) /\ StopAwaits("main")
        /\ UNCHANGED <<tasks, current, running, log, stored, failed, accepted, faults>>
    BY DEF JoinSafe, Calls
  <1>2. /\ a \in Nat /\ Now \in StoreOf(a) /\ "main" \in Kinds /\ "safe" \in Kinds
        /\ Stop \in 0..a /\ "main" # "safe"
    BY AtQueues DEF Kinds, Stop
  <1>3. IsPut(a, Now, "main", Stop, r)
    BY <1>2, PutEffect
  <1> HIDE DEF r
  <1>4. r \in StoreOf(a)
    BY <1>3 DEF IsPut
  <1>5. IsPut(a, r, "safe", Stop, s)
    BY <1>2, <1>4, PutEffect
  <1> HIDE DEF s
  <1>6. s \in StoreOf(a) /\ \A k \in Kinds : Slack(s, k) = Slack(Now, k)
    BY <1>3, <1>5 DEF IsPut
  <1>7. Now' = s
    BY <1>1, <1>6, BecomeNow
  <1>8. /\ Now.queue \in [Kinds -> Seq(0..a)] /\ r.queue \in [Kinds -> Seq(0..a)]
        /\ Now.queue = queue /\ Now.dropped = dropped
    BY Zenon, <1>2, <1>4, AtQueues DEF StoreOf
  <1>9. /\ s.queue["main"] = Append(queue["main"], Stop)
        /\ s.queue["safe"] = Append(queue["safe"], Stop)
        /\ s.dropped = dropped
    BY <1>2, <1>3, <1>5, <1>8 DEF IsPut
  <1>10. /\ queue'["main"] = Append(queue["main"], Stop)
         /\ queue'["safe"] = Append(queue["safe"], Stop) /\ dropped' = dropped
    BY <1>7, <1>9 DEF Now
  <1>11. Queues(a, s)
    <2>1. /\ queue["main"] \in Seq(0..a) /\ queue["safe"] \in Seq(0..a)
          /\ Len(queue["main"]) \in Nat /\ Len(queue["safe"]) \in Nat
      BY <1>2, AtQueues, LenProperties
    <2>2. Len(queue["safe"]) = 0
      <3>1. Reserved(Loads("safe"), Len(tasks), Slack(Now, "safe"))
        BY <1>2 DEF Sorted, Tickets
      <3>2. Loads("safe") \in [1..Len(tasks) -> Nat] /\ Len(tasks) \in Nat
            /\ Slack(Now, "safe") \in Int
        BY <1>2, AtQueues, LoadsType DEF Sorted, Typed
      <3>3. Slack(Now, "safe") >= 0
        BY <3>1, <3>2, ReservedBounds
      <3>4. Slack(Now, "safe") = 0 - Len(queue["safe"])
        BY <1>1 DEF Slack, Now
      <3> QED
        BY <3>3, <3>4, <2>1
    <2>3. /\ Len(Append(queue["main"], Stop)) = Len(queue["main"]) + 1
          /\ Len(Append(queue["safe"], Stop)) = Len(queue["safe"]) + 1
      BY <1>2, <2>1, AppendProperties
    <2>4. QueueSize \in Nat /\ SafeSize \in Nat /\ SafeSize # 0
      BY EventWriterAssumption
    <2>5. /\ Len(s.queue["main"]) = Len(queue["main"]) + 1
          /\ Len(s.queue["safe"]) = Len(queue["safe"]) + 1
      BY <1>9, <2>3
    <2>6. Len(queue["main"]) + 1 <= QueueSize /\ Len(queue["safe"]) + 1 <= SafeSize
      BY <1>1, <2>1, <2>2, <2>4
    <2> QED
      BY <1>6, <2>5, <2>6 DEF Queues
  <1>12. OnlyStop("awaitMain") /\ call'["stop"].awaits = {current["main"]} \ {0}
    BY <1>1, <1>2, StopAwaitsEffect
  <1>13. \A k \in Kinds : Slack(Now', k) >= Slack(Now, k)
    <2>1. \A k \in Kinds : Slack(Now, k) \in Int
      BY AtQueues
    <2> QED
      BY <2>1, <1>6, <1>7
  <1>14. Sorted'
    BY <1>1, <1>7, <1>11, <1>12, <1>13, AtQueues, AtStop, QuietSorted DEF OnlyStop
  <1>15. StopStep
    BY <1>1, <1>10, <1>12 DEF StopStep, OnlyStop
  <1> QED
    BY <1>1, <1>10, <1>12, <1>14, <1>15 DEF Kinds

LEMMA DrainedNow ==
  ASSUME Sorted, NEW k \in Kinds, Become(Drain(Now, k))
  PROVE  /\ Queues(accepted, Now') /\ \A j \in Kinds : Slack(Now', j) >= Slack(Now, j)
         /\ queue'["main"] \in {queue["main"], <<>>}
         /\ Pending(Now, k) \in SUBSET (1..accepted)
  <1> DEFINE a == accepted
             s == Drain(Now, k)
  <1>1. a \in Nat /\ Now \in StoreOf(a) /\ Queues(a, Now) /\ Now.queue = queue
        /\ queue \in [Kinds -> Seq(0..a)]
    BY AtQueues
  <1>2. IsDrained(a, Now, k, s)
    BY <1>1, DrainEffect
  <1>3. s \in StoreOf(a)
    BY <1>2 DEF IsDrained
  <1> HIDE DEF s
  <1>4. Now' = s
    BY <1>3, BecomeNow DEF s
  <1>5. s.queue = [queue EXCEPT ![k] = <<>>] /\ \A j \in Kinds : Slack(s, j) = Slack(Now, j)
    BY <1>1, <1>2 DEF IsDrained
  <1>6. \A j \in Kinds : s.queue[j] = queue[j] \/ s.queue[j] = <<>>
    BY <1>1, <1>5
  <1>7. Queues(a, s)
    <2>1. /\ Len(queue["main"]) <= QueueSize /\ Len(queue["safe"]) <= SafeSize
          /\ 0 <= QueueSize /\ 0 <= SafeSize /\ Len(<<>>) = 0
      BY <1>1, EventWriterAssumption DEF Queues
    <2> QED
      BY <2>1, <1>3, <1>6 DEF Queues, Kinds
  <1>8. queue'["main"] \in {queue["main"], <<>>}
    BY <1>4, <1>6 DEF Now, Kinds
  <1>9. \A j \in Kinds : Slack(Now', j) >= Slack(Now, j)
    BY <1>4, <1>5, AtQueues
  <1>10. Pending(Now, k) \in SUBSET (1..a)
    <2> DEFINE q == queue[k]
    <2>1. q \in Seq(0..a) /\ Pending(Now, k) = ToSet(q) \ {Stop}
      BY <1>1 DEF Pending
    <2> HIDE DEF q
    <2>2. ToSet(q) \subseteq 0..a
      BY Zenon, <2>1, ItemsType
    <2> QED
      BY <2>1, <2>2, <1>1 DEF Stop
  <1> QED
    BY <1>4, <1>7, <1>8, <1>9, <1>10

LEMMA AwaitTaskEffect ==
  ASSUME Sorted, NEW k \in Kinds, AwaitTask(k)
  PROVE  Sorted' /\ StopStep
  <1> DEFINE a == accepted
             Awaited(pc) == \A t \in call["stop"].awaits : Task(t, {pc})
  <1>1. UNCHANGED <<tasks, log, stored, failed, accepted, faults>>
    BY DEF AwaitTask
  <1>2. /\ stored' \in SUBSET (1..a) /\ failed' \in SUBSET (1..a)
        /\ faults' \in 0..MaxFaults
    BY <1>1, AtQueues
  <1>3. PICK pc \in Labels :
          /\ OnlyStop(pc)
          /\ current' \in [Kinds -> 0..Len(tasks)] /\ running' \in BOOLEAN
          /\ UNCHANGED queues \/ Become(Drain(Now, k))
    <2> DEFINE Goal == \E pc \in Labels :
                 /\ OnlyStop(pc)
                 /\ current' \in [Kinds -> 0..Len(tasks)] /\ running' \in BOOLEAN
                 /\ UNCHANGED queues \/ Become(Drain(Now, k))
    <2>1. ASSUME Advance(k), UNCHANGED queues \/ Become(Drain(Now, k)) PROVE Goal
      <3>1. "awaitSafe" \in Labels /\ "returned" \in Labels
        BY DEF Labels
      <3> QED
        BY <3>1, <2>1, AdvanceEffect
    <2>2. ASSUME StopAt("raised"), UNCHANGED <<queues, current, running>> PROVE Goal
      <3>1. "raised" \in Labels
        BY DEF Labels
      <3>2. OnlyStop("raised")
        BY <3>1, <2>2, StopAtEffect
      <3> QED
        BY <3>1, <3>2, <2>2, AtStop
    <2>3. ASSUME Become(Drain(Now, k)), UNCHANGED <<current, running>>,
                 call' = [call EXCEPT !["stop"].pc = Draining[k],
                                      !["stop"].lines = Pending(Now, k)]
          PROVE  Goal
      <3> DEFINE old == call["stop"]
                 lines == Pending(Now, k)
                 c == [old EXCEPT !.pc = Draining[k], !.lines = lines]
      <3>1. Draining[k] \in Labels
        <4>1. Draining["main"] = "drainMain" /\ Draining["safe"] = "drainSafe"
          BY DEF Draining
        <4>2. "drainMain" \in Labels /\ "drainSafe" \in Labels
          BY DEF Labels
        <4>3. k = "main" \/ k = "safe"
          BY DEF Kinds
        <4> QED
          BY <4>1, <4>2, <4>3
      <3>2. old \in CallOf(a, Len(tasks)) /\ lines \in SUBSET (1..a)
        BY <2>3, AtStop, PeopleApart, DrainedNow
      <3>3. call' = [call EXCEPT !["stop"] = c]
        BY Zenon, <2>3
      <3> HIDE DEF old, lines
      <3>4. c \in CallOf(a, Len(tasks)) /\ c.pc = Draining[k]
        BY Zenon, <3>1, <3>2 DEF CallOf
      <3> HIDE DEF c
      <3>5. OnlyStop(Draining[k])
        BY Zenon, <3>3, <3>4, StopChange
      <3> QED
        BY <3>1, <3>5, <2>3, AtStop
    <2> HIDE DEF Goal
    <2>4. Goal
      <3>1. \/ Advance(k) /\ UNCHANGED queues
            \/ Become(Drain(Now, k)) /\ Advance(k)
            \/ /\ Become(Drain(Now, k)) /\ UNCHANGED <<current, running>>
               /\ call' = [call EXCEPT !["stop"].pc = Draining[k],
                                       !["stop"].lines = Pending(Now, k)]
            \/ StopAt("raised") /\ UNCHANGED <<queues, current, running>>
        BY Zenon DEF AwaitTask
      <3> QED
        BY <3>1, <2>1, <2>2, <2>3
    <2> QED
      BY <2>4 DEF Goal
  <1>4. /\ Queues(a, Now') /\ \A j \in Kinds : Slack(Now', j) >= Slack(Now, j)
        /\ queue'["main"] \in {queue["main"], <<>>}
    <2>1. CASE UNCHANGED queues
      BY <2>1, SlackKept
    <2>2. CASE Become(Drain(Now, k))
      BY <2>2, DrainedNow
    <2> QED
      BY <2>1, <2>2, <1>3
  <1>5. Sorted'
    BY <1>1, <1>2, <1>3, <1>4, QuietSorted DEF OnlyStop
  <1>6. StopStep
    BY <1>1, <1>3, <1>4 DEF StopStep, OnlyStop
  <1> QED
    BY <1>5, <1>6

LEMMA StoreDrainedEffect ==
  ASSUME Sorted, NEW k \in Kinds, StoreDrained(k) \/ StoreDrainedFails(k)
  PROVE  Sorted' /\ StopStep /\ call["stop"].pc \in {"drainMain", "drainSafe"}
  <1> DEFINE a == accepted
  <1>1. /\ UNCHANGED <<queues, tasks, log, accepted>>
        /\ call["stop"].pc = Draining[k]
    BY DEF StoreDrained, StoreDrainedFails, Calls
  <1>2. call["stop"].pc \in {"drainMain", "drainSafe"}
    <2>1. Draining["main"] = "drainMain" /\ Draining["safe"] = "drainSafe"
      BY DEF Draining
    <2>2. k = "main" \/ k = "safe"
      BY DEF Kinds
    <2> QED
      BY <2>1, <2>2, <1>1
  <1>3. call["stop"].lines \in SUBSET (1..a)
    BY AtStop, PeopleApart
  <1>4. PICK pc \in Labels :
          /\ OnlyStop(pc)
          /\ current' \in [Kinds -> 0..Len(tasks)] /\ running' \in BOOLEAN
          /\ stored' \in SUBSET (1..a) /\ failed' \in SUBSET (1..a)
          /\ faults' \in 0..MaxFaults
    <2>1. CASE StoreDrained(k)
      <3>1. /\ stored' = stored \cup call["stop"].lines /\ Advance(k)
            /\ UNCHANGED <<failed, faults>>
        BY <2>1 DEF StoreDrained
      <3>2. "awaitSafe" \in Labels /\ "returned" \in Labels
        BY DEF Labels
      <3>3. /\ stored' \in SUBSET (1..a) /\ failed' \in SUBSET (1..a)
            /\ faults' \in 0..MaxFaults
        BY <3>1, <1>3, AtQueues
      <3> QED
        BY <3>1, <3>2, <3>3, AdvanceEffect
    <2>2. CASE StoreDrainedFails(k)
      <3>1. /\ failed' = failed \cup call["stop"].lines /\ StopAt("raised") /\ Fault
            /\ UNCHANGED <<current, running, stored>>
        BY <2>2 DEF StoreDrainedFails
      <3>2. "raised" \in Labels
        BY DEF Labels
      <3>3. OnlyStop("raised")
        BY <3>1, <3>2, StopAtEffect
      <3>4. /\ stored' \in SUBSET (1..a) /\ failed' \in SUBSET (1..a)
            /\ faults' \in 0..MaxFaults
        BY <3>1, <1>3, AtQueues, FaultType
      <3> QED
        BY <3>1, <3>2, <3>3, <3>4, AtStop
    <2> QED
      BY <2>1, <2>2
  <1>5. Sorted'
    BY <1>1, <1>4, SlackKept, QuietSorted DEF OnlyStop
  <1>6. StopStep
    BY <1>1, <1>4 DEF StopStep, OnlyStop, queues
  <1> QED
    BY <1>2, <1>5, <1>6

LEMMA SortedInit ==
  ASSUME WriterInit
  PROVE  Sorted
  <1>1. /\ queue = [k \in Kinds |-> <<>>] /\ open = [k \in Kinds |-> 0]
        /\ dropped = {} /\ tasks = <<>> /\ current = [k \in Kinds |-> 0]
        /\ running = FALSE /\ log = <<>> /\ stored = {} /\ failed = {}
        /\ call = [p \in Callers \cup {"stop"} |-> Idle]
        /\ accepted = 0 /\ faults = 0 /\ Len(tasks) = 0
    BY DEF WriterInit
  <1>2. <<>> \in Seq(0..0) /\ <<>> \in Seq(1..0) /\ {} \in SUBSET (1..0)
        /\ <<>> \in Seq(TaskOf(0)) /\ 0 \in 0..0 /\ 0 \in Int
    OBVIOUS
  <1>3. "main" \in Kinds /\ "safe" \in Kinds
    BY DEF Kinds
  <1>4. Typed
    <2>1. /\ Now = [queue |-> queue, open |-> open, dropped |-> dropped]
          /\ queue \in [Kinds -> Seq(0..0)] /\ open \in [Kinds -> Int]
          /\ dropped \in SUBSET (1..0)
      BY <1>1, <1>2 DEF Now
    <2>2. /\ Now \in StoreOf(0) /\ Now.queue = queue
      BY <2>1 DEF StoreOf
    <2>3. Len(queue["main"]) = 0 /\ Len(queue["safe"]) = 0
      BY <1>1, <1>3
    <2>4. QueueSize \in Nat /\ SafeSize \in Nat /\ MaxEvents \in Nat /\ MaxFaults \in Nat
      BY EventWriterAssumption
    <2>5. Queues(0, Now)
      BY <2>2, <2>3, <2>4 DEF Queues
    <2>6. current \in [Kinds -> 0..0]
      BY <1>1, <1>2
    <2>7. call \in [Callers \cup {"stop"} -> CallOf(0, 0)]
      <3>1. Idle \in CallOf(0, 0)
        BY IdleType
      <3> QED
        BY <3>1, <1>1
    <2>8. accepted \in 0..MaxEvents /\ faults \in 0..MaxFaults
      BY <1>1, <2>4
    <2> QED
      BY Zenon, <1>1, <1>2, <2>5, <2>6, <2>7, <2>8 DEF Typed
  <1>5. Roles
    <2>1. \A t \in 1..Len(tasks) : FALSE
      BY <1>1
    <2>2. \A p \in Callers : call[p].pc = "idle"
      BY <1>1 DEF Idle
    <2> QED
      BY <2>1, <2>2 DEF Roles
  <1>6. Tickets
    <2> SUFFICES ASSUME NEW k \in Kinds
                 PROVE  Reserved(Loads(k), Len(tasks), Slack(Now, k))
      BY DEF Tickets
    <2>1. open[k] = 0 /\ Len(queue[k]) = 0 /\ Now.open = open /\ Now.queue = queue
      BY <1>1 DEF Now
    <2>2. Slack(Now, k) = 0
      BY <2>1 DEF Slack
    <2> DEFINE w == [i \in 0..0 |-> 0]
    <2>3. w \in [0..0 -> Nat] /\ w[0] <= 0
      OBVIOUS
    <2>4. \A i, j \in 0..0 : ~(i < j)
      OBVIOUS
    <2> HIDE DEF w
    <2>5. Reserved(Loads(k), 0, 0)
      BY <2>3, <2>4 DEF Reserved
    <2> QED
      BY <2>2, <2>5, <1>1
  <1> QED
    BY <1>4, <1>5, <1>6 DEF Sorted

LEMMA RestartsSorted ==
  ASSUME Sorted, Restarts
  PROVE  Sorted'
  <1>1. DOMAIN call = People
    BY AtStop
  <1> QED
    BY <1>1, StorePendingEffect, StorePendingFailsEffect, AwaitOthersEffect DEF Restarts

LEMMA StopsSorted ==
  ASSUME Sorted, Stops
  PROVE  Sorted'
  BY StopBeginEffect, JoinMainEffect, JoinSafeEffect, AwaitTaskEffect,
     StoreDrainedEffect DEF Stops

LEMMA SortedStep ==
  ASSUME Sorted, [WriterNext]_writerVars
  PROVE  Sorted'
  <1>1. CASE Writers
    BY <1>1, WritersSorted
  <1>2. CASE Restarts
    BY <1>2, RestartsSorted
  <1>3. CASE Appends
    BY <1>3, AppendEventEffect, StoreOwnEffect DEF Appends
  <1>4. CASE Stops
    BY <1>4, StopsSorted
  <1>5. CASE UNCHANGED writerVars
    <2>1. UNCHANGED <<queues, tasks, log, accepted>> /\ current' = current
          /\ running' = running /\ call' = call /\ stored' = stored
          /\ failed' = failed /\ faults' = faults
      BY <1>5 DEF writerVars
    <2> QED
      BY <2>1, AtQueues, AtStop, SlackKept, QuietSorted
  <1> QED
    BY <1>1, <1>2, <1>3, <1>4, <1>5 DEF WriterNext

\* The queues stay within their sizes, whichever of the two pairs of loops
\* takes from them, and no task_done comes without its put: the counters of
\* unfinished tasks never fall below the items that are queued or in a batch.
THEOREM WriterTyped == WriterSpec => []WriterTypeOK
  <1>1. WriterInit => Sorted
    BY SortedInit
  <1>2. Sorted /\ [WriterNext]_writerVars => Sorted'
    BY SortedStep
  <1>3. Sorted => WriterTypeOK
    BY TypedIsTypeOK DEF Sorted
  <1> QED
    BY <1>1, <1>2, <1>3, PTL DEF WriterSpec

-----------------------------------------------------------------------------
(* Items in the relation R, stop items apart: in a sequence, and between    *)
(* sets.  With Different no item is twice in it, with Earlier the items are *)
(* in the order in which they were accepted.                                *)

Different == {r \in Nat \X Nat : r[1] # r[2]}
Earlier == {r \in Nat \X Nat : r[1] < r[2]}
Chain(R, s) ==
  \A i, j \in DOMAIN s :
    i < j /\ s[i] # Stop /\ s[j] # Stop => <<s[i], s[j]>> \in R
Links(R, A, B) == \A x \in A \ {Stop}, y \in B \ {Stop} : <<x, y>> \in R
Apart(A, B) == A \cap B \subseteq {Stop}

LEMMA Relations ==
  ASSUME NEW x \in Nat, NEW y \in Nat
  PROVE  /\ <<x, y>> \in Different <=> x # y
         /\ <<x, y>> \in Earlier <=> x < y
  BY DEF Different, Earlier

LEMMA ApartLinks ==
  ASSUME NEW A \in SUBSET Nat, NEW B \in SUBSET Nat
  PROVE  Links(Different, A, B) <=> Apart(A, B)
  <1>1. ASSUME NEW x \in A, NEW y \in B PROVE <<x, y>> \in Different <=> x # y
    <2>1. x \in Nat /\ y \in Nat
      OBVIOUS
    <2> QED
      BY <2>1, Relations
  <1> QED
    BY Zenon, <1>1 DEF Links, Apart

LEMMA ChainEmpty ==
  ASSUME NEW R
  PROVE  Chain(R, <<>>) /\ ToSet(<<>>) = {}
  BY DEF Chain, ToSet

LEMMA ChainJoined ==
  ASSUME NEW S, NEW s \in Seq(S), NEW u \in Seq(S), NEW R,
         Chain(R, s), Chain(R, u), Links(R, ToSet(s), ToSet(u))
  PROVE  Chain(R, s \o u)
  <1> DEFINE w == s \o u
             n == Len(s)
  <1>1. /\ n \in Nat /\ Len(u) \in Nat /\ DOMAIN s = 1..n /\ DOMAIN u = 1..Len(u)
        /\ \A i \in 1..n : s[i] \in ToSet(s)
        /\ \A i \in 1..Len(u) : u[i] \in ToSet(u)
    BY ItemsType
  <1>2. /\ w \in Seq(S) /\ Len(w) = n + Len(u)
        /\ \A i \in 1..(n + Len(u)) : w[i] = IF i <= n THEN s[i] ELSE u[i - n]
    BY ConcatProperties
  <1>3. DOMAIN w = 1..(n + Len(u))
    BY <1>2, LenProperties
  <1> HIDE DEF w, n
  <1> SUFFICES ASSUME NEW i \in 1..(n + Len(u)), NEW j \in 1..(n + Len(u)), i < j,
                      w[i] # Stop, w[j] # Stop
               PROVE  <<w[i], w[j]>> \in R
    BY Zenon, <1>3 DEF Chain, w
  <1>4. CASE j <= n
    <2>1. i \in 1..n /\ j \in 1..n /\ w[i] = s[i] /\ w[j] = s[j]
      BY <1>1, <1>2, <1>4
    <2> QED
      BY Zenon, <2>1, <1>1 DEF Chain
  <1>5. CASE ~(j <= n) /\ i <= n
    <2>1. i \in 1..n /\ j - n \in 1..Len(u) /\ w[i] = s[i] /\ w[j] = u[j - n]
      BY <1>1, <1>2, <1>5
    <2> QED
      BY <2>1, <1>1 DEF Links
  <1>6. CASE ~(i <= n)
    <2>1. /\ i - n \in 1..Len(u) /\ j - n \in 1..Len(u) /\ i - n < j - n
          /\ ~(j <= n)
      BY <1>1, <1>6
    <2>2. w[i] = u[i - n] /\ w[j] = u[j - n]
      BY <2>1, <1>2, <1>6
    <2> QED
      BY Zenon, <2>1, <2>2, <1>1 DEF Chain
  <1> QED
    BY <1>4, <1>5, <1>6

LEMMA ChainFirst ==
  ASSUME NEW S, NEW s \in Seq(S), NEW n \in 0..Len(s), NEW R, Chain(R, s)
  PROVE  Chain(R, SubSeq(s, 1, n))
  <1> DEFINE f == SubSeq(s, 1, n)
  <1>1. /\ f \in Seq(S) /\ Len(f) = n
        /\ \A i \in 1..n : f[i] = s[i] /\ i \in 1..Len(s)
    BY FirstItems
  <1>2. DOMAIN f = 1..n /\ DOMAIN s = 1..Len(s)
    BY <1>1, LenProperties
  <1> HIDE DEF f
  <1>3. Chain(R, f)
    BY <1>1, <1>2 DEF Chain
  <1> QED
    BY <1>3 DEF f

LEMMA ChainDrawn ==
  ASSUME NEW a \in Nat, NEW s \in Seq(0..a), NEW q \in Seq(0..a), NEW d \in Nat,
         Drawn(s, q, d), NEW R, Chain(R, s)
  PROVE  Chain(R, q) /\ ToSet(q) \subseteq ToSet(s) \cup {Stop}
  <1>1. /\ DOMAIN q = 1..Len(q) /\ Len(q) \in Nat
        /\ \A i \in DOMAIN s : s[i] \in ToSet(s)
        /\ \A x \in ToSet(q) : \E i \in 1..Len(q) : q[i] = x
    BY ItemsType
  <1>2. ASSUME NEW i \in DOMAIN q, NEW j \in DOMAIN q, i < j, q[i] # Stop, q[j] # Stop
        PROVE  <<q[i], q[j]>> \in R
    <2>1. i + d \in DOMAIN s /\ q[i] = s[i + d] /\ j + d \in DOMAIN s /\ q[j] = s[j + d]
      BY <1>2 DEF Drawn
    <2>2. i + d < j + d
      BY <1>1, <1>2
    <2> QED
      BY <2>1, <2>2, <1>2 DEF Chain
  <1>3. Chain(R, q)
    BY <1>2 DEF Chain
  <1>4. ToSet(q) \subseteq ToSet(s) \cup {Stop}
    BY <1>1 DEF Drawn
  <1> QED
    BY <1>3, <1>4

\* What is taken from the front and what stays are linked.
LEMMA FirstDrawn ==
  ASSUME NEW a \in Nat, NEW s \in Seq(0..a), NEW q \in Seq(0..a), NEW d \in Nat,
         NEW n \in 0..Len(s), n <= d, Drawn(s, q, d), NEW R, Chain(R, s)
  PROVE  Links(R, ToSet(SubSeq(s, 1, n)), ToSet(q))
  <1> DEFINE f == SubSeq(s, 1, n)
  <1>1. /\ f \in Seq(0..a) /\ Len(f) = n /\ n \in Nat
        /\ \A i \in 1..n : f[i] = s[i] /\ i \in 1..Len(s)
    BY Zenon, FirstItems
  <1> HIDE DEF f
  <1>2. /\ DOMAIN q = 1..Len(q) /\ Len(q) \in Nat /\ DOMAIN s = 1..Len(s)
        /\ \A x \in ToSet(f) : \E i \in 1..n : f[i] = x
        /\ \A x \in ToSet(q) : \E i \in 1..Len(q) : q[i] = x
    BY <1>1, ItemsType
  <1>3. ASSUME NEW x \in ToSet(f) \ {Stop}, NEW y \in ToSet(q) \ {Stop}
        PROVE  <<x, y>> \in R
    <2>1. PICK i \in 1..n : f[i] = x
      BY <1>2
    <2>2. PICK j \in 1..Len(q) : q[j] = y
      BY <1>2
    <2>3. j + d \in DOMAIN s /\ q[j] = s[j + d]
      BY Zenon, <1>2, <1>3, <2>2 DEF Drawn
    <2>4. i < j + d
      <3>1. i <= n /\ 1 <= j /\ i \in Int /\ j \in Int
        BY <1>1, <1>2
      <3> QED
        BY <3>1, <1>1
    <2>5. i \in DOMAIN s /\ f[i] = s[i]
      BY Zenon, <1>1, <1>2
    <2> QED
      BY Zenon, <2>1, <2>2, <2>3, <2>4, <2>5 DEF Chain
  <1>4. Links(R, ToSet(f), ToSet(q))
    BY Zenon, <1>3 DEF Links
  <1> QED
    BY <1>4 DEF f

LEMMA ChainAppend ==
  ASSUME NEW S, NEW s \in Seq(S), NEW x \in S, NEW R, Chain(R, s),
         Links(R, ToSet(s), {x})
  PROVE  Chain(R, Append(s, x))
  <1> DEFINE w == Append(s, x)
             n == Len(s)
  <1>1. /\ n \in Nat /\ DOMAIN s = 1..n /\ \A i \in 1..n : s[i] \in ToSet(s)
    BY ItemsType
  <1>2. /\ w \in Seq(S) /\ Len(w) = n + 1
        /\ \A i \in 1..n : w[i] = s[i]
        /\ w[n + 1] = x
    BY AppendProperties
  <1>3. DOMAIN w = 1..(n + 1)
    BY <1>2, LenProperties
  <1> HIDE DEF w, n
  <1> SUFFICES ASSUME NEW i \in 1..(n + 1), NEW j \in 1..(n + 1), i < j,
                      w[i] # Stop, w[j] # Stop
               PROVE  <<w[i], w[j]>> \in R
    BY Zenon, <1>3 DEF Chain, w
  <1>4. i \in 1..n /\ w[i] = s[i]
    BY <1>1, <1>2
  <1>5. CASE j = n + 1
    BY <1>1, <1>2, <1>4, <1>5 DEF Links
  <1>6. CASE j # n + 1
    <2>1. j \in 1..n
      BY <1>1, <1>6
    <2> QED
      BY Zenon, <2>1, <1>1, <1>2, <1>4 DEF Chain
  <1> QED
    BY <1>5, <1>6

\* What stays when the first item is replaced.
LEMMA TailDrawn ==
  ASSUME NEW a \in Nat, NEW s \in Seq(0..a), s # <<>>, NEW R, Chain(R, s)
  PROVE  /\ Tail(s) \in Seq(0..a) /\ Chain(R, Tail(s))
         /\ ToSet(Tail(s)) \subseteq ToSet(s)
  <1>1. DOMAIN s = 1..Len(s) /\ Len(s) \in Nat
    BY LenProperties
  <1>2. Drawn(s, s, 0)
    BY <1>1 DEF Drawn
  <1>3. /\ Tail(s) \in Seq(0..a) /\ Drawn(s, Tail(s), 0 + 1)
        /\ ToSet(s) = {Head(s)} \cup ToSet(Tail(s))
    BY <1>2, DrawnTail
  <1>4. 0 + 1 \in Nat
    OBVIOUS
  <1> QED
    BY Zenon, <1>3, <1>4, ChainDrawn

\* The events that a task of the main queue has taken and not written.
Lane(r) == IF r.kind = "main" THEN r.batch ELSE <<>>
Holding(p) == call[p].pc \in {"store", "await"}

\* No event is twice in events.jsonl, in the batches of the main loops and in
\* the main queue taken together, nor is the event of a call that still waits
\* for the end of the old loops.
Single ==
  /\ Chain(Different, log) /\ Chain(Different, queue["main"])
  /\ Apart(ToSet(log), ToSet(queue["main"]))
  /\ \A t \in 1..Len(tasks) :
       /\ Chain(Different, Lane(tasks[t]))
       /\ Apart(ToSet(log), ToSet(Lane(tasks[t])))
       /\ Apart(ToSet(Lane(tasks[t])), ToSet(queue["main"]))
  /\ \A t, u \in 1..Len(tasks) :
       t # u => Apart(ToSet(Lane(tasks[t])), ToSet(Lane(tasks[u])))
  /\ \A p \in Callers : Holding(p) =>
       /\ call[p].event \notin ToSet(log) \cup ToSet(queue["main"])
       /\ \A t \in 1..Len(tasks) : call[p].event \notin ToSet(Lane(tasks[t]))
       /\ \A q \in Callers : q # p /\ Holding(q) => call[q].event # call[p].event

LEMMA LaneType ==
  ASSUME Sorted, NEW t \in 1..Len(tasks)
  PROVE  /\ Lane(tasks[t]) \in Seq(1..accepted)
         /\ ToSet(Lane(tasks[t])) \subseteq 1..accepted
         /\ ToSet(Lane(tasks[t])) \subseteq ToSet(tasks[t].batch)
         /\ tasks[t].kind = "main" => Lane(tasks[t]) = tasks[t].batch
         /\ tasks[t].kind # "main" => Lane(tasks[t]) = <<>>
  <1>1. tasks[t].batch \in Seq(1..accepted) /\ <<>> \in Seq(1..accepted)
    BY AtTask
  <1>2. ToSet(tasks[t].batch) \subseteq 1..accepted /\ ToSet(<<>>) = {}
    BY Zenon, <1>1, ItemsType, ChainEmpty
  <1> QED
    BY Zenon, <1>1, <1>2 DEF Lane

\* What was in the log, in the lane of t and in the queue moves on.
LEMMA SingleMoves ==
  ASSUME Sorted, Single, NEW t \in 1..Len(tasks),
         Len(tasks') = Len(tasks),
         \A u \in 1..Len(tasks) : u # t => tasks'[u] = tasks[u],
         UNCHANGED call,
         NEW L, L = ToSet(log'), NEW B, B = ToSet(Lane(tasks'[t])),
         NEW Q, Q = ToSet(queue'["main"]),
         Chain(Different, log'), Chain(Different, queue'["main"]),
         Chain(Different, Lane(tasks'[t])),
         L \subseteq ToSet(log) \cup ToSet(Lane(tasks[t])),
         B \subseteq ToSet(Lane(tasks[t])) \cup ToSet(queue["main"]) \cup {Stop},
         Q \subseteq ToSet(queue["main"]) \cup {Stop},
         Apart(L, B), Apart(B, Q)
  PROVE  Single'
  <1> DEFINE l == ToSet(log)
             q == ToSet(queue["main"])
             b == [u \in 1..Len(tasks) |-> ToSet(Lane(tasks[u]))]
             n == Len(tasks)
  <1>1. /\ Apart(l, q)
        /\ \A u \in 1..n : Apart(l, b[u]) /\ Apart(b[u], q)
        /\ \A u, v \in 1..n : u # v => Apart(b[u], b[v])
        /\ L \subseteq l \cup b[t] /\ B \subseteq b[t] \cup q \cup {Stop}
        /\ Q \subseteq q \cup {Stop}
    BY DEF Single
  <1>2. \A p \in Callers : Holding(p) =>
          /\ call[p].event # Stop /\ call[p].event \notin l \cup q
          /\ \A u \in 1..n : call[p].event \notin b[u]
    BY DEF Single, Sorted, Roles, Holding
  <1> HIDE DEF l, q, b
  <1>3. Apart(L, Q)
    BY <1>1 DEF Apart
  <1>4. \A u \in 1..n : u # t => Apart(L, b[u]) /\ Apart(b[u], Q)
    BY <1>1 DEF Apart
  <1>5. \A u \in 1..n : u # t => Apart(B, b[u]) /\ Apart(b[u], B)
    BY <1>1 DEF Apart
  <1>6. \A p \in Callers : Holding(p) =>
          /\ call[p].event \notin L \cup Q \cup B
          /\ \A u \in 1..n : call[p].event \notin b[u]
    BY <1>1, <1>2
  <1>7. /\ \A u \in 1..n : u # t => /\ ToSet(Lane(tasks'[u])) = b[u]
                                    /\ Chain(Different, Lane(tasks'[u]))
        /\ \A u, v \in 1..n : u # t /\ v # t /\ u # v => Apart(b[u], b[v])
    BY <1>1 DEF b, Single
  <1>8. \A p \in Callers : Holding(p)' <=> Holding(p)
    BY DEF Holding
  <1>9. \A u \in 1..n :
           /\ Chain(Different, Lane(tasks'[u]))
           /\ Apart(L, ToSet(Lane(tasks'[u]))) /\ Apart(ToSet(Lane(tasks'[u])), Q)
    BY <1>4, <1>7
  <1>10. \A u, v \in 1..n : u # v =>
            Apart(ToSet(Lane(tasks'[u])), ToSet(Lane(tasks'[v])))
    <2> SUFFICES ASSUME NEW u \in 1..n, NEW v \in 1..n, u # v
                 PROVE  Apart(ToSet(Lane(tasks'[u])), ToSet(Lane(tasks'[v])))
      OBVIOUS
    <2>1. CASE u = t
      BY <2>1, <1>5, <1>7
    <2>2. CASE v = t
      BY <2>2, <1>5, <1>7
    <2>3. CASE u # t /\ v # t
      BY <2>3, <1>7
    <2> QED
      BY <2>1, <2>2, <2>3
  <1>11. \A p \in Callers : Holding(p)' =>
           /\ call'[p].event \notin L \cup Q
           /\ \A u \in 1..n : call'[p].event \notin ToSet(Lane(tasks'[u]))
           /\ \A r \in Callers : r # p /\ Holding(r)' => call'[r].event # call'[p].event
    <2> SUFFICES ASSUME NEW p \in Callers, Holding(p)'
                 PROVE  /\ call'[p].event \notin L \cup Q
                        /\ \A u \in 1..n : call'[p].event \notin ToSet(Lane(tasks'[u]))
                        /\ \A r \in Callers : r # p /\ Holding(r)' => call'[r].event # call'[p].event
      OBVIOUS
    <2>1. Holding(p) /\ call'[p] = call[p]
      BY <1>8
    <2>2. \A u \in 1..n : call'[p].event \notin ToSet(Lane(tasks'[u]))
      BY <2>1, <1>6, <1>7
    <2>3. \A r \in Callers : r # p /\ Holding(r)' => call'[r].event # call'[p].event
      BY <2>1, <1>8 DEF Single
    <2> QED
      BY <2>1, <2>2, <2>3, <1>6
  <1> QED
    BY <1>3, <1>9, <1>10, <1>11 DEF Single

\* The lane of t is empty afterwards; a part f of it went to the log.
LEMMA SingleWrites ==
  ASSUME Sorted, Single, NEW t \in 1..Len(tasks),
         Len(tasks') = Len(tasks),
         \A u \in 1..Len(tasks) : u # t => tasks'[u] = tasks[u],
         UNCHANGED call, Lane(tasks'[t]) = <<>>,
         queue'["main"] \in {queue["main"], <<>>},
         NEW f \in Seq(1..accepted), Chain(Different, f),
         ToSet(f) \subseteq ToSet(Lane(tasks[t])), log' \in {log, log \o f}
  PROVE  Single'
  <1>1. /\ log \in Seq(1..accepted) /\ queue["main"] \in Seq(0..accepted)
        /\ ToSet(log) \subseteq 1..accepted /\ ToSet(f) \subseteq 1..accepted
        /\ 1..accepted \subseteq Nat /\ accepted \in Nat
    <2>1. /\ log \in Seq(1..accepted) /\ accepted \in Nat
          /\ queue \in [Kinds -> Seq(0..accepted)] /\ "main" \in Kinds
      BY AtQueues DEF Kinds
    <2>2. ToSet(log) \subseteq 1..accepted /\ ToSet(f) \subseteq 1..accepted
      BY Zenon, <2>1, ItemsType
    <2> QED
      BY <2>1, <2>2
  <1>2. Chain(Different, log) /\ Apart(ToSet(log), ToSet(Lane(tasks[t])))
        /\ Chain(Different, queue["main"])
    BY DEF Single
  <1>3. Apart(ToSet(log), ToSet(f))
    BY <1>2 DEF Apart
  <1>4. Links(Different, ToSet(log), ToSet(f))
    <2>1. ToSet(log) \in SUBSET Nat /\ ToSet(f) \in SUBSET Nat
      BY Zenon, <1>1
    <2> QED
      BY <2>1, <1>3, ApartLinks
  <1>5. /\ Chain(Different, log \o f)
        /\ ToSet(log \o f) = ToSet(log) \cup ToSet(f)
    BY <1>1, <1>2, <1>4, ChainJoined, ItemsJoined
  <1>6. /\ Chain(Different, log')
        /\ ToSet(log') \subseteq ToSet(log) \cup ToSet(Lane(tasks[t]))
    BY Zenon, <1>2, <1>5
  <1>7. /\ Chain(Different, queue'["main"])
        /\ ToSet(queue'["main"]) \subseteq ToSet(queue["main"]) \cup {Stop}
    BY <1>2, ChainEmpty
  <1>8. Chain(Different, Lane(tasks'[t])) /\ ToSet(Lane(tasks'[t])) = {}
    BY ChainEmpty
  <1>9. Apart(ToSet(log'), {}) /\ Apart({}, ToSet(queue'["main"]))
    BY DEF Apart
  <1> QED
    BY Zenon, <1>6, <1>7, <1>8, <1>9, SingleMoves

LEMMA SingleTakes ==
  ASSUME Sorted, Single, NEW t \in 1..Len(tasks),
         NEW n \in 0..Len(queue[tasks[t].kind]), NEW pc,
         NEW batch \in Seq(1..accepted), NEW q \in Seq(0..accepted), NEW d \in Nat,
         Takes(accepted, t, n, pc, batch, q, d), UNCHANGED <<log, call>>
  PROVE  Single'
  <1> DEFINE k == tasks[t].kind
             s == queue["main"]
             f == SubSeq(s, 1, n)
             B == ToSet(Lane(tasks'[t]))
             Q == ToSet(queue'["main"])
  <1>1. /\ batch = tasks[t].batch \o SubSeq(queue[k], 1, n)
        /\ Drawn(queue[k], q, d) /\ d \in {n, n + 1}
        /\ queue' = [queue EXCEPT ![k] = q]
        /\ OnlyTask(accepted, t, pc, batch, {})
    BY DEF Takes
  <1>2. /\ Len(tasks') = Len(tasks)
        /\ \A u \in 1..Len(tasks) : u # t => tasks'[u] = tasks[u]
        /\ tasks'[t].kind = k /\ tasks'[t].batch = batch
    <2>1. OnlyTask(accepted, t, pc, batch, {})
      BY <1>1
    <2> HIDE DEF k
    <2>2. k = tasks[t].kind
      BY DEF k
    <2> QED
      BY <2>1, <2>2 DEF OnlyTask
  <1>3. /\ accepted \in Nat /\ log \in Seq(1..accepted)
        /\ queue \in [Kinds -> Seq(0..accepted)] /\ "main" \in Kinds
        /\ k \in Kinds /\ tasks[t].batch \in Seq(1..accepted)
    BY Zenon, AtQueues, AtTask DEF Kinds
  <1>4. /\ Chain(Different, log) /\ Chain(Different, s)
        /\ Chain(Different, Lane(tasks[t]))
        /\ Apart(ToSet(log), ToSet(s)) /\ Apart(ToSet(log), ToSet(Lane(tasks[t])))
        /\ Apart(ToSet(Lane(tasks[t])), ToSet(s))
    BY DEF Single
  <1>5. ToSet(log') = ToSet(log) /\ Chain(Different, log')
    BY <1>4
  <1>6. CASE k = "main"
    <2>1. s \in Seq(0..accepted) /\ queue'["main"] = q /\ n \in 0..Len(s)
          /\ n \in Nat /\ n <= d /\ Drawn(s, q, d) /\ f = SubSeq(queue[k], 1, n)
      BY <1>1, <1>3, <1>6, LenProperties
    <2>2. Chain(Different, q) /\ ToSet(q) \subseteq ToSet(s) \cup {Stop}
      BY Zenon, <2>1, <1>3, <1>4, ChainDrawn
    <2>3. Links(Different, ToSet(f), ToSet(q))
      BY Zenon, <2>1, <1>3, <1>4, FirstDrawn
    <2>4. Chain(Different, f) /\ f \in Seq(0..accepted) /\ ToSet(f) \subseteq ToSet(s)
      BY Zenon, <2>1, <1>4, ChainFirst, FirstItems
    <2>5. /\ Lane(tasks[t]) = tasks[t].batch /\ Lane(tasks'[t]) = batch
          /\ tasks[t].batch \in Seq(0..accepted)
      <3>1. Seq(1..accepted) \subseteq Seq(0..accepted)
        BY <1>3
      <3> QED
        BY <3>1, <1>2, <1>3, <1>6 DEF Lane
    <2>6. /\ ToSet(tasks[t].batch) \in SUBSET Nat /\ ToSet(f) \in SUBSET Nat
          /\ ToSet(q) \in SUBSET Nat
      <3>1. 0..accepted \subseteq Nat
        BY <1>3
      <3>2. /\ ToSet(tasks[t].batch) \subseteq 0..accepted
            /\ ToSet(f) \subseteq 0..accepted /\ ToSet(q) \subseteq 0..accepted
        <4>1. tasks[t].batch \in Seq(0..accepted) /\ f \in Seq(0..accepted)
          BY <2>4, <2>5
        <4> HIDE DEF f
        <4> QED
          BY Zenon, <4>1, ItemsType
      <3> QED
        BY <3>1, <3>2
    <2>7. Links(Different, ToSet(tasks[t].batch), ToSet(f))
      <3>1. Apart(ToSet(tasks[t].batch), ToSet(f))
        BY <1>4, <2>4, <2>5 DEF Apart
      <3> QED
        BY Zenon, <3>1, <2>6, ApartLinks
    <2>8. /\ Chain(Different, batch)
          /\ B = ToSet(tasks[t].batch) \cup ToSet(f)
      <3>1. /\ batch = tasks[t].batch \o f /\ B = ToSet(batch)
            /\ Chain(Different, tasks[t].batch)
        BY Zenon, <1>1, <1>4, <2>1, <2>5
      <3>2. tasks[t].batch \in Seq(0..accepted) /\ f \in Seq(0..accepted)
        BY <2>4, <2>5
      <3> HIDE DEF f, B
      <3>3. Chain(Different, tasks[t].batch \o f)
        BY <3>1, <3>2, <2>4, <2>7, ChainJoined
      <3>4. ToSet(tasks[t].batch \o f) = ToSet(tasks[t].batch) \cup ToSet(f)
        BY <3>2, ItemsJoined
      <3> QED
        BY <3>1, <3>3, <3>4
    <2>9. Apart(ToSet(f), ToSet(q))
      BY <2>3, <2>6, ApartLinks
    <2>10. Apart(B, Q) /\ Apart(ToSet(log'), B)
      BY <1>4, <1>5, <2>1, <2>2, <2>4, <2>5, <2>8, <2>9 DEF Apart
    <2>11. /\ B \subseteq ToSet(Lane(tasks[t])) \cup ToSet(s) \cup {Stop}
           /\ Q \subseteq ToSet(s) \cup {Stop}
           /\ Chain(Different, Lane(tasks'[t])) /\ Chain(Different, queue'["main"])
      BY Zenon, <2>1, <2>2, <2>4, <2>5, <2>8
    <2> HIDE DEF B, Q
    <2>12. Single'
      BY Zenon, <1>2, <1>5, <2>10, <2>11, SingleMoves DEF B, Q
    <2> QED
      BY <2>12
  <1>7. CASE k # "main"
    <2>1. queue'["main"] = s
      BY Zenon, <1>1, <1>3, <1>7
    <2>2. Lane(tasks'[t]) = <<>> /\ <<>> \in Seq(1..accepted)
      BY <1>2, <1>7 DEF Lane
    <2>3. Chain(Different, <<>>) /\ ToSet(<<>>) \subseteq ToSet(Lane(tasks[t]))
      BY ChainEmpty
    <2>4. log' \in {log, log \o <<>>}
      OBVIOUS
    <2> QED
      BY Zenon, <1>2, <2>1, <2>2, <2>3, <2>4, SingleWrites
  <1> QED
    BY <1>6, <1>7

LEMMA SingleEnds ==
  ASSUME Sorted, Single, NEW t \in 1..Len(tasks), GivesUp(t), UNCHANGED call
  PROVE  Single'
  <1>1. /\ Len(tasks') = Len(tasks)
        /\ \A u \in 1..Len(tasks) : u # t => tasks'[u] = tasks[u]
        /\ tasks'[t].kind = tasks[t].kind
    BY DEF GivesUp, OnlyTask
  <1>2. /\ tasks[t].batch \in Seq(1..accepted) /\ <<>> \in Seq(1..accepted)
        /\ tasks[t].kind \in {"main", "safe"}
    BY AtTask DEF Kinds
  <1>3. Chain(Different, <<>>) /\ ToSet(<<>>) \subseteq ToSet(Lane(tasks[t]))
    BY ChainEmpty
  <1>4. CASE tasks[t].kind = "main"
    <2>1. /\ Lane(tasks'[t]) = <<>> /\ Lane(tasks[t]) = tasks[t].batch
          /\ log' \in {log, log \o tasks[t].batch}
          /\ queue'["main"] \in {queue["main"], <<>>}
      BY <1>1, <1>4 DEF GivesUp, Lane
    <2>2. Chain(Different, tasks[t].batch)
      BY <2>1 DEF Single
    <2> QED
      BY Zenon, <1>1, <1>2, <2>1, <2>2, SingleWrites
  <1>5. CASE tasks[t].kind = "safe"
    <2>1. /\ Lane(tasks'[t]) = <<>> /\ log' \in {log, log \o <<>>}
          /\ queue'["main"] \in {queue["main"], <<>>}
      BY <1>1, <1>5 DEF GivesUp, Lane
    <2> QED
      BY Zenon, <1>1, <1>2, <1>3, <2>1, SingleWrites
  <1> QED
    BY <1>2, <1>4, <1>5

\* A task of events.queue has no part in it.
LEMMA SingleSafe ==
  ASSUME Sorted, Single, NEW t \in 1..Len(tasks), tasks[t].kind = "safe",
         NEW pc, NEW batch, NEW lines, OnlyTask(accepted, t, pc, batch, lines),
         queue' = queue, log' = log, UNCHANGED call
  PROVE  Single'
  <1>1. /\ Len(tasks') = Len(tasks)
        /\ \A u \in 1..Len(tasks) : u # t => tasks'[u] = tasks[u]
        /\ Lane(tasks'[t]) = <<>> /\ <<>> \in Seq(1..accepted)
    BY DEF OnlyTask, Lane
  <1>2. Chain(Different, <<>>) /\ ToSet(<<>>) \subseteq ToSet(Lane(tasks[t]))
    BY ChainEmpty
  <1>3. log' \in {log, log \o <<>>} /\ queue'["main"] \in {queue["main"], <<>>}
    OBVIOUS
  <1> QED
    BY Zenon, <1>1, <1>2, <1>3, SingleWrites

\* The event e of call p is nowhere else.
FreshFor(p, e) ==
  /\ e \in 1..accepted' /\ e \notin ToSet(log) \cup ToSet(queue["main"])
  /\ \A t \in 1..Len(tasks) : e \notin ToSet(Lane(tasks[t]))
  /\ \A q \in Callers : q # p /\ Holding(q) => call[q].event # e

LEMMA LanesKept ==
  ASSUME Sorted, SameTasks
  PROVE  /\ Len(tasks) \in Nat /\ Len(tasks') \in Nat /\ Len(tasks) <= Len(tasks')
         /\ \A u \in 1..Len(tasks) : Lane(tasks'[u]) = Lane(tasks[u])
         /\ \A u \in 1..Len(tasks') : u \notin 1..Len(tasks) => Lane(tasks'[u]) = <<>>
  <1>1. Len(tasks) \in Nat
    BY AtStop
  <1>2. Len(tasks') \in {Len(tasks), Len(tasks) + 2}
    BY DEF SameTasks
  <1>3. \A u \in 1..Len(tasks) : Lane(tasks'[u]) = Lane(tasks[u])
    BY DEF SameTasks, Lane
  <1>4. \A u \in 1..Len(tasks') : u \notin 1..Len(tasks) => u > Len(tasks)
    BY <1>1, <1>2
  <1>5. \A u \in 1..Len(tasks') : u \notin 1..Len(tasks) => Lane(tasks'[u]) = <<>>
    BY <1>4 DEF SameTasks, Lane
  <1> QED
    BY <1>1, <1>2, <1>3, <1>5

\* A step of call p leaves the lanes alone; it may hold the event e, or have
\* put it.
LEMMA SingleCalls ==
  ASSUME Sorted, Single, SameTasks, log' = log, NEW p \in People,
         \A q \in People : q # p => call'[q] = call[q], NEW e,
         NEW Q, Q = ToSet(queue'["main"]), Chain(Different, queue'["main"]),
         \/ /\ Q \subseteq ToSet(queue["main"]) \cup {Stop}
            /\ p \in Callers /\ Holding(p)' => call'[p].event = e /\ FreshFor(p, e)
         \/ /\ Q \subseteq ToSet(queue["main"]) \cup {Stop, e}
            /\ p \in Callers /\ ~Holding(p)' /\ FreshFor(p, e)
  PROVE  Single'
  <1> DEFINE l == ToSet(log)
             q == ToSet(queue["main"])
             n == Len(tasks)
             m == Len(tasks')
             b == [u \in 1..n |-> ToSet(Lane(tasks[u]))]
             c == [u \in 1..m |-> ToSet(Lane(tasks'[u]))]
  <1>1. /\ Apart(l, q)
        /\ \A u \in 1..n : Apart(l, b[u]) /\ Apart(b[u], q)
        /\ \A u, v \in 1..n : u # v => Apart(b[u], b[v])
    BY DEF Single
  <1>2. /\ \A u \in 1..n : u \in 1..m /\ c[u] = b[u]
        /\ \A u \in 1..m : u \notin 1..n => c[u] = {}
    BY LanesKept, ChainEmpty
  <1>3. \A u \in 1..m : Chain(Different, Lane(tasks'[u]))
    <2> SUFFICES ASSUME NEW u \in 1..m PROVE Chain(Different, Lane(tasks'[u]))
      OBVIOUS
    <2>1. CASE u \in 1..n
      BY <2>1, LanesKept DEF Single
    <2>2. CASE u \notin 1..n
      BY <2>2, LanesKept, ChainEmpty
    <2> QED
      BY <2>1, <2>2
  <1>4. \A r \in Callers : r \in People /\ (Holding(r) =>
          /\ call[r].event # Stop /\ call[r].event \notin l \cup q
          /\ \A u \in 1..n : call[r].event \notin b[u]
          /\ \A v \in Callers : v # r /\ Holding(v) => call[v].event # call[r].event)
    BY DEF Single, Sorted, Roles, Holding, People
  <1>5. FreshFor(p, e) => /\ e \notin l \cup q /\ \A u \in 1..n : e \notin b[u]
                       /\ e # Stop
    BY DEF FreshFor, Stop
  <1>6. \A r \in Callers : r # p => call'[r] = call[r] /\ (Holding(r)' <=> Holding(r))
    BY <1>4 DEF Holding
  <1>7. /\ ToSet(log') = l
        /\ \/ Q \subseteq q \cup {Stop}
           \/ Q \subseteq q \cup {Stop, e} /\ FreshFor(p, e)
    BY Zenon
  <1> HIDE DEF l, q, b
  <1>8. /\ Apart(l, Q)
        /\ \A u \in 1..n : Apart(l, b[u]) /\ Apart(b[u], Q)
    BY <1>1, <1>5, <1>7 DEF Apart
  <1>9. \A u \in 1..m : Apart(l, c[u]) /\ Apart(c[u], Q)
    <2> HIDE DEF c
    <2>1. Apart(l, {}) /\ Apart({}, Q)
      BY DEF Apart
    <2> QED
      BY Zenon, <2>1, <1>2, <1>8
  <1>10. \A u, v \in 1..m : u # v => Apart(c[u], c[v])
    <2> HIDE DEF c
    <2>1. \A A : Apart(A, {}) /\ Apart({}, A)
      BY DEF Apart
    <2> QED
      BY Zenon, <2>1, <1>1, <1>2
  <1>11. ASSUME NEW r \in Callers, Holding(r)'
         PROVE  /\ call'[r].event \notin l \cup Q
                /\ \A u \in 1..m : call'[r].event \notin c[u]
                /\ \A v \in Callers : v # r /\ Holding(v)' => call'[v].event # call'[r].event
    <2> HIDE DEF c
    <2>1. CASE r = p
      <3>1. call'[r].event = e /\ FreshFor(p, e) /\ Q \subseteq q \cup {Stop}
        BY <1>11, <2>1 DEF q
      <3>2. e \notin l \cup Q /\ \A u \in 1..m : e \notin c[u]
        BY <3>1, <1>5, <1>2
      <3>3. \A v \in Callers : v # r /\ Holding(v)' => call'[v].event # e
        BY <3>1, <2>1, <1>6 DEF FreshFor
      <3> QED
        BY <3>1, <3>2, <3>3
    <2>2. CASE r # p
      <3>1. call'[r] = call[r] /\ Holding(r)
        BY <2>2, <1>6, <1>11
      <3>2. FreshFor(p, e) => call[r].event # e
        BY <3>1, <2>2 DEF FreshFor
      <3>3. call'[r].event \notin l \cup Q /\ \A u \in 1..m : call'[r].event \notin c[u]
        BY <3>1, <3>2, <1>2, <1>4 DEF q
      <3>4. ASSUME NEW v \in Callers, v # r, Holding(v)'
            PROVE  call'[v].event # call'[r].event
        <4>1. CASE v = p
          BY <4>1, <3>1, <3>2, <3>4
        <4>2. CASE v # p
          BY <4>2, <3>1, <3>4, <1>4, <1>6
        <4> QED
          BY <4>1, <4>2
      <3> QED
        BY <3>3, <3>4
    <2> QED
      BY <2>1, <2>2
  <1>12. Chain(Different, log')
    BY DEF Single
  <1> QED
    BY <1>3, <1>7, <1>8, <1>9, <1>10, <1>11, <1>12 DEF Single

LEMMA SingleResumes ==
  ASSUME Sorted, Single, NEW p \in People, accepted <= accepted',
         accepted' \in 0..MaxEvents, log' = log, NEW e,
         NEW s \in StoreOf(accepted'),
         s.queue["main"] \in {queue["main"], <<>>},
         p \in Callers => FreshFor(p, e), Resumes(p, s, e)
  PROVE  Single'
  <1> DEFINE a == accepted'
             u == s.queue["main"]
             r == queue'["main"]
  <1>1. /\ SameTasks /\ \A q \in People : q # p => call'[q] = call[q]
        /\ p \in Callers /\ call'[p].pc \in {"store", "await", "own"}
             => call'[p].event = e
    BY DEF Resumes
  <1>2. /\ queue["main"] \in Seq(0..accepted) /\ a \in Nat /\ accepted \in Nat
        /\ s.queue \in [Kinds -> Seq(0..a)] /\ "main" \in Kinds
    BY AtQueues, AtCall DEF StoreOf, Kinds
  <1>3. u \in Seq(0..a)
    BY <1>2
  <1>4. /\ Chain(Different, u) /\ ToSet(u) \subseteq ToSet(queue["main"])
    BY ChainEmpty DEF Single
  <1>5. CASE Now' = s
    <2>1. r = u
      BY <1>5 DEF Now
    <2>2. p \in Callers /\ Holding(p)' => call'[p].event = e /\ FreshFor(p, e)
      BY <1>1 DEF Holding
    <2>3. Chain(Different, r) /\ ToSet(r) \subseteq ToSet(queue["main"]) \cup {Stop}
      BY <2>1, <1>4
    <2> QED
      BY <1>1, <2>2, <2>3, SingleCalls
  <1>6. CASE p \in Callers /\ call'[p].pc = "idle" /\ IsEnqueued(a, s, e, Now')
    <2>1. /\ ~Holding(p)' /\ FreshFor(p, e)
          /\ e \in 1..a /\ e \notin ToSet(queue["main"])
      BY <1>6 DEF Holding, FreshFor
    <2>2. e \in 0..a /\ Stop \in 0..a /\ e \in Nat /\ 0..a \subseteq Nat /\ e # Stop
      BY <2>1, <1>2 DEF Stop
    <2>3. ASSUME NEW w \in Seq(0..a), Chain(Different, w), ToSet(w) \subseteq ToSet(u),
                 NEW x \in {e, Stop}
          PROVE  /\ Chain(Different, Append(w, x))
                 /\ ToSet(Append(w, x)) \subseteq ToSet(u) \cup {Stop, e}
      <3>1. ToSet(w) \subseteq 0..a /\ x \in 0..a
        BY <2>2, <2>3, ItemsType
      <3>2. Apart(ToSet(w), {x}) /\ ToSet(w) \in SUBSET Nat /\ {x} \in SUBSET Nat
        BY <2>1, <2>2, <2>3, <1>4, <3>1 DEF Apart
      <3>3. Links(Different, ToSet(w), {x})
        BY <3>2, ApartLinks
      <3>4. Chain(Different, Append(w, x))
        BY <2>3, <3>1, <3>3, ChainAppend
      <3>5. ToSet(Append(w, x)) = ToSet(w) \cup {x}
        BY <2>3, <3>1, ItemsAppended
      <3> QED
        BY <2>3, <3>4, <3>5
    <2>4. \/ r = Append(u, e)
          \/ u # <<>> /\ r = Append(Tail(u), e)
          \/ u # <<>> /\ r = Append(Tail(u), Stop)
      <3>1. Now'.queue = queue'
        BY DEF Now
      <3> QED
        BY <3>1, <1>6 DEF IsEnqueued
    <2>5. u # <<>> => /\ Tail(u) \in Seq(0..a) /\ Chain(Different, Tail(u))
                      /\ ToSet(Tail(u)) \subseteq ToSet(u)
      BY Zenon, <1>2, <1>3, <1>4, TailDrawn
    <2> HIDE DEF u, r
    <2>6. Chain(Different, r) /\ ToSet(r) \subseteq ToSet(u) \cup {Stop, e}
      BY Zenon, <1>3, <1>4, <2>3, <2>4, <2>5
    <2>7. ToSet(r) \subseteq ToSet(queue["main"]) \cup {Stop, e}
      BY <2>6, <1>4
    <2>8. Chain(Different, queue'["main"]) /\ ToSet(queue'["main"]) = ToSet(r)
      BY <2>6 DEF r
    <2> QED
      BY <1>1, <1>6, <2>1, <2>7, <2>8, SingleCalls
  <1> QED
    BY <1>5, <1>6 DEF Resumes

LEMMA SingleStops ==
  ASSUME Sorted, Single, StopStep
  PROVE  Single'
  <1>1. /\ tasks' = tasks /\ log' = log /\ \A q \in Callers : call'[q] = call[q]
        /\ queue'["main"] \in {queue["main"], <<>>, Append(queue["main"], Stop)}
    BY DEF StopStep
  <1>2. SameTasks
    <2>1. Len(tasks) \in Nat
      BY AtStop
    <2> QED
      BY <1>1, <2>1 DEF SameTasks
  <1>3. /\ accepted \in Nat /\ queue["main"] \in Seq(0..accepted) /\ Stop \in 0..accepted
        /\ Chain(Different, queue["main"])
    <2>1. accepted \in Nat /\ queue \in [Kinds -> Seq(0..accepted)] /\ "main" \in Kinds
      BY AtQueues DEF Kinds
    <2> QED
      BY <2>1 DEF Single, Stop
  <1>4. Links(Different, ToSet(queue["main"]), {Stop})
    BY DEF Links
  <1>5. /\ Chain(Different, queue'["main"])
        /\ ToSet(queue'["main"]) \subseteq ToSet(queue["main"]) \cup {Stop}
    <2>1. Chain(Different, Append(queue["main"], Stop))
      BY <1>3, <1>4, ChainAppend
    <2>2. ToSet(Append(queue["main"], Stop)) = ToSet(queue["main"]) \cup {Stop}
      BY <1>3, ItemsAppended
    <2>3. Chain(Different, <<>>) /\ ToSet(<<>>) = {}
      BY ChainEmpty
    <2> HIDE DEF Stop
    <2> QED
      BY Zenon, <1>1, <1>3, <2>1, <2>2, <2>3
  <1>6. "stop" \in People /\ "stop" \notin Callers
        /\ \A q \in People : q # "stop" => call'[q] = call[q]
    BY <1>1, PeopleApart DEF People
  <1> QED
    BY <1>1, <1>2, <1>5, <1>6, SingleCalls

\* The event of a call that waits, and one that is accepted now, is fresh.
LEMMA HeldIsFresh ==
  ASSUME Sorted, Single, NEW p \in Callers, Holding(p), UNCHANGED accepted
  PROVE  FreshFor(p, call[p].event)
  <1>1. call[p].event \in 0..accepted /\ call[p].event # Stop /\ accepted \in Nat
    BY AtStop, AtQueues, PeopleApart DEF Holding, Sorted, Roles
  <1>2. call[p].event \in 1..accepted'
    BY <1>1 DEF Stop
  <1> QED
    BY <1>2 DEF Single, FreshFor

LEMMA NewIsFresh ==
  ASSUME Sorted, NEW p \in Callers, accepted' = accepted + 1
  PROVE  FreshFor(p, accepted')
  <1>1. /\ accepted \in Nat /\ log \in Seq(1..accepted) /\ "main" \in Kinds
        /\ queue \in [Kinds -> Seq(0..accepted)]
    BY AtQueues DEF Kinds
  <1>2. ToSet(log) \subseteq 1..accepted /\ ToSet(queue["main"]) \subseteq 0..accepted
    BY Zenon, <1>1, ItemsType
  <1>3. accepted' \in 1..accepted' /\ accepted' \notin 0..accepted
        /\ accepted' \notin 1..accepted
    BY <1>1
  <1>4. \A t \in 1..Len(tasks) : accepted' \notin ToSet(Lane(tasks[t]))
    BY <1>3, LaneType
  <1>5. \A q \in Callers : call[q].event \in 0..accepted
    BY AtStop, PeopleApart
  <1> QED
    BY <1>2, <1>3, <1>4, <1>5 DEF FreshFor

LEMMA SingleInit ==
  ASSUME WriterInit
  PROVE  Single
  <1>1. /\ log = <<>> /\ queue["main"] = <<>> /\ Len(tasks) = 0
        /\ \A p \in Callers : call[p].pc = "idle"
    BY DEF WriterInit, Idle, Kinds
  <1>2. Chain(Different, <<>>) /\ ToSet(<<>>) = {} /\ Apart({}, {})
    BY ChainEmpty DEF Apart
  <1>3. \A t \in 1..Len(tasks) : FALSE
    BY <1>1
  <1> QED
    BY <1>1, <1>2, <1>3 DEF Single, Holding

LEMMA SingleWriters ==
  ASSUME Sorted, Single, Writers
  PROVE  Single'
  <1>1. PICK t \in DOMAIN tasks :
          \/ Collect(t) \/ FlushTimer(t)
          \/ LogWrite(t) \/ LogWriteFails(t) \/ SafeWrite(t) \/ SafeWriteFails(t)
          \/ Cancelled(t) \/ LastWrite(t) \/ LastWriteFails(t)
    BY DEF Writers
  <1>2. t \in 1..Len(tasks)
    BY AtStop
  <1>3. CASE Collect(t)
    <2>1. PICK n \in 0..Len(queue[tasks[t].kind]), pc \in {"gather", "write", "done"},
               batch \in Seq(1..accepted), q \in Seq(0..accepted), d \in Nat :
                 Takes(accepted, t, n, pc, batch, q, d)
      BY Zenon, <1>2, <1>3, CollectSorted
    <2>2. UNCHANGED <<log, call>>
      BY <1>2, <1>3, CollectSorted
    <2> QED
      BY Zenon, <1>2, <2>1, <2>2, SingleTakes
  <1>4. CASE FlushTimer(t)
    <2>1. /\ OnlyTask(accepted, t, "write", tasks[t].batch, {})
          /\ UNCHANGED <<queue, log, call>>
      BY <1>2, <1>4, FlushTimerEffect DEF FlushTimer, queues
    <2>2. /\ Len(tasks') = Len(tasks)
          /\ \A u \in 1..Len(tasks) : u # t => tasks'[u] = tasks[u]
          /\ Lane(tasks'[t]) = Lane(tasks[t])
      BY <2>1 DEF OnlyTask, Lane
    <2>3. /\ Chain(Different, log) /\ Chain(Different, queue["main"])
          /\ Chain(Different, Lane(tasks[t]))
          /\ Apart(ToSet(log), ToSet(Lane(tasks[t])))
          /\ Apart(ToSet(Lane(tasks[t])), ToSet(queue["main"]))
      BY <1>2 DEF Single
    <2> QED
      BY <1>2, <2>1, <2>2, <2>3, SingleMoves
  <1>5. CASE LogWrite(t) \/ LogWriteFails(t)
    <2>1. /\ OnlyTask(accepted, t, "get", <<>>, {}) /\ tasks[t].kind = "main"
          /\ queue'["main"] = queue["main"]
          /\ \/ log' = log \o tasks[t].batch
             \/ \E n \in 0..Len(tasks[t].batch) :
                  log' = log \o SubSeq(tasks[t].batch, 1, n)
      BY Zenon, <1>2, <1>5, LogWriteEffect, LogWriteFailsEffect
    <2>2. /\ Len(tasks') = Len(tasks) /\ tasks[t].batch \in Seq(1..accepted)
          /\ \A u \in 1..Len(tasks) : u # t => tasks'[u] = tasks[u]
          /\ Lane(tasks'[t]) = <<>> /\ Lane(tasks[t]) = tasks[t].batch
      BY <1>2, <2>1, AtTask DEF OnlyTask, Lane
    <2>3. UNCHANGED call
      BY <1>5 DEF LogWrite, LogWriteFails
    <2>4. Chain(Different, tasks[t].batch)
      BY <1>2, <2>2 DEF Single
    <2>5. CASE log' = log \o tasks[t].batch
      BY Zenon, <1>2, <2>1, <2>2, <2>3, <2>4, <2>5, SingleWrites
    <2>6. ASSUME NEW n \in 0..Len(tasks[t].batch),
                 log' = log \o SubSeq(tasks[t].batch, 1, n)
          PROVE  Single'
      <3>1. /\ Chain(Different, SubSeq(tasks[t].batch, 1, n))
            /\ SubSeq(tasks[t].batch, 1, n) \in Seq(1..accepted)
            /\ ToSet(SubSeq(tasks[t].batch, 1, n)) \subseteq ToSet(tasks[t].batch)
        BY Zenon, <2>2, <2>4, ChainFirst, FirstItems
      <3> QED
        BY Zenon, <1>2, <2>1, <2>2, <2>3, <2>6, <3>1, SingleWrites
    <2> QED
      BY Zenon, <2>1, <2>5, <2>6
  <1>6. CASE SafeWrite(t)
    <2>1. /\ OnlyTask(accepted, t, "get", <<>>, {}) /\ tasks[t].kind = "safe"
          /\ queue' = queue /\ log' = log
      BY <1>2, <1>6, SafeWriteEffect
    <2>2. UNCHANGED call
      BY <1>6 DEF SafeWrite
    <2> QED
      BY <1>2, <2>1, <2>2, SingleSafe
  <1>7. CASE SafeWriteFails(t)
    <2>1. /\ tasks[t].kind = "safe" /\ queue' = queue /\ log' = log
          /\ \/ OnlyTask(accepted, t, "retry", tasks[t].batch, {})
             \/ OnlyTask(accepted, t, "failed", <<>>, {})
      BY <1>2, <1>7, SafeWriteFailsEffect
    <2>2. UNCHANGED call
      BY <1>7 DEF SafeWriteFails
    <2> QED
      BY <1>2, <2>1, <2>2, SingleSafe
  <1>8. CASE Cancelled(t) \/ LastWrite(t) \/ LastWriteFails(t)
    <2>1. GivesUp(t) /\ UNCHANGED call
      BY <1>2, <1>8, CancelledEffect, LastWriteEffect, LastWriteFailsEffect
    <2> QED
      BY <1>2, <2>1, SingleEnds
  <1> QED
    BY <1>1, <1>3, <1>4, <1>5, <1>6, <1>7, <1>8

LEMMA SingleRestarts ==
  ASSUME Sorted, Single, Restarts
  PROVE  Single'
  <1>1. PICK p \in People :
          StorePending(p) \/ StorePendingFails(p) \/ AwaitOthers(p)
    <2>1. DOMAIN call = People
      BY AtStop
    <2> QED
      BY <2>1 DEF Restarts
  <1>2. /\ Resumes(p, Now, call[p].event) /\ call[p].pc \in {"store", "await"}
        /\ log' = log /\ accepted' = accepted
    BY <1>1, StorePendingEffect, StorePendingFailsEffect, AwaitOthersEffect
  <1>3. /\ accepted <= accepted' /\ accepted' \in 0..MaxEvents
        /\ Now \in StoreOf(accepted') /\ Now.queue["main"] = queue["main"]
    BY <1>2, AtQueues
  <1>4. p \in Callers => FreshFor(p, call[p].event)
    BY <1>2, HeldIsFresh DEF Holding
  <1> QED
    BY <1>2, <1>3, <1>4, SingleResumes

LEMMA SingleAppends ==
  ASSUME Sorted, Single, Appends
  PROVE  Single'
  <1>1. PICK p \in Callers : AppendEvent(p) \/ StoreOwn(p) \/ StoreOwnFails(p)
    BY DEF Appends
  <1>2. p \in People
    BY PeopleApart
  <1>3. CASE AppendEvent(p)
    <2>1. /\ \/ Resumes(p, Emptied, accepted')
             \/ Resumes(p, Now, accepted')
          /\ accepted' = accepted + 1 /\ log' = log
      BY <1>3, AppendEventEffect
    <2>2. accepted' \in 0..MaxEvents /\ accepted <= accepted'
      <3>1. accepted \in Nat /\ MaxEvents \in Nat /\ accepted < MaxEvents
        BY <1>3, AtQueues, EventWriterAssumption DEF AppendEvent
      <3> QED
        BY <2>1, <3>1
    <2>3. FreshFor(p, accepted')
      BY <2>1, NewIsFresh
    <2>4. /\ Emptied \in StoreOf(accepted') /\ Emptied.queue["main"] = <<>>
          /\ Now \in StoreOf(accepted') /\ Now.queue["main"] = queue["main"]
      BY <2>2, EmptiedEffect, AtCall, AtQueues
    <2> QED
      BY <1>2, <2>1, <2>2, <2>3, <2>4, SingleResumes
  <1>4. CASE StoreOwn(p) \/ StoreOwnFails(p)
    <2>1. /\ call'[p].pc = "idle" /\ \A q \in People : q # p => call'[q] = call[q]
          /\ UNCHANGED <<queues, tasks, log>>
      BY <1>4, StoreOwnEffect
    <2>2. SameTasks /\ queue' = queue /\ ~Holding(p)'
      <3>1. Len(tasks) \in Nat
        BY AtStop
      <3> QED
        BY <2>1, <3>1 DEF SameTasks, queues, Holding
    <2>3. Chain(Different, queue'["main"])
      BY <2>2 DEF Single
    <2> QED
      BY <1>2, <2>1, <2>2, <2>3, SingleCalls
  <1> QED
    BY <1>1, <1>3, <1>4

LEMMA SingleStopping ==
  ASSUME Sorted, Single, Stops
  PROVE  Single'
  <1>1. CASE StopBegin
    <2>1. /\ log' = log /\ accepted' = accepted
          /\ Resumes("stop", Emptied, Stop) \/ StopStep
      BY Zenon, <1>1, StopBeginEffect
    <2>2. CASE Resumes("stop", Emptied, Stop)
      <3>1. accepted <= accepted' /\ accepted' \in 0..MaxEvents
        BY <2>1, AtQueues
      <3>2. Emptied \in StoreOf(accepted') /\ Emptied.queue["main"] = <<>>
        BY <3>1, EmptiedEffect
      <3>3. "stop" \in People /\ "stop" \notin Callers
        BY PeopleApart
      <3> QED
        BY <2>1, <2>2, <3>1, <3>2, <3>3, SingleResumes
    <2> QED
      BY <2>1, <2>2, SingleStops
  <1>2. CASE ~StopBegin
    <2>1. StopStep
      BY <1>2, JoinMainEffect, JoinSafeEffect, AwaitTaskEffect, StoreDrainedEffect
         DEF Stops
    <2> QED
      BY <2>1, SingleStops
  <1> QED
    BY <1>1, <1>2

LEMMA SingleStep ==
  ASSUME Sorted, Single, [WriterNext]_writerVars
  PROVE  Single'
  <1>1. CASE WriterNext
    BY <1>1, SingleWriters, SingleRestarts, SingleAppends, SingleStopping
       DEF WriterNext
  <1>2. CASE UNCHANGED writerVars
    BY <1>2 DEF writerVars, queues, Single, Holding
  <1> QED
    BY <1>1, <1>2

LEMMA LinksLess ==
  ASSUME NEW R, NEW A, NEW B, NEW C, NEW D, Links(R, A, B),
         C \subseteq A \cup {Stop}, D \subseteq B \cup {Stop}
  PROVE  Links(R, C, D)
  BY Zenon DEF Links

LEMMA LinksMore ==
  ASSUME NEW R, NEW A, NEW B, NEW C
  PROVE  /\ Links(R, A, C) /\ Links(R, B, C) => Links(R, A \cup B, C)
         /\ Links(R, A, B) /\ Links(R, A, C) => Links(R, A, B \cup C)
         /\ Links(R, A, {}) /\ Links(R, {}, A) /\ Links(R, A, {Stop})
  BY DEF Links

\* As long as no loop was ended by an error there is one pair of loops, the
\* calls of append_event do not wait, and stop takes its five steps.
Early == {"idle", "joinMain", "joinSafe"}
Late == {"awaitMain", "awaitSafe", "returned"}
StopPc == call["stop"].pc
Orderly ==
  /\ \A p \in Callers : call[p].pc = "idle"
  /\ StopPc \in Early \cup Late

Unstarted ==
  /\ tasks = <<>> /\ running = FALSE /\ current = [k \in Kinds |-> 0]
  /\ accepted = 0 /\ StopPc = "idle" /\ log = <<>>
  /\ \A k \in Kinds : queue[k] = <<>>

Pair ==
  /\ Len(tasks) = 2 /\ tasks[1].kind = "main" /\ tasks[2].kind = "safe"
  /\ \A t \in 1..2 : /\ tasks[t].cancel = FALSE
                     /\ tasks[t].pc \in {"get", "gather", "write", "retry", "done"}
Steered ==
  /\ StopPc # "returned" => running /\ current["main"] = 1 /\ current["safe"] = 2
  /\ StopPc = "awaitMain" => call["stop"].awaits = {1}
  /\ StopPc = "awaitSafe" => call["stop"].awaits = {2}
Cleared(k, t) == ToSet(queue[k]) \subseteq {Stop} /\ tasks[t].batch = <<>>
\* The queues and batches are empty one after the other, before stop ends the
\* loops.
Staged ==
  /\ StopPc \in Early =>
       /\ tasks[1].pc # "done" /\ tasks[2].pc # "done"
       /\ \A k \in Kinds : Stop \notin ToSet(queue[k])
  /\ StopPc \in {"joinSafe"} \cup Late => Cleared("main", 1)
  /\ StopPc \in Late => Cleared("safe", 2)
\* What is written, taken and queued is in the order of the calls.
InOrder ==
  /\ Chain(Earlier, log) /\ Chain(Earlier, tasks[1].batch)
  /\ Chain(Earlier, queue["main"])
  /\ Links(Earlier, ToSet(log), ToSet(tasks[1].batch))
  /\ Links(Earlier, ToSet(log), ToSet(queue["main"]))
  /\ Links(Earlier, ToSet(tasks[1].batch), ToSet(queue["main"]))
Complete ==
  1..accepted \subseteq Carried(Now) \cup ToSet(tasks[1].batch)
                        \cup ToSet(tasks[2].batch) \cup ToSet(log) \cup stored
Started == Pair /\ Steered /\ Staged /\ InOrder /\ Complete

Healthy == WriterDied \/ (Orderly /\ (Unstarted \/ Started))

\* A loop that an error ended stays ended.
LEMMA DiedStays ==
  ASSUME Sorted, WriterDied, [WriterNext]_writerVars
  PROVE  WriterDied'
  <1>1. DOMAIN tasks = 1..Len(tasks) /\ Len(tasks) \in Nat
    BY AtStop
  <1>2. PICK u \in 1..Len(tasks) : tasks[u].pc = "failed"
    BY <1>1 DEF WriterDied
  <1>3. ASSUME Len(tasks') \in Nat, DOMAIN tasks' = 1..Len(tasks'),
               Len(tasks) <= Len(tasks'), tasks'[u].pc = "failed"
        PROVE  WriterDied'
    BY <1>1, <1>2, <1>3 DEF WriterDied
  <1>4. Sorted'
    BY SortedStep
  <1>5. /\ Len(tasks') \in Nat /\ DOMAIN tasks' = 1..Len(tasks')
    BY <1>4 DEF Sorted, Typed, TaskOf
  <1>6. CASE SameTasks
    <2>1. Len(tasks) <= Len(tasks')
      BY <1>1, <1>6 DEF SameTasks
    <2>2. tasks'[u].pc = "failed"
      BY <1>2, <1>6 DEF SameTasks
    <2> QED
      BY <1>3, <1>5, <2>1, <2>2
  <1>7. CASE UNCHANGED tasks
    BY <1>1, <1>2, <1>3, <1>5, <1>7
  <1>8. ASSUME NEW t \in 1..Len(tasks), tasks[t].pc # "failed", NEW pc, NEW batch,
               NEW lines, OnlyTask(accepted, t, pc, batch, lines)
        PROVE  WriterDied'
    <2>1. tasks'[u] = tasks[u] /\ Len(tasks') = Len(tasks)
      BY <1>2, <1>8 DEF OnlyTask
    <2> QED
      BY <1>1, <1>2, <1>3, <1>5, <2>1
  <1>9. CASE Writers
    <2>1. PICK t \in 1..Len(tasks) :
            \/ Collect(t) \/ FlushTimer(t)
            \/ LogWrite(t) \/ LogWriteFails(t) \/ SafeWrite(t) \/ SafeWriteFails(t)
            \/ Cancelled(t) \/ LastWrite(t) \/ LastWriteFails(t)
      BY <1>1, <1>9 DEF Writers
    <2>2. tasks[t].pc # "failed"
      BY Zenon, <2>1 DEF Collect, FlushTimer, LogWrite, LogWriteFails, SafeWrite,
                  SafeWriteFails, Cancelled, LastWrite, LastWriteFails, Live, Task,
                  Waiting
    <2>3. CASE Collect(t)
      <3>1. PICK n \in 0..Len(queue[tasks[t].kind]), pc \in {"gather", "write", "done"},
                 batch \in Seq(1..accepted), q \in Seq(0..accepted), d \in Nat :
                   Takes(accepted, t, n, pc, batch, q, d)
        BY <2>3, CollectSorted
      <3>2. OnlyTask(accepted, t, pc, batch, {})
        BY <3>1 DEF Takes
      <3> QED
        BY <1>8, <2>2, <3>2
    <2>4. CASE FlushTimer(t)
      BY <2>4, <2>2, <1>8, FlushTimerEffect
    <2>5. CASE LogWrite(t)
      BY <2>5, <2>2, <1>8, LogWriteEffect
    <2>6. CASE LogWriteFails(t)
      BY <2>6, <2>2, <1>8, LogWriteFailsEffect
    <2>7. CASE SafeWrite(t)
      BY <2>7, <2>2, <1>8, SafeWriteEffect
    <2>8. CASE SafeWriteFails(t)
      BY <2>8, <2>2, <1>8, SafeWriteFailsEffect
    <2>9. CASE Cancelled(t) \/ LastWrite(t) \/ LastWriteFails(t)
      <3>1. GivesUp(t)
        BY <2>9, CancelledEffect, LastWriteEffect, LastWriteFailsEffect
      <3> QED
        BY <1>8, <2>2, <3>1 DEF GivesUp
    <2> QED
      BY <2>1, <2>3, <2>4, <2>5, <2>6, <2>7, <2>8, <2>9
  <1>10. CASE Restarts
    <2>1. PICK p \in People :
            StorePending(p) \/ StorePendingFails(p) \/ AwaitOthers(p)
      <3>1. DOMAIN call = People
        BY AtStop
      <3> QED
        BY <3>1, <1>10 DEF Restarts
    <2>2. Resumes(p, Now, call[p].event)
      BY <2>1, StorePendingEffect, StorePendingFailsEffect, AwaitOthersEffect
    <2> QED
      BY <2>2, <1>6 DEF Resumes
  <1>11. CASE Appends
    <2>1. PICK p \in Callers : AppendEvent(p) \/ StoreOwn(p) \/ StoreOwnFails(p)
      BY <1>11 DEF Appends
    <2>2. SameTasks \/ UNCHANGED tasks
      BY <2>1, AppendEventEffect, StoreOwnEffect DEF Resumes
    <2> QED
      BY <2>2, <1>6, <1>7
  <1>12. CASE Stops
    <2>1. SameTasks \/ UNCHANGED tasks
      BY <1>12, StopBeginEffect, JoinMainEffect, JoinSafeEffect, AwaitTaskEffect,
         StoreDrainedEffect DEF Stops, Resumes, StopStep
    <2> QED
      BY <2>1, <1>6, <1>7
  <1>13. CASE UNCHANGED writerVars
    BY <1>13, <1>7 DEF writerVars
  <1> QED
    BY <1>9, <1>10, <1>11, <1>12, <1>13 DEF WriterNext

\* A step of one of the two tasks that puts no stop item and ends only at one.
LEMMA StartedMoves ==
  ASSUME Sorted, Started, NEW t \in 1..2,
         NEW pc \in {"get", "gather", "write", "retry", "done"},
         NEW batch, NEW lines, OnlyTask(accepted, t, pc, batch, lines),
         UNCHANGED <<current, running, call, accepted>>,
         pc = "done" => \E k \in Kinds : Stop \in ToSet(queue[k]),
         StopPc \in Early => \A k \in Kinds : Stop \notin ToSet(queue'[k]),
         StopPc \in {"joinSafe"} \cup Late => Cleared("main", 1)',
         StopPc \in Late => Cleared("safe", 2)',
         InOrder', Complete'
  PROVE  Started'
  <1>1. /\ Len(tasks) = 2 /\ tasks[1].kind = "main" /\ tasks[2].kind = "safe"
        /\ \A u \in 1..2 : /\ tasks[u].cancel = FALSE
                           /\ tasks[u].pc \in {"get", "gather", "write", "retry", "done"}
    BY DEF Started, Pair
  <1>2. /\ Len(tasks') = 2
        /\ \A u \in 1..2 : u # t => tasks'[u] = tasks[u]
        /\ tasks'[t].kind = tasks[t].kind /\ tasks'[t].pc = pc
        /\ tasks'[t].cancel = FALSE
    BY <1>1 DEF OnlyTask
  <1>3. Pair'
    <2>1. \A u \in 1..2 : /\ tasks'[u].kind = tasks[u].kind
                          /\ tasks'[u].cancel = FALSE
                          /\ tasks'[u].pc \in {"get", "gather", "write", "retry", "done"}
      BY <1>1, <1>2
    <2> QED
      BY <1>1, <1>2, <2>1 DEF Pair
  <1>4. Steered' /\ StopPc' = StopPc
    BY DEF Started, Steered, StopPc
  <1>5. Staged'
    <2>1. Staged
      BY DEF Started
    <2>2. StopPc \in Early => pc # "done"
      BY <2>1 DEF Staged
    <2>3. StopPc \in Early => tasks'[1].pc # "done" /\ tasks'[2].pc # "done"
      BY <1>2, <2>1, <2>2 DEF Staged
    <2> QED
      BY <1>4, <2>3 DEF Staged
  <1> QED
    BY <1>3, <1>4, <1>5 DEF Started

\* What the state is when a healthy pair works.
LEMMA AtPair ==
  ASSUME Sorted, Started
  PROVE  /\ Len(tasks) = 2 /\ 1..Len(tasks) = 1..2
         /\ tasks[1].kind = "main" /\ tasks[2].kind = "safe"
         /\ \A t \in 1..2 : /\ tasks[t].cancel = FALSE
                            /\ tasks[t].pc \in {"get", "gather", "write", "retry", "done"}
                            /\ tasks[t].kind = "main" => t = 1
                            /\ tasks[t].kind = "safe" => t = 2
         /\ tasks[1].batch \in Seq(1..accepted) /\ tasks[2].batch \in Seq(1..accepted)
         /\ queue["main"] \in Seq(0..accepted) /\ queue["safe"] \in Seq(0..accepted)
         /\ log \in Seq(1..accepted) /\ accepted \in Nat
         /\ "main" \in Kinds /\ "safe" \in Kinds /\ Kinds = {"main", "safe"}
  <1>1. /\ Len(tasks) = 2 /\ tasks[1].kind = "main" /\ tasks[2].kind = "safe"
        /\ \A t \in 1..2 : /\ tasks[t].cancel = FALSE
                           /\ tasks[t].pc \in {"get", "gather", "write", "retry", "done"}
    BY DEF Started, Pair
  <1>2. 1..Len(tasks) = 1..2 /\ 1 \in 1..2 /\ 2 \in 1..2
        /\ \A t \in 1..2 : t = 1 \/ t = 2
    BY <1>1
  <1>3. tasks[1].batch \in Seq(1..accepted) /\ tasks[2].batch \in Seq(1..accepted)
    BY <1>2, AtTask
  <1>4. "main" \in Kinds /\ "safe" \in Kinds /\ Kinds = {"main", "safe"}
    BY DEF Kinds
  <1>5. \A t \in 1..2 : /\ tasks[t].kind = "main" => t = 1
                        /\ tasks[t].kind = "safe" => t = 2
    BY <1>1, <1>2
  <1>6. /\ queue \in [Kinds -> Seq(0..accepted)] /\ log \in Seq(1..accepted)
        /\ accepted \in Nat
    BY AtQueues
  <1> QED
    BY <1>1, <1>2, <1>3, <1>4, <1>5, <1>6

\* The queues are what they were.
LEMMA QueuesStay ==
  ASSUME UNCHANGED <<queue, dropped>>
  PROVE  Carried(Now') = Carried(Now)
  BY DEF Carried, Now

LEMMA StartedFlushTimer ==
  ASSUME Sorted, Started, NEW t \in 1..2, FlushTimer(t)
  PROVE  Started'
  <1>1. /\ OnlyTask(accepted, t, "write", tasks[t].batch, {})
        /\ UNCHANGED <<queue, dropped, current, running, log, stored, call, accepted>>
    BY AtPair, FlushTimerEffect DEF FlushTimer, queues
  <1>2. Len(tasks) = 2 /\ \A u \in 1..2 : tasks'[u].batch = tasks[u].batch
    BY <1>1, AtPair DEF OnlyTask
  <1>3. tasks'[1].batch = tasks[1].batch /\ tasks'[2].batch = tasks[2].batch
    BY <1>2
  <1>4. InOrder'
    BY <1>1, <1>3 DEF Started, InOrder
  <1>5. Complete'
    BY <1>1, <1>3, QueuesStay DEF Started, Complete
  <1>6. Staged
    BY DEF Started
  <1>7. /\ StopPc \in Early => \A k \in Kinds : Stop \notin ToSet(queue'[k])
        /\ StopPc \in {"joinSafe"} \cup Late => Cleared("main", 1)'
        /\ StopPc \in Late => Cleared("safe", 2)'
    BY <1>1, <1>3, <1>6 DEF Staged, Cleared
  <1> QED
    BY <1>1, <1>4, <1>5, <1>7, StartedMoves

\* A second write to events.queue, or the end of the loop.
LEMMA StartedSafeWriteFails ==
  ASSUME Sorted, Started, NEW t \in 1..2, SafeWriteFails(t)
  PROVE  WriterDied' \/ Started'
  <1>1. /\ UNCHANGED <<queue, dropped, current, running, log, stored, call, accepted>>
        /\ \/ OnlyTask(accepted, t, "retry", tasks[t].batch, {})
           \/ OnlyTask(accepted, t, "failed", <<>>, {})
    BY Zenon, AtPair, SafeWriteFailsEffect DEF SafeWriteFails
  <1>2. CASE OnlyTask(accepted, t, "failed", <<>>, {})
    <2>1. tasks'[t].pc = "failed" /\ Len(tasks') = 2 /\ tasks' \in Seq(TaskOf(accepted))
      BY <1>2, AtPair DEF OnlyTask
    <2>2. t \in DOMAIN tasks'
      BY <2>1
    <2> QED
      BY <2>1, <2>2 DEF WriterDied
  <1>3. CASE OnlyTask(accepted, t, "retry", tasks[t].batch, {})
    <2>2. Len(tasks) = 2 /\ \A u \in 1..2 : tasks'[u].batch = tasks[u].batch
      BY <1>3, AtPair DEF OnlyTask
    <2>3. tasks'[1].batch = tasks[1].batch /\ tasks'[2].batch = tasks[2].batch
      BY <2>2
    <2>4. InOrder'
      BY <1>1, <2>3 DEF Started, InOrder
    <2>5. Complete'
      BY <1>1, <2>3, QueuesStay DEF Started, Complete
    <2>6. Staged
      BY DEF Started
    <2>7. /\ StopPc \in Early => \A k \in Kinds : Stop \notin ToSet(queue'[k])
          /\ StopPc \in {"joinSafe"} \cup Late => Cleared("main", 1)'
          /\ StopPc \in Late => Cleared("safe", 2)'
      BY <1>1, <2>3, <2>6 DEF Staged, Cleared
    <2> QED
      BY <1>1, <1>3, <2>4, <2>5, <2>7, StartedMoves
  <1> QED
    BY <1>1, <1>2, <1>3

LEMMA StartedSafeWrite ==
  ASSUME Sorted, Started, NEW t \in 1..2, SafeWrite(t)
  PROVE  Started'
  <1>1. /\ UNCHANGED <<queue, dropped, current, running, log, call, accepted>>
        /\ OnlyTask(accepted, t, "get", <<>>, {}) /\ tasks[t].kind = "safe"
        /\ stored' = stored \cup ToSet(tasks[t].batch)
    BY Zenon, AtPair, SafeWriteEffect DEF SafeWrite
  <1>2. t = 2
    BY <1>1, AtPair
  <1>3. tasks'[1].batch = tasks[1].batch /\ tasks'[2].batch = <<>>
    BY <1>1, <1>2, AtPair DEF OnlyTask
  <1>4. InOrder'
    BY <1>1, <1>3 DEF Started, InOrder
  <1>5. Complete'
    BY <1>1, <1>2, <1>3, QueuesStay DEF Started, Complete
  <1>6. Staged
    BY DEF Started
  <1>7. /\ StopPc \in Early => \A k \in Kinds : Stop \notin ToSet(queue'[k])
        /\ StopPc \in {"joinSafe"} \cup Late => Cleared("main", 1)'
        /\ StopPc \in Late => Cleared("safe", 2)'
    BY <1>1, <1>3, <1>6 DEF Staged, Cleared
  <1> QED
    BY <1>1, <1>4, <1>5, <1>7, StartedMoves

\* A write to events.jsonl: a part f of the batch is in the file, all of it
\* is there, in the safe queue or counted.
LEMMA StartedLogs ==
  ASSUME Sorted, Started, OnlyTask(accepted, 1, "get", <<>>, {}),
         UNCHANGED <<current, running, stored, call, accepted>>,
         queue'["main"] = queue["main"],
         NEW f \in Seq(1..accepted), Chain(Earlier, f),
         ToSet(f) \subseteq ToSet(tasks[1].batch), log' = log \o f,
         Carried(Now) \subseteq Carried(Now'),
         ToSet(tasks[1].batch) \subseteq Carried(Now') \cup ToSet(f),
         queue' = queue \/ (StopPc \in {"idle", "joinMain"} /\ Stop \notin Carried(Now'))
  PROVE  Started'
  <1>1. tasks'[1].batch = <<>> /\ tasks'[2].batch = tasks[2].batch
    <2>1. 2 \in 1..Len(tasks)
      BY AtPair
    <2> QED
      BY <2>1 DEF OnlyTask
  <1>2. /\ Chain(Earlier, log) /\ Chain(Earlier, queue["main"])
        /\ Links(Earlier, ToSet(log), ToSet(tasks[1].batch))
        /\ Links(Earlier, ToSet(log), ToSet(queue["main"]))
        /\ Links(Earlier, ToSet(tasks[1].batch), ToSet(queue["main"]))
    BY DEF Started, InOrder
  <1>3. Links(Earlier, ToSet(log), ToSet(f)) /\ Links(Earlier, ToSet(f), ToSet(queue["main"]))
    BY <1>2, LinksLess
  <1>4. /\ Chain(Earlier, log') /\ ToSet(log') = ToSet(log) \cup ToSet(f)
    BY <1>2, <1>3, AtPair, ChainJoined, ItemsJoined
  <1>5. Chain(Earlier, <<>>) /\ ToSet(<<>>) = {}
    BY Zenon, ChainEmpty
  <1>6. /\ Links(Earlier, ToSet(log'), ToSet(queue["main"]))
        /\ Links(Earlier, ToSet(log'), {}) /\ Links(Earlier, {}, ToSet(queue["main"]))
    <2>1. Links(Earlier, ToSet(log) \cup ToSet(f), ToSet(queue["main"]))
      BY Zenon, <1>2, <1>3, LinksMore
    <2>2. /\ Links(Earlier, ToSet(log'), {})
          /\ Links(Earlier, {}, ToSet(queue["main"]))
      BY Zenon, LinksMore
    <2> QED
      BY <1>4, <2>1, <2>2
  <1>7. InOrder'
    BY Zenon, <1>1, <1>2, <1>4, <1>5, <1>6 DEF InOrder
  <1>8. Complete'
    <2>1. Complete
      BY DEF Started
    <2> QED
      BY <1>1, <1>4, <1>5, <2>1 DEF Complete
  <1>9. Staged
    BY DEF Started
  <1>10. /\ StopPc \in Early => \A k \in Kinds : Stop \notin ToSet(queue'[k])
         /\ StopPc \in {"joinSafe"} \cup Late => Cleared("main", 1)'
         /\ StopPc \in Late => Cleared("safe", 2)'
    <2>1. CASE queue' = queue
      BY <1>1, <1>9, <2>1 DEF Staged, Cleared
    <2>2. CASE StopPc \in {"idle", "joinMain"} /\ Stop \notin Carried(Now')
      <3>1. \A k \in Kinds : Stop \notin ToSet(queue'[k])
        BY <2>2 DEF Carried, Now, Kinds
      <3>2. StopPc \notin {"joinSafe"} \cup Late
        BY <2>2 DEF Late
      <3>3. StopPc \notin Late
        BY <3>2
      <3> QED
        BY <3>1, <3>2, <3>3
    <2> QED
      BY <2>1, <2>2
  <1>11. 1 \in 1..2 /\ "get" \in {"get", "gather", "write", "retry", "done"}
    OBVIOUS
  <1> QED
    BY <1>7, <1>8, <1>10, <1>11, StartedMoves

LEMMA StartedLogWrite ==
  ASSUME Sorted, Started, NEW t \in 1..2, LogWrite(t)
  PROVE  Started'
  <1>1. /\ OnlyTask(accepted, t, "get", <<>>, {}) /\ tasks[t].kind = "main"
        /\ queue' = queue /\ dropped' = dropped /\ log' = log \o tasks[t].batch
        /\ UNCHANGED <<current, running, stored, call, accepted>>
    BY Zenon, AtPair, LogWriteEffect DEF LogWrite
  <1>2. t = 1
    BY <1>1, AtPair
  <1>3. Chain(Earlier, tasks[1].batch) /\ tasks[1].batch \in Seq(1..accepted)
    BY AtPair DEF Started, InOrder
  <1>4. Carried(Now') = Carried(Now)
    BY <1>1, QueuesStay
  <1>5. log' = log \o tasks[1].batch /\ queue'["main"] = queue["main"]
        /\ OnlyTask(accepted, 1, "get", <<>>, {})
        /\ UNCHANGED <<current, running, stored, call, accepted>>
        /\ Carried(Now) \subseteq Carried(Now') /\ queue' = queue
    BY <1>1, <1>2, <1>4
  <1> DEFINE f == tasks[1].batch
  <1>6. /\ f \in Seq(1..accepted) /\ Chain(Earlier, f) /\ log' = log \o f
        /\ ToSet(f) \subseteq ToSet(tasks[1].batch)
        /\ ToSet(tasks[1].batch) \subseteq Carried(Now') \cup ToSet(f)
    BY <1>3, <1>5
  <1>7. /\ queue' = queue \/ (StopPc \in {"idle", "joinMain"} /\ Stop \notin Carried(Now'))
        /\ queue'["main"] = queue["main"]
        /\ current' = current /\ running' = running /\ stored' = stored
        /\ call' = call /\ accepted' = accepted
    BY <1>5
  <1> HIDE DEF f
  <1> QED
    BY Zenon, <1>5, <1>6, <1>7, StartedLogs

LEMMA StartedLogWriteFails ==
  ASSUME Sorted, Started, Orderly, NEW t \in 1..2, LogWriteFails(t)
  PROVE  Started'
  <1>1. /\ OnlyTask(accepted, t, "get", <<>>, {}) /\ tasks[t].kind = "main"
        /\ tasks[t].pc = "write" /\ queue'["main"] = queue["main"]
        /\ Carried(Now') = Carried(Now) \cup ToSet(tasks[t].batch)
        /\ \E n \in 0..Len(tasks[t].batch) :
             log' = log \o SubSeq(tasks[t].batch, 1, n)
        /\ UNCHANGED <<current, running, stored, call, accepted>>
    BY Zenon, AtPair, LogWriteFailsEffect DEF LogWriteFails
  <1>2. t = 1
    BY <1>1, AtPair
  <1>3. Chain(Earlier, tasks[1].batch) /\ tasks[1].batch \in Seq(1..accepted)
    BY AtPair DEF Started, InOrder
  <1>4. PICK n \in 0..Len(tasks[1].batch) : log' = log \o SubSeq(tasks[1].batch, 1, n)
    BY Zenon, <1>1, <1>2
  <1>5. /\ Chain(Earlier, SubSeq(tasks[1].batch, 1, n))
        /\ SubSeq(tasks[1].batch, 1, n) \in Seq(1..accepted)
        /\ ToSet(SubSeq(tasks[1].batch, 1, n)) \subseteq ToSet(tasks[1].batch)
    BY Zenon, <1>3, ChainFirst, FirstItems
  <1>6. tasks[1].batch # <<>>
    <2>1. Role(tasks[1])
      <3>1. 1 \in 1..Len(tasks)
        BY AtPair
      <3> QED
        BY <3>1, AtTask
    <2> QED
      BY <1>1, <1>2, <2>1 DEF Role
  <1>7. StopPc \in {"idle", "joinMain"} /\ \A k \in Kinds : Stop \notin ToSet(queue[k])
    <2>1. StopPc \notin {"joinSafe"} \cup Late
      BY <1>6 DEF Started, Staged, Cleared
    <2>2. StopPc \in {"idle", "joinMain"} /\ StopPc \in Early
      BY <2>1 DEF Orderly, Early
    <2> QED
      BY <2>2 DEF Started, Staged
  <1>8. Stop \notin Carried(Now')
    <2>1. dropped \subseteq 1..accepted /\ ToSet(tasks[1].batch) \subseteq 1..accepted
      BY <1>3, AtQueues, ItemsType
    <2>2. Stop \notin 1..accepted
      BY AtPair DEF Stop
    <2>3. Stop \notin Carried(Now)
      BY <1>7, <2>1, <2>2, AtPair DEF Carried, Now
    <2> QED
      BY <1>1, <1>2, <2>1, <2>2, <2>3
  <1> QED
    BY Zenon, <1>1, <1>2, <1>4, <1>5, <1>7, <1>8, StartedLogs

\* What the task of queue k takes from it.
LEMMA StartedTakes ==
  ASSUME Sorted, Started, NEW t \in 1..2,
         NEW n \in 0..Len(queue[tasks[t].kind]), NEW pc \in {"gather", "write", "done"},
         NEW batch \in Seq(1..accepted), NEW q \in Seq(0..accepted), NEW d \in Nat,
         Takes(accepted, t, n, pc, batch, q, d),
         UNCHANGED <<dropped, current, running, log, stored, call, accepted>>
  PROVE  Started'
  <1> DEFINE k == tasks[t].kind
             s == queue[k]
             b == tasks[t].batch
             f == SubSeq(s, 1, n)
  <1>1. /\ batch = b \o f /\ Drawn(s, q, d) /\ d \in {n, n + 1}
        /\ \A i \in 1..n : s[i] # Stop
        /\ \A j \in 1..Len(s) : j > n => s[j] = Stop \/ s[j] \in ToSet(q)
        /\ Stop \in ToSet(q) => Stop \in ToSet(s)
        /\ pc = "done" => Stop \in ToSet(s)
        /\ queue' = [queue EXCEPT ![k] = q]
        /\ OnlyTask(accepted, t, pc, batch, {})
    BY DEF Takes
  <1>2. /\ k \in Kinds /\ queue \in [Kinds -> Seq(0..accepted)]
        /\ b \in Seq(1..accepted) /\ s \in Seq(0..accepted) /\ accepted \in Nat
    <2>1. t \in 1..Len(tasks)
      BY Zenon, AtPair
    <2>2. tasks[t].kind \in Kinds /\ tasks[t].batch \in Seq(1..accepted)
      BY <2>1, AtTask
    <2> QED
      BY Zenon, <2>2, AtQueues
  <1>3. /\ queue'[k] = q /\ \A j \in Kinds : j # k => queue'[j] = queue[j]
    BY <1>1, <1>2
  <1>4. /\ tasks'[t].batch = batch /\ \A u \in 1..2 : u # t => tasks'[u] = tasks[u]
    <2>1. 1..Len(tasks) = 1..2
      BY Zenon, AtPair
    <2>2. OnlyTask(accepted, t, pc, batch, {})
      BY <1>1
    <2> HIDE DEF k, b, s, f
    <2> QED
      BY <2>1, <2>2 DEF OnlyTask
  <1>5. /\ f \in Seq(0..accepted) /\ Len(f) = n /\ n \in Nat /\ n <= d
        /\ \A i \in 1..n : f[i] = s[i] /\ i \in 1..Len(s)
        /\ ToSet(f) \subseteq ToSet(s)
    <2>1. /\ f \in Seq(0..accepted) /\ Len(f) = n /\ n \in Nat
          /\ \A i \in 1..n : f[i] = s[i] /\ i \in 1..Len(s)
          /\ ToSet(f) \subseteq ToSet(s)
      BY Zenon, <1>2, FirstItems
    <2> QED
      BY <2>1, <1>1
  <1>6. /\ DOMAIN s = 1..Len(s) /\ Len(s) \in Nat
        /\ \A i \in 1..Len(s) : s[i] \in ToSet(s)
        /\ \A x \in ToSet(s) : \E i \in 1..Len(s) : s[i] = x
    <2>1. s \in Seq(0..accepted)
      BY <1>2
    <2> HIDE DEF s
    <2> QED
      BY <2>1, ItemsType
  <1>7. b \in Seq(0..accepted)
    <2>1. Seq(1..accepted) \subseteq Seq(0..accepted)
      BY <1>2
    <2> QED
      BY <1>2, <2>1
  <1> HIDE DEF f, b, s, k
  <1>8. \A i \in 1..n : s[i] \in ToSet(f)
    <2>1. \A i \in 1..Len(f) : f[i] \in ToSet(f)
      BY <1>5, ItemsType
    <2> QED
      BY <2>1, <1>5
  <1>9. ToSet(batch) = ToSet(b) \cup ToSet(f)
    BY <1>1, <1>5, <1>7, ItemsJoined
  <1>10. ToSet(s) \subseteq ToSet(f) \cup ToSet(q) \cup {Stop}
    <2> SUFFICES ASSUME NEW i \in 1..Len(s), s[i] # Stop
                 PROVE  s[i] \in ToSet(f) \cup ToSet(q)
      BY <1>6
    <2>1. i \in 1..n \/ i > n
      BY <1>5, <1>6
    <2> QED
      BY Zenon, <2>1, <1>1, <1>8
  <1>11. ToSet(q) \subseteq ToSet(s) \cup {Stop}
    <2>1. DOMAIN q = 1..Len(q) /\ \A x \in ToSet(q) : \E i \in 1..Len(q) : q[i] = x
      BY ItemsType
    <2>2. ASSUME NEW i \in 1..Len(q) PROVE q[i] \in ToSet(s) \cup {Stop}
      <3>1. q[i] # Stop => i + d \in 1..Len(s) /\ q[i] = s[i + d]
        BY Zenon, <2>1, <1>1, <1>6 DEF Drawn
      <3> QED
        BY <3>1, <1>6
    <2> QED
      BY <2>1, <2>2
  <1>12. ToSet(s) \subseteq {Stop} /\ b = <<>> =>
           ToSet(q) \subseteq {Stop} /\ batch = <<>>
    <2> SUFFICES ASSUME ToSet(s) \subseteq {Stop}, b = <<>>
                 PROVE  ToSet(q) \subseteq {Stop} /\ batch = <<>>
      OBVIOUS
    <2>1. \A x \in ToSet(f) : FALSE
      <3>1. \A x \in ToSet(f) : \E i \in 1..Len(f) : f[i] = x
        BY <1>5, ItemsType
      <3> QED
        BY <3>1, <1>1, <1>5, <1>6
    <2>2. ToSet(batch) = {}
      <3>1. ToSet(b) = {}
        BY Zenon, ChainEmpty
      <3> QED
        BY <3>1, <2>1, <1>9
    <2>3. batch = <<>>
      BY <2>2, ItemsType
    <2> QED
      BY <2>3, <1>11
  <1>13. Stop \notin ToSet(f)
    <2>1. \A x \in ToSet(f) : \E i \in 1..Len(f) : f[i] = x
      BY <1>5, ItemsType
    <2> QED
      BY Zenon, <2>1, <1>1, <1>5
  <1>14. Staged
    BY DEF Started
  <1>15. StopPc \in Early => \A j \in Kinds : Stop \notin ToSet(queue'[j])
    BY Zenon, <1>1, <1>2, <1>3, <1>14 DEF Staged, s
  <1>16. /\ StopPc \in {"joinSafe"} \cup Late => Cleared("main", 1)'
         /\ StopPc \in Late => Cleared("safe", 2)'
    <2>1. (k = "main" /\ t = 1) \/ (k = "safe" /\ t = 2)
      BY AtPair DEF k
    <2>2. CASE k = "main" /\ t = 1
      <3>1. /\ Cleared("main", 1) => Cleared("main", 1)'
            /\ Cleared("safe", 2) => Cleared("safe", 2)'
        BY <2>2, <1>3, <1>4, <1>12, AtPair DEF Cleared, s, b
      <3> QED
        BY <3>1, <1>14 DEF Staged
    <2>3. CASE k = "safe" /\ t = 2
      <3>1. /\ Cleared("main", 1) => Cleared("main", 1)'
            /\ Cleared("safe", 2) => Cleared("safe", 2)'
        <4>1. /\ queue'["main"] = queue["main"] /\ queue'["safe"] = q
              /\ tasks'[1] = tasks[1] /\ tasks'[2].batch = batch
              /\ s = queue["safe"] /\ b = tasks[2].batch
          BY <2>3, <1>3, <1>4, AtPair DEF s, b
        <4> QED
          BY <4>1, <1>12 DEF Cleared
      <3> QED
        BY <3>1, <1>14 DEF Staged
    <2> QED
      BY <2>1, <2>2, <2>3
  <1>17. Complete'
    <2>1. /\ Complete /\ (t = 1 \/ t = 2) /\ (k = "main" \/ k = "safe")
          /\ "main" \in Kinds /\ "safe" \in Kinds /\ Stop \notin 1..accepted
      <3>1. Stop \notin 1..accepted
        BY AtPair DEF Stop
      <3> QED
        BY <3>1, AtPair DEF Started, k
    <2>2. ToSet(queue["main"]) \cup ToSet(queue["safe"]) \subseteq
            ToSet(queue'["main"]) \cup ToSet(queue'["safe"]) \cup ToSet(batch) \cup {Stop}
      BY <2>1, <1>3, <1>9, <1>10 DEF s
    <2>3. Carried(Now) \subseteq Carried(Now') \cup ToSet(batch) \cup {Stop}
      BY <2>2 DEF Carried, Now
    <2>4. /\ ToSet(tasks[1].batch) \cup ToSet(tasks[2].batch)
               \subseteq ToSet(tasks'[1].batch) \cup ToSet(tasks'[2].batch)
          /\ ToSet(batch) \subseteq ToSet(tasks'[1].batch) \cup ToSet(tasks'[2].batch)
      BY <2>1, <1>4, <1>9 DEF b
    <2> QED
      BY <2>1, <2>3, <2>4 DEF Complete
  <1>18. InOrder'
    <2>1. /\ Chain(Earlier, log) /\ Chain(Earlier, tasks[1].batch)
          /\ Chain(Earlier, queue["main"])
          /\ Links(Earlier, ToSet(log), ToSet(tasks[1].batch))
          /\ Links(Earlier, ToSet(log), ToSet(queue["main"]))
          /\ Links(Earlier, ToSet(tasks[1].batch), ToSet(queue["main"]))
      BY DEF Started, InOrder
    <2>2. CASE k # "main"
      <3>1. queue'["main"] = queue["main"] /\ tasks'[1] = tasks[1]
        BY <2>2, <1>3, <1>4, AtPair DEF k
      <3> QED
        BY <2>1, <3>1 DEF InOrder
    <2>3. CASE k = "main"
      <3>1. /\ t = 1 /\ s = queue["main"] /\ b = tasks[1].batch
            /\ queue'["main"] = q /\ tasks'[1].batch = batch
        BY Zenon, <2>3, <1>3, <1>4, AtPair DEF k, s, b
      <3>2. Chain(Earlier, q)
        BY <1>1, <1>2, <2>1, <3>1, ChainDrawn
      <3>3. Links(Earlier, ToSet(f), ToSet(q))
        <4>1. n \in 0..Len(s) /\ Chain(Earlier, s)
          BY <2>1, <3>1, <1>5 DEF s, k
        <4> QED
          BY <4>1, <1>1, <1>2, <1>5, FirstDrawn DEF f
      <3>4. Chain(Earlier, f)
        <4>1. n \in 0..Len(s) /\ Chain(Earlier, s)
          BY <2>1, <3>1, <1>5 DEF s, k
        <4> QED
          BY <4>1, <1>2, ChainFirst DEF f
      <3>5. /\ Links(Earlier, ToSet(b), ToSet(f)) /\ Links(Earlier, ToSet(log), ToSet(f))
            /\ Links(Earlier, ToSet(b), ToSet(q)) /\ Links(Earlier, ToSet(log), ToSet(q))
        <4>1. ToSet(f) \subseteq ToSet(s) \cup {Stop}
          BY <1>5
        <4> QED
          BY <2>1, <3>1, <1>11, <4>1, LinksLess
      <3>6. Chain(Earlier, batch)
        BY <1>1, <1>5, <1>7, <2>1, <3>1, <3>4, <3>5, ChainJoined
      <3>7. Links(Earlier, ToSet(log), ToSet(b) \cup ToSet(f))
        BY Zenon, <2>1, <3>1, <3>5, LinksMore
      <3>8. Links(Earlier, ToSet(b) \cup ToSet(f), ToSet(q))
        BY Zenon, <3>3, <3>5, LinksMore
      <3> QED
        BY <2>1, <3>1, <3>2, <3>5, <3>6, <3>7, <3>8, <1>9 DEF InOrder
    <2> QED
      BY <2>2, <2>3
  <1>19. pc = "done" => \E j \in Kinds : Stop \in ToSet(queue[j])
    BY <1>1, <1>2 DEF s
  <1>20. OnlyTask(accepted, t, pc, batch, {})
    BY <1>1
  <1> QED
    BY <1>15, <1>16, <1>17, <1>18, <1>19, <1>20, StartedMoves

LEMMA StartedWriters ==
  ASSUME Sorted, Started, Orderly, Writers
  PROVE  WriterDied' \/ Started'
  <1>1. PICK t \in DOMAIN tasks :
          \/ Collect(t) \/ FlushTimer(t)
          \/ LogWrite(t) \/ LogWriteFails(t) \/ SafeWrite(t) \/ SafeWriteFails(t)
          \/ Cancelled(t) \/ LastWrite(t) \/ LastWriteFails(t)
    BY DEF Writers
  <1>2. t \in 1..Len(tasks) /\ t \in 1..2
    BY AtStop, AtPair
  <1>3. CASE Collect(t)
    <2>1. PICK n \in 0..Len(queue[tasks[t].kind]), pc \in {"gather", "write", "done"},
               batch \in Seq(1..accepted), q \in Seq(0..accepted), d \in Nat :
                 Takes(accepted, t, n, pc, batch, q, d)
      BY Zenon, <1>2, <1>3, CollectSorted
    <2>2. UNCHANGED <<dropped, current, running, log, stored, call, accepted>>
      BY <1>2, <1>3, CollectSorted
    <2> QED
      BY Zenon, <1>2, <2>1, <2>2, StartedTakes
  <1>4. ~Cancelled(t) /\ ~LastWrite(t) /\ ~LastWriteFails(t)
    <2>1. /\ tasks[t].cancel = FALSE /\ tasks[t].pc \notin {"last", "dying"}
      BY Zenon, <1>2, AtPair
    <2> QED
      BY <2>1 DEF Cancelled, LastWrite, LastWriteFails, Live, Task
  <1> QED
    BY <1>1, <1>2, <1>3, <1>4, StartedFlushTimer, StartedLogWrite,
       StartedLogWriteFails, StartedSafeWrite, StartedSafeWriteFails

\* What a put does to queues without a stop item.
LEMMA Appended ==
  ASSUME Sorted, accepted' = accepted + 1, accepted' \in 0..MaxEvents,
         \A k \in Kinds : Stop \notin ToSet(queue[k]),
         Become(Enqueue(Now, accepted')), Chain(Earlier, queue["main"])
  PROVE  /\ \A k \in Kinds : Stop \notin ToSet(queue'[k])
         /\ Chain(Earlier, queue'["main"])
         /\ ToSet(queue'["main"]) \subseteq ToSet(queue["main"]) \cup {accepted'}
         /\ Carried(Now') = Carried(Now) \cup {accepted'}
         /\ \A A : A \subseteq 1..accepted /\ Links(Earlier, A, ToSet(queue["main"]))
               => Links(Earlier, A, ToSet(queue'["main"]))
  <1> DEFINE e == accepted'
             s == queue["main"]
             r == queue'["main"]
  <1>1. /\ accepted \in Nat /\ e \in Nat /\ e \in 1..e /\ e \in 0..e /\ accepted <= e
        /\ e # Stop /\ Stop \notin 1..e /\ 0..accepted \subseteq 0..e
    BY AtQueues DEF Stop
  <1>2. /\ Now \in StoreOf(e) /\ Queues(e, Now)
        /\ s \in Seq(0..accepted) /\ s \in Seq(0..e) /\ "main" \in Kinds
        /\ Now.queue = queue
    <2>1. Now \in StoreOf(e) /\ Queues(e, Now)
      BY <1>1, AtCall
    <2>2. queue \in [Kinds -> Seq(0..accepted)] /\ "main" \in Kinds /\ Now.queue = queue
      BY AtQueues DEF Kinds
    <2>3. Seq(0..accepted) \subseteq Seq(0..e)
      BY <1>1
    <2> QED
      BY <2>1, <2>2, <2>3
  <1>3. Now' = Enqueue(Now, e) /\ IsEnqueued(e, Now, e, Now')
    <2>1. IsEnqueued(e, Now, e, Enqueue(Now, e))
      BY <1>1, <1>2, EnqueueEffect DEF Queues
    <2>2. Enqueue(Now, e) \in StoreOf(e)
      BY <2>1 DEF IsEnqueued
    <2> HIDE DEF e
    <2>3. Now' = Enqueue(Now, e)
      <3>1. Become(Enqueue(Now, e))
        BY DEF e
      <3> QED
        BY <2>2, <3>1, BecomeNow
    <2> QED
      BY <2>1, <2>3
  <1>4. Carried(Now') = Carried(Now) \cup {e}
    BY <1>3 DEF IsEnqueued
  <1>5. \A k \in Kinds : Stop \notin ToSet(queue'[k])
    <2>1. Carried(Now) = ToSet(queue["main"]) \cup ToSet(queue["safe"]) \cup dropped
          /\ Carried(Now') = ToSet(queue'["main"]) \cup ToSet(queue'["safe"]) \cup dropped'
      BY DEF Carried, Now
    <2>2. Stop \notin dropped
      <3>1. dropped \subseteq 1..accepted /\ Stop \notin 1..accepted
        BY <1>1, AtQueues DEF Stop
      <3> QED
        BY Zenon, <3>1
    <2>3. Stop \notin Carried(Now')
      BY <2>1, <2>2, <1>1, <1>4 DEF Kinds
    <2> QED
      BY <2>1, <2>3 DEF Kinds
  <1>6. ToSet(s) \subseteq 0..accepted /\ Stop \notin ToSet(s)
    BY Zenon, <1>2, ItemsType
  <1>7. \A A : A \subseteq 0..accepted => Links(Earlier, A, {e})
    <2> SUFFICES ASSUME NEW x \in 0..accepted PROVE <<x, e>> \in Earlier
      BY DEF Links
    <2>1. x \in Nat /\ x < e
      BY <1>1
    <2> QED
      BY <2>1, <1>1, Relations
  <1>8. \/ r = Append(s, e)
        \/ s # <<>> /\ r = Append(Tail(s), e)
    <2>1. s # <<>> => Head(s) # Stop
      <3>1. s # <<>> => ToSet(s) = {Head(s)} \cup ToSet(Tail(s))
        BY <1>2, ItemsOfTail
      <3> QED
        BY <3>1, <1>6
    <2>2. Now'.queue = queue'
      BY DEF Now
    <2> QED
      BY Zenon, <1>2, <1>3, <2>1, <2>2 DEF IsEnqueued
  <1>9. ASSUME NEW w \in Seq(0..accepted), Chain(Earlier, w), ToSet(w) \subseteq ToSet(s)
        PROVE  /\ Chain(Earlier, Append(w, e))
               /\ ToSet(Append(w, e)) \subseteq ToSet(s) \cup {e}
    <2>1. w \in Seq(0..e)
      BY <1>1, <1>9
    <2>2. Links(Earlier, ToSet(w), {e})
      BY Zenon, <1>6, <1>7, <1>9
    <2>3. Chain(Earlier, Append(w, e))
      BY <1>1, <1>9, <2>1, <2>2, ChainAppend
    <2>4. ToSet(Append(w, e)) = ToSet(w) \cup {e}
      BY <1>1, <2>1, ItemsAppended
    <2> QED
      BY <1>9, <2>3, <2>4
  <1>10. s # <<>> => /\ Tail(s) \in Seq(0..accepted) /\ Chain(Earlier, Tail(s))
                     /\ ToSet(Tail(s)) \subseteq ToSet(s)
    BY Zenon, <1>1, <1>2, TailDrawn
  <1>11. Chain(Earlier, s)
    OBVIOUS
  <1> HIDE DEF s, r, e
  <1>12. Chain(Earlier, r) /\ ToSet(r) \subseteq ToSet(s) \cup {e}
    BY Zenon, <1>2, <1>8, <1>9, <1>10, <1>11
  <1>13. ASSUME NEW A, A \subseteq 1..accepted, Links(Earlier, A, ToSet(s))
         PROVE  Links(Earlier, A, ToSet(r))
    <2>1. A \subseteq 0..accepted
      BY <1>1, <1>13
    <2>2. Links(Earlier, A, ToSet(s) \cup {e})
      BY Zenon, <1>7, <1>13, <2>1, LinksMore
    <2>3. ToSet(r) \subseteq (ToSet(s) \cup {e}) \cup {Stop} /\ A \subseteq A \cup {Stop}
      BY <1>12
    <2> QED
      BY <2>2, <2>3, LinksLess
  <1> QED
    BY <1>4, <1>5, <1>12, <1>13 DEF s, r, e

LEMMA StartedAppend ==
  ASSUME Sorted, Orderly, Started, NEW p \in Callers, AppendEvent(p)
  PROVE  Orderly' /\ Started'
  <1>1. /\ StopPc = "idle" /\ accepted' = accepted + 1
        /\ UNCHANGED <<log, stored>> /\ call["stop"].pc = "idle"
    BY AppendEventEffect DEF StopPc
  <1>2. /\ running /\ current["main"] = 1 /\ current["safe"] = 2
        /\ tasks[1].pc # "done" /\ tasks[2].pc # "done"
        /\ \A k \in Kinds : Stop \notin ToSet(queue[k])
    BY <1>1 DEF Started, Steered, Staged, Early
  <1>3. ~SomeEnded
    <2>1. \A t \in 1..2 : tasks[t].pc \notin Finished
      <3>1. \A t \in 1..2 : tasks[t].pc \in {"get", "gather", "write", "retry"}
        BY <1>2, AtPair
      <3> QED
        BY <3>1 DEF Finished
    <2>2. \A k \in Kinds : current[k] \in 1..2
      BY <1>2 DEF Kinds
    <2> QED
      BY <2>1, <2>2 DEF SomeEnded, Ended
  <1>4. StartAndEnqueue(p, Now, accepted') /\ accepted < MaxEvents
    BY <1>3 DEF AppendEvent
  <1>5. /\ running' = TRUE /\ Become(Enqueue(Now, accepted'))
        /\ UNCHANGED <<tasks, current>> /\ Returns(p)
    BY <1>2, <1>4 DEF StartAndEnqueue
  <1>6. accepted' \in 0..MaxEvents /\ accepted \in Nat
    BY <1>1, <1>4, AtPair, EventWriterAssumption
  <1>7. /\ Chain(Earlier, log) /\ Chain(Earlier, tasks[1].batch)
        /\ Chain(Earlier, queue["main"])
        /\ Links(Earlier, ToSet(log), ToSet(tasks[1].batch))
        /\ Links(Earlier, ToSet(log), ToSet(queue["main"]))
        /\ Links(Earlier, ToSet(tasks[1].batch), ToSet(queue["main"]))
    BY DEF Started, InOrder
  <1>8. /\ \A k \in Kinds : Stop \notin ToSet(queue'[k])
        /\ Chain(Earlier, queue'["main"])
        /\ Carried(Now') = Carried(Now) \cup {accepted'}
        /\ \A A : A \subseteq 1..accepted /\ Links(Earlier, A, ToSet(queue["main"]))
               => Links(Earlier, A, ToSet(queue'["main"]))
    BY <1>1, <1>2, <1>5, <1>6, <1>7, Appended
  <1>9. ToSet(log) \subseteq 1..accepted /\ ToSet(tasks[1].batch) \subseteq 1..accepted
    <2> DEFINE b == tasks[1].batch
    <2>1. log \in Seq(1..accepted) /\ b \in Seq(1..accepted)
      BY AtPair
    <2> HIDE DEF b
    <2>2. ToSet(log) \subseteq 1..accepted
      BY Zenon, <2>1, ItemsType
    <2>3. ToSet(b) \subseteq 1..accepted
      BY Zenon, <2>1, ItemsType
    <2> QED
      BY <2>2, <2>3 DEF b
  <1>10. InOrder'
    BY <1>1, <1>5, <1>7, <1>8, <1>9 DEF InOrder
  <1>11. Complete'
    <2>1. 1..accepted' = 1..accepted \cup {accepted'}
      BY <1>1, <1>6
    <2>2. Complete
      BY DEF Started
    <2> QED
      BY <1>1, <1>5, <1>8, <2>1, <2>2 DEF Complete
  <1>12. /\ call'[p].pc = "idle" /\ \A q \in People : q # p => call'[q] = call[q]
         /\ p # "stop" /\ "stop" \in People /\ Callers \subseteq People
    BY <1>5, ReturnsEffect, PeopleApart
  <1>13. StopPc' = "idle" /\ Orderly'
    <2>1. call'["stop"] = call["stop"]
      BY <1>12
    <2>2. \A q \in Callers : call'[q].pc = "idle"
      BY <1>12 DEF Orderly
    <2>3. StopPc' = "idle"
      BY <1>1, <2>1 DEF StopPc
    <2> QED
      BY <2>2, <2>3 DEF Orderly, Early
  <1>14. Staged'
    BY <1>2, <1>5, <1>8, <1>13 DEF Staged, Late
  <1>15. Steered' /\ Pair'
    BY <1>2, <1>5, <1>13 DEF Steered, Started, Pair
  <1> QED
    BY <1>10, <1>11, <1>13, <1>14, <1>15 DEF Started

LEMMA UnstartedAppend ==
  ASSUME Sorted, Orderly, Unstarted, NEW p \in Callers, AppendEvent(p)
  PROVE  Orderly' /\ Started'
  <1>1. /\ accepted' = accepted + 1 /\ accepted = 0
        /\ UNCHANGED <<log, stored>> /\ StopPc = "idle" /\ running = FALSE
        /\ tasks = <<>> /\ log = <<>> /\ queue["main"] = <<>>
        /\ \A k \in Kinds : current[k] = 0 /\ queue[k] = <<>>
    BY AppendEventEffect DEF Unstarted, Kinds
  <1>2. ToSet(<<>>) = {} /\ Chain(Earlier, <<>>)
    BY ChainEmpty
  <1>3. StartAndEnqueue(p, Now, accepted') /\ accepted < MaxEvents
    <2>1. ~SomeEnded
      BY <1>1 DEF SomeEnded, Ended
    <2> QED
      BY <2>1 DEF AppendEvent
  <1>4. /\ running' = TRUE /\ Become(Enqueue(Now, accepted'))
        /\ tasks' = tasks \o <<NewTask("main"), NewTask("safe")>>
        /\ current' = [main |-> Len(tasks) + 1, safe |-> Len(tasks) + 2]
        /\ Returns(p)
    BY <1>1, <1>3 DEF StartAndEnqueue
  <1>5. accepted' \in 0..MaxEvents /\ accepted <= accepted' /\ accepted' = 1
    BY <1>1, <1>3, EventWriterAssumption
  <1>6. /\ Len(tasks') = 2 /\ tasks'[1] = NewTask("main") /\ tasks'[2] = NewTask("safe")
    <2>1. Len(tasks) = 0 /\ 0 + 1 = 1 /\ 0 + 2 = 2
      BY <1>1
    <2> QED
      BY <1>4, <1>5, <2>1, TasksAdded
  <1>7. current'["main"] = 1 /\ current'["safe"] = 2
    <2>1. Len(tasks) = 0
      BY <1>1
    <2> QED
      BY <1>4, <2>1
  <1>8. /\ \A k \in Kinds : Stop \notin ToSet(queue'[k])
        /\ Chain(Earlier, queue'["main"])
        /\ Carried(Now') = Carried(Now) \cup {accepted'}
    <2>1. \A k \in Kinds : Stop \notin ToSet(queue[k])
      BY <1>1, <1>2
    <2> QED
      BY <1>1, <1>2, <1>4, <1>5, <2>1, Appended
  <1>9. /\ tasks'[1].kind = "main" /\ tasks'[2].kind = "safe"
        /\ tasks'[1].batch = <<>> /\ tasks'[2].batch = <<>>
        /\ tasks'[1].pc = "get" /\ tasks'[2].pc = "get"
        /\ tasks'[1].cancel = FALSE /\ tasks'[2].cancel = FALSE
    BY <1>6 DEF NewTask
  <1>10. Pair'
    <2>1. \A t \in 1..2 : t = 1 \/ t = 2
      OBVIOUS
    <2> QED
      BY <2>1, <1>6, <1>9 DEF Pair
  <1>11. InOrder'
    BY Zenon, <1>1, <1>2, <1>8, <1>9, LinksMore DEF InOrder
  <1>12. Complete'
    <2>1. 1..accepted' = {accepted'}
      BY <1>5
    <2> QED
      BY <1>8, <2>1 DEF Complete
  <1>13. /\ call'[p].pc = "idle" /\ \A q \in People : q # p => call'[q] = call[q]
         /\ p # "stop" /\ "stop" \in People /\ Callers \subseteq People
    BY <1>4, ReturnsEffect, PeopleApart
  <1>14. StopPc' = "idle" /\ Orderly'
    <2>1. call'["stop"] = call["stop"]
      BY <1>13
    <2>2. \A q \in Callers : call'[q].pc = "idle"
      BY <1>13 DEF Orderly
    <2>3. StopPc' = "idle"
      BY <1>1, <2>1 DEF StopPc
    <2> QED
      BY <2>2, <2>3 DEF Orderly, Early
  <1>15. Staged'
    BY <1>8, <1>9, <1>14 DEF Staged, Late
  <1>16. Steered'
    BY <1>4, <1>7, <1>14 DEF Steered
  <1> QED
    BY <1>10, <1>11, <1>12, <1>14, <1>15, <1>16 DEF Started

LEMMA StopAppended ==
  ASSUME NEW a, NEW s \in Seq(0..a), NEW r, Stop \in 0..a, r = Append(s, Stop)
  PROVE  ToSet(r) = ToSet(s) \cup {Stop}
  <1> DEFINE S == 0..a
  <1>1. s \in Seq(S) /\ Stop \in S
    OBVIOUS
  <1> HIDE DEF S
  <1>2. ToSet(Append(s, Stop)) = ToSet(s) \cup {Stop}
    BY <1>1, ItemsAppended
  <1> QED
    BY <1>2

\* join() returned: the queue and the batch are empty.
LEMMA Joined ==
  ASSUME Sorted, Started, NEW t \in 1..2, open[tasks[t].kind] = 0
  PROVE  Cleared(tasks[t].kind, t)
  <1> DEFINE k == tasks[t].kind
             n == Len(tasks)
  <1>1. /\ t \in 1..n /\ k \in Kinds /\ open[k] = 0 /\ n \in Nat
        /\ tasks[t].batch \in Seq(1..accepted) /\ Len(tasks[t].batch) \in Nat
        /\ tasks \in Seq(TaskOf(accepted))
    <2>1. t \in 1..n
      BY AtPair
    <2> QED
      BY <2>1, AtTask
  <1>2. /\ queue[k] \in Seq(0..accepted) /\ Slack(Now, k) = 0 - Len(queue[k])
        /\ Slack(Now, k) \in Int /\ Len(queue[k]) \in Nat
    <2>1. /\ queue \in [Kinds -> Seq(0..accepted)] /\ Now.queue = queue
          /\ Now.open = open /\ Slack(Now, k) \in Int
      BY Zenon, <1>1, AtQueues
    <2> HIDE DEF k
    <2> QED
      BY <1>1, <2>1 DEF Slack
  <1>3. Reserved(Loads(k), n, Slack(Now, k))
    BY <1>1 DEF Sorted, Tickets
  <1>4. accepted \in Nat
    BY AtQueues
  <1>5. Loads(k) \in [1..n -> Nat] /\ Loads(k)[t] = Len(tasks[t].batch)
    BY <1>1, <1>4, LoadsType
  <1>6. Slack(Now, k) >= 0 /\ Loads(k)[t] <= Slack(Now, k)
    BY Zenon, <1>1, <1>2, <1>3, <1>5, ReservedBounds
  <1>7. Len(queue[k]) = 0 /\ Len(tasks[t].batch) = 0
    BY <1>1, <1>2, <1>5, <1>6
  <1>8. ToSet(queue[k]) = {}
    BY <1>2, <1>7, ItemsType
  <1>9. tasks[t].batch = <<>>
    BY <1>1, <1>7, ItemsType
  <1> QED
    BY <1>8, <1>9 DEF Cleared

\* A step of stop that leaves the events where they are.
LEMMA StartedStops ==
  ASSUME Sorted, Orderly, Started, NEW pc \in Early \cup Late, OnlyStop(pc),
         UNCHANGED <<dropped, tasks, log, stored, accepted>>,
         \/ queue' = queue
         \/ \A k \in Kinds : queue'[k] = Append(queue[k], Stop),
         Steered', Staged'
  PROVE  Orderly' /\ Started'
  <1>1. /\ StopPc' = pc /\ \A p \in Callers : call'[p] = call[p]
    BY DEF OnlyStop, StopPc
  <1>2. Orderly'
    BY <1>1 DEF Orderly
  <1>3. Pair'
    BY DEF Started, Pair
  <1>4. /\ Chain(Earlier, log) /\ Chain(Earlier, tasks[1].batch)
        /\ Chain(Earlier, queue["main"])
        /\ Links(Earlier, ToSet(log), ToSet(tasks[1].batch))
        /\ Links(Earlier, ToSet(log), ToSet(queue["main"]))
        /\ Links(Earlier, ToSet(tasks[1].batch), ToSet(queue["main"]))
        /\ Complete
    BY DEF Started, InOrder
  <1>5. CASE queue' = queue
    <2>1. InOrder'
      BY <1>4, <1>5 DEF InOrder
    <2>2. Complete'
      BY <1>4, <1>5, QueuesStay DEF Complete
    <2> QED
      BY <1>2, <1>3, <2>1, <2>2 DEF Started
  <1>6. CASE \A k \in Kinds : queue'[k] = Append(queue[k], Stop)
    <2>1. /\ queue'["main"] = Append(queue["main"], Stop)
          /\ queue'["safe"] = Append(queue["safe"], Stop)
          /\ queue["main"] \in Seq(0..accepted) /\ queue["safe"] \in Seq(0..accepted)
          /\ Stop \in 0..accepted
      <3>1. Stop \in 0..accepted
        BY AtPair DEF Stop
      <3> QED
        BY Zenon, <3>1, <1>6, AtPair
    <2>2. /\ ToSet(queue'["main"]) = ToSet(queue["main"]) \cup {Stop}
          /\ ToSet(queue'["safe"]) = ToSet(queue["safe"]) \cup {Stop}
      BY Zenon, <2>1, StopAppended
    <2>3. Chain(Earlier, queue'["main"])
      <3>1. Links(Earlier, ToSet(queue["main"]), {Stop})
        BY LinksMore
      <3> QED
        BY Zenon, <1>4, <2>1, <3>1, ChainAppend
    <2>4. /\ Links(Earlier, ToSet(log), ToSet(queue'["main"]))
          /\ Links(Earlier, ToSet(tasks[1].batch), ToSet(queue'["main"]))
      <3>1. ToSet(queue'["main"]) \subseteq ToSet(queue["main"]) \cup {Stop}
        BY <2>2
      <3> QED
        BY <1>4, <3>1, LinksLess
    <2>5. InOrder'
      BY <1>4, <2>3, <2>4 DEF InOrder
    <2>6. Complete'
      <3>1. Carried(Now) \subseteq Carried(Now')
        BY <2>2 DEF Carried, Now
      <3> QED
        BY <1>4, <3>1 DEF Complete
    <2> QED
      BY <1>2, <1>3, <2>5, <2>6 DEF Started
  <1> QED
    BY <1>5, <1>6

LEMMA StartedStopBegin ==
  ASSUME Sorted, Orderly, Started, StopBegin
  PROVE  Orderly' /\ Started'
  <1>1. /\ StopPc = "idle" /\ UNCHANGED <<log, stored, accepted>>
        /\ \/ SomeEnded
           \/ OnlyStop("joinMain") /\ UNCHANGED <<queues, tasks, current, running>>
    BY Zenon, StopBeginEffect DEF StopPc
  <1>2. /\ current["main"] = 1 /\ current["safe"] = 2 /\ running
        /\ tasks[1].pc # "done" /\ tasks[2].pc # "done"
        /\ \A k \in Kinds : Stop \notin ToSet(queue[k])
    BY <1>1 DEF Started, Steered, Staged, Early
  <1>3. ~SomeEnded
    <2>1. \A t \in 1..2 : tasks[t].pc \notin Finished
      <3>1. \A t \in 1..2 : tasks[t].pc \in {"get", "gather", "write", "retry"}
        BY <1>2, AtPair
      <3> QED
        BY <3>1 DEF Finished
    <2>2. \A k \in Kinds : current[k] \in 1..2
      BY <1>2 DEF Kinds
    <2> QED
      BY <2>1, <2>2 DEF SomeEnded, Ended
  <1>4. /\ OnlyStop("joinMain") /\ UNCHANGED <<queues, tasks, current, running>>
        /\ StopPc' = "joinMain" /\ queue' = queue /\ dropped' = dropped
        /\ "joinMain" \in Early \cup Late
    BY <1>1, <1>3 DEF OnlyStop, StopPc, queues, Early
  <1>5. Steered' /\ Staged'
    BY <1>2, <1>4 DEF Steered, Staged, Late
  <1> QED
    BY <1>1, <1>4, <1>5, StartedStops

LEMMA StartedJoinMain ==
  ASSUME Sorted, Orderly, Started, JoinMain
  PROVE  Orderly' /\ Started'
  <1>1. /\ OnlyStop("joinSafe") /\ StopPc = "joinMain" /\ open["main"] = 0
        /\ UNCHANGED <<queues, tasks, current, running, log, stored, accepted>>
    BY JoinMainEffect DEF StopPc
  <1>2. /\ current["main"] = 1 /\ current["safe"] = 2 /\ running
        /\ tasks[1].pc # "done" /\ tasks[2].pc # "done"
        /\ \A k \in Kinds : Stop \notin ToSet(queue[k])
    BY <1>1 DEF Started, Steered, Staged, Early
  <1>3. Cleared("main", 1)
    BY <1>1, AtPair, Joined
  <1>4. /\ StopPc' = "joinSafe" /\ queue' = queue /\ dropped' = dropped
        /\ "joinSafe" \in Early \cup Late
    BY <1>1 DEF OnlyStop, StopPc, queues, Early
  <1>5. Cleared("main", 1)'
    BY <1>1, <1>3, <1>4 DEF Cleared
  <1>6. Steered' /\ Staged'
    BY <1>1, <1>2, <1>4, <1>5 DEF Steered, Staged, Late
  <1> QED
    BY <1>1, <1>4, <1>6, StartedStops

LEMMA StartedJoinSafe ==
  ASSUME Sorted, Orderly, Started, JoinSafe
  PROVE  Orderly' /\ Started'
  <1>1. /\ OnlyStop("awaitMain") /\ StopPc = "joinSafe" /\ open["safe"] = 0
        /\ call'["stop"].awaits = {current["main"]} \ {0}
        /\ \A k \in Kinds : queue'[k] = Append(queue[k], Stop)
        /\ UNCHANGED <<dropped, tasks, current, running, log, stored, accepted>>
    BY JoinSafeEffect DEF StopPc
  <1>2. /\ current["main"] = 1 /\ current["safe"] = 2 /\ running
        /\ Cleared("main", 1)
    BY <1>1 DEF Started, Steered, Staged
  <1>3. Cleared("safe", 2)
    BY <1>1, AtPair, Joined
  <1>4. StopPc' = "awaitMain" /\ "awaitMain" \in Early \cup Late
    BY <1>1 DEF OnlyStop, StopPc, Late
  <1>5. Cleared("main", 1)' /\ Cleared("safe", 2)'
    <2>1. /\ queue["main"] \in Seq(0..accepted) /\ queue["safe"] \in Seq(0..accepted)
          /\ Stop \in 0..accepted /\ "main" \in Kinds /\ "safe" \in Kinds
      <3>1. Stop \in 0..accepted
        BY AtPair DEF Stop
      <3> QED
        BY <3>1, AtPair
    <2>2. /\ queue'["main"] = Append(queue["main"], Stop)
          /\ queue'["safe"] = Append(queue["safe"], Stop)
      BY <1>1, <2>1
    <2>3. /\ ToSet(queue'["main"]) = ToSet(queue["main"]) \cup {Stop}
          /\ ToSet(queue'["safe"]) = ToSet(queue["safe"]) \cup {Stop}
      BY Zenon, <2>1, <2>2, StopAppended
    <2> QED
      BY <1>1, <1>2, <1>3, <2>3 DEF Cleared
  <1>6. Steered'
    <2>1. call'["stop"].awaits = {1}
      BY <1>1, <1>2
    <2> QED
      BY <1>1, <1>2, <1>4, <2>1 DEF Steered
  <1>7. Staged'
    BY <1>4, <1>5 DEF Staged, Early
  <1> QED
    BY <1>1, <1>4, <1>6, <1>7, StartedStops

\* The loop that stop awaits was ended by its stop item.
LEMMA StartedAwait ==
  ASSUME Sorted, Orderly, Started, NEW k \in Kinds, AwaitTask(k)
  PROVE  Orderly' /\ Started'
  <1>1. /\ StopPc = Awaiting[k]
        /\ UNCHANGED <<tasks, log, stored, failed, accepted, faults>>
    BY DEF AwaitTask, Calls, StopPc
  <1>2. (k = "main" /\ StopPc = "awaitMain") \/ (k = "safe" /\ StopPc = "awaitSafe")
    BY <1>1 DEF Kinds, Awaiting
  <1>3. /\ running /\ current["main"] = 1 /\ current["safe"] = 2
        /\ \E t \in 1..2 : call["stop"].awaits = {t}
        /\ StopPc \in Late /\ Cleared("main", 1) /\ Cleared("safe", 2)
    BY <1>2 DEF Started, Steered, Staged, Late
  <1>4. PICK t \in 1..2 : call["stop"].awaits = {t}
    BY <1>3
  <1>5. /\ ~(\A u \in call["stop"].awaits : Task(u, {"cancelled"}))
        /\ ~(\A u \in call["stop"].awaits : Task(u, {"failed"}))
    BY <1>4, AtPair DEF Task
  <1>6. Advance(k) /\ UNCHANGED queues
    BY <1>5 DEF AwaitTask
  <1>7. queue' = queue /\ dropped' = dropped
    BY <1>6 DEF queues
  <1>8. Cleared("main", 1)' /\ Cleared("safe", 2)'
    BY <1>1, <1>3, <1>7 DEF Cleared
  <1>9. CASE k = "main"
    <2>1. StopAwaits("safe") /\ UNCHANGED <<current, running>>
      BY <1>6, <1>9 DEF Advance
    <2>2. /\ OnlyStop("awaitSafe") /\ call'["stop"].awaits = {current["safe"]} \ {0}
      BY Zenon, <2>1, AtPair, StopAwaitsEffect
    <2>3. call'["stop"].awaits = {2} /\ StopPc' = "awaitSafe"
          /\ "awaitSafe" \in Early \cup Late
      BY <1>3, <2>2 DEF OnlyStop, StopPc, Late
    <2>4. Steered' /\ Staged'
      BY <1>3, <1>8, <2>1, <2>3 DEF Steered, Staged, Early
    <2> QED
      BY <1>1, <1>7, <2>2, <2>3, <2>4, StartedStops
  <1>10. CASE k = "safe"
    <2>1. OnlyStop("returned")
      BY <1>6, <1>10, AdvanceEffect
    <2>2. StopPc' = "returned" /\ "returned" \in Early \cup Late
      BY <2>1 DEF OnlyStop, StopPc, Late
    <2>3. Steered' /\ Staged'
      BY <1>8, <2>2 DEF Steered, Staged, Early
    <2> QED
      BY <1>1, <1>7, <2>1, <2>2, <2>3, StartedStops
  <1> QED
    BY <1>9, <1>10 DEF Kinds

LEMMA HealthyInit ==
  ASSUME WriterInit
  PROVE  Healthy
  <1>1. /\ tasks = <<>> /\ running = FALSE /\ current = [k \in Kinds |-> 0]
        /\ accepted = 0 /\ log = <<>> /\ \A k \in Kinds : queue[k] = <<>>
        /\ \A p \in Callers \cup {"stop"} : call[p].pc = "idle"
    BY DEF WriterInit, Idle
  <1> QED
    BY <1>1 DEF Healthy, Orderly, Unstarted, StopPc, Early

LEMMA OrderlyCalls ==
  ASSUME Sorted, Orderly
  PROVE  ~Restarts /\ \A p \in Callers : ~StoreOwn(p) /\ ~StoreOwnFails(p)
  <1>1. /\ \A p \in Callers : call[p].pc = "idle"
        /\ call["stop"].pc \notin {"store", "await", "own"}
    BY DEF Orderly, StopPc, Early, Late
  <1>2. DOMAIN call = Callers \cup {"stop"}
    BY AtStop DEF People
  <1> QED
    BY <1>1, <1>2 DEF Restarts, StorePending, StorePendingFails, AwaitOthers,
                      StoreOwn, StoreOwnFails, Calls

LEMMA StartedStopping ==
  ASSUME Sorted, Orderly, Started, Stops
  PROVE  Orderly' /\ Started'
  <1>1. ASSUME NEW k \in Kinds PROVE ~StoreDrained(k) /\ ~StoreDrainedFails(k)
    <2>1. call["stop"].pc \notin {"drainMain", "drainSafe"}
      BY DEF Orderly, StopPc, Early, Late
    <2> QED
      BY <2>1, StoreDrainedEffect
  <1> QED
    BY <1>1, StartedStopBegin, StartedJoinMain, StartedJoinSafe, StartedAwait
       DEF Stops

LEMMA HealthyStep ==
  ASSUME Sorted, Healthy, [WriterNext]_writerVars
  PROVE  Healthy'
  <1>1. CASE WriterDied
    BY <1>1, DiedStays DEF Healthy
  <1>2. CASE UNCHANGED writerVars
    BY <1>2 DEF writerVars, queues, Healthy, WriterDied, Orderly, StopPc, Unstarted,
                Started, Pair, Steered, Staged, Cleared, InOrder, Complete, Carried,
                Now
  <1>3. CASE WriterNext /\ Orderly /\ Started
    <2>1. CASE Writers
      <3>1. UNCHANGED call
        BY <2>1 DEF Writers, Collect, FlushTimer, LogWrite, LogWriteFails, SafeWrite,
                    SafeWriteFails, Cancelled, LastWrite, LastWriteFails
      <3>2. Orderly'
        BY <1>3, <3>1 DEF Orderly, StopPc
      <3> QED
        BY <1>3, <2>1, <3>2, StartedWriters DEF Healthy
    <2>2. CASE Appends
      BY <1>3, <2>2, OrderlyCalls, StartedAppend DEF Appends, Healthy
    <2>3. CASE Stops
      BY <1>3, <2>3, StartedStopping DEF Healthy
    <2> QED
      BY <1>3, <2>1, <2>2, <2>3, OrderlyCalls DEF WriterNext
  <1>4. CASE WriterNext /\ Orderly /\ Unstarted
    <2>1. ~Writers
      BY <1>4 DEF Unstarted, Writers
    <2>2. ~Stops
      <3>1. ~running /\ call["stop"].pc = "idle"
        BY <1>4 DEF Unstarted, StopPc
      <3> QED
        BY <3>1 DEF Stops, StopBegin, JoinMain, JoinSafe, AwaitTask, StoreDrained,
                    StoreDrainedFails, Calls, Awaiting, Draining, Kinds
    <2>3. CASE Appends
      BY <1>4, <2>3, OrderlyCalls, UnstartedAppend DEF Appends, Healthy
    <2> QED
      BY <1>4, <2>1, <2>2, <2>3, OrderlyCalls DEF WriterNext
  <1> QED
    BY <1>1, <1>2, <1>3, <1>4 DEF Healthy

LEMMA HealthyAlways == WriterSpec => [](Sorted /\ Single /\ Healthy)
  <1>1. WriterInit => Sorted /\ Single /\ Healthy
    BY SortedInit, SingleInit, HealthyInit
  <1>2. Sorted /\ Single /\ Healthy /\ [WriterNext]_writerVars
          => (Sorted /\ Single /\ Healthy)'
    BY SortedStep, SingleStep, HealthyStep
  <1> QED
    BY <1>1, <1>2, PTL DEF WriterSpec

\* No loss is silent: as long as no loop was ended by an error, an accepted
\* event that fail_safe_dropped_total does not count is in a queue or in the
\* batch of a loop, in events.jsonl or in events.queue.  (Lines 40-44 of
\* events.py promise that the counted ones are kept too; they are not.)
THEOREM EventsAreKept == WriterSpec => []NothingVanishes
  <1>1. ASSUME Sorted, Healthy PROVE NothingVanishes
    <2>1. CASE WriterDied
      BY <2>1 DEF NothingVanishes
    <2>2. CASE Unstarted
      <3>1. accepted = 0
        BY <2>2 DEF Unstarted
      <3> QED
        BY <3>1 DEF NothingVanishes
    <2>3. CASE Started
      <3>1. 1 \in DOMAIN tasks /\ 2 \in DOMAIN tasks
        BY <1>1, <2>3, AtPair, AtStop
      <3>2. /\ ToSet(tasks[1].batch) \subseteq UNION {Unwritten(t) : t \in DOMAIN tasks}
            /\ ToSet(tasks[2].batch) \subseteq UNION {Unwritten(t) : t \in DOMAIN tasks}
        BY <3>1 DEF Unwritten
      <3>3. /\ ToSet(queue["main"]) \subseteq Pending(Now, "main") \cup {Stop}
            /\ ToSet(queue["safe"]) \subseteq Pending(Now, "safe") \cup {Stop}
        BY DEF Pending, Now
      <3>4. Carried(Now) \subseteq Pending(Now, "main") \cup Pending(Now, "safe")
                                   \cup {Stop} \cup dropped
        BY <3>3 DEF Carried, Now
      <3>5. Stop \notin 1..accepted
        BY <1>1, <2>3, AtPair DEF Stop
      <3>6. Complete
        BY <2>3 DEF Started
      <3>7. (1..accepted) \ dropped \subseteq Held \cup OnDisk
        BY <3>2, <3>4, <3>5, <3>6 DEF Complete, Held, OnDisk
      <3> QED
        BY <3>7 DEF NothingVanishes
    <2> QED
      BY <1>1, <2>1, <2>2, <2>3 DEF Healthy
  <1> QED
    BY <1>1, HealthyAlways, PTL

\* No event is twice in events.jsonl, whether or not two pairs of loops read
\* the same queues after a restart; and as long as no loop was ended by an
\* error, events.jsonl has the events in the order of the calls.
THEOREM LogIsOrdered == WriterSpec => []LogOrder
  <1>1. ASSUME Sorted, Single, Healthy PROVE LogOrder
    <2>1. /\ log \in Seq(1..accepted) /\ accepted \in Nat
      BY <1>1, AtQueues
    <2>2. /\ DOMAIN log = 1..Len(log)
          /\ \A i \in DOMAIN log : log[i] \in 1..accepted
      BY <2>1, ItemsType
    <2>3. \A i \in DOMAIN log : log[i] \in Nat /\ log[i] # Stop
      BY <2>1, <2>2 DEF Stop
    <2>4. Chain(Different, log)
      BY <1>1 DEF Single
    <2>5. WriterDied \/ Chain(Earlier, log)
      <3>1. Chain(Earlier, <<>>)
        BY ChainEmpty
      <3> QED
        BY <1>1, <3>1 DEF Healthy, Unstarted, Started, InOrder
    <2> SUFFICES ASSUME NEW i \in DOMAIN log, NEW j \in DOMAIN log, i < j
                 PROVE  log[i] # log[j] /\ (WriterDied \/ log[i] < log[j])
      BY DEF LogOrder
    <2>6. <<log[i], log[j]>> \in Different
      BY <2>3, <2>4 DEF Chain
    <2>7. WriterDied \/ <<log[i], log[j]>> \in Earlier
      BY <2>3, <2>5 DEF Chain
    <2> QED
      BY <2>3, <2>6, <2>7, Relations
  <1> QED
    BY <1>1, HealthyAlways, PTL

\* When stop has returned and no error ended a loop, every accepted event that
\* was not dropped and counted before is in events.jsonl or in events.queue.
\* (Lines 661-663 of events.py promise it of the dropped ones as well.)
THEOREM StopLeavesNothing == WriterSpec => []StopFlushes
  <1>1. ASSUME Sorted, Healthy PROVE StopFlushes
    <2> SUFFICES ASSUME call["stop"].pc = "returned", ~WriterDied
                 PROVE  (1..accepted) \ dropped \subseteq OnDisk
      BY DEF StopFlushes, Calls
    <2>1. StopPc = "returned" /\ StopPc \in Late
      BY DEF StopPc, Late
    <2>2. Started
      BY <1>1, <2>1 DEF Healthy, Unstarted
    <2>3. Complete /\ Cleared("main", 1) /\ Cleared("safe", 2)
      BY <2>1, <2>2 DEF Started, Staged
    <2>4. ToSet(<<>>) = {}
      BY ChainEmpty
    <2>5. Stop \notin 1..accepted
      BY <1>1, <2>2, AtPair DEF Stop
    <2> QED
      BY <2>3, <2>4, <2>5 DEF Complete, Cleared, Carried, Now, OnDisk
  <1> QED
    BY <1>1, HealthyAlways, PTL
=============================================================================
