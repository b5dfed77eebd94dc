-------------------------- MODULE ImprovementLoop --------------------------
(***************************************************************************)
(* A run of the program: the supervision of the cycles by _run_main of     *)
(* src/src/sif/cli.py, and what SpiralEngine.step of                       *)
(* src/src/core/spiral_engine.py carries from one cycle to the next in the *)
(* kernel's memory: the answers of the model (src/src/core/llm.py), the    *)
(* last accuracy, safe mode, and whether a batch can be taken back.        *)
(*                                                                         *)
(* Every awaited call may raise, as often as it likes, and the process may *)
(* be killed between any two steps; the next process loads the state file. *)
(* What happens inside a rollback or evolve is in SelfModification, inside *)
(* a save in StateStore.  Left out: the answers to "plan" and "reflect",   *)
(* stored like the others and used as text only, cycle numbers, timestamps *)
(* and error counts that are reported and not read, and the waiting times. *)
(***************************************************************************)
EXTENDS Naturals

CONSTANTS
  Options,         \* the command lines
  Online,          \* whether OPENAI_API_KEY may be set
  Answers,         \* the evaluations that the model may answer
  StableRequired,  \* safe_mode_stable_cycles_required
  CycleBound,      \* bound on the cycles of a run without a target
  RestartBound,    \* bound on the restarts of a run without a limit
  MaxRuns,         \* bound on the processes
  None             \* nothing yet

\* target and maxRestarts: 0 for unlimited.
Option == [continuous : BOOLEAN, target : Nat,
           continueOnError : BOOLEAN, maxConsecutive : Nat \ {0},
           restartOnFatal : BOOLEAN, maxRestarts : Nat]

ASSUME ImprovementLoopAssumption ==
  /\ Options \subseteq Option /\ Options # {}
  /\ \A o \in Options : o.target = 0 => o.continuous
  /\ Online \subseteq BOOLEAN
  /\ Answers \subseteq [atRisk : BOOLEAN, errors : BOOLEAN]
  /\ StableRequired \in Nat \ {0}
  /\ CycleBound \in Nat /\ RestartBound \in Nat /\ MaxRuns \in Nat
  /\ None \notin [atRisk : BOOLEAN, errors : BOOLEAN]

VARIABLES
  phase,   \* where the process is
  main,    \* the locals of _run_main
  online,  \* OPENAI_API_KEY is set
  cycle,   \* the locals of step
  memory,  \* the kernel's memory, as far as it is used here
  saved,   \* the memory in the state file
  streak,  \* history: cycles that failed since the last that returned
  runs

vars == <<phase, main, online, cycle, memory, saved, streak, runs>>

\* The component signals report errors only together with a risk; the model
\* may answer what it likes.
Evaluations == [atRisk : BOOLEAN, errors : BOOLEAN]
OwnEvaluations == {e \in Evaluations : e.errors => e.atRisk}

\* calm: history, the feedback rounds without errors since the last one with
\* errors.  It and stable stop counting at StableRequired.
Memory == [mode : {None, "running", "stopped", "error"},
           evaluation : Evaluations \cup {None}, changes : {None, "some", "empty"},
           accuracy : {None, "1.0", "0.0"}, backups : BOOLEAN,
           safe : BOOLEAN, stable : 0..StableRequired, calm : 0..StableRequired]

\* used: the evaluation; batch: there are valid proposals; due: history, the
\* signals report errors while there is a batch to take back.
NoCycle == [used |-> None, batch |-> FALSE, due |-> FALSE]

Fresh(o) == [opt |-> o, completed |-> 0, consecutive |-> 0, restarts |-> 0,
             raised |-> FALSE]

Down == {"ended", "broken", "killed"}
InStep == {"evaluate", "decide", "evolve", "feedback", "report"}
Phases == Down \cup InStep \cup
  {"announce", "start", "loop", "save", "save_error", "close", "judge",
   "save_restart", "finish", "save_end"}

Init ==
  /\ phase = "ended"
  /\ \E o \in Options : main = Fresh(o)
  /\ online \in Online
  /\ cycle = NoCycle
  /\ memory = [mode |-> None, evaluation |-> None, changes |-> None,
               accuracy |-> None, backups |-> FALSE, safe |-> FALSE,
               stable |-> 0, calm |-> StableRequired]
  /\ saved = memory
  /\ streak = 0 /\ runs = 0

Capped(n) == IF n < StableRequired THEN n ELSE StableRequired

-----------------------------------------------------------------------------
(* step *)

\* Mutant of StepBegins: one cycle too many.
StepBeginsAgain ==
  /\ phase = "loop"
  /\ IF main.opt.target = 0 THEN main.completed < CycleBound
                            ELSE main.completed <= main.opt.target
  /\ phase' = "evaluate"
  /\ UNCHANGED <<main, online, cycle, memory, saved, streak, runs>>

StepBegins ==
  /\ phase = "loop"
  /\ IF main.opt.target = 0 THEN main.completed < CycleBound
                            ELSE main.completed < main.opt.target
  /\ phase' = "evaluate"
  /\ UNCHANGED <<main, online, cycle, memory, saved, streak, runs>>

\* request_response for "evaluate": what step goes on with, and what is stored.
\* Offline the fallback is stored as the answer; an error, or an answer that
\* holds no evaluation, leaves the one from the signals.
Request(own) ==
  IF online THEN {<<own, None>>} \cup {<<a, a>> : a \in Answers} ELSE {<<own, own>>}

\* An answer that was stored, in whatever cycle, is used again.
Evaluate(own) ==
  /\ phase = "evaluate"
  /\ \E r \in IF memory.evaluation = None THEN Request(own)
              ELSE {<<memory.evaluation, memory.evaluation>>} :
       /\ memory' = [memory EXCEPT !.evaluation = r[2]]
       /\ cycle' = [cycle EXCEPT !.used = r[1],
                                 !.due = own.errors /\ memory.backups]
  /\ phase' = "decide"
  /\ UNCHANGED <<main, online, saved, streak, runs>>

\* The answer to "code_changes" that is stored after the cycle asked for it.
ChangesAnswers ==
  IF memory.changes # None THEN {memory.changes}
  ELSE IF online THEN {None, "some", "empty"} ELSE {"empty"}

\* decide_code_changes: the model's proposals and those of the components,
\* as the answer that is stored and whether there is a batch.
Proposals ==
  IF memory.safe THEN {<<memory.changes, FALSE>>}
  ELSE {p \in ChangesAnswers \X BOOLEAN : p[1] = "some" => p[2]}

Alarm ==
  \/ cycle.used.atRisk
  \/ memory.accuracy = "1.0" /\ cycle.used.errors

\* A rollback that took something back drops the batch of this cycle.  The
\* batch may also fail validation.
Decide ==
  /\ phase = "decide"
  /\ \E p \in Proposals, valid \in BOOLEAN :
       IF Alarm /\ memory.backups
       THEN /\ memory' = [memory EXCEPT !.changes = p[1], !.backups = FALSE]
            /\ UNCHANGED cycle
       ELSE /\ memory' = [memory EXCEPT !.changes = p[1]]
            /\ cycle' = [cycle EXCEPT !.batch = p[2] /\ valid]
  /\ phase' = "evolve"
  /\ UNCHANGED <<main, online, saved, streak, runs>>

\* A batch that reached the tree has its backups in the memory, even when
\* the post-apply evaluation took it back.
Evolve ==
  /\ phase = "evolve"
  /\ \E b \in {memory.backups, memory.backups \/ cycle.batch} :
       memory' = [memory EXCEPT !.backups = b]
  /\ phase' = "feedback"
  /\ UNCHANGED <<main, online, cycle, saved, streak, runs>>

\* Mutant of Feedback: errors do not reset the stable cycles.
FeedbackKeepsCount ==
  /\ phase = "feedback"
  /\ memory' =
       IF cycle.used.errors
       THEN [memory EXCEPT !.safe = TRUE, !.calm = 0]
       ELSE [memory EXCEPT
               !.stable = Capped(memory.stable + 1),
               !.calm = Capped(memory.calm + 1),
               !.safe = memory.safe /\ memory.stable + 1 < StableRequired]
  /\ phase' = "report"
  /\ UNCHANGED <<main, online, cycle, saved, streak, runs>>

\* With errors cycles_since_last_error is 0, which is within every
\* safe_mode_min_cycles_since_error: safe mode begins.
Feedback ==
  /\ phase = "feedback"
  /\ memory' =
       IF cycle.used.errors
       THEN [memory EXCEPT !.safe = TRUE, !.stable = 0, !.calm = 0]
       ELSE [memory EXCEPT
               !.stable = Capped(memory.stable + 1),
               !.calm = Capped(memory.calm + 1),
               !.safe = memory.safe /\ memory.stable + 1 < StableRequired]
  /\ phase' = "report"
  /\ UNCHANGED <<main, online, cycle, saved, streak, runs>>

Measured == [memory EXCEPT !.accuracy =
               IF cycle.used.errors THEN "0.0" ELSE "1.0"]

\* Autonomous evolution has run, the feedback metrics are stored and the
\* snapshot of the cycle is written; _run_main counts the cycle.
StepReturns ==
  /\ phase = "report"
  /\ memory' = Measured
  /\ main' = [main EXCEPT !.completed = main.completed + 1, !.consecutive = 0]
  /\ cycle' = NoCycle /\ streak' = 0
  /\ phase' = "save"
  /\ UNCHANGED <<online, saved, runs>>

-----------------------------------------------------------------------------
(* _run_main *)

\* load_state
Launch(o) ==
  /\ phase \in Down /\ runs < MaxRuns
  /\ runs' = runs + 1 /\ streak' = 0
  /\ online' \in Online
  /\ main' = Fresh(o)
  /\ memory' = IF o.continuous THEN [saved EXCEPT !.mode = "running"] ELSE saved
  /\ phase' = IF o.continuous THEN "announce" ELSE "start"
  /\ UNCHANGED <<cycle, saved>>

Save == saved' = memory /\ UNCHANGED <<online, cycle, memory, streak, runs>>

Announce ==
  /\ phase = "announce" /\ Save
  /\ phase' = "start" /\ UNCHANGED main

Start ==
  /\ phase = "start"
  /\ phase' = "loop"
  /\ UNCHANGED <<main, online, cycle, memory, saved, streak, runs>>

SaveCycle ==
  /\ phase = "save" /\ Save
  /\ phase' = "loop" /\ UNCHANGED main

\* The except branch of the inner loop.
Handled ==
  IF main.opt.continuous /\ main.opt.continueOnError
  THEN /\ main' = [main EXCEPT !.consecutive = main.consecutive + 1]
       /\ phase' = "save_error"
  ELSE main' = [main EXCEPT !.raised = TRUE] /\ phase' = "close"

\* What step did before it raised stays in the memory.
StepRaises ==
  /\ phase \in InStep /\ Handled
  /\ cycle' = NoCycle /\ streak' = streak + 1
  /\ \/ UNCHANGED memory
     \/ /\ phase = "decide"
        /\ \E p \in Proposals : memory' = [memory EXCEPT !.changes = p[1]]
     \/ phase = "report" /\ memory' = Measured
  /\ UNCHANGED <<online, saved, runs>>

SaveCycleRaises ==
  /\ phase = "save" /\ Handled
  /\ UNCHANGED <<online, cycle, memory, saved, streak, runs>>

\* Mutant of SaveError: the limit is exceeded by one.
SaveErrorOnceMore ==
  /\ phase = "save_error" /\ Save
  /\ IF main.consecutive > main.opt.maxConsecutive
     THEN main' = [main EXCEPT !.raised = TRUE] /\ phase' = "close"
     ELSE phase' = "loop" /\ UNCHANGED main

\* Mutant of SaveError: nothing is saved before the next attempt.
SaveErrorSkipped ==
  /\ phase = "save_error"
  /\ IF main.consecutive >= main.opt.maxConsecutive
     THEN main' = [main EXCEPT !.raised = TRUE] /\ phase' = "close"
     ELSE phase' = "loop" /\ UNCHANGED main
  /\ UNCHANGED <<online, cycle, memory, saved, streak, runs>>

SaveError ==
  /\ phase = "save_error" /\ Save
  /\ IF main.consecutive >= main.opt.maxConsecutive
     THEN main' = [main EXCEPT !.raised = TRUE] /\ phase' = "close"
     ELSE phase' = "loop" /\ UNCHANGED main

\* The target is reached.
LoopEnds ==
  /\ phase = "loop"
  /\ main.opt.target # 0 /\ main.completed >= main.opt.target
  /\ phase' = "close"
  /\ UNCHANGED <<main, online, cycle, memory, saved, streak, runs>>

\* aclose
Close ==
  /\ phase = "close"
  /\ phase' = "judge"
  /\ UNCHANGED <<main, online, cycle, memory, saved, streak, runs>>

\* start, aclose or the save in the except branch raises out of the session.
SessionRaises ==
  /\ phase \in {"start", "close", "save_error"}
  /\ main' = [main EXCEPT !.raised = TRUE]
  /\ phase' = IF phase = "save_error" THEN "close" ELSE "judge"
  /\ UNCHANGED <<online, cycle, memory, saved, streak, runs>>

Exhausted(m) ==
  \/ ~(m.opt.continuous /\ m.opt.restartOnFatal)
  \/ m.opt.maxRestarts > 0 /\ m.restarts >= m.opt.maxRestarts

\* Mutant of SessionOver: a fatal error ends the run at once.
SessionOverAtOnce ==
  /\ phase = "judge"
  /\ phase' = "finish"
  /\ UNCHANGED <<main, online, cycle, memory, saved, streak, runs>>

SessionOver ==
  /\ phase = "judge"
  /\ main.raised => Exhausted(main)
  /\ phase' = "finish"
  /\ UNCHANGED <<main, online, cycle, memory, saved, streak, runs>>

\* Mutant of Restart: the restarts are not counted.
RestartUncounted ==
  /\ phase = "judge"
  /\ main.raised /\ ~Exhausted(main) /\ main.restarts < RestartBound
  /\ phase' = "save_restart"
  /\ UNCHANGED <<main, online, cycle, memory, saved, streak, runs>>

Restart ==
  /\ phase = "judge"
  /\ main.raised /\ ~Exhausted(main) /\ main.restarts < RestartBound
  /\ main' = [main EXCEPT !.restarts = main.restarts + 1]
  /\ phase' = "save_restart"
  /\ UNCHANGED <<online, cycle, memory, saved, streak, runs>>

SaveRestart ==
  /\ phase = "save_restart" /\ Save
  /\ main' = [main EXCEPT !.consecutive = 0, !.raised = FALSE]
  /\ phase' = "start"

Finish ==
  /\ phase = "finish"
  /\ IF main.opt.continuous
     THEN /\ memory' = [memory EXCEPT !.mode =
                          IF main.raised THEN "error" ELSE "stopped"]
          /\ phase' = "save_end"
     ELSE phase' = "ended" /\ UNCHANGED memory
  /\ UNCHANGED <<main, online, cycle, saved, streak, runs>>

SaveEnd ==
  /\ phase = "save_end" /\ Save
  /\ phase' = "ended" /\ UNCHANGED main

\* A save outside the try: the exception ends the process.
SaveBreaks ==
  /\ phase \in {"announce", "save_restart", "save_end"}
  /\ phase' = "broken"
  /\ UNCHANGED <<main, online, cycle, memory, saved, streak, runs>>

\* The process dies, or is cancelled, which no handler catches: what was not
\* saved is gone.
Kill ==
  /\ phase \notin Down
  /\ phase' = "killed"
  /\ main' = Fresh(main.opt) /\ cycle' = NoCycle /\ streak' = 0
  /\ memory' = saved
  /\ UNCHANGED <<online, saved, runs>>

Works ==
  \/ StepBegins \/ (\E own \in OwnEvaluations : Evaluate(own)) \/ Decide
  \/ Evolve \/ Feedback \/ StepReturns \/ StepRaises
  \/ Announce \/ Start \/ SaveCycle \/ SaveCycleRaises \/ SaveError
  \/ LoopEnds \/ Close \/ SessionRaises \/ SessionOver
  \/ Restart \/ SaveRestart \/ Finish \/ SaveEnd \/ SaveBreaks

Next == Works \/ (\E o \in Options : Launch(o)) \/ Kill

Spec == Init /\ [][Next]_vars

\* What the process awaits ends at some time, with a result or an exception.
FairSpec == Spec /\ WF_vars(Works)

-----------------------------------------------------------------------------
TypeOK ==
  /\ phase \in Phases
  /\ main \in [opt : Options, completed : Nat, consecutive : Nat,
               restarts : Nat, raised : BOOLEAN]
  /\ main.opt.target # 0 => main.completed <= main.opt.target
  /\ online \in BOOLEAN
  /\ cycle \in [used : Evaluations \cup {None}, batch : BOOLEAN, due : BOOLEAN]
  /\ memory \in Memory /\ saved \in Memory
  /\ streak \in Nat /\ runs \in Nat

\* A cycle begins only when the state file holds all that came before it,
\* whatever failed on the way there: a kill costs one cycle and no more.
CyclesStartSaved == phase \in {"start", "loop"} => saved = memory

\* A continuous run whose final save succeeds says in the state file how it
\* ended (one whose final save raises leaves "running" there, lines 178-191):
\* "stopped" when every cycle was made, "error" when no restart was left.
EndIsHonest ==
  phase = "ended" /\ main.opt.continuous /\ runs > 0 =>
    /\ saved = memory
    /\ IF saved.mode = "stopped" THEN main.completed = main.opt.target
       ELSE saved.mode = "error" /\ Exhausted(main)

AttemptsPerSession(o) ==
  IF o.continuous /\ o.continueOnError THEN o.maxConsecutive ELSE 1

\* The cycles that fail in a row are never more than the limit, once for the
\* first session and once for every restart.
StreakBounded ==
  streak <= AttemptsPerSession(main.opt) * (main.restarts + 1)

\* After a cycle with errors no batch of code is tried before
\* safe_mode_stable_cycles_required cycles in a row had none, over failed
\* cycles, restarts and processes, as far as the state file remembers.
CalmBeforeChange ==
  phase = "evolve" /\ cycle.batch => memory.calm >= StableRequired

Limited(o) == o.target > 0 /\ (o.restartOnFatal => o.maxRestarts > 0)

\* A run with a target and a limit on its restarts ends, however often
\* its cycles, sessions and saves fail.  WF(Works) takes it that each call
\* which is awaited ends with a result or an exception: this is about the
\* counters of _run_main.  Calls that may not end are named in other modules:
\* Stuck (Experiments), Jammed (CacheStore), Stalled (RepositoryRefresh), and
\* a stop of the writer after WriterDied (EventWriter).
RunEnds == phase \notin Down /\ Limited(main.opt) ~> phase \in Down

\* "rollback when self-modification harms performance" (README.md:49): when
\* the component signals report errors and there is a batch to take back, the
\* cycle takes it back.
HarmIsRolledBack == phase = "report" /\ cycle.due => ~memory.backups
=============================================================================
