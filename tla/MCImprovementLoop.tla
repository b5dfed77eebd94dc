------------------------- MODULE MCImprovementLoop -------------------------
(* ImprovementLoop with a few command lines. *)
EXTENDS ImprovementLoop

Command(target, continueOnError, restartOnFatal, maxRestarts) ==
  [continuous |-> TRUE, target |-> target,
   continueOnError |-> continueOnError, maxConsecutive |-> 2,
   restartOnFatal |-> restartOnFatal, maxRestarts |-> maxRestarts]

MCOptions ==
  { Command(2, TRUE, TRUE, 1),      \* every kind of recovery, all limited
    Command(0, FALSE, TRUE, 0),     \* no target, no limit on the restarts
    [Command(1, FALSE, FALSE, 1) EXCEPT !.continuous = FALSE] }

\* Errors without a risk, which the signals never report.
MCAnswers == {[atRisk |-> FALSE, errors |-> TRUE]}
=============================================================================
