SPECIFICATION Spec
CONSTANTS
  Options <- MCOptions
  Online = {FALSE}
  Answers <- MCAnswers
  StableRequired = 2
  CycleBound = 1
  RestartBound = 1
  MaxRuns = 2
  None = None
INVARIANTS
  HarmIsRolledBack
CHECK_DEADLOCK FALSE
