SPECIFICATION FairSpec
CONSTANTS
  Options <- MCOptions
  Online = {TRUE, FALSE}
  Answers <- MCAnswers
  StableRequired = 2
  CycleBound = 1
  RestartBound = 1
  MaxRuns = 2
  None = None
INVARIANTS
  TypeOK
  CyclesStartSaved
  EndIsHonest
  StreakBounded
  CalmBeforeChange
PROPERTY
  RunEnds
CHECK_DEADLOCK FALSE
