SPECIFICATION Spec
CONSTANTS
  c1 = c1
  c2 = c2
  c3 = c3
  Candidates = {c1, c2, c3}
  None = None
  Seed = Seed
  Id <- MCId
  Lists <- MCLists
  Settings <- MCSettings
  Measured <- MCMeasured
  Versions = {v1, v2}
  First = v1
  Old = {c2}
  MaxCandidates = 2
  Parallel = 1
  MaxRuns = 2
  MaxMishaps = 1
  MaxCancels = 1
INVARIANTS TypeOK VerdictFits RunKeepsVerdicts WorkspacesRemoved TasksEndFirst
PROPERTIES RunEnds
CHECK_DEADLOCK FALSE
