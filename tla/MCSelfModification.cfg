SPECIFICATION MCSpec
CONSTANTS
  p1 = p1
  p2 = p2
  x = x
  y = y
  Paths = {p1, p2}
  Contents = {x, y}
  Batches <- MCBatches
  Absent = Absent
  Torn = Torn
  None = None
  MaxCycles = 3
  MaxFailures = 2
  MaxEdits = 1
INVARIANTS TypeOK LkgPassed AppliedPassedOrFlagged
PROPERTY FallbackUndoes
CHECK_DEADLOCK FALSE
