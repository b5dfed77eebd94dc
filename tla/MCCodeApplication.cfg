SPECIFICATION MCSpec
CONSTANTS
  p1 = p1
  p2 = p2
  p3 = p3
  x = x
  y = y
  Paths = {p1, p2, p3}
  Allowed = {p1, p2}
  Contents = {x, y}
  Batches <- MCBatches
  Absent = Absent
  Torn = Torn
  None = None
  MaxCalls = 2
  MaxFailures = 2
  MaxEdits = 1
PROPERTIES IsAtomicBatch
CHECK_DEADLOCK FALSE
