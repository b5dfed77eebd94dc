SPECIFICATION MCSpec
CONSTANTS
  p1 = p1
  p2 = p2
  p3 = p3
  old = old
  new = new
  Paths = {p1, p2, p3}
  BatchOf <- MCBatchOf
  Contents = {old, new}
  v1 = v1
  v2 = v2
  Versions = {v1, v2}
  Absent = Absent
  Torn = Torn
  None = None
  MaxAttempts = 2
  MaxFailures = 2
  MaxEdits = 1
INVARIANTS TrueMeansRestored HardRestoreIsExact OldOrNew
  RollbackOutsideSlice
PROPERTIES NoWriteAfterReturn PublishIsComplete EveryCallReturns
CHECK_DEADLOCK FALSE
