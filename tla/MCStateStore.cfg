SPECIFICATION FairSpec
CONSTANTS
  p1 = p1
  p2 = p2
  a = a
  b = b
  Procs = {p1, p2}
  Payloads = {a, b}
  Default = Default
  Partial = Partial
  None = None
  StaleRetries = 1
  MaxTries = 1
  MaxSaves = 2
  MaxFaults = 2
PROPERTIES IsStateRegister LockWaitEnds
CHECK_DEADLOCK FALSE
