SPECIFICATION WriterSpec
CONSTANTS
  c1 = c1
  c2 = c2
  Callers = {c1, c2}
  MaxEvents = 5
  QueueSize = 2
  SafeSize = 1
  BatchSize = 2
  MaxFaults = 4
INVARIANT AcceptedIsKept
CHECK_DEADLOCK FALSE
