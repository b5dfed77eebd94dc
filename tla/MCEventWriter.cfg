SPECIFICATION FairWriterSpec
CONSTANTS
  c1 = c1
  c2 = c2
  Callers = {c1, c2}
  MaxEvents = 4
  QueueSize = 1
  SafeSize = 1
  BatchSize = 2
  MaxFaults = 4
INVARIANTS WriterTypeOK NothingVanishes LogOrder StopFlushes
PROPERTIES StopReturns
CHECK_DEADLOCK FALSE
