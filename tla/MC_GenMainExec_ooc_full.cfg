\* Full variant: running out of counters calls exitProcess
CONSTANTS
  P = 11
  W = 2
  N = 10
  NNoCounters = 6
  NProg = 3
  Instrs <- CounterInstrs
  FreeVals = {0, 1}
  MaxArith = 1
  MaxBinary = 2
  MaxMemAlign = 2
  ASAP = FALSE
  NoCounters = FALSE
  ProcessBatch = TRUE
  FastMode = FALSE
SPECIFICATION Spec
INVARIANT
  OOCNeverExitsProcess
