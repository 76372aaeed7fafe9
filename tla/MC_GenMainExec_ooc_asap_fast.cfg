\* Fast variant with CHECK_MAX_CNT_ASAP: OOC returns before the counters are copied
CONSTANTS
  P = 11
  W = 2
  N = 10
  NNoCounters = 6
  NProg = 3
  Instrs <- CounterInstrs
  FreeVals = {0, 1}
  MaxArith = 1
  MaxBinary = 2
  MaxMemAlign = 2
  ASAP = TRUE
  NoCounters = FALSE
  ProcessBatch = TRUE
  FastMode = TRUE
SPECIFICATION Spec
INVARIANT
  OOCReportedPastCeiling
