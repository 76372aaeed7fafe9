\* Both variants succeed: counters.steps compared
CONSTANTS
  P = 11
  W = 2
  N = 10
  NNoCounters = 6
  NProg = 3
  Instrs <- CounterInstrs
  FreeVals = {0, 1}
  MaxArith = 10
  MaxBinary = 10
  MaxMemAlign = 2
  ASAP = FALSE
  NoCounters = FALSE
  ProcessBatch = TRUE
SPECIFICATION Spec
INVARIANT
  StepsAgree
