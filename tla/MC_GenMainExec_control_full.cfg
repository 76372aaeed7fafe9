\* Control flow in the full variant: the committed zkPC follows every jump
CONSTANTS
  P = 11
  W = 2
  N = 10
  NNoCounters = 6
  NProg = 4
  Instrs <- ControlInstrs
  FreeVals = {0}
  MaxArith = 2
  MaxBinary = 2
  MaxMemAlign = 2
  ASAP = FALSE
  NoCounters = FALSE
  ProcessBatch = TRUE
  FastMode = FALSE
SPECIFICATION Spec
INVARIANT
  TraceAgreesWithControl
