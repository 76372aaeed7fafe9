\* Full variant, ROM with a line that sets RR and returns in the same step:
\* the committed zkPC and the goto disagree
CONSTANTS
  P = 11
  W = 2
  N = 10
  NNoCounters = 6
  NProg = 3
  Instrs <- ControlSetRRReturnInstrs
  FreeVals = {0}
  MaxArith = 2
  MaxBinary = 2
  MaxMemAlign = 2
  ASAP = FALSE
  NoCounters = FALSE
  ProcessBatch = TRUE
  FastMode = FALSE
SPECIFICATION Spec
INVARIANT
  TraceAgreesWithControl
