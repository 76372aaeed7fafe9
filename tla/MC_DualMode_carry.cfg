\* AND/OR/XOR followed by JMPC: the fast variant branches on a stale carry
CONSTANTS
  P = 11
  W = 2
  N = 10
  NNoCounters = 6
  NProg = 4
  Instrs <- CarryInstrs
  FreeVals = {0, 1}
  MaxArith = 10
  MaxBinary = 10
  MaxMemAlign = 2
  ASAP = FALSE
  NoCounters = FALSE
  ProcessBatch = TRUE
SPECIFICATION Spec
INVARIANT
  LockstepAgree
