\* Fast and full variants side by side on arithmetic, binary and JMPC lines
CONSTANTS
  P = 11
  W = 2
  N = 10
  NNoCounters = 6
  NProg = 3
  Instrs <- CounterMemInstrs
  FreeVals = {0, 1}
  MaxArith = 10
  MaxBinary = 10
  MaxMemAlign = 10
  ASAP = FALSE
  NoCounters = FALSE
  ProcessBatch = TRUE
SPECIFICATION Spec
INVARIANT
  TypeOK
  LockstepAgree
  SameOutcomeWithinBudget
  MemoryMatchesCells
  MemAlignMatchesBytes
