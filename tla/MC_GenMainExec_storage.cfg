\* Storage in the fast variant: reads, writes through the free input or a checked constant, the lastSWrite cache, ADD/ARITH lines; checked against the store and the interpreter
CONSTANTS
  P = 11
  W = 2
  N = 10
  NNoCounters = 6
  NProg = 5
  Instrs <- StorageInstrs
  FreeVals = {0}
  MaxArith = 2
  MaxBinary = 2
  MaxMemAlign = 2
  ASAP = FALSE
  NoCounters = FALSE
  ProcessBatch = TRUE
  FastMode = TRUE
SPECIFICATION Spec
INVARIANTS
  StoreMatchesWrites
PROPERTIES
  StoreRefinement
  InterpRefinement
