\* Fast variant: repeat, call/return, JMPN/JMPZ/JMP/JMPC around ARITH and binary lines, counter checks at the end
CONSTANTS
  P = 11
  W = 2
  N = 10
  NNoCounters = 6
  NProg = 3
  Instrs <- FastInstrs
  FreeVals = {0, 1}
  MaxArith = 1
  MaxBinary = 2
  MaxMemAlign = 2
  ASAP = FALSE
  NoCounters = FALSE
  ProcessBatch = TRUE
  FastMode = TRUE
SPECIFICATION FairSpec
INVARIANTS
  TypeOK
  RepeatRunsRCXPlusOne
  OOCReportedPastCeiling
PROPERTIES
  ReturnGoesBackAfterCall
  Termination
