\* Padding inputs built by indexing the buffer maps with 0..size()-1
CONSTANTS
  Kinds = {"K", "P"}
  NAddrs = 2
  BW = 1
  MaxSize = 1
  MaxData = 1
  KBlock = 2
  PBlock = 3
  DBPrograms <- StoredPrograms
SPECIFICATION Spec
INVARIANT
  PaddingInputsMatchBuffers
