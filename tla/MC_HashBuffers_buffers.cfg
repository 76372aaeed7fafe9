\* Keccak and Poseidon buffers on one address: writes, reads through the free input, Len, Digest, setProgram/getProgram, padding inputs
CONSTANTS
  Kinds = {"K", "P"}
  NAddrs = 1
  BW = 1
  MaxSize = 1
  MaxData = 2
  KBlock = 2
  PBlock = 3
  DBPrograms <- StoredPrograms
SPECIFICATION Spec
INVARIANTS
  TypeOK
  ReadsWithinData
PROPERTIES
  BytesNeverRewritten
