\* hashKDigest with op from registers before hashKLen: the zero digest passes
CONSTANTS
  Kinds = {"K"}
  NAddrs = 1
  BW = 1
  MaxSize = 2
  MaxData = 2
  KBlock = 2
  PBlock = 3
  DBPrograms <- StoredPrograms
SPECIFICATION Spec
INVARIANT
  DigestIsHashOfData
