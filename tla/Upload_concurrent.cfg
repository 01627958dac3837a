SPECIFICATION Spec
CONSTANTS
  None = None
  Uploads = {u1}
  Requests = {r1, r2}
  FileSize <- MCFileSize
  ChunkSize = 2
  Md5 <- MCNoMd5
  Faults = {"timeout", "redis", "db", "publish"}
  MaxFaults = 2
  MaxCrashes = 1
SYMMETRY RequestSymmetry
INVARIANTS TypeOK IdleKeysExpire
PROPERTY ContractSpec
CHECK_DEADLOCK FALSE
