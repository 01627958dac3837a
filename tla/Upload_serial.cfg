SPECIFICATION FairSpec
CONSTANTS
  None = None
  Uploads = {u1, u2}
  Requests = {r1}
  FileSize <- MCFileSize
  ChunkSize = 2
  Md5 <- MCSameMd5
  Faults = {"timeout", "redis", "db", "publish"}
  MaxFaults = 1
  MaxCrashes = 0
INVARIANTS UniqueFile DocumentIsWhole
PROPERTY DocumentSubmitted
CHECK_DEADLOCK FALSE
