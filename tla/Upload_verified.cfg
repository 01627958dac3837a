SPECIFICATION Spec
CONSTANTS
  None = None
  Uploads = {u1}
  Requests = {r1, r2}
  FileSize <- MCFileSize
  ChunkSize = 2
  Md5 <- MCNoMd5
  Faults = {}
  MaxFaults = 0
  MaxCrashes = 0
SYMMETRY RequestSymmetry
INVARIANT VerifiedMeansAssembled
CHECK_DEADLOCK FALSE
