SPECIFICATION FairSpec
CONSTANTS
  d1 = d1
  d2 = d2
  None = None
  Docs = {d1, d2}
  Workers = {w1, w2}
  Unparsable = {d2}
  Deletable = {d1}
  NumChunks <- MCNumChunks
  UploadParts <- MCUploadParts
  Faults = {"minio", "es", "softlimit", "workerdown", "milvus", "delete"}
  MaxFaults = 1
  MaxReprocess = 0
INVARIANT ReadyIsComplete
PROPERTIES  EventuallyVectorized
CHECK_DEADLOCK FALSE
