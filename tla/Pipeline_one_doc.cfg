SPECIFICATION Spec
CONSTANTS
  d1 = d1
  d2 = d2
  None = None
  Docs = {d1}
  Workers = {w1, w2}
  Unparsable = {}
  Deletable = {d1}
  NumChunks <- MCNumChunks
  UploadParts <- MCUploadParts
  Faults = {"publish", "minio", "es", "db", "softlimit", "childlost", "workerdown", "milvus", "delete"}
  MaxFaults = 2
  MaxReprocess = 2
SYMMETRY WorkerSymmetry
INVARIANTS TypeOK ReadyIsComplete OneBatchPerDoc NoOrphanRows VectorsMatchRows CopiesBounded AbandonedHasRows ReadyIsIndexed
PROPERTY CatalogSpec
CHECK_DEADLOCK FALSE
