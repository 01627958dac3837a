SPECIFICATION FairSpec
CONSTANTS
  d1 = d1
  d2 = d2
  None = None
  Docs = {d1}
  Workers = {w1}
  Unparsable = {}
  Deletable = {d1}
  NumChunks <- MCNumChunks
  UploadParts <- MCUploadParts
  Faults = {"workerdown"}
  MaxFaults = 1
  MaxReprocess = 0
PROPERTY VectorizedDespiteCrash
CHECK_DEADLOCK FALSE
