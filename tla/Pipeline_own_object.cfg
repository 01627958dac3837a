SPECIFICATION Spec
CONSTANTS
  d1 = d1
  d2 = d2
  None = None
  Docs = {d1, d2}
  Workers = {w1, w2}
  Unparsable = {}
  Deletable = {d1}
  NumChunks <- MCNumChunks
  UploadParts <- MCUploadParts
  Faults = {}
  MaxFaults = 0
  MaxReprocess = 0

INVARIANT ChunksFromOwnObject
CHECK_DEADLOCK FALSE
