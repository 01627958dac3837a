SPECIFICATION Spec
CONSTANTS
  c1 = c1
  c2 = c2
  c3 = c3
  c4 = c4
  d1 = d1
  d2 = d2
  file = file
  owner = owner
  other = other
  p1 = p1
  p2 = p2
  p3 = p3
  Docs = {d1, d2}
  Chunks = {c1, c2, c3, c4}
  DocOf <- MCDocOf
  All = All
  RrfK = 60
  TopRetrieval = 2
  TopFeed = 3
  TopRerank = 2
  MaxContext = 2
  MaxAttempts = 2
  PageSize = 2
  MaxPage = 2
  ChunkSize = 3
  ChunkOverlap = 1
  Texts <- MCTexts
  MaxLines = 3
  Documents = {file}
  Readers = {owner, other}
  Previews = {p1, p2, p3}
  OwnerOf <- MCOwnerOf
  Size = 3
  RangesOf <- MCRangesOf
  NoRange = NoRange
  MaxLog = 2
INVARIANTS FusedByAgreement AnswerIsGrounded ChunksCoverText ShownAsGenerated PreviewIsExact NewestAccessesKept
CHECK_DEADLOCK FALSE
