SPECIFICATION Spec
CONSTANTS
  Readers = {r1, r2}
  Fetchers = {f1, f2}
  CACHE_BLOCK_COUNT = 2
  CACHE_BLOCK_SIZE = 2
  MAX_BLOCK_PREFETCH = 2
  SectorSize = 1
  UINT32 = 16
  Files <- MCFiles
  FileSize <- MCFileSize
  Empty = Empty
  Failed = Failed
SYMMETRY ThreadSymmetry
INVARIANTS
  TypeOK
  ReferencesCounted
  HeldBlockKept
  OneFetcherPerBlock
  CompletedHoldsKey
  KeysUnique
  NoTornCopy
  ReadReturnsRequested
PROPERTIES
  CompletedUntilRecycled
  AnswersRequests
CHECK_DEADLOCK FALSE
