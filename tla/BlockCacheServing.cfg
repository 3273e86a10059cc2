SPECIFICATION FairSpec
CONSTANTS
  Readers = {r1}
  Fetchers = {f1}
  CACHE_BLOCK_COUNT = 2
  CACHE_BLOCK_SIZE = 2
  MAX_BLOCK_PREFETCH = 1
  SectorSize = 1
  UINT32 = 16
  Files <- MCFiles
  FileSize <- MCFileSize
  Empty = Empty
  Failed = Failed
INVARIANT AlwaysAFreeBlock
PROPERTIES
  ReadReturns
  QueueDrains
