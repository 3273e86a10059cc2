SPECIFICATION Spec
CONSTANTS
  Readers = {r1}
  Fetchers = {f1, f2}
  CACHE_BLOCK_COUNT = 2
  CACHE_BLOCK_SIZE = 2
  MAX_BLOCK_PREFETCH = 2
  SectorSize = 1
  UINT32 = 16
  Files = {a, b}
  FileSize <- MCLongFilesSize
  Empty = Empty
  Failed = Failed
INVARIANT AlwaysAFreeBlock
CHECK_DEADLOCK FALSE
