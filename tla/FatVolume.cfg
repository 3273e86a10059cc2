SPECIFICATION VolumeSpec
CONSTANTS
  Entries <- MCEntries
  ROOT_DIR_ENTRY <- MCRoot
  N_CLUSTERS = 7
  BYTES_PER_CLUSTER = 5
  UINT32 = 35
  Sizes <- MCSizes
  FREE = FREE
  EOFC = EOFC
  NONE = NONE
  Paths <- MCPaths
  EntrySize <- MCEntrySize
  DotsSize = 2
  FileSizes = {0, 10, 15}
  Revs = {r1}
  NoRev = NoRev
  MaxDirSize = 9
INVARIANTS
  TypeOK
  ChainsPartition
  ChainsEnd
  ChainsTight
  AbortsOnlyWhenFull
  TablesMatchTree
  CallsReady
PROPERTIES
  CallsFitSize
  OperationsEnd
CHECK_DEADLOCK FALSE
