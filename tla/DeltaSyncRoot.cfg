SPECIFICATION FairSpec
CONSTANTS
  Paths <- MCPaths
  EntrySize <- MCEntrySize
  DotsSize = 2
  BYTES_PER_CLUSTER = 8
  FileSizes = {0, 9}
  Revs = {r1}
  NoRev = NoRev
  MaxDirSize = 100
  Changes <- MCRootChanges
  Deleted = Deleted
  PageSize = 2
  MaxJournal = 3
  MaxResets = 2
INVARIANTS
  TypeOK
  TreeLinked
  TreeMatchesCursor
PROPERTY ServingStarts
CHECK_DEADLOCK FALSE
