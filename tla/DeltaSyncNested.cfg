SPECIFICATION Spec
CONSTANTS
  Paths <- MCPaths
  EntrySize <- MCEntrySize
  DotsSize = 2
  BYTES_PER_CLUSTER = 8
  FileSizes = {0}
  Revs = {r1}
  NoRev = NoRev
  MaxDirSize = 100
  Changes <- MCChanges
  Deleted = Deleted
  PageSize = 2
  MaxJournal = 3
  MaxResets = 1
INVARIANT
  TreeMatchesCursor
CHECK_DEADLOCK FALSE
