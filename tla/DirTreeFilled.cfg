SPECIFICATION TreeSpec
CONSTANTS
  Paths <- MCFlatPaths
  EntrySize <- MCFillingEntries
  DotsSize = 2
  BYTES_PER_CLUSTER = 4
  FileSizes = {0}
  Revs = {r1}
  NoRev = NoRev
  MaxDirSize = 12
INVARIANT DirHoldsChildren
