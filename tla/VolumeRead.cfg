SPECIFICATION Spec
CONSTANTS
  SectorSize = 3
  SectorsPerCluster = 2
  ReservedSectorCount = 4
  BackupBootSector = 2
  FSInfo = 1
  FATSz = 2
  FatEntriesPerSector = 4
  TotalSectors = 19
  UINT32 = 66
  Entries <- MCEntries
  IsDir <- MCIsDir
  Size <- MCSize
  MaxSize = 7
  Garbage = Garbage
  FREE = FREE
  EOFC = EOFC
INVARIANTS
  ReadCorrect
  AlignedAssertionsHold
CHECK_DEADLOCK FALSE
