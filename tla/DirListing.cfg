SPECIFICATION Spec
CONSTANTS
  SectorEntries = 4
  EntryMetaData <- MCEntryMetaData
  LONG_NAME_CHARS_PER_ENTRY = 3
  MaxChildren = 4
  FirstCluster = 70000
  ParentCluster = 131075
  ParentIsRoot = FALSE
  Garbage = Garbage
  NoEntry = NoEntry
  ParentNames <- MCParentNames
  CHAR_SIGNED = FALSE
INVARIANTS
  SectorsMatchListing
  BufferSuffices
  ListingTellsChildren
  RequestNamesListed
CHECK_DEADLOCK FALSE
