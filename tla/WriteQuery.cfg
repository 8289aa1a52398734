SPECIFICATION Spec
CONSTANTS
  ArrayDomain <- MCDomain
  TileExtents <- MCExtents
  TileOrder = "row"
  CellOrder = "col"
  Fanout = 2
  Capacity = 2
  EstUnit = 72
  Configs <- MCConfigs
  Batches <- MCBatches
  MaxSubmits = 3
  MaxFaults = 1
INVARIANT TypeOK
INVARIANT CommittedWhole
INVARIANT SortedWhole
INVARIANT CellsPlaced
INVARIANT FullTiles
INVARIANT ReadsBack
PROPERTY CommittedStays
CHECK_DEADLOCK FALSE
