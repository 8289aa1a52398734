SPECIFICATION Spec
CONSTANTS
  ArrayDomain <- MCDomain
  TileExtents <- MCExtents
  TileOrder = "row"
  CellOrder = "col"
  Fanout = 2
  Capacity = 2
  EstUnit = 72
  Arrays <- CutArrays
  Queries <- CutQueries
  BufferSizes = {2}
  MemoryBudgets = {100}
  MaxFailures = 0
INVARIANT EntireResultRead
