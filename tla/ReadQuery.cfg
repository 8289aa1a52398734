SPECIFICATION Spec
CONSTANTS
  ArrayDomain <- MCDomain
  TileExtents <- MCExtents
  TileOrder = "row"
  CellOrder = "col"
  Fanout = 2
  Capacity = 2
  EstUnit = 72
  Arrays <- MCArrays
  Queries <- MCQueries
  BufferSizes = {1, 5}
  MemoryBudgets = {8}
  MaxFailures = 1
INVARIANT TypeOK
INVARIANT ValuesOfCells
INVARIANT NothingWrong
INVARIANT NothingMissing
INVARIANT InLayoutOrder
PROPERTY Terminates
