SPECIFICATION Spec
CONSTANTS
  DomainStart = 0
  TileExtent = 2
  MinFrags = 2
  MaxFrags = 3
  SizeRatio = 50
  Amplification = 150
  Steps = 4
  Fill = Fill
  MaxLen = 4
  Sizes = {2, 5}
  NewSizes = {3, 9}
  Coords <- MCCoords
  Lists <- MCLists
  DenseRanges <- MCDenseRanges
  SparseCells <- MCSparseCells
INVARIANTS TypeOK ChoosesMaximalRun RangesCoverWrites
PROPERTIES MergePreservesView MergeReplacesRun
CHECK_DEADLOCK FALSE
