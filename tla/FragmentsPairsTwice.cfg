SPECIFICATION Spec
CONSTANTS
  DomainStart = 0
  TileExtent = 1
  MinFrags = 2
  MaxFrags = 2
  SizeRatio = 0
  Amplification = 100
  Steps = 2
  Fill = Fill
  Coords <- MCCoords
  WriteCells <- MixedCells
  Consolidators = {c1}
  Vacuums = {v1}
  Readers = {}
  Dense = FALSE
  Uuids = {0}
  Crashes = {}
  VacFaults = {}
  MaxTime = 3
  MaxWrites = 3
  MaxFragments = 7
  MaxFaults = 0
SYMMETRY Symmetry
INVARIANT ReadsLatest
