SPECIFICATION Spec
CONSTANTS
  DomainStart = 0
  TileExtent = 1
  MinFrags = 100
  MaxFrags = 100
  SizeRatio = 0
  Amplification = 100
  Steps = 100
  Fill = Fill
  Coords <- MCCoords
  WriteCells <- OneCell
  Consolidators = {c1, c2}
  Vacuums = {v1}
  Readers = {}
  Dense = FALSE
  Uuids = {0}
  Crashes = {"consolidator"}
  VacFaults = {"unwritten"}
  MaxTime = 2
  MaxWrites = 3
  MaxFragments = 5
  MaxFaults = 1
SYMMETRY Symmetry
INVARIANTS TypeOK NoWriteLost ReadsLatest
