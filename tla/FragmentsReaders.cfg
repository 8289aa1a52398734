SPECIFICATION Spec
CONSTANTS
  DomainStart = 0
  TileExtent = 1
  MinFrags = 100
  MaxFrags = 100
  SizeRatio = 0
  Amplification = 100
  Steps = 100
  Fill = Fill
  Coords <- MCCoords
  WriteCells <- OneCell
  Consolidators = {c1}
  Vacuums = {v1, v2}
  Readers = {r1}
  Dense = FALSE
  Uuids = {0}
  Crashes = {"writer", "consolidator", "vacuum"}
  VacFaults = {"unwritten", "unsynced"}
  MaxTime = 2
  MaxWrites = 2
  MaxFragments = 4
  MaxFaults = 1
SYMMETRY Symmetry
INVARIANTS SnapshotIntact NoFutureWrite
 
