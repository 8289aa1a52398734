SPECIFICATION Spec
CONSTANTS
  Keys = {a}
  Values = {x, y}
  Del = Del
  Writers = {w1}
  Readers = {r1}
  Consolidators = {c1}
  Vacuums = {v1}
  Uuids = {1}
  Crashes = {"writer", "consolidator", "vacuum"}
  OpenAt = {2}
  MaxTime = 3
  MaxStores = 3
  MaxMerges = 2
SYMMETRY Symmetry
INVARIANT TypeOK
INVARIANT NoFutureItem
INVARIANT LoadsLatest
PROPERTY ReadersKeepFiles
CHECK_DEADLOCK FALSE
