SPECIFICATION Spec
CONSTANTS
  r1 = r1
  r2 = r2
  v1 = v1
  c1 = c1
  c2 = c2
  p1 = p1
  p2 = p2
  Threads = {r1, r2, v1}
  Contexts = {c1, c2}
  Processes = {p1}
  Arrays = {"a"}
  ContextOf <- Together_ContextOf
  ProcessOf <- Together_ProcessOf
  Readers = {r1}
  Writers = {}
  Vacuumers = {v1}
  Faults = {}
  MaxFaults = 0
  NoThread = NoThread
  NoCall = NoCall
INVARIANT NoCircularWait
