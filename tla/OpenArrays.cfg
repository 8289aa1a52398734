SPECIFICATION Spec
CONSTANTS
  r1 = r1
  r2 = r2
  v1 = v1
  c1 = c1
  c2 = c2
  p1 = p1
  p2 = p2
  Threads = {r1, r2, v1}
  Contexts = {c1, c2}
  Processes = {p1, p2}
  Arrays = {"a"}
  ContextOf <- Apart_ContextOf
  ProcessOf <- Apart_ProcessOf
  Readers = {r1, r2, v1}
  Writers = {r1, r2}
  Vacuumers = {v1}
  Faults = {"key", "filelock", "load"}
  MaxFaults = 2
  NoThread = NoThread
  NoCall = NoCall
INVARIANT RefcountExact
 
PROPERTY ImplementsLock
