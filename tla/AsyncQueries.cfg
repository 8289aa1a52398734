SPECIFICATION FairSpec
CONSTANTS
  Queries = {q1, q2}
  Reads = {q1}
  Clients = {c1, c2}
  Workers = {w1, w2}
  NoQuery = NoQuery
  MaxSubmits = 3
INVARIANTS TypeOK OutstandingExact DestructionSettled OneProcessor
PROPERTY QueriesSettle
CHECK_DEADLOCK FALSE
