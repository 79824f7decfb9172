SPECIFICATION Spec
CONSTANTS
  w1 = w1
  w2 = w2
  Workers <- MCWorkers
  NumSubstations = 5
  NumBuildings = 7
  ChunkSize = 5
  BatchSize = 2
INVARIANTS
  TypeOK
  EachRootOnce
  RowsInOrder
PROPERTIES
  ImplementsImport
  PoolEnds
