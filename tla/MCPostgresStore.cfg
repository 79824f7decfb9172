SPECIFICATION FairSpec
CONSTANTS
  Workers = {w1, w2}
  Batches = {"A", "B", "L"}
  PassB = {"L"}
  VersionsOf <- MCVersionsOf
  Modes = {"batch", "tables"}
  MaxRuns = 2
  MaxFaults = 1
INVARIANTS TypeOK StoreExact LocksCoverIds
PROPERTY RunEnds
