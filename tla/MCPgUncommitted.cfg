SPECIFICATION Spec
CONSTANTS
  Workers = {w1, w2}
  Batches = {"A", "B", "L"}
  PassB = {"L"}
  VersionsOf <- MCVersionsOf
  Modes = {"batch"}
  MaxRuns = 1
  MaxFaults = 0
INVARIANT NoWorkerFails
