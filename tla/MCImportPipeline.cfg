SPECIFICATION Spec
CONSTANTS
  Trees <- MCTrees
  Size = 2
  MaxRuns = 3
INVARIANTS
  TypeOK
  StagedIsWhatWasRead
  RebuildIsExact
  ApplyRestores
  MetadataIsTrue
CHECK_DEADLOCK FALSE
