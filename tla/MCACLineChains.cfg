SPECIFICATION Spec
CONSTANTS
  Sources <- MCSources
  Workers = {w1, w2}
  BatchSizes = {0, 1, 2}
INVARIANTS
  TypeOK
  RoutesAreComponents
  BatchingDoesNotShow
  NothingDropped
PROPERTY Ends
CHECK_DEADLOCK FALSE
