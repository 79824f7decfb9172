SPECIFICATION Spec
CONSTANTS
  Sources <- MCSources
  BusbarOfBase <- MCBusbarOfBase
INVARIANTS
  TypeOK
  ContainersMatchWhole
  FlagsSeeWhatIsBuilt
  ElectricalConnectionIsPath
  CircuitsFollowSwitches
  BatchingInvariant
  BarsUnified
CHECK_DEADLOCK FALSE
