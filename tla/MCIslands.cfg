SPECIFICATION Spec
CONSTANTS
  Sources <- MCSources
  BusbarOfBase <- MCBusbarOfBase
INVARIANT StationNodesSeen
CHECK_DEADLOCK FALSE
