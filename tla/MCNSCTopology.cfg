SPECIFICATION RingFreeSpec
CONSTANTS
  Equipment <- MCEquipment
  Nodes <- MCNodes
  Sources <- MCSources
INVARIANTS
  TypeOK
  ConnectionsAreWays
