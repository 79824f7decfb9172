SPECIFICATION Spec
CONSTANTS
  Units <- MCUnits
  ContainerOf <- MCContainerOf
  OwnerOf <- MCOwnerOf
  ViewsOf <- MCViewsOf
  MaxBatches = 3
INVARIANTS TypeOK ReferencedNodesExist EdgesFoundByNode
PROPERTY PruneKeepsOthers
