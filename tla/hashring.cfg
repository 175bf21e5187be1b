SPECIFICATION Spec
CONSTANTS
  n1 = n1  n2 = n2  n3 = n3
  Nodes = {n1, n2, n3}
  VNodes = 2
  Keys = 6
  MaxKeys = 6
  NoNode = NoNode
  Places <- AnyPlaces
SYMMETRY NodesAlike
INVARIANT TypeOK
INVARIANT NearestFirst
INVARIANT OnlyMembers
PROPERTY MinimalMove
CHECK_DEADLOCK FALSE
