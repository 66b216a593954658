SPECIFICATION Spec
CONSTANTS
  NULL = NULL
  AnyNode = AnyNode
  Root = 0
  Node = {0, 1}
  Nets <- BuildNets
  Tags = {0, 1}
  MaxDepth = 2
INVARIANT SameNetwork
CHECK_DEADLOCK FALSE
