SPECIFICATION Spec
CONSTANTS
  NULL = NULL
  AnyNode = AnyNode
  Root = 0
  Node = {0, 1}
  Nets <- NestedStars
  Tags = {0, 1}
  MaxDepth = 2
INVARIANT NoCheckFails
CHECK_DEADLOCK FALSE
