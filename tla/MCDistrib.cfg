CONSTANTS
  Node <- Nodes
  Key = {"k", "l"}
  Owner <- OwnerOf
  OutCap = 1
  MaxCopies = 1
  Plans <- PassPlans
SPECIFICATION Spec
INVARIANTS
  NoCheckFails
  CountsAgree
  LockOrderSafe
  InOrder
PROPERTIES
  AllStop
CHECK_DEADLOCK FALSE
