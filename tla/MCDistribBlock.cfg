CONSTANTS
  Node <- Nodes
  Key = {"k", "l"}
  Owner <- OwnerOf
  OutCap = 1
  MaxCopies = 1
  Plans <- BlockPlans
SPECIFICATION Spec
INVARIANTS
  NoCheckFails
