SPECIFICATION Spec
CONSTANTS
    Nets <- MCNets
    MaxDesc = 14
    MaxLand = 15
    MaxDet = 6
    MaxPort = 3
INVARIANTS
    NoCheckFails
    DetOrder
    DetrefsExact
    AllCollected
