SPECIFICATION Spec
CONSTANTS
    Nets <- MCConcInDet
    MaxDesc = 14
    MaxLand = 15
    MaxDet = 6
    MaxPort = 3
INVARIANTS
    NoCheckFails
