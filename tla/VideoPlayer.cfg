SPECIFICATION Spec
CONSTANTS
    Adders = {"recv"}
    MaxBuffered = 3
    MaxQueued = 2
    MaxPackets = 6
INVARIANTS
    OwnedInv
    BacklogInv
PROPERTIES
    DecodedInOrder
    AddReturns
    StopEnds
CHECK_DEADLOCK FALSE
