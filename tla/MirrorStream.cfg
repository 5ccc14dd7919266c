SPECIFICATION StreamSpec
CONSTANTS
    MaxFrames = 3
    Lengths <- MCLengths
    MaxSeen = 100
INVARIANTS
    CloseOnceInv
    FreedInv
PROPERTIES
    StopReturns
    OneKeyStream
CHECK_DEADLOCK FALSE
