SPECIFICATION Spec
CONSTANTS
    Adders = {"recv"}
    MaxBuffered = 3
    MaxQueued = 2
    MaxPackets = 6
INVARIANT ReleasedAfterDecode
CHECK_DEADLOCK FALSE
