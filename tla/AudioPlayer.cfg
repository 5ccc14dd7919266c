SPECIFICATION Spec
CONSTANTS
    Adders = {"udp", "udp2"}
    MaxBuffered = 2
    MaxQueued = 2
    Prebuffer = 2
    PacketSize = 2
    Offsets <- LateOrEarly
    MaxPackets = 3
    MaxFlushes = 1
INVARIANTS
    AudioOwned
    HeardInOrder
    OffsetAtStart
PROPERTY StopEnds
CHECK_DEADLOCK FALSE
