SPECIFICATION UdpSpec
CONSTANTS
    BufLen = 2
    SeqMod = 8
    MaxPacket = 9
    Packets <- MCPackets
    ControlPorts = {0, 1}
INVARIANT IInv
PROPERTIES
    PlayoutSpec
    PlayedInOrder
    FlushServed
CHECK_DEADLOCK FALSE
