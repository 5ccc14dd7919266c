SPECIFICATION Spec
CONSTANTS
    MaxPlayers = 2
    PreSurface = 1
    MaxSessions = 2
    MaxPackets = 2
INVARIANTS
    OnePlayer
    OneOwner
    IdleClean
PROPERTIES
    MainReturns
    StartupDecided
CHECK_DEADLOCK FALSE
