SPECIFICATION RendererSpec
CONSTANTS
    MaxPlayers = 3
    MaxRequests = 5
    MaxRetries = 1
INVARIANT PlayersInv
PROPERTY RetiredStaysDown
CHECK_DEADLOCK FALSE
