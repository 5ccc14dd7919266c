SPECIFICATION Spec
CONSTANTS
    Streams = {"audio", "video"}
    Pins = {TRUE, FALSE}
    MaxSessions = 2
    MaxPlays = 1
    MaxRestarts = 1
    MaxEvents = 2
    MaxPosts = 1
INVARIANTS
    HistoryWhileActive
    
PROPERTY ReturnsToReady
CHECK_DEADLOCK FALSE
