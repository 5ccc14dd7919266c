SPECIFICATION ControlSpec
CONSTANTS
    Conns = {c1, c2}
    Users = {c1, c2}
    MaxConnections = 2
    Sessions = {s1, s2}
    NoSession = none
    MaxActive = 1
INVARIANTS
    ServedInv
    PointersInv
    OwnedInv
    StopsInv
PROPERTY DestroyReturns
CHECK_DEADLOCK FALSE
