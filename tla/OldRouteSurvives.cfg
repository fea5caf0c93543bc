SPECIFICATION Spec
CONSTANTS
    Devices = {d1}
    MaxPeers = 2
    EventCapacity = 1
    MaxConnections = 2
INVARIANT OldRouteSurvives
CHECK_DEADLOCK FALSE
