SPECIFICATION FairSpec
CONSTANTS
    Devices = {d1}
    MaxPeers = 2
    EventCapacity = 1
    MaxConnections = 2
PROPERTIES
    ShutdownReturns
CHECK_DEADLOCK FALSE
