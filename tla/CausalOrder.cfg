SPECIFICATION Spec
CONSTANTS
    Devices = {d1}
    MaxPeers = 2
    EventCapacity = 1
    MaxConnections = 2
INVARIANT CausalOrder
CHECK_DEADLOCK FALSE
