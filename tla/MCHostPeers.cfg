SPECIFICATION Spec
CONSTANTS
    Devices = {d1, d2}
    MaxPeers = 2
    EventCapacity = 1
    MaxConnections = 3
SYMMETRY Symmetry
INVARIANTS
    TypeOK
    JointBudget
    
    NoDeadRoute
    RefusedStaysOut
PROPERTIES
    LiveRouteIsKept
CHECK_DEADLOCK FALSE
