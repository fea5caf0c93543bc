SPECIFICATION FairSpec
CONSTANTS
    Clients = {c1}
    InboxCapacity = 1
    OutboxCapacity = 2
    MaxInputs = 1
    MaxEffects = 1
CHECK_DEADLOCK FALSE
PROPERTIES
    ReservationReturns
    JoinCompletes
