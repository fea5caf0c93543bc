SPECIFICATION FairSpec
CONSTANTS
    Clients = {c1}
    InboxCapacity = 2
    OutboxCapacity = 4
    MaxInputs = 1
    MaxEffects = 0
CHECK_DEADLOCK FALSE
PROPERTY ShutdownCompletes
