SPECIFICATION Spec
CONSTANTS
    Clients = {c1, c2}
    InboxCapacity = 2
    OutboxCapacity = 2
    MaxInputs = 2
    MaxEffects = 1
SYMMETRY MCSymmetry
CHECK_DEADLOCK FALSE
INVARIANTS
    TypeOK
    OneCommandPerSnapshot
    ObserverIsNeverAhead
    ReservedIsPublished
    CleanShutdownDeliversAll
    NoEffectLost
