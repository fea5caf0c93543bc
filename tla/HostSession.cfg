SPECIFICATION FairSessionSpec
CONSTANTS
    Devices = {d1, d2}
    MaxListeners = 2
    MaxEffects = 2
    MaxSessions = 2
INVARIANTS
    SessionTypeOK
    SessionMatchesLifecycle
 
