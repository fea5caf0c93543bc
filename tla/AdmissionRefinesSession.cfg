SPECIFICATION Spec
CONSTANTS
    Devices = {d1}
    MaxListeners = 1
    MaxEffects = 2
    MaxSessions = 1
    MaxRequests = 1
    MaxJoins = 1
PROPERTY SessionSpec
