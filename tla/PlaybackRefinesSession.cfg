SPECIFICATION Spec
CONSTANTS
    Devices = {d1}
    MaxListeners = 1
    MaxEffects = 2
    MaxSessions = 1
    EntryIds = {"s1", "e3"}
    Sources = {"s1"}
    SourceOf <- MCSourceOf
    Streams = {t1}
    MaxQueue = 2
    MaxSources = 1
    MaxRetired = 1
    MaxSample = 1
    MaxPosition = 0
PROPERTY SessionSpec
