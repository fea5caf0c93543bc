SPECIFICATION Spec
CONSTANTS
    Devices = {}
    MaxListeners = 1
    MaxEffects = 1
    MaxSessions = 1
    EntryIds = {"s1", "s2", "e3"}
    Sources = {"s1", "s2"}
    SourceOf <- MCSourceOf
    Streams = {t1, t2}
    MaxQueue = 3
    MaxSources = 2
    MaxRetired = 1
    MaxSample = 2
    MaxPosition = 1
SYMMETRY MCSymmetry
INVARIANTS
    TypeOK
    ReservationsFollowQueue
    PublishedBoundaryIsEarliest
    SourceMirrorsCurrent
    ActiveStreamIsNotRetired
PROPERTIES
    AudibleTrackIsStable
    PositionIsMonotone
