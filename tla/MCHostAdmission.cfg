SPECIFICATION Spec
CONSTANTS
    Devices = {d1, d2}
    MaxListeners = 1
    MaxEffects = 2
    MaxSessions = 1
    MaxRequests = 1
    MaxJoins = 2
SYMMETRY MCSymmetry
INVARIANTS
    TypeOK
    OneDecisionInFlight
    NothingPendingWithoutSession
    PromisedTrustIsDurable
    AdmissionWithinLimits
PROPERTIES
    AdmittedByRequest
