SPECIFICATION Spec
CONSTANTS
    a = a
    none = none
    Ids <- MCIds
    NoId = none
    Items <- MCNotify
    AppCodes = {}
    EventCodes = {}
    PeerCodes = {}
    Faults = {"handler"}
    MaxPending = 1
    MaxQueue = 1
    MaxBatch = 2
    MaxCalls = 2
    MaxFrames = 3
    MaxEvents = 0
INVARIANTS
    RegistryExact
    PendingExact
    NoResponseLost
    BacklogBounded
