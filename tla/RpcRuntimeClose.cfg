SPECIFICATION Spec
CONSTANTS
    a = a
    none = none
    Ids <- MCIds
    NoId = none
    Items <- MCInvalid
    AppCodes = {"normal", "shutdown"}
    EventCodes = {"try_again_later"}
    PeerCodes = {"normal", "other"}
    Faults = {"receive", "disconnect", "send", "slow", "interrupt"}
    MaxPending = 1
    MaxQueue = 1
    MaxBatch = 2
    MaxCalls = 1
    MaxFrames = 2
    MaxEvents = 1
INVARIANTS
    ClosedMeansJoined
    NormalCloseFlushes
