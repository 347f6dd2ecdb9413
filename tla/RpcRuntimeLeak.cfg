SPECIFICATION Spec
CONSTANTS
    a = a
    none = none
    Ids <- MCIds
    NoId = none
    Items <- MCItems
    AppCodes = {}
    EventCodes = {}
    PeerCodes = {}
    Faults = {"handler"}
    MaxPending = 2
    MaxQueue = 1
    MaxBatch = 2
    MaxCalls = 2
    MaxFrames = 1
    MaxEvents = 0
INVARIANTS
    CallsReceiveAnswer
