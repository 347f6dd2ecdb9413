SPECIFICATION FairSpec
CONSTANTS
    a = a
    none = none
    Ids <- MCIds
    NoId = none
    Items <- MCInvalid
    AppCodes = {"normal"}
    EventCodes = {}
    PeerCodes = {}
    Faults = {"drain", "stop", "slow"}
    MaxPending = 1
    MaxQueue = 1
    MaxBatch = 1
    MaxCalls = 2
    MaxFrames = 2
    MaxEvents = 0
INVARIANTS
    DrainAnswersAll
PROPERTIES
    EveryFrameSettles
    CloseCompletes
