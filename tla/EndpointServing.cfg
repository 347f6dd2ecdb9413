SPECIFICATION FairSpec
CONSTANTS
    Kinds = {"generator", "push", "raw"}
    AppCodes = {"normal", "service_restart"}
    FailCodes = {"internal_error", "policy_violation"}
    MaxQueue = 1
    MaxFrames = 2
    MaxCancels = 2
INVARIANTS
    AcceptedIsClosed
    NothingLeft
    CancellationKept
PROPERTIES
    ServingEnds
