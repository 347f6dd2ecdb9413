SPECIFICATION FairSpec
CONSTANTS
    MaxConcurrency = 2
    MaxCalls = 3
    Faults = {"timeout", "cancel", "slow"}
INVARIANTS
    NothingLeaks
    ClosedFailsPending
PROPERTIES
    FirstAnswerStands
    NoStaleRequest
    CloseEndsCalls
