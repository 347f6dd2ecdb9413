SPECIFICATION Spec
CONSTANTS
    Calls = {c1, c2}
    Idempotent = {c1}
    RetryAttempts = 1
    Reconnect = TRUE
    MaxAttempts = 2
    MaxTransports = 2
    MaxCancelSends = 1
    Faults = {"connect", "send", "timeout", "abandon", "hook", "lost", "broken", "close"}
CHECK_DEADLOCK FALSE
INVARIANTS
    NobodyStranded
    NoConnectionForgotten
    ClosedReleases
PROPERTIES
    KeepsPromise
