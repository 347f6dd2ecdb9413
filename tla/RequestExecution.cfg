SPECIFICATION FairSpec
CONSTANTS
    Calls = {c1}
    Notifications = {n1}
    Handshakes = {h1}
    Timed = {c1}
    HandlerErrors = {"undeclared"}
    StrictErrors = TRUE
    MaxConcurrency = 1
    Chain = 2
    MaxRequests = 2
    MaxCancels = 2
INVARIANTS
    AnsweredOnce
    ScopesBalanced
    OutcomeIsTheAnswer
PROPERTIES
    DeadlineEnds
