SPECIFICATION FairSpec
CONSTANTS
    Sessions = {s1, s2, s3}
    Rpc = {s1, s2}
    Stubborn = {s2}
    Callers = {c1}
INVARIANTS
    NobodyMissed
    ReturnMeansSettled
    RestartTold
PROPERTIES
    DrainReturns
