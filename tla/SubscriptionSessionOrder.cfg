SPECIFICATION Spec
CONSTANTS
    Subs = {s1, s2}
    Unsubs = {u1, u2}
    Limit = 1
    MaxNotes = 2
    Faults = {"interrupt", "slow", "close", "drain", "swallow"}
INVARIANTS
    LimitHeld
    StreamOrder
    
    ClosedSessionIsSilent
