SPECIFICATION FairSpec
CONSTANTS
    Subs = {s1, s2}
    Unsubs = {u1, u2}
    Limit = 2
    MaxNotes = 1
    Faults = {"close"}
PROPERTIES
    SessionSettles
