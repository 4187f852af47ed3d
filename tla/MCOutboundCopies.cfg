SPECIFICATION OutboundFairSpec
CONSTANTS
    w1 = w1
    w2 = w2
    p = p
    c = c
    q = q
    Keys = {p, c}
    Groups = {c}
    Cloud = {}
    Callers = {w1, w2}
    Gone = Gone
    CopyOf <- MCCopyOf
    MaxRetries = 0
    BatchSize = 2
    Sched = Sched
    Free = Free
    MaxFaults = 1
    MaxLog = 2
INVARIANTS
    OutboundTypeOK
    NoFalseSuccess
    ReconSound
PROPERTIES
    CopyAttempted
CHECK_DEADLOCK FALSE
