SPECIFICATION OutboundFairSpec
CONSTANTS
    w1 = w1
    w2 = w2
    p = p
    c = c
    q = q
    Keys = {q}
    Groups = {}
    Cloud = {q}
    Callers = {w1, w2}
    Gone = Gone
    CopyOf <- MCNoCopies
    MaxRetries = 1
    BatchSize = 2
    Sched = Sched
    Free = Free
    MaxFaults = 0
    MaxLog = 3
PROPERTIES
    RetryAttempted
CHECK_DEADLOCK FALSE
