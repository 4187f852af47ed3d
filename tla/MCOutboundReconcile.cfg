SPECIFICATION OutboundSpec
CONSTANTS
    w1 = w1
    w2 = w2
    p = p
    c = c
    q = q
    Keys = {p, c}
    Groups = {c}
    Cloud = {}
    Callers = {w1, w2}
    Gone = Gone
    CopyOf <- MCCopyOf
    MaxRetries = 1
    BatchSize = 2
    Sched = Sched
    Free = Free
    MaxFaults = 0
    MaxLog = 2
INVARIANTS
    CopyAfterPrimary
    AttemptCeiling
PROPERTIES
    ReconciliationStops
    HistoryKept
SYMMETRY MCSymmetry
CHECK_DEADLOCK FALSE
