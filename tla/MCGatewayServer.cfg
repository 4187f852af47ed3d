SPECIFICATION ServerSpec
CONSTANTS
    q1 = q1
    q2 = q2
    Requests = {q1, q2}
    None = None
    Second = 2
    Window = 7
    Limit <- MCLimit
    MaxTime = 9
    MaxStarts = 1
INVARIANTS
    AcceptedOnce
    RefusedOnlyIfStale
CHECK_DEADLOCK FALSE
