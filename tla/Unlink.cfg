SPECIFICATION Spec
CONSTANTS
    m1 = m1
    s1 = s1
    s2 = s2
    Managers = {m1}
    Sockets = {s1}
    None = None
    Boot = Boot
    MaxCrashes = 0
INVARIANTS
    UnlinkForgets
CHECK_DEADLOCK FALSE
