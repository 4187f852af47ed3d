SPECIFICATION FairSpec
CONSTANTS
    m1 = m1
    s1 = s1
    s2 = s2
    Managers = {m1}
    Sockets = {s1, s2}
    None = None
    Boot = Boot
    MaxCrashes = 1
INVARIANTS
    SessionIsLive
PROPERTIES
    ReconnectsDoNotMultiply
    Reconnects
