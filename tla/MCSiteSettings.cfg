SPECIFICATION SettingsSpec
CONSTANTS
    m1 = m1
    r1 = r1
    Managers = {m1}
    Rows = {r1}
    Foreign = Foreign
    None = None
    Page = 2
    MaxLog = 3
    MaxAsks = 2
    MaxSaves = 1
INVARIANTS
    SettingsTypeOK
    CursorSkipsNothing
PROPERTIES
    SavesLoseNothing
    EventsDrain
CHECK_DEADLOCK FALSE
