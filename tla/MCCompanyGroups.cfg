SPECIFICATION GroupsSpec
CONSTANTS
    m = m
    s = s
    cA = cA
    cB = cB
    g1 = g1
    g2 = g2
    inv = inv
    rep = rep
    d1 = d1
    Users = {m, s}
    Managers = {m}
    Companies = {cA, cB}
    Groups = {g1, g2}
    NoGroup = NoGroup
    Docs = {inv}
    Reports = {rep}
    ReportCompany <- MCReportCompany
    Deliveries = {d1}
    None = None
    MaxChanges = 3
INVARIANTS
    CompanyGroupsTypeOK
    RulesNeedLinkedDevice
    SentAsShown
    GroupOfTheCompany
    CopyHonoursRevocation
SYMMETRY MCSymmetry
CHECK_DEADLOCK FALSE
