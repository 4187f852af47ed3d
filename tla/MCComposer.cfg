SPECIFICATION ComposerSpec
CONSTANTS
    inv = inv
    ar = ar
    cls = cls
    A = A
    B = B
    dInv = dInv
    dAr = dAr
    dCls = dCls
    own = own
    k1 = k1
    k2 = k2
    s1 = s1
    s2 = s2
    e1 = e1
    e2 = e2
    u1 = u1
    pf = pf
    Doctypes = {inv}
    Reports = {ar, cls}
    Companies = {A, B}
    Blank = Blank
    Names = {dInv, dAr, dCls, own}
    NoTemplate = NoTemplate
    SeedName <- MCSeedName
    Editors = {e1, e2}
    Forms <- MCForms
    MaxChanges = 3
    Senders = {u1}
    Customers = {k1, k2}
    Sources = {s1, s2}
    OwnerOf <- MCOwnerOf
    Raws <- MCRaws
    NoNumber = NoNumber
    MinDigits = 2
    MaxDigits = 3
    Formats = {pf}
    DocCompany <- MCDocCompany
    DocCustomer <- MCDocCustomer
    Filters <- MCFilters
    Native <- MCNative
    External <- MCExternal
    NotADict = NotADict
    MaxRows = 1
INVARIANTS
    OneDefault
    ComposerTypeOK
    OfferAccepted
    NumberReachesGateway
    PdfOfTheRecipient
PROPERTIES
    MigrationOnlyAdds
SYMMETRY MCSymmetry
CHECK_DEADLOCK FALSE
