SPECIFICATION Spec
CONSTANTS
    c1 = c1
    c2 = c2
    k1 = k1
    k2 = k2
    t1 = t1
    t2 = t2
    pGood = pGood
    pOther = pOther
    pBad = pBad
    pEmpty = pEmpty
    Keys <- MCKeys
    Tenants <- MCTenants
    NoTenant = NoTenant
    Payloads <- MCPayloads
    NoPayload = NoPayload
    Malformed <- MCMalformed
    MaxParts = 2
    NParts <- MCNParts
    Callers <- MCCallers
    Gone = Gone
    Requests <- MCRequests
    MaxSubmits = 3
    MaxEvents = 3
INVARIANTS
    GroupPartAtMostOnce
    GroupContentUniform
    GroupPartsInOrder
    SubmittedComplete
    ReplySound
    EventsNeverRegress
PROPERTIES
    SubmittedIsFinal
SYMMETRY MCSymmetry
CHECK_DEADLOCK FALSE
