--------------------------- MODULE MCGatewayJobs ---------------------------
(* A small gateway: two tenants, one key used for a two-part group message *)
(* (with a changed payload, a foreign tenant and an individual request     *)
(* under the same key) and one key used for an individual message.         *)
EXTENDS GatewayJobs, TLC

CONSTANTS c1, c2, k1, k2, t1, t2, pGood, pOther, pBad, pEmpty

MCCallers == {c1, c2}
MCSymmetry == Permutations(MCCallers)
MCKeys == {k1, k2}
MCTenants == {t1, t2}
MCPayloads == {pGood, pOther, pBad, pEmpty}
MCMalformed == {pBad}
MCNParts == (pGood :> 2) @@ (pOther :> 1) @@ (pBad :> 1) @@ (pEmpty :> 0)

MCRequest(k, t, ty, pr, p) ==
    [key |-> k, tenant |-> t, type |-> ty, provider |-> pr, payload |-> p]

MCRequests == {
    MCRequest(k1, t1, "Group", "Baileys", pGood),
    MCRequest(k1, t1, "Group", "Baileys", pOther),
    MCRequest(k1, t2, "Group", "Baileys", pGood),
    MCRequest(k1, t1, "Group", "Official API", pGood),
    MCRequest(k1, t1, "Individual", "Baileys", pOther),
    MCRequest(k2, t1, "Individual", "Official API", pGood),
    MCRequest(k2, t1, "Individual", "Baileys", pBad),
    MCRequest(k2, t2, "Individual", "Baileys", pEmpty)}
=============================================================================
