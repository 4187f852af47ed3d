------------------------ MODULE MCGatewayRefinement ------------------------
(* A group, an Official API message and a malformed one, each with its key: *)
(* GatewayJobs implements GatewayContract.                                  *)
EXTENDS GatewayRefinement, TLC

CONSTANTS c1, c2, k1, k2, k3, t1, t2, pGood, pOther, pBad

MCCallers == {c1, c2}
MCKeys == {k1, k2, k3}
MCTenants == {t1, t2}
MCPayloads == {pGood, pOther, pBad}
MCMalformed == {pBad}
MCNParts == (pGood :> 2) @@ (pOther :> 1) @@ (pBad :> 1)

MCRequest(k, t, ty, pr, p) ==
    [key |-> k, tenant |-> t, type |-> ty, provider |-> pr, payload |-> p]

MCRequests == {
    MCRequest(k1, t1, "Group", "Baileys", pGood),
    MCRequest(k2, t2, "Individual", "Official API", pOther),
    MCRequest(k3, t2, "Individual", "Baileys", pBad)}

=============================================================================
