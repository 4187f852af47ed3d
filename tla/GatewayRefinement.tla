------------------------- MODULE GatewayRefinement -------------------------
(***************************************************************************)
(* GatewayJobs implements GatewayContract when each idempotency key stands *)
(* for one message, as the sites ensure: a key is drawn at random for a    *)
(* new history row, and every attempt sends what the row holds.  Requests  *)
(* that reuse a key for something else are in MCGatewayJobs.               *)
(***************************************************************************)
EXTENDS GatewayJobs

ASSUME OneMessagePerKey == \A q, r \in Requests : q.key = r.key => q = r

Groups == {r.key : r \in {q \in Requests : IsGroup(q)}}
Cloud == {r.key : r \in {q \in Requests : ~IsGroup(q) /\ q.provider = "Official API"}}

\* A group row that is marked inflight while no closure works on it, or that
\* requires reconciliation, is blocked.
OutcomeOf(k) ==
    IF jobs[k].status = "Submitted" THEN "submitted"
    ELSE IF jobs[k].recon \/ (jobs[k].inflight /\ ~Running(k)) THEN "blocked"
    ELSE "open"

Outcomes == [k \in Keys |-> OutcomeOf(k)]

EventLog == [i \in 1 .. Len(events) |->
                [key |-> events[i].key, status |-> events[i].status]]

Inbox == [i \in 1 .. Len(queue) |->
                [caller |-> queue[i].caller, key |-> queue[i].req.key]]

Decided ==
    \/ run.stage \in {"record", "announce"}
    \/ run.stage = "failing" /\ jobs[Req.key].recon

Contract == INSTANCE GatewayContract WITH
    outcome <- Outcomes,
    log <- EventLog,
    inbox <- Inbox,
    answer <- reply,
    decided <- Decided

\* The send path, with all its durable writes and crashes between them, keeps
\* the promises of the contract: outcomes are final, success is answered and
\* reported only for submitted messages, and reported at most once.
ImplementsContract == Contract!ContractSpec

-----------------------------------------------------------------------------
(* What the refinement needs beyond GatewayInv *)

\* A row that exists is the row of the one message its key stands for, and
\* that message is well formed.
MessageInv ==
    \A r \in Requests : jobs[r.key].status # "None" =>
        /\ jobs[r.key].tenant = r.tenant
        /\ jobs[r.key].fp = Fp(r)
        /\ ~IllFormed(r)

\* Only group rows carry the marks, reconciliation only when the attempt has
\* failed, and an attempt that failed without it has no part inflight.
MarkInv ==
    /\ \A k \in Keys :
        /\ jobs[k].recon => jobs[k].status = "Failed" /\ jobs[k].fp.type = "Group"
        /\ jobs[k].inflight => /\ jobs[k].status \in {"Processing", "Failed"}
                               /\ jobs[k].fp.type = "Group"
    /\ run.stage = "failing" /\ jobs[Req.key].inflight => jobs[Req.key].recon

\* Every row belongs to a request.
KeyInv == \A k \in Keys : jobs[k].status # "None" => \E r \in Requests : r.key = k

RefinementInv == GatewayInv /\ MessageInv /\ KeyInv /\ MarkInv

=============================================================================
