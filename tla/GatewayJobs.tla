----------------------------- MODULE GatewayJobs -----------------------------
(***************************************************************************)
(* The gateway's send path: WhatsAppGateway.send, sendGroup, sendBaileys   *)
(* and sendCloud (gateway.mjs), the sequential queue they run on           *)
(* (core.mjs) and the durable tables jobs, provider_messages and events    *)
(* (store.mjs).                                                            *)
(*                                                                         *)
(* The gateway is one Node process.  A POST /v1/send puts a closure on the *)
(* queue; the closures run one after the other, and each runs up to its    *)
(* next await without interruption.  Every durable write is an action, so  *)
(* that a crash may fall between any two of them.  The message provider    *)
(* (a Baileys socket or the Meta API) is external: a call reaches it and   *)
(* is then confirmed, answered without an id, or rejected, and a rejected  *)
(* or unanswered call may have delivered the part all the same.            *)
(*                                                                         *)
(* A definition whose name ends in M is a faulty variant of the one after  *)
(* it.  No specification uses it; it shows that a property notices.        *)
(***************************************************************************)
EXTENDS Integers, Sequences, FiniteSets

CONSTANTS
    Keys,         \* idempotency keys
    Tenants,      \* tenant ids
    NoTenant,     \* tenant of a job row that does not exist
    Payloads,     \* recipient, text and PDFs of a request, as one value
    NoPayload,    \* payload of a job row that does not exist
    Malformed,    \* payloads refused before the job row is consulted further
    MaxParts,     \* most messages one request turns into (5 PDFs and a text)
    NParts,       \* messages a payload turns into; 0: nothing that can be sent
    Callers,      \* HTTP clients of the gateway (workers of the sites)
    Gone,         \* a client that stopped waiting
    Requests,     \* the requests the clients may make
    MaxSubmits,   \* bound: requests made in one behaviour
    MaxEvents     \* bound: receipts are delivered while fewer events exist

Types == {"Individual", "Group"}
Providers == {"Baileys", "Official API"}

\* What the SHA-256 of type, recipient, text, PDFs and provider tells apart.
Fingerprints == [type : Types, provider : Providers, payload : Payloads]
NoFp == [type |-> "None", provider |-> "None", payload |-> NoPayload]

ASSUME ConstantsAssumption ==
    /\ NoTenant \notin Tenants
    /\ NoPayload \notin Payloads
    /\ Malformed \subseteq Payloads
    /\ MaxParts \in Nat
    /\ NParts \in [Payloads -> 0 .. MaxParts]
    /\ Gone \notin Callers
    /\ Requests \subseteq [key : Keys, tenant : Tenants, type : Types,
                           provider : Providers, payload : Payloads]
    /\ Requests # {}
    /\ MaxSubmits \in Nat
    /\ MaxEvents \in Nat

VARIABLES
    jobs,         \* table jobs: idempotency key -> row
    registered,   \* table provider_messages: keys whose message ids it holds
    events,       \* table events, oldest first
    queue,        \* SequentialQueue; its head is the closure that runs
    run,          \* progress of the closure at the head of the queue
    calls,        \* history: message submissions made to the provider, per key
    confirmed,    \* history: submissions the provider answered with an id
    asked,        \* last request of each client (any, before its first)
    reply,        \* what each client knows of its last request
    submits       \* requests made so far

store == <<jobs, registered, events>>
memory == <<queue, run>>
wire == <<calls, confirmed>>
clients == <<asked, reply, submits>>
vars == <<jobs, registered, events, queue, run, calls, confirmed,
          asked, reply, submits>>

-----------------------------------------------------------------------------
(* State *)

JobRow == [tenant : Tenants \cup {NoTenant},
           status : {"None", "Queued", "Processing", "Submitted", "Failed"},
           fp : Fingerprints \cup {NoFp},
           done : 0 .. MaxParts,        \* length of message_ids
           inflight : BOOLEAN,
           recon : BOOLEAN]             \* reconciliation_required

NoJob == [tenant |-> NoTenant, status |-> "None", fp |-> NoFp,
          done |-> 0, inflight |-> FALSE, recon |-> FALSE]

Event == [key : Keys, tenant : Tenants,
          status : {"Submitted", "Acknowledged", "Failed"}]

Entry == [caller : Callers \cup {Gone}, req : Requests]

\* The closure leaves the other stages without an await: only a crash can come
\* between such a stage and the next.
AwaitStages == {"idle", "preflight", "ready", "calling"}
Run == [stage : AwaitStages \cup {"marked", "record", "announce", "failing"},
        sent : 0 .. MaxParts,           \* parts whose call has returned
        ok : BOOLEAN]                   \* every one of them returned an id

Idle == [stage |-> "idle", sent |-> 0, ok |-> TRUE]

Call == [fp : Fingerprints, part : 1 .. MaxParts]

Replies == {"none", "waiting", "ok", "failed", "uncertain", "unavailable"}

Init ==
    /\ jobs = [k \in Keys |-> NoJob]
    /\ registered = {}
    /\ events = <<>>
    /\ queue = <<>>
    /\ run = Idle
    /\ calls = [k \in Keys |-> <<>>]
    /\ confirmed = [k \in Keys |-> {}]
    /\ asked = [c \in Callers |-> CHOOSE r \in Requests : TRUE]
    /\ reply = [c \in Callers |-> "none"]
    /\ submits = 0

AtAwait == run.stage \in AwaitStages
Busy == queue # <<>>
Req == queue[1].req
Fp(r) == [type |-> r.type, provider |-> r.provider, payload |-> r.payload]
IsGroup(r) == r.type = "Group"
Parts(r) == NParts[r.payload]
At(s) == Busy /\ run.stage = s
GoTo(s) == run' = [run EXCEPT !.stage = s]

-----------------------------------------------------------------------------
(* Clients: the HTTP requests of process_outbound_message *)

\* POST /v1/send: the closure goes to the tail of the queue.
Submit(c, r) ==
    /\ AtAwait
    /\ reply[c] # "waiting"
    /\ submits < MaxSubmits
    /\ submits' = submits + 1
    /\ queue' = Append(queue, [caller |-> c, req |-> r])
    /\ asked' = [asked EXCEPT ![c] = r]
    /\ reply' = [reply EXCEPT ![c] = "waiting"]
    /\ UNCHANGED <<store, run, wire>>

\* The client gives up after its 180 s; its closure stays on the queue and
\* will run, with nobody to hear the answer.
ClientTimeoutM(c) ==
    /\ reply[c] = "waiting"
    /\ reply' = [reply EXCEPT ![c] = "unavailable"]
    /\ UNCHANGED <<store, memory, wire, asked, submits>>
ClientTimeout(c) ==
    /\ reply[c] = "waiting"
    /\ reply' = [reply EXCEPT ![c] = "unavailable"]
    /\ queue' = [i \in 1 .. Len(queue) |->
                    IF queue[i].caller = c
                    THEN [caller |-> Gone, req |-> queue[i].req]
                    ELSE queue[i]]
    /\ UNCHANGED <<store, run, wire, asked, submits>>

\* The closure settles: its client is answered and the next one may start.
Answer(a) ==
    /\ reply' = IF queue[1].caller = Gone THEN reply
                ELSE [reply EXCEPT ![queue[1].caller] = a]
    /\ queue' = Tail(queue)
    /\ run' = Idle

-----------------------------------------------------------------------------
(* WhatsAppGateway.send up to its first durable write: the checks, in order *)

Exists(r) == jobs[r.key].status # "None"

\* "Idempotency identity belongs to another tenant."
ForeignTenantM(r) == FALSE
ForeignTenant(r) == Exists(r) /\ jobs[r.key].tenant # r.tenant

\* Provider, recipient, text and PDF checks that need no job row.
IllFormed(r) ==
    \/ IsGroup(r) /\ r.provider # "Baileys"
    \/ r.payload \in Malformed

\* "Group retry payload changed or has no verifiable identity."
FingerprintChangedM(r) == FALSE
FingerprintChanged(r) == IsGroup(r) /\ Exists(r) /\ jobs[r.key].fp # Fp(r)

\* "Group submission requires reconciliation."
NeedsReconciliationM(r) == IsGroup(r) /\ jobs[r.key].recon
NeedsReconciliation(r) ==
    IsGroup(r) /\ (jobs[r.key].recon \/ jobs[r.key].inflight)

AlreadySubmittedM(r) == FALSE
AlreadySubmitted(r) == jobs[r.key].status = "Submitted"

Refused(r) == ForeignTenant(r) \/ IllFormed(r) \/ FingerprintChanged(r)

\* The closure throws before it has touched the job row.
Refuse ==
    /\ At("idle")
    /\ \/ Refused(Req)
       \/ /\ ~NeedsReconciliation(Req)
          /\ ~AlreadySubmitted(Req)
          /\ Parts(Req) = 0
    /\ Answer("failed")
    /\ UNCHANGED <<store, wire, asked, submits>>

RefuseUncertain ==
    /\ At("idle")
    /\ ~Refused(Req)
    /\ NeedsReconciliation(Req)
    /\ Answer("uncertain")
    /\ UNCHANGED <<store, wire, asked, submits>>

\* The stored result of an earlier success is returned again.
ReplayM ==
    /\ At("idle")
    /\ ~Refused(Req)
    /\ ~NeedsReconciliation(Req)
    /\ AlreadySubmitted(Req)
    /\ events' = Append(events, [key |-> Req.key, tenant |-> Req.tenant,
                                 status |-> "Submitted"])
    /\ Answer("ok")
    /\ UNCHANGED <<jobs, registered, wire, asked, submits>>
Replay ==
    /\ At("idle")
    /\ ~Refused(Req)
    /\ ~NeedsReconciliation(Req)
    /\ AlreadySubmitted(Req)
    /\ Answer("ok")
    /\ UNCHANGED <<store, wire, asked, submits>>

\* updateJob with status Queued.  A group keeps the parts confirmed before;
\* the row's tenant is the one it was created with.
Begin ==
    /\ At("idle")
    /\ ~Refused(Req)
    /\ ~NeedsReconciliation(Req)
    /\ ~AlreadySubmitted(Req)
    /\ Parts(Req) > 0
    /\ LET before == jobs[Req.key]
           kept == IF IsGroup(Req) THEN before.done ELSE 0
       IN  /\ jobs' = [jobs EXCEPT ![Req.key] =
                [tenant |-> IF Exists(Req) THEN before.tenant ELSE Req.tenant,
                 status |-> "Queued", fp |-> Fp(Req), done |-> kept,
                 inflight |-> FALSE, recon |-> FALSE]]
           /\ run' = [stage |-> "preflight", sent |-> kept, ok |-> TRUE]
    /\ UNCHANGED <<registered, events, queue, wire, clients>>

-----------------------------------------------------------------------------
(* Sending the parts *)

\* The catch block of send: updateJob with status Failed; the progress of a
\* group is kept, inflight mark included.
Fail(uncertain) ==
    /\ jobs' = [jobs EXCEPT ![Req.key] =
                    [@ EXCEPT !.status = "Failed", !.recon = uncertain]]
    /\ GoTo("failing")

\* Not connected, number not registered, group left, no posting permission.
PreflightFails ==
    /\ At("preflight")
    /\ Fail(FALSE)
    /\ UNCHANGED <<registered, events, queue, wire, clients>>

PreflightPasses ==
    /\ At("preflight")
    /\ GoTo("ready")
    /\ UNCHANGED <<store, queue, wire, clients>>

\* sendCloud: credentials are gone, or the media upload of the next PDF
\* fails; no message was submitted for it.
UploadFails ==
    /\ At("ready")
    /\ Req.provider = "Official API"
    /\ run.sent < Parts(Req)
    /\ Fail(FALSE)
    /\ UNCHANGED <<registered, events, queue, wire, clients>>

\* sendGroup marks the row inflight, durably, before it hands over a part.
CheckpointM ==
    /\ At("ready")
    /\ IsGroup(Req)
    /\ run.sent < Parts(Req)
    /\ jobs' = [jobs EXCEPT ![Req.key].status = "Processing"]
    /\ GoTo("marked")
    /\ UNCHANGED <<registered, events, queue, wire, clients>>
Checkpoint ==
    /\ At("ready")
    /\ IsGroup(Req)
    /\ run.sent < Parts(Req)
    /\ jobs' = [jobs EXCEPT ![Req.key] =
                    [@ EXCEPT !.status = "Processing", !.inflight = TRUE]]
    /\ GoTo("marked")
    /\ UNCHANGED <<registered, events, queue, wire, clients>>

\* The next part goes to the provider.
CallPart ==
    /\ Busy
    /\ run.stage = IF IsGroup(Req) THEN "marked" ELSE "ready"
    /\ run.sent < Parts(Req)
    /\ calls' = [calls EXCEPT ![Req.key] =
                    Append(@, [fp |-> Fp(Req), part |-> run.sent + 1])]
    /\ GoTo("calling")
    /\ UNCHANGED <<store, queue, confirmed, clients>>

\* The provider answers with a message id; a group records it durably.
PartConfirmed ==
    /\ At("calling")
    /\ confirmed' = [confirmed EXCEPT ![Req.key] =
                        @ \cup {<<Fp(Req), run.sent + 1>>}]
    /\ jobs' = IF IsGroup(Req)
               THEN [jobs EXCEPT ![Req.key] =
                        [@ EXCEPT !.done = run.sent + 1, !.inflight = FALSE]]
               ELSE jobs
    /\ run' = [run EXCEPT !.stage = "ready", !.sent = @ + 1]
    /\ UNCHANGED <<registered, events, queue, calls, clients>>

\* The provider answers without an id.  A group stops as uncertain; an
\* individual goes on with its other parts and fails at the end.
PartUnconfirmedM ==
    /\ At("calling")
    /\ jobs' = IF IsGroup(Req)
               THEN [jobs EXCEPT ![Req.key] =
                        [@ EXCEPT !.done = run.sent + 1, !.inflight = FALSE]]
               ELSE jobs
    /\ run' = [run EXCEPT !.stage = "ready", !.sent = @ + 1]
    /\ UNCHANGED <<registered, events, queue, wire, clients>>
PartUnconfirmed ==
    /\ At("calling")
    /\ IF IsGroup(Req)
       THEN Fail(TRUE)
       ELSE /\ run' = [run EXCEPT !.stage = "ready", !.sent = @ + 1, !.ok = FALSE]
            /\ UNCHANGED jobs
    /\ UNCHANGED <<registered, events, queue, wire, clients>>

\* The call is rejected or times out, delivered or not.
PartThrows ==
    /\ At("calling")
    /\ Fail(IsGroup(Req))
    /\ UNCHANGED <<registered, events, queue, wire, clients>>

\* "did not confirm every submission"
Incomplete ==
    /\ At("ready")
    /\ run.sent = Parts(Req)
    /\ ~run.ok
    /\ Fail(FALSE)
    /\ UNCHANGED <<registered, events, queue, wire, clients>>

\* updateJob with status Submitted and the message ids.
Complete ==
    /\ At("ready")
    /\ run.sent = Parts(Req)
    /\ run.ok
    /\ jobs' = [jobs EXCEPT ![Req.key] =
                    [@ EXCEPT !.status = "Submitted", !.done = Parts(Req)]]
    /\ GoTo("record")
    /\ UNCHANGED <<registered, events, queue, wire, clients>>

\* addMessage for every id: from now on receipts find the job.
RecordMessages ==
    /\ At("record")
    /\ registered' = registered \cup {Req.key}
    /\ GoTo("announce")
    /\ UNCHANGED <<jobs, events, queue, wire, clients>>

AddEvent(k, t, s) == events' = Append(events, [key |-> k, tenant |-> t, status |-> s])

AnnounceSubmitted ==
    /\ At("announce")
    /\ AddEvent(Req.key, Req.tenant, "Submitted")
    /\ Answer("ok")
    /\ UNCHANGED <<jobs, registered, wire, asked, submits>>

\* A closure that throws still releases the queue (this.tail catches).
AnnounceFailureM ==
    /\ At("failing")
    /\ UNCHANGED vars
AnnounceFailure ==
    /\ At("failing")
    /\ AddEvent(Req.key, Req.tenant, "Failed")
    /\ Answer(IF jobs[Req.key].recon THEN "uncertain" ELSE "failed")
    /\ UNCHANGED <<jobs, registered, wire, asked, submits>>

-----------------------------------------------------------------------------
(* Receipts and crashes *)

\* messages.update of the socket, or a Meta webhook: a message id found in
\* provider_messages appends an event.  Ids that are not found are dropped.
\* Receipts may repeat and come in any order; only Meta reports a failure.
Receipt(k, s) ==
    /\ AtAwait
    /\ k \in registered
    /\ s = "Failed" => jobs[k].fp.provider = "Official API"
    /\ Len(events) < MaxEvents
    /\ AddEvent(k, jobs[k].tenant, s)
    /\ UNCHANGED <<jobs, registered, memory, wire, clients>>

\* The process dies (or is shut down, which waits 5 s at most): the tables
\* survive, queue and closures do not, and open connections break.
Crash ==
    /\ Busy
    /\ queue' = <<>>
    /\ run' = Idle
    /\ reply' = [c \in Callers |->
                    IF reply[c] = "waiting" THEN "unavailable" ELSE reply[c]]
    /\ UNCHANGED <<store, wire, asked, submits>>

-----------------------------------------------------------------------------
Preflight == PreflightFails \/ PreflightPasses
CallReturns == PartConfirmed \/ PartUnconfirmed \/ PartThrows
Start == Refuse \/ RefuseUncertain \/ Replay \/ Begin
Proceed == UploadFails \/ Checkpoint \/ CallPart \/ Incomplete \/ Complete
Settle == RecordMessages \/ AnnounceSubmitted \/ AnnounceFailure

\* What the process does by itself once a closure is on its queue.
Step == Start \/ Preflight \/ Proceed \/ CallReturns \/ Settle

Next ==
    \/ \E c \in Callers, r \in Requests : Submit(c, r)
    \/ \E c \in Callers : ClientTimeout(c)
    \/ Step
    \/ \E k \in Keys, s \in {"Acknowledged", "Failed"} : Receipt(k, s)
    \/ Crash

Spec == Init /\ [][Next]_vars

\* The event loop keeps running closures, and every provider call returns or
\* throws (HTTP calls carry a 30 s abort signal; for the socket this is an
\* assumption on Baileys).  Clients, receipts and crashes owe nothing.
FairSpec == Spec /\ WF_vars(Step)

-----------------------------------------------------------------------------
(* Properties *)

\* Every variable has its type, whatever order requests, answers, receipts and
\* crashes come in; in particular no part beyond a payload's last is sent.
TypeOK ==
    /\ jobs \in [Keys -> JobRow]
    /\ registered \subseteq Keys
    /\ events \in Seq(Event)
    /\ queue \in Seq(Entry)
    /\ run \in Run
    /\ calls \in [Keys -> Seq(Call)]
    /\ confirmed \in [Keys -> SUBSET (Fingerprints \X (1 .. MaxParts))]
    /\ asked \in [Callers -> Requests]
    /\ reply \in [Callers -> Replies]
    /\ submits \in 0 .. MaxSubmits

IsGroupCall(k, i) == calls[k][i].fp.type = "Group"

\* sendGroup: "Never replay this uncertain external mutation automatically."
\* Whatever crashes, retries and time-outs do, no part of a group message is
\* handed to WhatsApp twice under one idempotency key.
GroupPartAtMostOnce ==
    \A k \in Keys : \A i, j \in 1 .. Len(calls[k]) :
        /\ IsGroupCall(k, i) /\ IsGroupCall(k, j)
        /\ calls[k][i].part = calls[k][j].part
        => i = j

\* Retries of a group message never mix two contents: every part sent under
\* one key belongs to the same fingerprint.
GroupContentUniform ==
    \A k \in Keys : \A i, j \in 1 .. Len(calls[k]) :
        IsGroupCall(k, i) /\ IsGroupCall(k, j)
        => calls[k][i].fp = calls[k][j].fp

\* A group's part is sent only when all parts before it were confirmed, also
\* when the parts are spread over several attempts and restarts.
GroupPartsInOrder ==
    \A k \in Keys : \A i \in 1 .. Len(calls[k]) :
        IsGroupCall(k, i) =>
            \A p \in 1 .. calls[k][i].part - 1 :
                <<calls[k][i].fp, p>> \in confirmed[k]

\* A job is Submitted only when WhatsApp returned an id for every one of its
\* parts ("did not confirm every submission").
SubmittedComplete ==
    \A k \in Keys : jobs[k].status = "Submitted" =>
        \A p \in 1 .. NParts[jobs[k].fp.payload] :
            <<jobs[k].fp, p>> \in confirmed[k]

\* A client that was told of success is the owner of a job that is Submitted
\* and stays so, and for a group with the very content it asked for.
ReplySound ==
    \A c \in Callers : reply[c] = "ok" =>
        LET job == jobs[asked[c].key]
        IN  /\ job.status = "Submitted"
            /\ job.tenant = asked[c].tenant
            /\ IsGroup(asked[c]) => job.fp = Fp(asked[c])

\* Submitted is final: whatever request comes under the key, its row is never
\* touched again and nothing more is sent; replays are answered from the table.
SubmittedIsFinal ==
    [][\A k \in Keys : jobs[k].status = "Submitted" =>
            jobs'[k] = jobs[k] /\ calls'[k] = calls[k]]_vars

\* The event log of a key never says Submitted after it has said Submitted or
\* Acknowledged, and never Failed after those except as a Meta receipt.
EventsNeverRegress ==
    \A i, j \in 1 .. Len(events) :
        /\ i < j
        /\ events[i].key = events[j].key
        /\ events[i].status # "Failed"
        => \/ events[j].status = "Acknowledged"
           \/ /\ events[j].status = "Failed"
              /\ jobs[events[j].key].fp.provider = "Official API"

\* Every request that a client still waits for is answered.
EveryCallAnswered ==
    \A c \in Callers : (reply[c] = "waiting") ~> (reply[c] # "waiting")

-----------------------------------------------------------------------------
(* The inductive invariant behind the safety properties *)

\* The head of the queue runs for key k.
Running(k) == run.stage # "idle" /\ Req.key = k

\* A client that waits is behind exactly one closure, and it is its own.
QueueInv ==
    /\ \A i \in 1 .. Len(queue) : queue[i].caller # Gone =>
            /\ reply[queue[i].caller] = "waiting"
            /\ asked[queue[i].caller] = queue[i].req
    /\ \A i, j \in 1 .. Len(queue) :
            queue[i].caller = queue[j].caller /\ queue[i].caller # Gone => i = j

\* A row exists with its tenant and fingerprint, or nothing was sent.
RowInv ==
    \A k \in Keys :
        IF jobs[k].status = "None"
        THEN jobs[k] = NoJob /\ calls[k] = <<>>
        ELSE jobs[k].tenant \in Tenants /\ jobs[k].fp \in Fingerprints

\* Where the closure is, the row says so.
RunInv ==
    run.stage # "idle" =>
        LET job == jobs[Req.key]
        IN  /\ Busy
            /\ job.tenant = Req.tenant
            /\ job.fp = Fp(Req)
            /\ run.stage \in {"preflight", "ready", "marked", "calling"} =>
                  /\ job.status \in {"Queued", "Processing"}
                  /\ run.sent <= Parts(Req)
                  /\ run.ok => \A p \in 1 .. run.sent :
                                  <<Fp(Req), p>> \in confirmed[Req.key]
                  /\ IsGroup(Req) => run.sent = job.done
            /\ run.stage \in {"preflight", "ready"} /\ IsGroup(Req) => ~job.inflight
            /\ run.stage \in {"marked", "calling"} =>
                  /\ run.sent < Parts(Req)
                  /\ IsGroup(Req) => job.inflight
            /\ run.stage = "marked" => IsGroup(Req)
            /\ run.stage \in {"record", "announce"} => job.status = "Submitted"
            /\ run.stage = "record" => Req.key \notin registered
            /\ run.stage = "failing" => job.status = "Failed"

\* The parts of a group that may have left: those confirmed, and the one the
\* inflight mark stands for (not yet, when the mark was only just written).
Left(k) ==
    IF jobs[k].inflight /\ ~(Running(k) /\ run.stage = "marked")
    THEN jobs[k].done + 1 ELSE jobs[k].done

\* While the row carries a group fingerprint it accounts for every call.
GroupInv ==
    \A k \in Keys : jobs[k].fp.type = "Group" =>
        /\ jobs[k].done <= NParts[jobs[k].fp.payload]
        /\ \A p \in 1 .. jobs[k].done : <<jobs[k].fp, p>> \in confirmed[k]
        /\ \A i \in 1 .. Len(calls[k]) : IsGroupCall(k, i) =>
                /\ calls[k][i].fp = jobs[k].fp
                /\ calls[k][i].part <= Left(k)

\* Ids are registered, and success announced, for Submitted jobs only.
EventInv ==
    /\ \A k \in registered : jobs[k].status = "Submitted"
    /\ \A i \in 1 .. Len(events) : events[i].status # "Failed" =>
            /\ jobs[events[i].key].status = "Submitted"
            /\ ~(Running(events[i].key) /\ run.stage \in {"record", "announce"})

\* The conjunction every action preserves; it implies the safety properties.
GatewayInv ==
    /\ TypeOK
    /\ QueueInv /\ RowInv /\ RunInv /\ GroupInv /\ EventInv
    /\ GroupPartAtMostOnce /\ GroupContentUniform /\ GroupPartsInOrder
    /\ SubmittedComplete /\ ReplySound /\ EventsNeverRegress

=============================================================================
