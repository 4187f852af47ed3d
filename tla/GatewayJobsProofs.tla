------------------------- MODULE GatewayJobsProofs -------------------------
(***************************************************************************)
(* Machine-checked proofs about GatewayJobs.  GatewayInv, defined and      *)
(* model-checked there, is shown to be inductive: one lemma for each       *)
(* action, or for each family of actions that do the same to the tables.   *)
(* The safety properties follow for every choice of the constants.         *)
(***************************************************************************)
EXTENDS GatewayJobs, TLAPS

-----------------------------------------------------------------------------
(* Requests, queue and event log *)

\* The fields of a request, and of the fingerprint made from it.
LEMMA ReqType ==
    ASSUME NEW r \in Requests
    PROVE  /\ r.key \in Keys /\ r.tenant \in Tenants
           /\ r.type \in Types /\ r.payload \in Payloads
           /\ Fp(r) \in Fingerprints
           /\ Fp(r).type = r.type /\ Fp(r).payload = r.payload
           /\ Parts(r) \in 0 .. MaxParts
BY ConstantsAssumption DEF Fp, Fingerprints, Parts

\* The request at the head of a non-empty queue, as a rigid value.
LEMMA CurrentRequest ==
    ASSUME TypeOK, Busy
    PROVE  \E r \in Requests : r = Req
<1>1. queue[1] \in Entry
  BY DEF TypeOK, Busy
<1> QED BY <1>1 DEF Entry, Req

\* The entries of the event log.
LEMMA EventTypes ==
    ASSUME TypeOK, NEW i \in 1 .. Len(events)
    PROVE  events[i].key \in Keys /\ events[i].status \in {"Submitted", "Acknowledged", "Failed"}
<1>1. events[i] \in Event
  BY DEF TypeOK
<1> QED BY <1>1 DEF Event

\* addEvent appends one entry and keeps the others.
LEMMA AppendedEvent ==
    ASSUME TypeOK, NEW k \in Keys, NEW t \in Tenants,
           NEW s \in {"Submitted", "Acknowledged", "Failed"}, AddEvent(k, t, s)
    PROVE  /\ events' \in Seq(Event) /\ Len(events) \in Nat /\ Len(events') = Len(events) + 1
           /\ events'[Len(events) + 1].key = k /\ events'[Len(events) + 1].status = s
           /\ \A i \in 1 .. Len(events) : events'[i] = events[i]
           /\ \A i \in 1 .. Len(events') : i \in 1 .. Len(events) \/ i = Len(events) + 1
<1> DEFINE new == [key |-> k, tenant |-> t, status |-> s]
<1>1. events \in Seq(Event) /\ Len(events) \in Nat /\ new \in Event
  BY DEF TypeOK, Event
<1>2. events' = Append(events, new)
  BY DEF AddEvent
<1>3. new.key = k /\ new.status = s
  OBVIOUS
<1> HIDE DEF new
<1>4. /\ events' \in Seq(Event) /\ Len(events') = Len(events) + 1
      /\ events'[Len(events) + 1] = new
      /\ \A i \in 1 .. Len(events) : events'[i] = events[i]
  BY <1>1, <1>2
<1>5. \A i \in 1 .. Len(events') : i \in 1 .. Len(events) \/ i = Len(events) + 1
  BY <1>1, <1>4
<1> QED BY <1>1, <1>3, <1>4, <1>5

\* What Answer does to the queue and to the clients: the head leaves, only its
\* client learns something, and the other clients keep their own closures.
LEMMA AnswerFacts ==
    ASSUME TypeOK, QueueInv, Busy, NEW a \in Replies \ {"waiting"}, Answer(a),
           UNCHANGED asked
    PROVE  /\ queue' \in Seq(Entry) /\ run' = Idle
           /\ reply' \in [Callers -> Replies]
           /\ QueueInv'
           /\ \A c \in Callers : reply'[c] = "ok" =>
                 reply[c] = "ok" \/ (a = "ok" /\ asked[c] = Req)
<1>1. /\ queue \in Seq(Entry) /\ Len(queue) \in Nat /\ Len(queue) >= 1
      /\ queue[1] \in Entry
  BY DEF TypeOK, Busy
<1>2. /\ queue' \in Seq(Entry) /\ Len(queue') = Len(queue) - 1
      /\ \A i \in 1 .. Len(queue') : queue'[i] = queue[i + 1]
  BY <1>1 DEF Answer
<1>3. queue[1].caller \in Callers \cup {Gone}
  BY <1>1 DEF Entry
<1>4. /\ reply' \in [Callers -> Replies]
      /\ \A c \in Callers : reply'[c] = IF c = queue[1].caller THEN a ELSE reply[c]
  BY <1>3, ConstantsAssumption DEF Answer, TypeOK
<1>5. \A i \in 1 .. Len(queue) : queue[i].caller \in Callers \cup {Gone}
  <2> SUFFICES ASSUME NEW i \in 1 .. Len(queue) PROVE queue[i].caller \in Callers \cup {Gone}
    OBVIOUS
  <2>1. queue[i] \in Entry
    BY <1>1
  <2> QED BY <2>1 DEF Entry
<1>6. QueueInv'
  <2>1. ASSUME NEW i \in 1 .. Len(queue'), queue'[i].caller # Gone
        PROVE  reply'[queue'[i].caller] = "waiting" /\ asked'[queue'[i].caller] = queue'[i].req
    <3>1. i + 1 \in 1 .. Len(queue) /\ i + 1 # 1 /\ 1 \in 1 .. Len(queue) /\ queue'[i] = queue[i + 1]
      BY <1>1, <1>2
    <3>2. queue[i + 1].caller # queue[1].caller /\ queue[i+1].caller \in Callers
      BY <3>1, <2>1, <1>5 DEF QueueInv
    <3> QED BY <3>1, <3>2, <2>1, <1>4 DEF QueueInv
  <2>2. ASSUME NEW i \in 1 .. Len(queue'), NEW j \in 1 .. Len(queue'),
               queue'[i].caller = queue'[j].caller, queue'[i].caller # Gone
        PROVE i = j
    <3>1. i + 1 \in 1 .. Len(queue) /\ j + 1 \in 1 .. Len(queue)
          /\ queue'[i] = queue[i+1] /\ queue'[j] = queue[j+1]
      BY <1>1, <1>2
    <3>2. i + 1 = j + 1
      BY <3>1, <2>2 DEF QueueInv
    <3> QED BY <3>2
  <2> QED BY <2>1, <2>2 DEF QueueInv
<1>7. ASSUME NEW c \in Callers, reply'[c] = "ok"
      PROVE reply[c] = "ok" \/ (a = "ok" /\ asked[c] = Req)
  BY <1>7, <1>4, <1>1, ConstantsAssumption DEF QueueInv, Req
<1> QED BY <1>2, <1>4, <1>6, <1>7 DEF Answer

-----------------------------------------------------------------------------
(* Arrivals and the checks of send *)

\* Refuse, RefuseUncertain and Replay answer without touching the tables.
LEMMA AnswerInv ==
    ASSUME GatewayInv, At("idle"), NEW a \in Replies \ {"waiting"}, Answer(a),
           a = "ok" => /\ jobs[Req.key].status = "Submitted"
                       /\ jobs[Req.key].tenant = Req.tenant
                       /\ IsGroup(Req) => jobs[Req.key].fp = Fp(Req),
           UNCHANGED <<store, wire, asked, submits>>
    PROVE  GatewayInv'
<1> USE DEF GatewayInv
<1>0. /\ queue' \in Seq(Entry) /\ run' = Idle
      /\ reply' \in [Callers -> Replies]
      /\ QueueInv'
      /\ \A c \in Callers : reply'[c] = "ok" =>
            reply[c] = "ok" \/ (a = "ok" /\ asked[c] = Req)
      /\ UNCHANGED <<jobs, registered, events, calls, confirmed, asked, submits>>
      /\ run.stage = "idle" /\ run'.stage = "idle"
  BY AnswerFacts DEF At, store, wire, Idle
<1>1. TypeOK'
  BY <1>0, ConstantsAssumption DEF TypeOK, Idle, Run, AwaitStages
<1>2. ReplySound'
  BY <1>0 DEF ReplySound
<1>3. RowInv' /\ RunInv' /\ EventInv'
  BY <1>0 DEF RowInv, RunInv, EventInv, Running
<1>4. GroupInv'
  BY <1>0 DEF GroupInv, IsGroupCall, Left, Running
<1>5. GroupPartAtMostOnce' /\ GroupContentUniform' /\ GroupPartsInOrder'
  BY <1>0 DEF GroupPartAtMostOnce, GroupContentUniform, GroupPartsInOrder, IsGroupCall
<1>6. SubmittedComplete' /\ EventsNeverRegress'
  BY <1>0 DEF SubmittedComplete, EventsNeverRegress
<1> QED BY <1>0, <1>1, <1>2, <1>3, <1>4, <1>5, <1>6

\* A new request at the tail of the queue.
LEMMA SubmitInv ==
    ASSUME GatewayInv, NEW c \in Callers, NEW r \in Requests, Submit(c, r)
    PROVE  GatewayInv'
<1> USE DEF GatewayInv
<1>0. /\ queue' = Append(queue, [caller |-> c, req |-> r])
      /\ asked' = [asked EXCEPT ![c] = r]
      /\ reply' = [reply EXCEPT ![c] = "waiting"] /\ reply[c] # "waiting"
      /\ submits < MaxSubmits /\ submits' = submits + 1
      /\ UNCHANGED <<jobs, registered, events, calls, confirmed, run>>
  BY DEF Submit, store, wire
<1>1. /\ queue \in Seq(Entry) /\ Len(queue) \in Nat /\ [caller |-> c, req |-> r] \in Entry
  BY DEF TypeOK, Entry
<1>2. /\ queue' \in Seq(Entry) /\ Len(queue') = Len(queue) + 1
      /\ queue'[Len(queue) + 1] = [caller |-> c, req |-> r]
      /\ \A i \in 1 .. Len(queue) : queue'[i] = queue[i]
  BY <1>0, <1>1
<1>3. Busy => Busy' /\ Req' = Req
  BY <1>1, <1>2 DEF Busy, Req
<1>3a. run.stage # "idle" => Busy' /\ Req' = Req
  BY <1>3 DEF RunInv
<1>4. TypeOK'
  BY <1>0, <1>2, ConstantsAssumption DEF TypeOK, Replies
<1>5. QueueInv'
  <2>1. \A i \in 1 .. Len(queue) : queue[i].caller # c
    BY <1>0, ConstantsAssumption DEF QueueInv
  <2>2. \A i \in 1 .. Len(queue') : i \in 1 .. Len(queue) \/ i = Len(queue) + 1
    BY <1>1, <1>2
  <2>4. \A i \in 1 .. Len(queue) : queue[i].caller \in Callers \cup {Gone}
    <3> SUFFICES ASSUME NEW i \in 1 .. Len(queue) PROVE queue[i].caller \in Callers \cup {Gone}
      OBVIOUS
    <3>1. queue[i] \in Entry
      BY <1>1
    <3> QED BY <3>1 DEF Entry
  <2>3. /\ asked'[c] = r /\ reply'[c] = "waiting"
        /\ \A d \in Callers \ {c} : asked'[d] = asked[d] /\ reply'[d] = reply[d]
    BY <1>0 DEF TypeOK
  <2>5. \A i \in 1 .. Len(queue') : queue'[i].caller # Gone =>
            /\ reply'[queue'[i].caller] = "waiting"
            /\ asked'[queue'[i].caller] = queue'[i].req
    BY <2>1, <2>2, <2>3, <2>4, <1>2 DEF QueueInv
  <2>6. \A i, j \in 1 .. Len(queue') :
            queue'[i].caller = queue'[j].caller /\ queue'[i].caller # Gone => i = j
    BY <2>1, <2>2, <1>2 DEF QueueInv
  <2> QED BY <2>5, <2>6 DEF QueueInv
<1>6. ReplySound'
  BY <1>0 DEF ReplySound, TypeOK
<1>7. RowInv' /\ RunInv' /\ EventInv'
  BY <1>0, <1>3a DEF RowInv, RunInv, EventInv, Running
<1>8. GroupInv'
  BY <1>0, <1>3a DEF GroupInv, IsGroupCall, Left, Running
<1>9. GroupPartAtMostOnce' /\ GroupContentUniform' /\ GroupPartsInOrder'
  BY <1>0 DEF GroupPartAtMostOnce, GroupContentUniform, GroupPartsInOrder, IsGroupCall
<1>10. SubmittedComplete' /\ EventsNeverRegress'
  BY <1>0 DEF SubmittedComplete, EventsNeverRegress
<1> QED BY <1>4, <1>5, <1>6, <1>7, <1>8, <1>9, <1>10

\* A client that gives up leaves its closure on the queue.
LEMMA ClientTimeoutInv ==
    ASSUME GatewayInv, NEW c \in Callers, ClientTimeout(c)
    PROVE  GatewayInv'
<1> USE DEF GatewayInv
<1>0. /\ UNCHANGED <<jobs, registered, events, calls, confirmed, run, asked, submits>>
      /\ reply[c] = "waiting" /\ reply' = [reply EXCEPT ![c] = "unavailable"]
      /\ queue' = [i \in 1 .. Len(queue) |->
                    IF queue[i].caller = c
                    THEN [caller |-> Gone, req |-> queue[i].req]
                    ELSE queue[i]]
  BY DEF ClientTimeout, store, wire
<1>1. /\ queue \in Seq(Entry) /\ Len(queue) \in Nat
      /\ \A i \in 1 .. Len(queue) : queue[i] \in Entry
  BY DEF TypeOK
<1>2. \A i \in 1 .. Len(queue) : queue[i].caller \in Callers \cup {Gone} /\ queue[i].req \in Requests
  BY <1>1 DEF Entry
<1>3. /\ Len(queue') = Len(queue)
      /\ \A i \in 1 .. Len(queue) :
            /\ queue'[i] \in Entry
            /\ queue'[i].req = queue[i].req
            /\ queue'[i].caller = IF queue[i].caller = c THEN Gone ELSE queue[i].caller
      /\ queue' \in Seq(Entry)
  <2>1. \A i \in 1 .. Len(queue) :
            /\ queue'[i] \in Entry
            /\ queue'[i].req = queue[i].req
            /\ queue'[i].caller = IF queue[i].caller = c THEN Gone ELSE queue[i].caller
    BY <1>0, <1>1, <1>2 DEF Entry
  <2>2. DOMAIN queue' = 1 .. Len(queue) /\ queue' = [i \in 1 .. Len(queue) |-> queue'[i]]
    BY <1>0
  <2>3. queue' \in [1 .. Len(queue) -> Entry]
    BY <2>1, <2>2
  <2>4. queue' \in Seq(Entry)
    BY <2>3, <1>1
  <2> QED BY <2>1, <2>2, <2>4, <1>1
<1>4. run.stage # "idle" => Busy' /\ Req' = Req
  BY <1>1, <1>3 DEF RunInv, Busy, Req
<1>5. TypeOK'
  BY <1>0, <1>3 DEF TypeOK, Replies
<1>6. QueueInv'
  <2>1. \A d \in Callers \ {c} : reply'[d] = reply[d]
    BY <1>0 DEF TypeOK
  <2>2. \A i \in 1 .. Len(queue') : queue'[i].caller # Gone =>
            /\ reply'[queue'[i].caller] = "waiting"
            /\ asked'[queue'[i].caller] = queue'[i].req
    BY <2>1, <1>0, <1>2, <1>3 DEF QueueInv
  <2>3. \A i, j \in 1 .. Len(queue') :
            queue'[i].caller = queue'[j].caller /\ queue'[i].caller # Gone => i = j
    BY <1>3 DEF QueueInv
  <2> QED BY <2>2, <2>3 DEF QueueInv
<1>7. ReplySound'
  BY <1>0 DEF ReplySound, TypeOK
<1>8. RowInv' /\ RunInv' /\ EventInv'
  BY <1>0, <1>4 DEF RowInv, RunInv, EventInv, Running
<1>9. GroupInv'
  BY <1>0, <1>4 DEF GroupInv, IsGroupCall, Left, Running
<1>10. GroupPartAtMostOnce' /\ GroupContentUniform' /\ GroupPartsInOrder'
  BY <1>0 DEF GroupPartAtMostOnce, GroupContentUniform, GroupPartsInOrder, IsGroupCall
<1>11. SubmittedComplete' /\ EventsNeverRegress'
  BY <1>0 DEF SubmittedComplete, EventsNeverRegress
<1> QED BY <1>5, <1>6, <1>7, <1>8, <1>9, <1>10, <1>11

\* A closure that passes the checks starts from what the row accounts for.
LEMMA BeginInv == ASSUME GatewayInv, Begin PROVE GatewayInv'
<1> USE DEF GatewayInv
<1> PICK r \in Requests : r = Req
  BY CurrentRequest DEF Begin, At
<1> DEFINE before == jobs[r.key]
           kept == IF r.type = "Group" THEN before.done ELSE 0
           row == [tenant |-> IF Exists(r) THEN before.tenant ELSE r.tenant,
                   status |-> "Queued", fp |-> Fp(r), done |-> kept,
                   inflight |-> FALSE, recon |-> FALSE]
<1>0. /\ UNCHANGED <<registered, events, queue, calls, confirmed, asked, reply, submits>>
      /\ Req' = r /\ Busy' /\ run.stage = "idle"
      /\ run' = [stage |-> "preflight", sent |-> kept, ok |-> TRUE]
      /\ run'.stage = "preflight" /\ run'.sent = kept /\ run'.ok = TRUE
      /\ jobs' = [jobs EXCEPT ![r.key] = row]
  BY DEF Begin, At, wire, clients, Req, Busy, IsGroup
<1>1. /\ r.key \in Keys /\ r.tenant \in Tenants /\ Fp(r) \in Fingerprints
      /\ Fp(r).type = r.type /\ Fp(r).payload = r.payload
      /\ Parts(r) = NParts[r.payload] /\ Parts(r) \in 0 .. MaxParts /\ MaxParts \in Nat
      /\ before \in JobRow /\ before.done \in 0 .. MaxParts
      /\ kept \in 0 .. MaxParts
  BY ReqType, ConstantsAssumption DEF Parts, TypeOK, JobRow
<1>2. /\ before.status # "Submitted"
      /\ Exists(r) => before.tenant = r.tenant
      /\ r.type = "Group" => /\ Exists(r) => before.fp = Fp(r)
                             /\ ~before.inflight
  BY DEF Begin, Refused, ForeignTenant, FingerprintChanged, NeedsReconciliation, AlreadySubmitted, IsGroup
<1>3. ~Exists(r) => before = NoJob /\ calls[r.key] = <<>> /\ before.done = 0
  <2>1. ~Exists(r) => before = NoJob /\ calls[r.key] = <<>>
    BY <1>1 DEF Exists, RowInv
  <2> QED BY <2>1 DEF NoJob
<1>4. /\ row.tenant = r.tenant /\ row.status = "Queued" /\ row.fp = Fp(r) /\ row.done = kept
      /\ row.inflight = FALSE
      /\ row \in JobRow
  <2>1. (IF Exists(r) THEN before.tenant ELSE r.tenant) = r.tenant
    BY <1>2
  <2> QED BY <1>1, <2>1 DEF JobRow
<1> HIDE DEF row
<1>5. /\ jobs' \in [Keys -> JobRow] /\ jobs'[r.key] = row
      /\ \A k \in Keys \ {r.key} : jobs'[k] = jobs[k]
  BY <1>0, <1>1, <1>4 DEF TypeOK
<1>6. TypeOK'
  BY <1>0, <1>1, <1>5 DEF TypeOK, Run, AwaitStages
<1>7. /\ kept <= Parts(r)
      /\ \A p \in 1 .. kept : <<Fp(r), p>> \in confirmed[r.key]
  <2>1. CASE r.type = "Group" /\ Exists(r)
    BY <2>1, <1>1, <1>2 DEF GroupInv
  <2>2. CASE ~(r.type = "Group" /\ Exists(r))
    BY <2>2, <1>1, <1>3
  <2> QED BY <2>1, <2>2
<1>8. RunInv'
  BY <1>0, <1>1, <1>4, <1>5, <1>7 DEF RunInv, IsGroup
<1>9. QueueInv' /\ RowInv'
  BY <1>0, <1>1, <1>4, <1>5 DEF QueueInv, RowInv
<1>10. /\ r.key \notin registered
       /\ \A i \in 1 .. Len(events) : events[i].status # "Failed" => events[i].key # r.key
  BY <1>2 DEF EventInv
<1>11. EventInv'
  BY <1>0, <1>1, <1>5, <1>10, EventTypes DEF EventInv, Running, TypeOK
<1>12. EventsNeverRegress'
  <2>0. events' = events
    BY <1>0
  <2> SUFFICES ASSUME NEW i \in 1 .. Len(events), NEW j \in 1 .. Len(events), i < j,
                      events[i].key = events[j].key, events[i].status # "Failed"
               PROVE  \/ events[j].status = "Acknowledged"
                      \/ /\ events[j].status = "Failed"
                         /\ jobs'[events[j].key].fp.provider = "Official API"
    BY <2>0 DEF EventsNeverRegress
  <2>1. jobs'[events[j].key] = jobs[events[j].key]
    BY <1>5, <1>10, EventTypes
  <2> QED BY <2>1 DEF EventsNeverRegress
<1>13. SubmittedComplete'
  BY <1>0, <1>4, <1>5 DEF SubmittedComplete
<1>14. ReplySound'
  <2>1. \A c \in Callers : asked[c].key \in Keys
    BY ReqType DEF TypeOK
  <2> QED BY <2>1, <1>0, <1>2, <1>5 DEF ReplySound
<1>15. GroupPartAtMostOnce' /\ GroupContentUniform' /\ GroupPartsInOrder'
  BY <1>0 DEF GroupPartAtMostOnce, GroupContentUniform, GroupPartsInOrder, IsGroupCall
<1>16. GroupInv'
  <2> SUFFICES ASSUME NEW k \in Keys, jobs'[k].fp.type = "Group"
               PROVE  /\ jobs'[k].done <= NParts[jobs'[k].fp.payload]
                      /\ \A p \in 1 .. jobs'[k].done : <<jobs'[k].fp, p>> \in confirmed[k]
                      /\ \A i \in 1 .. Len(calls[k]) : IsGroupCall(k, i) =>
                            calls[k][i].fp = jobs'[k].fp /\ calls[k][i].part <= Left(k)'
    BY <1>0 DEF GroupInv, IsGroupCall
  <2>1. CASE k # r.key
    <3>1. Left(k)' = Left(k) /\ jobs'[k] = jobs[k]
      BY <2>1, <1>0, <1>5 DEF Left, Running
    <3> QED BY <3>1 DEF GroupInv
  <2>2. CASE k = r.key
    <3>1. r.type = "Group" /\ Left(k)' = kept /\ jobs'[k].done = kept /\ jobs'[k].fp = Fp(r)
      BY <2>2, <1>1, <1>4, <1>5 DEF Left
    <3>2. CASE Exists(r)
      <4>1. Left(k) = kept /\ jobs[k].fp = Fp(r)
        BY <3>1, <3>2, <2>2, <1>2 DEF Left
      <4> QED BY <4>1, <3>1, <2>2, <1>1, <1>7 DEF GroupInv
    <3>3. CASE ~Exists(r)
      BY <3>1, <3>3, <2>2, <1>1, <1>3, <1>7
    <3> QED BY <3>2, <3>3
  <2> QED BY <2>1, <2>2
<1> QED BY <1>6, <1>8, <1>9, <1>11, <1>12, <1>13, <1>14, <1>15, <1>16

-----------------------------------------------------------------------------
(* Sending the parts *)

\* A step that changes the running request's row, and neither its tenant nor its
\* fingerprint, keeps every invariant that is not about progress.
LEMMA RowStep ==
    ASSUME GatewayInv, NEW r \in Requests, r = Req,
           jobs[r.key].status \in {"Queued", "Processing"},
           UNCHANGED <<registered, events, queue, calls, asked, reply>>,
           \A k \in Keys : confirmed[k] \subseteq confirmed'[k],
           \A k \in Keys \ {r.key} : jobs'[k] = jobs[k],
           jobs'[r.key].status # "None",
           jobs'[r.key].tenant = jobs[r.key].tenant,
           jobs'[r.key].fp = jobs[r.key].fp,
           jobs'[r.key].status = "Submitted" =>
                \A p \in 1 .. Parts(r) : <<Fp(r), p>> \in confirmed'[r.key],
           jobs[r.key].fp = Fp(r)
    PROVE  /\ QueueInv' /\ RowInv' /\ EventInv'
           /\ GroupPartAtMostOnce' /\ GroupContentUniform' /\ GroupPartsInOrder'
           /\ SubmittedComplete' /\ ReplySound' /\ EventsNeverRegress'
<1> USE DEF GatewayInv
<1>0. r.key \in Keys /\ Fp(r).payload = r.payload /\ Req' = r
  BY ReqType DEF Req
<1>1. QueueInv' /\ RowInv'
  BY <1>0 DEF QueueInv, RowInv
<1>2. r.key \notin registered /\ \A i \in 1 .. Len(events) : events[i].status # "Failed" => events[i].key # r.key
  BY DEF EventInv
<1>e. \A i \in 1 .. Len(events) : events[i].key \in Keys
  <2> SUFFICES ASSUME NEW i \in 1 .. Len(events) PROVE events[i].key \in Keys
    OBVIOUS
  <2>1. events[i] \in Event
    BY DEF TypeOK
  <2> QED BY <2>1 DEF Event
<1>3. EventInv'
  <2>1. \A k \in registered : k \in Keys /\ k # r.key /\ jobs'[k] = jobs[k]
    BY <1>2 DEF TypeOK
  <2>2. \A k \in Keys : Running(k)' => k = r.key
    BY <1>0 DEF Running
  <2>3. \A k \in registered : Running(k) = Running(k)'
    BY <1>0, <2>1, <2>2 DEF Running, EventInv
  <2> QED BY <1>0, <1>2, <1>e, <2>1, <2>2, <2>3 DEF EventInv
<1>4. EventsNeverRegress'
  <2>1. \A k \in Keys : jobs'[k].fp = jobs[k].fp
    OBVIOUS
  <2> SUFFICES ASSUME NEW i \in 1 .. Len(events), NEW j \in 1 .. Len(events), i < j,
                      events[i].key = events[j].key, events[i].status # "Failed"
               PROVE  \/ events[j].status = "Acknowledged"
                      \/ /\ events[j].status = "Failed"
                         /\ jobs'[events[j].key].fp.provider = "Official API"
    BY DEF EventsNeverRegress
  <2>2. jobs'[events[j].key].fp = jobs[events[j].key].fp
    BY <2>1, <1>e
  <2> QED BY <2>2 DEF EventsNeverRegress
<1>5. GroupPartAtMostOnce' /\ GroupContentUniform' /\ GroupPartsInOrder'
  BY DEF GroupPartAtMostOnce, GroupContentUniform, GroupPartsInOrder, IsGroupCall
<1>6. SubmittedComplete'
  BY <1>0 DEF SubmittedComplete, Parts
<1>7. ReplySound'
  <2>1. \A c \in Callers : asked[c].key \in Keys
    BY ReqType DEF TypeOK
  <2> QED BY <2>1 DEF ReplySound
<1> QED BY <1>1, <1>3, <1>4, <1>5, <1>6, <1>7

\* The catch block of send: no await stage but "marked" leads to it.
LEMMA FailInv ==
    ASSUME GatewayInv, Busy, run.stage \in {"preflight", "ready", "calling"},
           NEW u \in BOOLEAN, Fail(u),
           UNCHANGED <<registered, events, queue, wire, clients>>
    PROVE  GatewayInv'
<1> USE DEF GatewayInv
<1> PICK r \in Requests : r = Req
  BY CurrentRequest
<1>0. /\ UNCHANGED <<registered, events, queue, calls, confirmed, asked, reply, submits>>
      /\ Req' = r /\ r.key \in Keys /\ Busy'
      /\ run' = [run EXCEPT !.stage = "failing"]
      /\ run'.stage = "failing"
      /\ jobs' = [jobs EXCEPT ![r.key] = [jobs[r.key] EXCEPT !.status = "Failed", !.recon = u]]
  BY ReqType DEF Fail, GoTo, wire, clients, Req, Busy, TypeOK, Run
<1>1. /\ jobs[r.key].status \in {"Queued", "Processing"}
      /\ jobs[r.key].fp = Fp(r) /\ jobs[r.key].tenant = r.tenant
  BY <1>0 DEF RunInv
<1>2. /\ jobs' \in [Keys -> JobRow]
      /\ \A k \in Keys \ {r.key} : jobs'[k] = jobs[k]
      /\ jobs'[r.key].status = "Failed"
      /\ jobs'[r.key].tenant = jobs[r.key].tenant
      /\ jobs'[r.key].fp = jobs[r.key].fp
      /\ jobs'[r.key].done = jobs[r.key].done
      /\ jobs'[r.key].inflight = jobs[r.key].inflight
  <2> DEFINE new == [jobs[r.key] EXCEPT !.status = "Failed", !.recon = u]
  <2>1. jobs \in [Keys -> JobRow] /\ jobs[r.key] \in JobRow
    BY <1>0 DEF TypeOK
  <2>2. /\ new \in JobRow /\ new.status = "Failed"
        /\ new.tenant = jobs[r.key].tenant /\ new.fp = jobs[r.key].fp
        /\ new.done = jobs[r.key].done /\ new.inflight = jobs[r.key].inflight
    BY <2>1 DEF JobRow
  <2>3. jobs' = [jobs EXCEPT ![r.key] = new]
    BY <1>0
  <2> HIDE DEF new
  <2>4. /\ jobs' \in [Keys -> JobRow] /\ jobs'[r.key] = new
        /\ \A k \in Keys \ {r.key} : jobs'[k] = jobs[k]
    BY <1>0, <2>1, <2>2, <2>3
  <2> QED BY <2>2, <2>4
<1>3. TypeOK'
  BY <1>0, <1>2 DEF TypeOK, Run
<1>4. RunInv'
  BY <1>0, <1>1, <1>2 DEF RunInv
<1>5. GroupInv'
  <2>1. \A k \in Keys : Left(k)' = Left(k) /\ jobs'[k].fp = jobs[k].fp /\ jobs'[k].done = jobs[k].done
    BY <1>0, <1>2 DEF Left, Running
  <2> QED BY <2>1, <1>0 DEF GroupInv, IsGroupCall
<1> QED BY RowStep, <1>0, <1>1, <1>2, <1>3, <1>4, <1>5

\* The checks before the first part succeed.
LEMMA PreflightPassesInv == ASSUME GatewayInv, PreflightPasses PROVE GatewayInv'
<1> USE DEF GatewayInv
<1> PICK r \in Requests : r = Req
  BY CurrentRequest DEF PreflightPasses, At
<1>0. /\ UNCHANGED <<jobs, registered, events, queue, calls, confirmed, asked, reply, submits>>
      /\ Req' = r /\ r.key \in Keys /\ Busy'
      /\ run.stage = "preflight" /\ run' = [run EXCEPT !.stage = "ready"]
      /\ run'.stage = "ready" /\ run'.sent = run.sent /\ run'.ok = run.ok
  BY ReqType DEF PreflightPasses, At, GoTo, store, wire, clients, Req, Busy, TypeOK, Run
<1>1. /\ jobs[r.key].status \in {"Queued", "Processing"}
      /\ jobs[r.key].fp = Fp(r)
  BY <1>0 DEF RunInv
<1>3. TypeOK'
  BY <1>0 DEF TypeOK, Run, AwaitStages
<1>4. RunInv'
  BY <1>0, <1>1 DEF RunInv
<1>5. GroupInv'
  BY <1>0 DEF GroupInv, IsGroupCall, Left, Running
<1> QED BY RowStep, <1>0, <1>1, <1>3, <1>4, <1>5

\* The inflight mark is written before the part leaves.
LEMMA CheckpointInv == ASSUME GatewayInv, Checkpoint PROVE GatewayInv'
<1> USE DEF GatewayInv
<1> PICK r \in Requests : r = Req
  BY CurrentRequest DEF Checkpoint, At
<1>0. /\ UNCHANGED <<registered, events, queue, calls, confirmed, asked, reply, submits>>
      /\ Req' = r /\ r.key \in Keys /\ Busy' /\ IsGroup(r)
      /\ run.stage = "ready" /\ run' = [run EXCEPT !.stage = "marked"]
      /\ run'.stage = "marked" /\ run'.sent = run.sent /\ run'.ok = run.ok
      /\ run.sent < Parts(r)
      /\ jobs' = [jobs EXCEPT ![r.key] = [jobs[r.key] EXCEPT !.status = "Processing", !.inflight = TRUE]]
  BY ReqType DEF Checkpoint, At, GoTo, wire, clients, Req, Busy, TypeOK, Run
<1>1. /\ jobs[r.key].status \in {"Queued", "Processing"}
      /\ jobs[r.key].fp = Fp(r) /\ jobs[r.key].tenant = r.tenant
      /\ jobs[r.key].inflight = FALSE
  BY <1>0 DEF RunInv, TypeOK, JobRow
<1>2. /\ jobs' \in [Keys -> JobRow]
      /\ \A k \in Keys \ {r.key} : jobs'[k] = jobs[k]
      /\ jobs'[r.key].status = "Processing"
      /\ jobs'[r.key].tenant = jobs[r.key].tenant
      /\ jobs'[r.key].fp = jobs[r.key].fp
      /\ jobs'[r.key].done = jobs[r.key].done
      /\ jobs'[r.key].inflight = TRUE
  <2>1. jobs \in [Keys -> JobRow] /\ jobs[r.key] \in JobRow
    BY <1>0 DEF TypeOK
  <2>2. [jobs[r.key] EXCEPT !.status = "Processing", !.inflight = TRUE] \in JobRow
    BY <2>1 DEF JobRow
  <2>3. /\ jobs' \in [Keys -> JobRow]
        /\ jobs'[r.key] = [jobs[r.key] EXCEPT !.status = "Processing", !.inflight = TRUE]
        /\ \A k \in Keys \ {r.key} : jobs'[k] = jobs[k]
    BY <1>0, <2>1, <2>2
  <2> QED BY <2>1, <2>3 DEF JobRow
<1>3. TypeOK'
  BY <1>0, <1>2 DEF TypeOK, Run, AwaitStages
<1>4. RunInv'
  BY <1>0, <1>1, <1>2 DEF RunInv
<1>5. GroupInv'
  <2>1. \A k \in Keys : Left(k)' = Left(k) /\ jobs'[k].fp = jobs[k].fp /\ jobs'[k].done = jobs[k].done
    BY <1>0, <1>1, <1>2 DEF Left, Running
  <2> QED BY <2>1, <1>0 DEF GroupInv, IsGroupCall
<1> QED BY RowStep, <1>0, <1>1, <1>2, <1>3, <1>4, <1>5

\* The step the at-most-once property is about: the part that leaves is the one
\* after those the row accounts for, and it was marked before.
LEMMA CallPartInv == ASSUME GatewayInv, CallPart PROVE GatewayInv'
<1> USE DEF GatewayInv
<1> PICK r \in Requests : r = Req
  BY CurrentRequest DEF CallPart
<1> DEFINE new == [fp |-> Fp(r), part |-> run.sent + 1]  n == Len(calls[r.key])
<1>a. /\ r.key \in Keys /\ Fp(r) \in Fingerprints
      /\ Parts(r) \in 0 .. MaxParts /\ run.sent \in 0 .. MaxParts
      /\ run.sent < Parts(r) /\ MaxParts \in Nat
  BY ReqType, ConstantsAssumption DEF CallPart, TypeOK, Run
<1>b. calls[r.key] \in Seq(Call) /\ n \in Nat /\ new \in Call
  <2>1. run.sent + 1 \in 1 .. MaxParts
    BY <1>a
  <2>2. new \in Call
    BY <1>a, <2>1 DEF Call
  <2> QED BY <1>a, <2>2 DEF TypeOK
<1>c. /\ calls' = [calls EXCEPT ![r.key] = Append(calls[r.key], new)]
      /\ UNCHANGED <<jobs, registered, events, queue, confirmed, asked, reply, submits>>
      /\ Req' = r
      /\ run' = [run EXCEPT !.stage = "calling"]
      /\ run.stage = IF IsGroup(r) THEN "marked" ELSE "ready"
  BY DEF CallPart, store, wire, clients, GoTo, Req
<1>d. /\ Len(calls'[r.key]) = n + 1
      /\ calls'[r.key][n+1] = new
      /\ \A i \in 1 .. n : calls'[r.key][i] = calls[r.key][i]
      /\ \A k \in Keys \ {r.key} : calls'[k] = calls[k]
      /\ calls' \in [Keys -> Seq(Call)]
  BY <1>a, <1>b, <1>c DEF TypeOK
<1>e. jobs[r.key].fp = Fp(r) /\ jobs[r.key].fp.type = r.type
  BY <1>a, <1>c DEF RunInv, Fp
<1>f. r.type = "Group" => /\ jobs[r.key].done = run.sent
                      /\ Left(r.key) = run.sent /\ Left(r.key)' = run.sent + 1
  BY <1>a, <1>c DEF RunInv, Left, Running, IsGroup, TypeOK, Run
<1>g. new.fp = Fp(r) /\ new.fp.type = r.type /\ new.part = run.sent + 1
  BY DEF Fp
<1>h. \A i \in 1 .. n : calls[r.key][i].part \in Nat
  <2> SUFFICES ASSUME NEW i \in 1 .. n PROVE calls[r.key][i].part \in Nat
    OBVIOUS
  <2>1. calls[r.key][i] \in Call
    BY <1>b
  <2> QED BY <2>1, <1>a DEF Call
<1>i. \A i \in 1 .. Len(calls'[r.key]) : i \in 1 .. n \/ i = n + 1
  BY <1>b, <1>d
<1> HIDE DEF new, n
<1>1. TypeOK'
  BY <1>a, <1>c, <1>d DEF TypeOK, Run, AwaitStages
<1>5. GroupInv'
  <2> SUFFICES ASSUME NEW k \in Keys, jobs[k].fp.type = "Group"
               PROVE  /\ \A p \in 1 .. jobs[k].done : <<jobs[k].fp, p>> \in confirmed[k]
                      /\ \A i \in 1 .. Len(calls'[k]) : calls'[k][i].fp.type = "Group" =>
                            /\ calls'[k][i].fp = jobs[k].fp
                            /\ calls'[k][i].part <= Left(k)'
    BY <1>c DEF GroupInv, IsGroupCall, n
  <2>1. CASE k # r.key
    BY <2>1, <1>c, <1>d DEF GroupInv, IsGroupCall, Left, Running
  <2>2. CASE k = r.key
    <3>1. \A i \in 1 .. n : calls[r.key][i].fp.type = "Group" =>
             calls[r.key][i].fp = jobs[r.key].fp /\ calls[r.key][i].part <= run.sent
      BY <2>2, <1>a, <1>e, <1>f DEF GroupInv, IsGroupCall, n
    <3>2. ASSUME NEW i \in 1 .. Len(calls'[k]), calls'[k][i].fp.type = "Group"
          PROVE calls'[k][i].fp = jobs[k].fp /\ calls'[k][i].part <= Left(k)'
      <4>1. CASE i \in 1 .. n
        <5>1. calls'[k][i] = calls[r.key][i]
          BY <4>1, <2>2, <1>d
        <5>2. calls[r.key][i].fp = jobs[r.key].fp /\ calls[r.key][i].part <= run.sent
          BY <4>1, <3>1, <3>2, <5>1
        <5>3. calls[r.key][i].part <= Left(k)'
          BY <4>1, <5>2, <2>2, <1>a, <1>e, <1>f, <1>h
        <5> QED BY <5>1, <5>2, <5>3, <2>2
      <4>2. CASE i = n + 1
        BY <4>2, <3>2, <2>2, <1>a, <1>d, <1>e, <1>f, <1>g
      <4> QED BY <4>1, <4>2, <1>i, <2>2
    <3> QED BY <3>2 DEF GroupInv
  <2> QED BY <2>1, <2>2
<1>7. GroupPartAtMostOnce'
  <2> SUFFICES ASSUME NEW k \in Keys, NEW i \in 1 .. Len(calls'[k]), NEW j \in 1 .. Len(calls'[k]),
                      calls'[k][i].fp.type = "Group", calls'[k][j].fp.type = "Group",
                      calls'[k][i].part = calls'[k][j].part
               PROVE i = j
    BY DEF GroupPartAtMostOnce, IsGroupCall
  <2>1. CASE k # r.key
    BY <2>1, <1>d DEF GroupPartAtMostOnce, IsGroupCall
  <2>2. CASE k = r.key
    <3>1. \A m \in 1 .. n : calls[r.key][m].fp.type = "Group" /\ r.type = "Group" =>
               calls[r.key][m].part # run.sent + 1
      BY <1>a, <1>e, <1>f, <1>h DEF GroupInv, IsGroupCall, n
    <3>2. \A m1, m2 \in 1 .. n : /\ calls[r.key][m1].fp.type = "Group" /\ calls[r.key][m2].fp.type = "Group"
                                /\ calls[r.key][m1].part = calls[r.key][m2].part => m1 = m2
      BY <1>a DEF GroupPartAtMostOnce, IsGroupCall, n
    <3> QED BY <2>2, <3>1, <3>2, <1>d, <1>g, <1>i
  <2> QED BY <2>1, <2>2
<1>8. GroupContentUniform'
  <2> SUFFICES ASSUME NEW k \in Keys, NEW i \in 1 .. Len(calls'[k]), NEW j \in 1 .. Len(calls'[k]),
                      calls'[k][i].fp.type = "Group", calls'[k][j].fp.type = "Group"
               PROVE calls'[k][i].fp = calls'[k][j].fp
    BY DEF GroupContentUniform, IsGroupCall
  <2>1. CASE k # r.key
    BY <2>1, <1>d DEF GroupContentUniform, IsGroupCall
  <2>2. CASE k = r.key
    <3>1. \A m1, m2 \in 1 .. n : calls[r.key][m1].fp.type = "Group" /\ calls[r.key][m2].fp.type = "Group"
               => calls[r.key][m1].fp = calls[r.key][m2].fp
      BY <1>a DEF GroupContentUniform, IsGroupCall, n
    <3>2. \A m \in 1 .. n : calls[r.key][m].fp.type = "Group" /\ r.type = "Group" =>
               calls[r.key][m].fp = Fp(r)
      BY <1>a, <1>e DEF GroupInv, IsGroupCall, n
    <3> QED BY <2>2, <3>1, <3>2, <1>d, <1>g, <1>i
  <2> QED BY <2>1, <2>2
<1>9. GroupPartsInOrder'
  <2> SUFFICES ASSUME NEW k \in Keys, NEW i \in 1 .. Len(calls'[k]), calls'[k][i].fp.type = "Group",
                      NEW p \in 1 .. calls'[k][i].part - 1
               PROVE <<calls'[k][i].fp, p>> \in confirmed'[k]
    BY DEF GroupPartsInOrder, IsGroupCall
  <2>c. confirmed' = confirmed
    BY <1>c
  <2>0. \A c \in Keys : \A m \in 1 .. Len(calls[c]) : calls[c][m].fp.type = "Group" =>
           \A q \in 1 .. calls[c][m].part - 1 : <<calls[c][m].fp, q>> \in confirmed[c]
    BY DEF GroupPartsInOrder, IsGroupCall
  <2>1. CASE k # r.key
    <3>1. calls'[k] = calls[k]
      BY <2>1, <1>d
    <3> QED BY <3>1, <2>0, <2>c
  <2>2. CASE k = r.key /\ i \in 1 .. n
    <3>1. calls'[k][i] = calls[k][i] /\ i \in 1 .. Len(calls[k])
      BY <2>2, <1>d DEF n
    <3> QED BY <3>1, <2>0, <2>c
  <2>3. CASE k = r.key /\ i = n + 1
    <3>1. r.type = "Group" /\ p \in 1 .. jobs[k].done
      BY <2>3, <1>a, <1>d, <1>f, <1>g
    <3>2. <<jobs[k].fp, p>> \in confirmed[k]
      BY <3>1, <2>3, <1>e DEF GroupInv
    <3> QED BY <3>2, <2>3, <2>c, <1>d, <1>e, <1>g
  <2> QED BY <2>1, <2>2, <2>3, <1>i
<1>2. RunInv'
  BY <1>a, <1>c, <1>e, <1>f DEF RunInv, Busy, TypeOK, Run, IsGroup
<1>3. RowInv'
  <2>1. jobs[r.key].status # "None"
    BY <1>c DEF RunInv
  <2> QED BY <2>1, <1>a, <1>c, <1>d DEF RowInv
<1>4. EventInv'
  BY <1>a, <1>c DEF EventInv, Running, RunInv
<1>6. QueueInv' /\ SubmittedComplete' /\ ReplySound' /\ EventsNeverRegress'
  BY <1>c DEF QueueInv, SubmittedComplete, ReplySound, EventsNeverRegress
<1> QED BY <1>1, <1>2, <1>3, <1>4, <1>5, <1>6, <1>7, <1>8, <1>9

\* The confirmed part is counted and the inflight mark removed.
LEMMA PartConfirmedInv == ASSUME GatewayInv, PartConfirmed PROVE GatewayInv'
<1> USE DEF GatewayInv
<1> PICK r \in Requests : r = Req
  BY CurrentRequest DEF PartConfirmed, At
<1> DEFINE new == <<Fp(r), run.sent + 1>>
<1>0. /\ UNCHANGED <<registered, events, queue, calls, asked, reply, submits>>
      /\ Req' = r /\ r.key \in Keys /\ Busy'
      /\ run.stage = "calling" /\ run' = [run EXCEPT !.stage = "ready", !.sent = run.sent + 1]
      /\ run'.stage = "ready" /\ run'.sent = run.sent + 1 /\ run'.ok = run.ok
      /\ confirmed' = [confirmed EXCEPT ![r.key] = confirmed[r.key] \cup {new}]
      /\ jobs' = IF r.type = "Group"
                 THEN [jobs EXCEPT ![r.key] = [jobs[r.key] EXCEPT !.done = run.sent + 1, !.inflight = FALSE]]
                 ELSE jobs
  <2>1. r.key \in Keys
    BY ReqType
  <2>2. /\ UNCHANGED <<registered, events, queue, calls, asked, reply, submits>>
        /\ Req' = r /\ Busy'
    BY DEF PartConfirmed, At, clients, Req, Busy
  <2>3. /\ run.stage = "calling" /\ run' = [run EXCEPT !.stage = "ready", !.sent = run.sent + 1]
        /\ run'.stage = "ready" /\ run'.sent = run.sent + 1 /\ run'.ok = run.ok
    BY DEF PartConfirmed, At, TypeOK, Run
  <2>4. confirmed' = [confirmed EXCEPT ![r.key] = confirmed[r.key] \cup {new}]
    BY DEF PartConfirmed
  <2>5. jobs' = IF r.type = "Group"
                THEN [jobs EXCEPT ![r.key] = [jobs[r.key] EXCEPT !.done = run.sent + 1, !.inflight = FALSE]]
                ELSE jobs
    BY DEF PartConfirmed, IsGroup
  <2> QED BY <2>1, <2>2, <2>3, <2>4, <2>5
<1>1. /\ jobs[r.key].status \in {"Queued", "Processing"}
      /\ jobs[r.key].fp = Fp(r) /\ jobs[r.key].tenant = r.tenant
      /\ run.sent \in Nat /\ run.sent < Parts(r)
      /\ r.type = "Group" => jobs[r.key].inflight /\ jobs[r.key].done = run.sent
  BY <1>0 DEF RunInv, TypeOK, Run, IsGroup
<1>1a. /\ run.sent + 1 \in 0 .. MaxParts /\ run.sent + 1 \in 1 .. MaxParts
       /\ run.sent + 1 <= Parts(r)
       /\ Fp(r) \in Fingerprints /\ Fp(r).type = r.type /\ Fp(r).payload = r.payload
       /\ Parts(r) = NParts[r.payload]
  BY <1>1, ReqType, ConstantsAssumption DEF Parts
<1>2. /\ jobs' \in [Keys -> JobRow]
      /\ \A k \in Keys \ {r.key} : jobs'[k] = jobs[k]
      /\ jobs'[r.key].status = jobs[r.key].status
      /\ jobs'[r.key].tenant = jobs[r.key].tenant
      /\ jobs'[r.key].fp = jobs[r.key].fp
      /\ r.type = "Group" => jobs'[r.key].done = run.sent + 1 /\ ~jobs'[r.key].inflight
      /\ r.type # "Group" => jobs'[r.key] = jobs[r.key]
  <2>1. jobs \in [Keys -> JobRow] /\ jobs[r.key] \in JobRow
    BY <1>0 DEF TypeOK
  <2> DEFINE row == [jobs[r.key] EXCEPT !.done = run.sent + 1, !.inflight = FALSE]
  <2>2. CASE r.type = "Group"
    <3>1. row \in JobRow
      BY <2>1, <2>2, <1>1, <1>1a DEF JobRow
    <3>2. /\ jobs' \in [Keys -> JobRow] /\ jobs'[r.key] = row
          /\ \A k \in Keys \ {r.key} : jobs'[k] = jobs[k]
      BY <1>0, <2>1, <2>2, <3>1
    <3> QED BY <2>1, <2>2, <3>2, <1>1 DEF JobRow
  <2>3. CASE r.type # "Group"
    BY <2>1, <2>3, <1>0
  <2> QED BY <2>2, <2>3
<1>3. /\ confirmed' \in [Keys -> SUBSET (Fingerprints \X (1 .. MaxParts))]
      /\ \A k \in Keys : confirmed[k] \subseteq confirmed'[k]
      /\ new \in confirmed'[r.key]
  BY <1>0, <1>1a DEF TypeOK
<1>4. TypeOK'
  BY <1>0, <1>1a, <1>2, <1>3 DEF TypeOK, Run, AwaitStages
<1>5. RunInv'
  <2>1. run.ok => \A p \in 1 .. run.sent + 1 : <<Fp(r), p>> \in confirmed'[r.key]
    <3> SUFFICES ASSUME run.ok, NEW p \in 1 .. run.sent + 1 PROVE <<Fp(r), p>> \in confirmed'[r.key]
      OBVIOUS
    <3>1. CASE p \in 1 .. run.sent
      BY <3>1, <1>0, <1>3 DEF RunInv
    <3>2. CASE p = run.sent + 1
      BY <3>2, <1>3
    <3> QED BY <3>1, <3>2, <1>1
  <2> QED BY <2>1, <1>0, <1>1, <1>1a, <1>2 DEF RunInv, IsGroup
<1>6. GroupInv'
  <2> SUFFICES ASSUME NEW k \in Keys, jobs'[k].fp.type = "Group"
               PROVE  /\ jobs'[k].done <= NParts[jobs'[k].fp.payload]
                      /\ \A p \in 1 .. jobs'[k].done : <<jobs'[k].fp, p>> \in confirmed'[k]
                      /\ \A i \in 1 .. Len(calls[k]) : IsGroupCall(k, i) =>
                            calls[k][i].fp = jobs'[k].fp /\ calls[k][i].part <= Left(k)'
    BY <1>0 DEF GroupInv, IsGroupCall
  <2>1. CASE k # r.key
    <3>1. Left(k)' = Left(k) /\ jobs'[k] = jobs[k]
      BY <2>1, <1>0, <1>2 DEF Left, Running
    <3> QED BY <3>1, <1>3 DEF GroupInv
  <2>2. CASE k = r.key
    <3>1. r.type = "Group" /\ jobs[k].fp.type = "Group" /\ jobs[k].done = run.sent
      BY <2>2, <1>1, <1>1a, <1>2
    <3>2. Left(k)' = run.sent + 1 /\ Left(k) = run.sent + 1
      BY <2>2, <3>1, <1>0, <1>1, <1>2 DEF Left, Running
    <3>3. \A p \in 1 .. run.sent + 1 : p \in 1 .. run.sent \/ p = run.sent + 1
      BY <1>1
    <3>4. \A p \in 1 .. run.sent + 1 : <<Fp(r), p>> \in confirmed'[r.key]
      BY <3>1, <3>3, <2>2, <1>1, <1>3 DEF GroupInv
    <3> QED BY <2>2, <3>1, <3>2, <3>4, <1>1, <1>1a, <1>2 DEF GroupInv
  <2> QED BY <2>1, <2>2
<1> QED BY RowStep, <1>0, <1>1, <1>2, <1>3, <1>4, <1>5, <1>6

\* An answer without a message id.
LEMMA PartUnconfirmedInv == ASSUME GatewayInv, PartUnconfirmed PROVE GatewayInv'
<1>1. CASE IsGroup(Req)
  BY <1>1, FailInv DEF PartUnconfirmed, At
<1>2. CASE ~IsGroup(Req)
  <2> USE DEF GatewayInv
  <2> PICK r \in Requests : r = Req
    BY CurrentRequest DEF PartUnconfirmed, At
  <2>0. /\ UNCHANGED <<jobs, registered, events, queue, calls, confirmed, asked, reply, submits>>
        /\ Req' = r /\ r.key \in Keys /\ Busy' /\ ~IsGroup(r)
        /\ run.stage = "calling" /\ run' = [run EXCEPT !.stage = "ready", !.sent = run.sent + 1, !.ok = FALSE]
        /\ run'.stage = "ready" /\ run'.sent = run.sent + 1 /\ run'.ok = FALSE
    BY <1>2, ReqType DEF PartUnconfirmed, At, wire, clients, Req, Busy, TypeOK, Run
  <2>1. /\ jobs[r.key].status \in {"Queued", "Processing"} /\ jobs[r.key].fp = Fp(r)
        /\ run.sent \in Nat /\ run.sent < Parts(r) /\ Parts(r) \in 0 .. MaxParts /\ MaxParts \in Nat
    BY <2>0, ReqType, ConstantsAssumption DEF RunInv, TypeOK, Run
  <2>2. run.sent + 1 \in 0 .. MaxParts /\ run.sent + 1 <= Parts(r)
    BY <2>1
  <2>3. TypeOK'
    BY <2>0, <2>2 DEF TypeOK, Run, AwaitStages
  <2>4. RunInv'
    BY <2>0, <2>1, <2>2 DEF RunInv
  <2>5. GroupInv'
    BY <2>0 DEF GroupInv, IsGroupCall, Left, Running
  <2> QED BY RowStep, <2>0, <2>1, <2>3, <2>4, <2>5
<1> QED BY <1>1, <1>2

\* A job becomes Submitted when all its parts are confirmed.
LEMMA CompleteInv == ASSUME GatewayInv, Complete PROVE GatewayInv'
<1> USE DEF GatewayInv
<1> PICK r \in Requests : r = Req
  BY CurrentRequest DEF Complete, At
<1>0. /\ UNCHANGED <<registered, events, queue, calls, confirmed, asked, reply, submits>>
      /\ Req' = r /\ r.key \in Keys /\ Busy'
      /\ run.stage = "ready" /\ run' = [run EXCEPT !.stage = "record"]
      /\ run'.stage = "record"
      /\ run.sent = Parts(r) /\ run.ok
      /\ jobs' = [jobs EXCEPT ![r.key] = [jobs[r.key] EXCEPT !.status = "Submitted", !.done = Parts(r)]]
  BY ReqType DEF Complete, At, GoTo, wire, clients, Req, Busy, TypeOK, Run
<1>1. /\ jobs[r.key].status \in {"Queued", "Processing"}
      /\ jobs[r.key].fp = Fp(r) /\ jobs[r.key].tenant = r.tenant
      /\ \A p \in 1 .. Parts(r) : <<Fp(r), p>> \in confirmed[r.key]
      /\ r.type = "Group" => jobs[r.key].done = Parts(r)
      /\ r.key \notin registered
  BY <1>0 DEF RunInv, EventInv, IsGroup
<1>2. /\ jobs' \in [Keys -> JobRow]
      /\ \A k \in Keys \ {r.key} : jobs'[k] = jobs[k]
      /\ jobs'[r.key].status = "Submitted"
      /\ jobs'[r.key].tenant = jobs[r.key].tenant
      /\ jobs'[r.key].fp = jobs[r.key].fp
      /\ jobs'[r.key].done = Parts(r)
      /\ jobs'[r.key].inflight = jobs[r.key].inflight
  <2>1. jobs \in [Keys -> JobRow] /\ jobs[r.key] \in JobRow /\ Parts(r) \in 0 .. MaxParts
    BY <1>0, ReqType DEF TypeOK
  <2>2. [jobs[r.key] EXCEPT !.status = "Submitted", !.done = Parts(r)] \in JobRow
    BY <2>1 DEF JobRow
  <2>3. /\ jobs' \in [Keys -> JobRow]
        /\ jobs'[r.key] = [jobs[r.key] EXCEPT !.status = "Submitted", !.done = Parts(r)]
        /\ \A k \in Keys \ {r.key} : jobs'[k] = jobs[k]
    BY <1>0, <2>1, <2>2
  <2> QED BY <2>1, <2>3 DEF JobRow
<1>3. TypeOK'
  BY <1>0, <1>2 DEF TypeOK, Run
<1>4. RunInv'
  BY <1>0, <1>1, <1>2 DEF RunInv
<1>5. GroupInv'
  <2>1. ASSUME NEW k \in Keys, jobs[k].fp.type = "Group"
        PROVE Left(k)' = Left(k) /\ jobs'[k].done = jobs[k].done
    BY <2>1, <1>0, <1>1, <1>2, ReqType DEF Left, Running
  <2>2. \A k \in Keys : jobs'[k].fp = jobs[k].fp
    BY <1>2
  <2> QED BY <2>1, <2>2, <1>0 DEF GroupInv, IsGroupCall
<1> QED BY RowStep, <1>0, <1>1, <1>2, <1>3, <1>4, <1>5

\* The message ids are registered.
LEMMA RecordMessagesInv == ASSUME GatewayInv, RecordMessages PROVE GatewayInv'
<1> USE DEF GatewayInv
<1> PICK r \in Requests : r = Req
  BY CurrentRequest DEF RecordMessages, At
<1>0. /\ UNCHANGED <<jobs, events, queue, calls, confirmed, asked, reply, submits>>
      /\ Req' = r /\ r.key \in Keys /\ Busy'
      /\ run.stage = "record" /\ run' = [run EXCEPT !.stage = "announce"]
      /\ run'.stage = "announce"
      /\ registered' = registered \cup {r.key}
  BY ReqType DEF RecordMessages, At, GoTo, wire, clients, Req, Busy, TypeOK, Run
<1>1. jobs[r.key].status = "Submitted"
  BY <1>0 DEF RunInv
<1>2. TypeOK'
  BY <1>0 DEF TypeOK, Run
<1>3. RunInv'
  BY <1>0, <1>1 DEF RunInv
<1>4. GroupInv'
  BY <1>0 DEF GroupInv, IsGroupCall, Left, Running
<1>5. EventInv'
  BY <1>0, <1>1 DEF EventInv, Running
<1>6. QueueInv' /\ RowInv' /\ ReplySound' /\ SubmittedComplete' /\ EventsNeverRegress'
  BY <1>0 DEF QueueInv, RowInv, ReplySound, SubmittedComplete, EventsNeverRegress
<1>7. GroupPartAtMostOnce' /\ GroupContentUniform' /\ GroupPartsInOrder'
  BY <1>0 DEF GroupPartAtMostOnce, GroupContentUniform, GroupPartsInOrder, IsGroupCall
<1> QED BY <1>2, <1>3, <1>4, <1>5, <1>6, <1>7

-----------------------------------------------------------------------------
(* Settling, receipts, crashes, and the initial state *)

\* The last step of a closure that ran: the event, and the answer.
LEMMA AnnounceInv ==
    ASSUME GatewayInv, NEW s \in {"Submitted", "Failed"},
           NEW a \in Replies \ {"waiting"},
           Busy, run.stage = (IF s = "Submitted" THEN "announce" ELSE "failing"),
           a = "ok" => s = "Submitted",
           AddEvent(Req.key, Req.tenant, s), Answer(a),
           UNCHANGED <<jobs, registered, wire, asked, submits>>
    PROVE  GatewayInv'
<1> USE DEF GatewayInv
<1> PICK r \in Requests : r = Req
  BY CurrentRequest
<1>0. /\ queue' \in Seq(Entry) /\ run' = Idle
      /\ reply' \in [Callers -> Replies]
      /\ QueueInv'
      /\ \A c \in Callers : reply'[c] = "ok" =>
            reply[c] = "ok" \/ (a = "ok" /\ asked[c] = r)
      /\ UNCHANGED <<jobs, registered, calls, confirmed, asked, submits>>
      /\ run.stage # "marked" /\ run.stage # "idle" /\ run'.stage = "idle"
      /\ r.key \in Keys /\ r.tenant \in Tenants
  BY AnswerFacts, ReqType DEF wire, Idle
<1>1. /\ jobs[r.key].status = IF s = "Submitted" THEN "Submitted" ELSE "Failed"
      /\ jobs[r.key].fp = Fp(r) /\ jobs[r.key].tenant = r.tenant
  BY <1>0 DEF RunInv
<1>2. /\ events' \in Seq(Event) /\ Len(events) \in Nat /\ Len(events') = Len(events) + 1
      /\ events'[Len(events) + 1].key = r.key /\ events'[Len(events) + 1].status = s
      /\ \A i \in 1 .. Len(events) : events'[i] = events[i]
      /\ \A i \in 1 .. Len(events') : i \in 1 .. Len(events) \/ i = Len(events) + 1
  BY <1>0, AppendedEvent
<1>3. \A i \in 1 .. Len(events) : events[i].status # "Failed" => events[i].key # r.key
  BY <1>0, <1>1 DEF EventInv, Running
<1>4. TypeOK'
  BY <1>0, <1>2, ConstantsAssumption DEF TypeOK, Idle, Run, AwaitStages
<1>5. ReplySound'
  BY <1>0, <1>1 DEF ReplySound
<1>6. RowInv' /\ RunInv' /\ SubmittedComplete'
  BY <1>0 DEF RowInv, RunInv, SubmittedComplete
<1>7. EventInv'
  BY <1>0, <1>1, <1>2 DEF EventInv, Running
<1>8. EventsNeverRegress'
  <2> SUFFICES ASSUME NEW i \in 1 .. Len(events'), NEW j \in 1 .. Len(events'), i < j,
                      events'[i].key = events'[j].key, events'[i].status # "Failed"
               PROVE  \/ events'[j].status = "Acknowledged"
                      \/ /\ events'[j].status = "Failed"
                         /\ jobs[events'[j].key].fp.provider = "Official API"
    BY <1>0 DEF EventsNeverRegress
  <2>1. i \in 1 .. Len(events)
    BY <1>2
  <2>2. CASE j \in 1 .. Len(events)
    BY <2>1, <2>2, <1>2 DEF EventsNeverRegress
  <2>3. CASE j = Len(events) + 1
    BY <2>1, <2>3, <1>2, <1>3
  <2> QED BY <2>2, <2>3, <1>2
<1>9. GroupInv'
  BY <1>0 DEF GroupInv, IsGroupCall, Left, Running
<1>10. GroupPartAtMostOnce' /\ GroupContentUniform' /\ GroupPartsInOrder'
  BY <1>0 DEF GroupPartAtMostOnce, GroupContentUniform, GroupPartsInOrder, IsGroupCall
<1> QED BY <1>0, <1>4, <1>5, <1>6, <1>7, <1>8, <1>9, <1>10

\* A receipt finds Submitted jobs only.
LEMMA ReceiptInv ==
    ASSUME GatewayInv, NEW k \in Keys, NEW s \in {"Acknowledged", "Failed"}, Receipt(k, s)
    PROVE  GatewayInv'
<1> USE DEF GatewayInv
<1>0. /\ UNCHANGED <<jobs, registered, queue, run, calls, confirmed, asked, reply, submits>>
      /\ k \in registered /\ run.stage \in AwaitStages
      /\ s = "Failed" => jobs[k].fp.provider = "Official API"
  BY DEF Receipt, AtAwait, memory, wire, clients
<1>1. jobs[k].status = "Submitted" /\ jobs[k].tenant \in Tenants
  BY <1>0 DEF EventInv, RowInv
<1>2. /\ events' \in Seq(Event) /\ Len(events) \in Nat /\ Len(events') = Len(events) + 1
      /\ events'[Len(events) + 1].key = k /\ events'[Len(events) + 1].status = s
      /\ \A i \in 1 .. Len(events) : events'[i] = events[i]
      /\ \A i \in 1 .. Len(events') : i \in 1 .. Len(events) \/ i = Len(events) + 1
  BY <1>1, AppendedEvent DEF Receipt
<1>3. TypeOK'
  BY <1>0, <1>2 DEF TypeOK
<1>4. EventInv'
  BY <1>0, <1>1, <1>2 DEF EventInv, Running, AwaitStages
<1>5. EventsNeverRegress'
  <2> SUFFICES ASSUME NEW i \in 1 .. Len(events'), NEW j \in 1 .. Len(events'), i < j,
                      events'[i].key = events'[j].key, events'[i].status # "Failed"
               PROVE  \/ events'[j].status = "Acknowledged"
                      \/ /\ events'[j].status = "Failed"
                         /\ jobs[events'[j].key].fp.provider = "Official API"
    BY <1>0 DEF EventsNeverRegress
  <2>1. i \in 1 .. Len(events)
    BY <1>2
  <2>2. CASE j \in 1 .. Len(events)
    BY <2>1, <2>2, <1>2 DEF EventsNeverRegress
  <2>3. CASE j = Len(events) + 1
    BY <2>1, <2>3, <1>0, <1>2
  <2> QED BY <2>2, <2>3, <1>2
<1>6. QueueInv' /\ RowInv' /\ RunInv' /\ ReplySound' /\ SubmittedComplete'
  <2>1. QueueInv' /\ RowInv'
    BY <1>0 DEF QueueInv, RowInv
  <2>2. RunInv'
    BY <1>0 DEF RunInv, Req, Busy
  <2>3. ReplySound' /\ SubmittedComplete'
    BY <1>0 DEF ReplySound, SubmittedComplete
  <2> QED BY <2>1, <2>2, <2>3
<1>7. GroupInv'
  BY <1>0 DEF GroupInv, IsGroupCall, Left, Running, Req
<1>8. GroupPartAtMostOnce' /\ GroupContentUniform' /\ GroupPartsInOrder'
  <2>1. calls' = calls /\ confirmed' = confirmed
    BY <1>0
  <2>2. GroupPartAtMostOnce'
    BY <2>1 DEF GroupPartAtMostOnce, IsGroupCall
  <2>3. GroupContentUniform' /\ GroupPartsInOrder'
    BY <2>1 DEF GroupContentUniform, GroupPartsInOrder, IsGroupCall
  <2> QED BY <2>2, <2>3
<1> QED BY <1>3, <1>4, <1>5, <1>6, <1>7, <1>8

\* A crash keeps the tables; a mark that was written counts as a part that left.
LEMMA CrashInv == ASSUME GatewayInv, Crash PROVE GatewayInv'
<1> USE DEF GatewayInv
<1>0. /\ UNCHANGED <<jobs, registered, events, calls, confirmed, asked, submits>>
      /\ queue' = <<>> /\ run' = Idle /\ run'.stage = "idle"
      /\ reply' = [c \in Callers |-> IF reply[c] = "waiting" THEN "unavailable" ELSE reply[c]]
  BY DEF Crash, store, wire, Idle
<1>1. TypeOK'
  BY <1>0, ConstantsAssumption DEF TypeOK, Replies, Idle, Run, AwaitStages
<1>2. QueueInv' /\ RowInv' /\ RunInv' /\ EventInv'
  BY <1>0 DEF QueueInv, RowInv, RunInv, EventInv, Running
<1>3. ReplySound'
  BY <1>0 DEF ReplySound
<1>4. GroupInv'
  <2> SUFFICES ASSUME NEW k \in Keys, jobs[k].fp.type = "Group",
                      NEW i \in 1 .. Len(calls[k]), IsGroupCall(k, i)
               PROVE  calls[k][i].part <= Left(k)'
    BY <1>0 DEF GroupInv, IsGroupCall
  <2>1. calls[k][i] \in Call
    BY DEF TypeOK
  <2>2. jobs[k].done \in Int /\ calls[k][i].part \in Int
    BY <2>1, ConstantsAssumption DEF TypeOK, JobRow, Call
  <2>3. calls[k][i].part <= Left(k)
    BY DEF GroupInv
  <2> QED BY <2>2, <2>3, <1>0 DEF Left, Running
<1>5. GroupPartAtMostOnce' /\ GroupContentUniform' /\ GroupPartsInOrder'
  BY <1>0 DEF GroupPartAtMostOnce, GroupContentUniform, GroupPartsInOrder, IsGroupCall
<1>6. SubmittedComplete' /\ EventsNeverRegress'
  BY <1>0 DEF SubmittedComplete, EventsNeverRegress
<1> QED BY <1>1, <1>2, <1>3, <1>4, <1>5, <1>6

\* Empty tables satisfy the invariant.
LEMMA InitInv == Init => GatewayInv
<1> SUFFICES ASSUME Init PROVE GatewayInv
  OBVIOUS
<1>1. \A k \in Keys : jobs[k] = NoJob /\ calls[k] = <<>>
  BY DEF Init
<1>2. run.stage = "idle"
  BY DEF Init, Idle
<1>3. TypeOK
  <2>1. NoJob \in JobRow
    BY ConstantsAssumption DEF NoJob, JobRow
  <2>2. Idle \in Run
    BY ConstantsAssumption DEF Idle, Run, AwaitStages
  <2>3. (CHOOSE r \in Requests : TRUE) \in Requests
    BY ConstantsAssumption
  <2> QED BY <2>1, <2>2, <2>3, ConstantsAssumption DEF Init, TypeOK, Replies
<1>4. QueueInv /\ RowInv /\ RunInv
  BY <1>1, <1>2 DEF QueueInv, RowInv, RunInv, Init, NoJob
<1>5. GroupInv /\ EventInv
  BY <1>1 DEF GroupInv, EventInv, Init, NoJob, NoFp
<1>6. GroupPartAtMostOnce /\ GroupContentUniform /\ GroupPartsInOrder
  BY <1>1 DEF GroupPartAtMostOnce, GroupContentUniform, GroupPartsInOrder
<1>7. SubmittedComplete /\ ReplySound /\ EventsNeverRegress
  BY <1>1 DEF SubmittedComplete, ReplySound, EventsNeverRegress, Init, NoJob
<1> QED BY <1>3, <1>4, <1>5, <1>6, <1>7 DEF GatewayInv

-----------------------------------------------------------------------------
(* The theorems *)

\* Every step of the gateway, its clients and the provider keeps GatewayInv.
LEMMA StepInv == ASSUME GatewayInv, [Next]_vars PROVE GatewayInv'
<1>1. ASSUME NEW c \in Callers, NEW r \in Requests, Submit(c, r) PROVE GatewayInv'
  BY <1>1, SubmitInv
<1>2. ASSUME NEW c \in Callers, ClientTimeout(c) PROVE GatewayInv'
  BY <1>2, ClientTimeoutInv
<1>3. ASSUME Start PROVE GatewayInv'
  <2>1. CASE Refuse
    BY <2>1, AnswerInv DEF Refuse, Replies
  <2>2. CASE RefuseUncertain
    BY <2>2, AnswerInv DEF RefuseUncertain, Replies
  <2>3. CASE Replay
    <3>1. Exists(Req)
      BY <2>3 DEF Replay, AlreadySubmitted, Exists
    <3>2. /\ jobs[Req.key].status = "Submitted"
          /\ jobs[Req.key].tenant = Req.tenant
          /\ IsGroup(Req) => jobs[Req.key].fp = Fp(Req)
      BY <2>3, <3>1 DEF Replay, AlreadySubmitted, Refused, ForeignTenant, FingerprintChanged
    <3> QED BY <2>3, <3>2, AnswerInv DEF Replay, Replies
  <2>4. CASE Begin
    BY <2>4, BeginInv
  <2> QED BY <1>3, <2>1, <2>2, <2>3, <2>4 DEF Start
<1>4. ASSUME Preflight \/ Proceed \/ CallReturns PROVE GatewayInv'
  <2>1. CASE PreflightFails
    BY <2>1, FailInv DEF PreflightFails, At
  <2>2. CASE PreflightPasses
    BY <2>2, PreflightPassesInv
  <2>3. CASE UploadFails
    BY <2>3, FailInv DEF UploadFails, At
  <2>4. CASE Checkpoint
    BY <2>4, CheckpointInv
  <2>5. CASE CallPart
    BY <2>5, CallPartInv
  <2>6. CASE Incomplete
    BY <2>6, FailInv DEF Incomplete, At
  <2>7. CASE Complete
    BY <2>7, CompleteInv
  <2>8. CASE PartConfirmed
    BY <2>8, PartConfirmedInv
  <2>9. CASE PartUnconfirmed
    BY <2>9, PartUnconfirmedInv
  <2>10. CASE PartThrows
    <3>1. IsGroup(Req) \in BOOLEAN
      BY DEF IsGroup
    <3> QED BY <2>10, <3>1, FailInv DEF PartThrows, At
  <2> QED BY <1>4, <2>1, <2>2, <2>3, <2>4, <2>5, <2>6, <2>7, <2>8, <2>9, <2>10
          DEF Preflight, Proceed, CallReturns
<1>5. ASSUME Settle PROVE GatewayInv'
  <2>1. CASE RecordMessages
    BY <2>1, RecordMessagesInv
  <2>2. CASE AnnounceSubmitted
    BY <2>2, AnnounceInv DEF AnnounceSubmitted, At, Replies
  <2>3. CASE AnnounceFailure
    BY <2>3, AnnounceInv DEF AnnounceFailure, At, Replies
  <2> QED BY <1>5, <2>1, <2>2, <2>3 DEF Settle
<1>6. ASSUME NEW k \in Keys, NEW s \in {"Acknowledged", "Failed"}, Receipt(k, s)
      PROVE  GatewayInv'
  BY <1>6, ReceiptInv
<1>7. CASE UNCHANGED vars
  <2> USE DEF GatewayInv
  <2>0. /\ UNCHANGED <<jobs, registered, events, queue, run>>
        /\ UNCHANGED <<calls, confirmed, asked, reply, submits>>
    BY <1>7 DEF vars
  <2>1. TypeOK' /\ QueueInv' /\ RowInv'
    BY <2>0 DEF TypeOK, QueueInv, RowInv
  <2>2. RunInv' /\ EventInv'
    BY <2>0 DEF RunInv, EventInv, Running, Busy, Req
  <2>3. GroupInv'
    BY <2>0 DEF GroupInv, IsGroupCall, Left, Running, Req
  <2>4. GroupPartAtMostOnce'
    BY <2>0 DEF GroupPartAtMostOnce, IsGroupCall
  <2>5. GroupContentUniform' /\ GroupPartsInOrder'
    BY <2>0 DEF GroupContentUniform, GroupPartsInOrder, IsGroupCall
  <2>6. SubmittedComplete' /\ ReplySound' /\ EventsNeverRegress'
    BY <2>0 DEF SubmittedComplete, ReplySound, EventsNeverRegress
  <2> QED BY <2>1, <2>2, <2>3, <2>4, <2>5, <2>6
<1> QED BY <1>1, <1>2, <1>3, <1>4, <1>5, <1>6, <1>7, CrashInv DEF Next, Step

\* GatewayInv holds in every reachable state of the gateway's send path.
THEOREM GatewayInvariance == Spec => []GatewayInv
BY InitInv, StepInv, PTL DEF Spec

\* The tables, the queue and the progress of a closure keep their types.
THEOREM TypeCorrectness == Spec => []TypeOK
<1>1. GatewayInv => TypeOK
  BY DEF GatewayInv
<1> QED BY <1>1, GatewayInvariance, PTL

\* sendGroup never hands one part of a group message to WhatsApp twice under
\* the same idempotency key, for any number of retries, time-outs and crashes.
THEOREM GroupAtMostOnce == Spec => []GroupPartAtMostOnce
<1>1. GatewayInv => GroupPartAtMostOnce
  BY DEF GatewayInv
<1> QED BY <1>1, GatewayInvariance, PTL

\* The parts sent for a group under one key have one content.
THEOREM GroupUniform == Spec => []GroupContentUniform
<1>1. GatewayInv => GroupContentUniform
  BY DEF GatewayInv
<1> QED BY <1>1, GatewayInvariance, PTL

\* A part of a group message is sent after those before it were confirmed.
THEOREM GroupInOrder == Spec => []GroupPartsInOrder
<1>1. GatewayInv => GroupPartsInOrder
  BY DEF GatewayInv
<1> QED BY <1>1, GatewayInvariance, PTL

\* A Submitted row means that WhatsApp confirmed every part.
THEOREM SubmittedIsComplete == Spec => []SubmittedComplete
<1>1. GatewayInv => SubmittedComplete
  BY DEF GatewayInv
<1> QED BY <1>1, GatewayInvariance, PTL

\* A client that was told of success owns a Submitted job.
THEOREM RepliesAreSound == Spec => []ReplySound
<1>1. GatewayInv => ReplySound
  BY DEF GatewayInv
<1> QED BY <1>1, GatewayInvariance, PTL

\* The event log of a key never goes back from success, except that Meta may
\* report a failed delivery.
THEOREM EventLogNeverRegresses == Spec => []EventsNeverRegress
<1>1. GatewayInv => EventsNeverRegress
  BY DEF GatewayInv
<1> QED BY <1>1, GatewayInvariance, PTL

\* Only CallPart reaches the provider, and the running request's row is Queued
\* or Processing then.
LEMMA SubmittedIsSilent ==
    ASSUME GatewayInv, [Next]_vars, NEW k \in Keys, jobs[k].status = "Submitted"
    PROVE  calls'[k] = calls[k]
<1>1. CASE CallPart
  <2> PICK r \in Requests : r = Req
    BY <1>1, CurrentRequest DEF CallPart, GatewayInv
  <2>1. jobs[r.key].status # "Submitted"
    BY <1>1 DEF GatewayInv, RunInv, CallPart
  <2>2. calls' = [calls EXCEPT ![r.key] = Append(calls[r.key], [fp |-> Fp(r), part |-> run.sent + 1])]
    BY <1>1 DEF CallPart
  <2> QED BY <2>1, <2>2 DEF GatewayInv, TypeOK
<1>2. CASE ~CallPart
  <2>1. ASSUME Step PROVE calls' = calls
    BY <2>1, <1>2 DEF Step, Start, Preflight, Proceed, CallReturns, Settle, Refuse, RefuseUncertain,
       Replay, Begin, PreflightFails, PreflightPasses, UploadFails, Checkpoint, Incomplete,
       Complete, PartConfirmed, PartUnconfirmed, PartThrows, RecordMessages,
       AnnounceSubmitted, AnnounceFailure, wire
  <2>2. ASSUME NEW c \in Callers, NEW r \in Requests, Submit(c, r) PROVE calls' = calls
    BY <2>2 DEF Submit, wire
  <2>3. ASSUME NEW c \in Callers, ClientTimeout(c) PROVE calls' = calls
    BY <2>3 DEF ClientTimeout, wire
  <2>4. ASSUME NEW l \in Keys, NEW s \in {"Acknowledged", "Failed"}, Receipt(l, s) PROVE calls' = calls
    BY <2>4 DEF Receipt, wire
  <2>5. Crash \/ UNCHANGED vars => calls' = calls
    BY DEF Crash, wire, vars
  <2> QED BY <2>1, <2>2, <2>3, <2>4, <2>5 DEF Next
<1> QED BY <1>1, <1>2

\* The steps that write a row write the running request's, which is not
\* Submitted before the step.
LEMMA SubmittedRowKept ==
    ASSUME GatewayInv, [Next]_vars, NEW k \in Keys, jobs[k].status = "Submitted"
    PROVE  jobs'[k] = jobs[k]
<1> DEFINE Writes == Begin \/ Checkpoint \/ PartConfirmed \/ Complete
                     \/ PreflightFails \/ UploadFails \/ PartUnconfirmed \/ PartThrows \/ Incomplete
<1>1. CASE Writes
  <2>0. Busy
    BY <1>1 DEF Begin, Checkpoint, PartConfirmed, Complete, PreflightFails, UploadFails,
       PartUnconfirmed, PartThrows, Incomplete, At
  <2> PICK r \in Requests : r = Req
    BY <2>0, CurrentRequest DEF GatewayInv
  <2>1. jobs[r.key].status # "Submitted"
    BY <1>1 DEF GatewayInv, RunInv, Begin, AlreadySubmitted, Checkpoint, PartConfirmed, Complete,
       PreflightFails, UploadFails, PartUnconfirmed, PartThrows, Incomplete, At
  <2>2. \E row : jobs' = [jobs EXCEPT ![r.key] = row] \/ jobs' = jobs
    BY <1>1 DEF Begin, Checkpoint, PartConfirmed, Complete, PreflightFails, UploadFails,
       PartUnconfirmed, PartThrows, Incomplete, Fail
  <2> QED BY <2>1, <2>2 DEF GatewayInv, TypeOK
<1>2. CASE ~Writes
  <2>1. ASSUME Step PROVE jobs' = jobs
    BY <2>1, <1>2 DEF Step, Start, Preflight, Proceed, CallReturns, Settle, Refuse, RefuseUncertain,
       Replay, PreflightPasses, CallPart, RecordMessages, AnnounceSubmitted, AnnounceFailure, store
  <2>2. ASSUME NEW c \in Callers, NEW r \in Requests, Submit(c, r) PROVE jobs' = jobs
    BY <2>2 DEF Submit, store
  <2>3. ASSUME NEW c \in Callers, ClientTimeout(c) PROVE jobs' = jobs
    BY <2>3 DEF ClientTimeout, store
  <2>4. ASSUME NEW l \in Keys, NEW s \in {"Acknowledged", "Failed"}, Receipt(l, s) PROVE jobs' = jobs
    BY <2>4 DEF Receipt
  <2>5. Crash \/ UNCHANGED vars => jobs' = jobs
    BY DEF Crash, store, vars
  <2> QED BY <2>1, <2>2, <2>3, <2>4, <2>5 DEF Next
<1> QED BY <1>1, <1>2

\* Submitted is final: the row stays as it is and nothing is sent for it again.
THEOREM SubmittedStays == Spec => SubmittedIsFinal
<1>1. GatewayInv /\ [Next]_vars =>
        [\A k \in Keys : jobs[k].status = "Submitted" =>
            jobs'[k] = jobs[k] /\ calls'[k] = calls[k]]_vars
  BY SubmittedIsSilent, SubmittedRowKept
<1> QED BY <1>1, GatewayInvariance, PTL DEF Spec, SubmittedIsFinal

=============================================================================
