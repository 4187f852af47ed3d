---------------------- MODULE GatewayRefinementProofs ----------------------
(***************************************************************************)
(* The send path of the gateway implements GatewayContract, for any        *)
(* clients, keys and messages: the initial state maps to the contract's,   *)
(* and every step maps to a step of the contract or to a stutter.          *)
(* RefinementInv adds to GatewayInv what the mapping needs.                *)
(***************************************************************************)
EXTENDS GatewayRefinement, GatewayJobsProofs, SequenceTheorems

-----------------------------------------------------------------------------
(* The abstract queue and log follow the concrete ones *)

Slot == [caller : Callers \cup {Gone}, key : Keys]
Line == [key : Keys, status : {"Submitted", "Acknowledged", "Failed"}]

BoxOf(q) == [i \in 1 .. Len(q) |-> [caller |-> q[i].caller, key |-> q[i].req.key]]

\* What a queue is mapped to: a sequence of the same length.
LEMMA BoxType ==
    ASSUME NEW q \in Seq(Entry)
    PROVE  /\ BoxOf(q) \in Seq(Slot) /\ Len(BoxOf(q)) = Len(q) /\ Len(q) \in Nat
           /\ BoxOf(q) # <<>> <=> q # <<>>
           /\ \A i \in 1 .. Len(q) : /\ q[i] \in Entry
                                     /\ BoxOf(q)[i] \in Slot
                                     /\ BoxOf(q)[i].caller = q[i].caller
                                     /\ BoxOf(q)[i].key = q[i].req.key
<1>1. Len(q) \in Nat /\ \A i \in 1 .. Len(q) : q[i] \in Entry
  OBVIOUS
<1>2. ASSUME NEW i \in 1 .. Len(q)
      PROVE  [caller |-> q[i].caller, key |-> q[i].req.key] \in Slot
  <2>1. q[i].caller \in Callers \cup {Gone} /\ q[i].req \in Requests
    BY <1>1 DEF Entry
  <2>2. q[i].req.key \in Keys
    BY <2>1, ReqType
  <2> QED BY <2>1, <2>2 DEF Slot
<1>3. BoxOf(q) \in [1 .. Len(q) -> Slot]
  BY <1>2 DEF BoxOf
<1>4. BoxOf(q) \in Seq(Slot) /\ Len(BoxOf(q)) = Len(q)
  BY <1>1, <1>3
<1>5. BoxOf(q) # <<>> <=> q # <<>>
  BY <1>1, <1>4, EmptySeq
<1>6. ASSUME NEW i \in 1 .. Len(q)
      PROVE  BoxOf(q)[i] \in Slot /\ BoxOf(q)[i].caller = q[i].caller /\ BoxOf(q)[i].key = q[i].req.key
  BY <1>2 DEF BoxOf
<1> QED BY <1>1, <1>4, <1>5, <1>6

\* Slots are equal when their fields are.
LEMMA SlotEqual ==
    ASSUME NEW a \in Slot, NEW b \in Slot, a.caller = b.caller, a.key = b.key
    PROVE  a = b
BY DEF Slot

\* The abstract inbox is a sequence with the length and the entries of the queue.
LEMMA InboxType ==
    ASSUME TypeOK
    PROVE  /\ Inbox \in Seq(Slot) /\ Len(Inbox) = Len(queue) /\ Len(queue) \in Nat
           /\ \A i \in 1 .. Len(queue) : /\ queue[i] \in Entry
                                         /\ Inbox[i] \in Slot
                                         /\ Inbox[i].caller = queue[i].caller
                                         /\ Inbox[i].key = queue[i].req.key
           /\ Inbox # <<>> <=> Busy
<1>1. Inbox = BoxOf(queue) /\ queue \in Seq(Entry)
  BY DEF Inbox, BoxOf, TypeOK
<1> QED BY <1>1, BoxType DEF Busy

\* A closure that is put on the queue is asked for in the abstract inbox.
LEMMA InboxAppend ==
    ASSUME TypeOK, NEW c \in Callers, NEW r \in Requests,
           queue' = Append(queue, [caller |-> c, req |-> r])
    PROVE  Inbox' = Append(Inbox, [caller |-> c, key |-> r.key])
<1> DEFINE e == [caller |-> c, req |-> r]
           s == [caller |-> c, key |-> r.key]
<1>1. s \in Slot /\ e \in Entry /\ e.caller = c /\ e.req = r /\ s.caller = c /\ s.key = r.key
  BY ReqType DEF Slot, Entry
<1>2. queue \in Seq(Entry) /\ queue' = Append(queue, e)
  BY DEF TypeOK
<1> HIDE DEF e
<1>3. queue' \in Seq(Entry) /\ Len(queue') = Len(queue) + 1 /\ Len(queue) \in Nat
      /\ queue'[Len(queue) + 1] = e
      /\ \A i \in 1 .. Len(queue) : queue'[i] = queue[i]
  BY <1>1, <1>2
<1>4. Inbox = BoxOf(queue) /\ Inbox' = BoxOf(queue')
  BY DEF Inbox, BoxOf
<1>5. /\ Inbox' \in Seq(Slot) /\ Len(Inbox') = Len(queue) + 1
      /\ \A i \in 1 .. Len(queue) + 1 : /\ Inbox'[i] \in Slot
                                        /\ Inbox'[i].caller = queue'[i].caller
                                        /\ Inbox'[i].key = queue'[i].req.key
  BY <1>3, <1>4, BoxType
<1>6. /\ Inbox \in Seq(Slot) /\ Len(Inbox) = Len(queue)
      /\ \A i \in 1 .. Len(queue) : /\ Inbox[i] \in Slot
                                    /\ Inbox[i].caller = queue[i].caller
                                    /\ Inbox[i].key = queue[i].req.key
  BY <1>2, <1>4, BoxType
<1> HIDE DEF s
<1>7. /\ Append(Inbox, s) \in Seq(Slot) /\ Len(Append(Inbox, s)) = Len(queue) + 1
      /\ \A i \in 1 .. Len(queue) : Append(Inbox, s)[i] = Inbox[i]
      /\ Append(Inbox, s)[Len(queue) + 1] = s
  BY <1>1, <1>3, <1>6
<1>8. ASSUME NEW i \in 1 .. Len(queue) + 1
      PROVE  Inbox'[i] = Append(Inbox, s)[i]
  <2>1. CASE i \in 1 .. Len(queue)
    <3>1. Inbox'[i] \in Slot /\ Inbox[i] \in Slot
          /\ Inbox'[i].caller = Inbox[i].caller /\ Inbox'[i].key = Inbox[i].key
      BY <2>1, <1>3, <1>5, <1>6
    <3> QED BY <3>1, <2>1, <1>7, SlotEqual
  <2>2. CASE i = Len(queue) + 1
    <3>1. Inbox'[i] \in Slot /\ Inbox'[i].caller = s.caller /\ Inbox'[i].key = s.key
      BY <2>2, <1>1, <1>3, <1>5
    <3> QED BY <3>1, <2>2, <1>1, <1>7, SlotEqual
  <2>3. i \in 1 .. Len(queue) \/ i = Len(queue) + 1
    BY <1>3
  <2> QED BY <2>1, <2>2, <2>3
<1>9. Inbox' = Append(Inbox, s)
  BY <1>5, <1>7, <1>8, SeqEqual
<1> QED BY <1>9 DEF s

\* A closure that settles leaves the abstract inbox.
LEMMA InboxTail ==
    ASSUME TypeOK, Busy, queue' = Tail(queue)
    PROVE  Inbox' = Tail(Inbox)
<1>1. /\ queue \in Seq(Entry) /\ Len(queue) \in Nat \ {0}
      /\ Len(queue') = Len(queue) - 1
      /\ \A i \in 1 .. Len(queue) - 1 : queue'[i] = queue[i + 1]
  BY EmptySeq, HeadTailProperties DEF TypeOK, Busy
<1>2. Inbox \in Seq(Slot) /\ Len(Inbox) = Len(queue) /\ Inbox # <<>>
  BY InboxType
<1>3. \A i \in 1 .. Len(queue) :
            Inbox[i] = [caller |-> queue[i].caller, key |-> queue[i].req.key]
  BY DEF Inbox
<1>4. Tail(Inbox) \in Seq(Slot) /\ Len(Tail(Inbox)) = Len(queue) - 1
      /\ \A i \in 1 .. Len(queue) - 1 : Tail(Inbox)[i] = Inbox[i + 1]
  BY <1>2, HeadTailProperties
<1>5. /\ Inbox' = [i \in 1 .. Len(queue) - 1 |->
                    [caller |-> queue'[i].caller, key |-> queue'[i].req.key]]
  BY <1>1 DEF Inbox
<1>6. Tail(Inbox) = [i \in 1 .. Len(queue) - 1 |-> Inbox[i + 1]]
  BY <1>4, LenProperties
<1>7. ASSUME NEW i \in 1 .. Len(queue) - 1
      PROVE  Inbox[i + 1] = [caller |-> queue'[i].caller, key |-> queue'[i].req.key]
  BY <1>1, <1>3
<1> QED BY <1>5, <1>6, <1>7

\* An event that is added appears at the end of the abstract log.
LEMMA LogAppend ==
    ASSUME TypeOK, NEW k \in Keys, NEW t \in Tenants,
           NEW s \in {"Submitted", "Acknowledged", "Failed"}, AddEvent(k, t, s)
    PROVE  EventLog' = Append(EventLog, [key |-> k, status |-> s])
<1> DEFINE e == [key |-> k, status |-> s]
<1>1. /\ events' \in Seq(Event) /\ Len(events) \in Nat /\ Len(events') = Len(events) + 1
      /\ events'[Len(events) + 1].key = k /\ events'[Len(events) + 1].status = s
      /\ \A i \in 1 .. Len(events) : events'[i] = events[i]
      /\ \A i \in 1 .. Len(events') : i \in 1 .. Len(events) \/ i = Len(events) + 1
  BY AppendedEvent
<1>2. e \in Line
  BY DEF Line
<1>3. EventLog \in [1 .. Len(events) -> Line]
  BY EventTypes DEF EventLog, Line
<1>4. EventLog \in Seq(Line) /\ Len(EventLog) = Len(events)
  BY <1>1, <1>3
<1>5. EventLog' = [i \in 1 .. Len(events) + 1 |->
                    [key |-> events'[i].key, status |-> events'[i].status]]
  BY <1>1 DEF EventLog
<1>6. EventLog'[Len(events) + 1] = e /\ \A i \in 1 .. Len(events) : EventLog'[i] = EventLog[i]
  BY <1>1, <1>5 DEF EventLog
<1> HIDE DEF e
<1>7. /\ Append(EventLog, e) \in Seq(Line) /\ Len(Append(EventLog, e)) = Len(events) + 1
      /\ \A i \in 1 .. Len(events) : Append(EventLog, e)[i] = EventLog[i]
      /\ Append(EventLog, e)[Len(events) + 1] = e
  BY <1>1, <1>2, <1>4
<1>8. \A i \in 1 .. Len(events) + 1 : EventLog'[i] = Append(EventLog, e)[i]
  <2> TAKE i \in 1 .. Len(events) + 1
  <2>1. i \in 1 .. Len(events) \/ i = Len(events) + 1
    BY <1>1
  <2> QED BY <2>1, <1>6, <1>7
<1>9. Append(EventLog, e) = [i \in 1 .. Len(events) + 1 |-> Append(EventLog, e)[i]]
  BY <1>7, LenProperties
<1>10. EventLog' = [i \in 1 .. Len(events) + 1 |-> EventLog'[i]]
  BY <1>5
<1>11. EventLog' = Append(EventLog, e)
  BY <1>8, <1>9, <1>10
<1> QED BY <1>11 DEF e

\* A client that gives up is gone from the abstract inbox as well.
LEMMA InboxAbandon ==
    ASSUME TypeOK, TypeOK', NEW c \in Callers,
           queue' = [i \in 1 .. Len(queue) |->
                        IF queue[i].caller = c
                        THEN [caller |-> Gone, req |-> queue[i].req] ELSE queue[i]]
    PROVE  Inbox' = [i \in 1 .. Len(Inbox) |->
                        IF Inbox[i].caller = c
                        THEN [caller |-> Gone, key |-> Inbox[i].key] ELSE Inbox[i]]
<1>1. queue \in Seq(Entry) /\ queue' \in Seq(Entry) /\ Len(queue) \in Nat /\ Len(queue') \in Nat
  BY DEF TypeOK
<1>2. DOMAIN queue' = 1 .. Len(queue)
  OBVIOUS
<1>3. Len(queue') = Len(queue)
  BY <1>1, <1>2
<1>4. ASSUME NEW i \in 1 .. Len(queue)
      PROVE  /\ queue'[i].req = queue[i].req
             /\ queue'[i].caller = IF queue[i].caller = c THEN Gone ELSE queue[i].caller
  OBVIOUS
<1>5. Len(Inbox) = Len(queue)
      /\ \A i \in 1 .. Len(queue) : /\ Inbox[i] = [caller |-> queue[i].caller, key |-> queue[i].req.key]
                                    /\ Inbox[i].caller = queue[i].caller
                                    /\ Inbox[i].key = queue[i].req.key
  BY InboxType DEF Inbox
<1>6. Inbox' = [i \in 1 .. Len(queue) |-> [caller |-> queue'[i].caller, key |-> queue'[i].req.key]]
  BY <1>3 DEF Inbox
<1>7. ASSUME NEW i \in 1 .. Len(queue)
      PROVE  [caller |-> queue'[i].caller, key |-> queue'[i].req.key]
             = IF Inbox[i].caller = c THEN [caller |-> Gone, key |-> Inbox[i].key] ELSE Inbox[i]
  BY <1>4, <1>5
<1> QED BY <1>5, <1>6, <1>7

-----------------------------------------------------------------------------
(* What a closure does to its row *)

\* The row of request r is left with a status and marks, the closure at a stage;
\* no other row, event, answer or queue entry changes.
RowTo(r, st, rc, fl, stage) ==
    /\ UNCHANGED <<events, queue, reply>>
    /\ \A k \in Keys \ {r.key} : jobs'[k] = jobs[k]
    /\ jobs'[r.key].tenant = r.tenant /\ jobs'[r.key].fp = Fp(r)
    /\ jobs'[r.key].status = st /\ jobs'[r.key].recon = rc /\ jobs'[r.key].inflight = fl
    /\ run'.stage = stage

\* The three ways in which a closure may proceed: the outcome stays open, the
\* attempt fails, uncertain or not, or it has succeeded.
GoesOn(r) ==
    \E st \in {"Queued", "Processing"}, fl \in BOOLEAN,
       stage \in {"preflight", "ready", "marked", "calling"} :
        /\ fl => st = "Processing" /\ IsGroup(r)
        /\ RowTo(r, st, FALSE, fl, stage)
Fails(r) ==
    \E u \in BOOLEAN : (u => IsGroup(r)) /\ RowTo(r, "Failed", u, u, "failing")
Succeeds(r) == RowTo(r, "Submitted", FALSE, FALSE, "record")

\* The request being served, and its row while the outcome is open.
Serving(r) ==
    /\ r \in Requests /\ r = Req /\ Busy /\ ~IllFormed(r)
    /\ jobs[r.key].status \notin {"Submitted"}
    /\ jobs[r.key].recon = FALSE
    /\ run.stage \in {"idle", "preflight", "ready", "marked", "calling"}
    /\ run.stage = "idle" => jobs[r.key].inflight = FALSE

\* While a closure works, its row has no reconciliation mark, and is marked
\* inflight exactly while a part of a group is handed over.
LEMMA WorkingRow ==
    ASSUME RefinementInv, NEW r \in Requests, r = Req,
           run.stage \in {"preflight", "ready", "marked", "calling"}
    PROVE  /\ Serving(r)
           /\ jobs[r.key] \in JobRow /\ r.key \in Keys
           /\ jobs[r.key].tenant = r.tenant /\ jobs[r.key].fp = Fp(r)
           /\ jobs[r.key].status \in {"Queued", "Processing"}
           /\ jobs[r.key].inflight = (IsGroup(r) /\ run.stage \in {"marked", "calling"})
           /\ jobs[r.key].inflight => jobs[r.key].status = "Processing"
<1>1. r.key \in Keys /\ Fp(r).type = r.type
  BY ReqType
<1>2. jobs \in [Keys -> JobRow] /\ jobs[r.key] \in JobRow
  BY <1>1 DEF RefinementInv, GatewayInv, TypeOK
<1>3. /\ Busy /\ jobs[r.key].tenant = r.tenant /\ jobs[r.key].fp = Fp(r)
      /\ jobs[r.key].status \in {"Queued", "Processing"}
      /\ run.stage \in {"preflight", "ready"} /\ IsGroup(r) => ~jobs[r.key].inflight
      /\ run.stage \in {"marked", "calling"} /\ IsGroup(r) => jobs[r.key].inflight
  BY DEF RefinementInv, GatewayInv, RunInv
<1>4. jobs[r.key].recon \in BOOLEAN /\ jobs[r.key].inflight \in BOOLEAN
  BY <1>2 DEF JobRow
<1>5. /\ jobs[r.key].recon => jobs[r.key].status = "Failed"
      /\ jobs[r.key].inflight => /\ jobs[r.key].status \in {"Processing", "Failed"}
                                 /\ jobs[r.key].fp.type = "Group"
  BY <1>1 DEF RefinementInv, MarkInv
<1>6. ~IllFormed(r)
  BY <1>3 DEF RefinementInv, MessageInv
<1>7. jobs[r.key].inflight => IsGroup(r)
  BY <1>1, <1>3, <1>5 DEF IsGroup
<1>8. jobs[r.key].inflight = (IsGroup(r) /\ run.stage \in {"marked", "calling"})
  <2>1. run.stage \in {"marked", "calling"} \/ run.stage \in {"preflight", "ready"}
    OBVIOUS
  <2> QED BY <2>1, <1>3, <1>4, <1>7
<1>9. jobs[r.key].recon = FALSE
  BY <1>3, <1>4, <1>5
<1> QED BY <1>1, <1>2, <1>3, <1>5, <1>6, <1>8, <1>9 DEF Serving

\* What an update of one row leaves in the table.
LEMMA RowUpdate ==
    ASSUME TypeOK, NEW k \in Keys, NEW row, jobs' = [jobs EXCEPT ![k] = row]
    PROVE  jobs'[k] = row /\ \A l \in Keys \ {k} : jobs'[l] = jobs[l]
BY DEF TypeOK

\* GoTo changes the stage.
LEMMA GoToStage ==
    ASSUME TypeOK, NEW st, GoTo(st) PROVE run'.stage = st
BY DEF TypeOK, Run, GoTo

\* The catch block of send.
LEMMA FailStep ==
    ASSUME RefinementInv, NEW r \in Requests, r = Req, NEW u \in BOOLEAN, Fail(u),
           run.stage \in {"preflight", "ready", "calling"},
           u = (IsGroup(r) /\ run.stage = "calling"),
           UNCHANGED <<registered, events, queue, wire, clients>>
    PROVE  Serving(r) /\ Fails(r)
<1>0. TypeOK
  BY DEF RefinementInv, GatewayInv
<1>1. /\ Serving(r)
      /\ jobs[r.key] \in JobRow /\ r.key \in Keys
      /\ jobs[r.key].tenant = r.tenant /\ jobs[r.key].fp = Fp(r)
      /\ jobs[r.key].inflight = (IsGroup(r) /\ run.stage \in {"marked", "calling"})
  BY WorkingRow
<1>2. jobs[r.key].inflight = u
  BY <1>1
<1> DEFINE row == [jobs[r.key] EXCEPT !.status = "Failed", !.recon = u]
<1>3. /\ row.status = "Failed" /\ row.recon = u /\ row.inflight = u
      /\ row.tenant = r.tenant /\ row.fp = Fp(r)
  BY <1>1, <1>2 DEF JobRow
<1>4. jobs' = [jobs EXCEPT ![r.key] = row] /\ run'.stage = "failing"
  BY <1>0, GoToStage DEF Fail
<1> HIDE DEF row
<1>5. jobs'[r.key] = row /\ \A l \in Keys \ {r.key} : jobs'[l] = jobs[l]
  BY <1>0, <1>1, <1>4, RowUpdate
<1>6. UNCHANGED <<events, queue, reply>>
  BY DEF clients
<1>7. RowTo(r, "Failed", u, u, "failing")
  BY <1>3, <1>4, <1>5, <1>6 DEF RowTo
<1> QED BY <1>1, <1>7 DEF Fails

\* Every step of a closure between its first durable write and its outcome is
\* one of the three ways to proceed.
LEMMA WorkStep ==
    ASSUME RefinementInv, NEW r \in Requests, r = Req, Preflight \/ Proceed \/ CallReturns
    PROVE  Serving(r) /\ (GoesOn(r) \/ Fails(r) \/ Succeeds(r))
<1>0. TypeOK /\ r.key \in Keys
  BY ReqType DEF RefinementInv, GatewayInv
<1>w. ASSUME run.stage \in {"preflight", "ready", "marked", "calling"}
      PROVE  /\ Serving(r)
             /\ jobs[r.key] \in JobRow
             /\ jobs[r.key].recon = FALSE
             /\ jobs[r.key].tenant = r.tenant /\ jobs[r.key].fp = Fp(r)
             /\ jobs[r.key].status \in {"Queued", "Processing"}
             /\ jobs[r.key].inflight = (IsGroup(r) /\ run.stage \in {"marked", "calling"})
             /\ jobs[r.key].inflight => jobs[r.key].status = "Processing"
  BY <1>w, WorkingRow DEF Serving
<1>g. (IsGroup(r)) \in BOOLEAN
  BY DEF IsGroup
\* A step that leaves the row as it is.
<1>k. ASSUME UNCHANGED <<jobs, events, queue, reply>>,
             run.stage \in {"preflight", "ready", "marked", "calling"},
             run'.stage \in {"ready", "calling"}
      PROVE  Serving(r) /\ GoesOn(r)
  <2> DEFINE st == jobs[r.key].status
             fl == jobs[r.key].inflight
             stage == run'.stage
  <2>1. st \in {"Queued", "Processing"} /\ fl \in BOOLEAN
        /\ (fl => st = "Processing" /\ IsGroup(r))
    BY <1>k, <1>w DEF JobRow
  <2>2. RowTo(r, st, FALSE, fl, stage)
    BY <1>k, <1>w DEF RowTo
  <2> HIDE DEF st, fl, stage
  <2>3. stage \in {"preflight", "ready", "marked", "calling"}
    BY <1>k DEF stage
  <2> QED BY <2>1, <2>2, <2>3, <1>k, <1>w DEF GoesOn
<1>1. CASE PreflightFails \/ UploadFails \/ Incomplete
  <2>1. run.stage \in {"preflight", "ready"} /\ Fail(FALSE)
        /\ UNCHANGED <<registered, events, queue, wire, clients>>
    BY <1>1 DEF PreflightFails, UploadFails, Incomplete, At
  <2>2. FALSE = (IsGroup(r) /\ run.stage = "calling")
    BY <2>1
  <2> QED BY <2>1, <2>2, FailStep
<1>2. CASE PartThrows
  <2>1. run.stage = "calling" /\ Fail(IsGroup(r))
        /\ UNCHANGED <<registered, events, queue, wire, clients>>
    BY <1>2 DEF PartThrows, At
  <2>2. IsGroup(r) = (IsGroup(r) /\ run.stage = "calling")
    BY <2>1, <1>g
  <2> QED BY <2>1, <2>2, <1>g, FailStep
<1>3. CASE PreflightPasses
  <2>1. run.stage = "preflight" /\ GoTo("ready") /\ UNCHANGED <<jobs, events, queue, reply>>
    BY <1>3 DEF PreflightPasses, At, store, clients
  <2> QED BY <2>1, <1>0, <1>k, GoToStage
<1>4. CASE CallPart
  <2>1. run.stage \in {"marked", "ready"} /\ GoTo("calling") /\ UNCHANGED <<jobs, events, queue, reply>>
    BY <1>4 DEF CallPart, store, clients
  <2> QED BY <2>1, <1>0, <1>k, GoToStage
<1>5. CASE Checkpoint
  <2> DEFINE row == [jobs[r.key] EXCEPT !.status = "Processing", !.inflight = TRUE]
  <2>1. run.stage = "ready" /\ IsGroup(r) /\ jobs' = [jobs EXCEPT ![r.key] = row]
        /\ GoTo("marked") /\ UNCHANGED <<events, queue, reply>>
    BY <1>5 DEF Checkpoint, At, clients
  <2>2. row.status = "Processing" /\ row.recon = FALSE /\ row.inflight = TRUE
        /\ row.tenant = r.tenant /\ row.fp = Fp(r)
    <3>1. /\ jobs[r.key] \in JobRow /\ jobs[r.key].recon = FALSE
          /\ jobs[r.key].tenant = r.tenant /\ jobs[r.key].fp = Fp(r)
      BY <2>1, <1>w
    <3> QED BY <3>1 DEF JobRow
  <2> HIDE DEF row
  <2>3. jobs'[r.key] = row /\ \A l \in Keys \ {r.key} : jobs'[l] = jobs[l]
    BY <1>0, <2>1, RowUpdate
  <2>4. RowTo(r, "Processing", FALSE, TRUE, "marked")
    BY <1>0, <2>1, <2>2, <2>3, GoToStage DEF RowTo
  <2>5. Serving(r) /\ IsGroup(r)
    BY <2>1, <1>w
  <2> QED BY <2>4, <2>5 DEF GoesOn
<1>6. CASE Complete
  <2> DEFINE row == [jobs[r.key] EXCEPT !.status = "Submitted", !.done = Parts(r)]
  <2>1. run.stage = "ready" /\ jobs' = [jobs EXCEPT ![r.key] = row]
        /\ GoTo("record") /\ UNCHANGED <<events, queue, reply>>
    BY <1>6 DEF Complete, At, clients
  <2>2. row.status = "Submitted" /\ row.recon = FALSE /\ row.inflight = FALSE
        /\ row.tenant = r.tenant /\ row.fp = Fp(r)
    <3>1. /\ jobs[r.key] \in JobRow /\ jobs[r.key].recon = FALSE /\ jobs[r.key].inflight = FALSE
          /\ jobs[r.key].tenant = r.tenant /\ jobs[r.key].fp = Fp(r)
      BY <2>1, <1>w
    <3> QED BY <3>1 DEF JobRow
  <2> HIDE DEF row
  <2>3. jobs'[r.key] = row /\ \A l \in Keys \ {r.key} : jobs'[l] = jobs[l]
    BY <1>0, <2>1, RowUpdate
  <2>4. Succeeds(r)
    BY <1>0, <2>1, <2>2, <2>3, GoToStage DEF RowTo, Succeeds
  <2> QED BY <2>1, <2>4, <1>w
<1>7. CASE PartConfirmed
  <2>0. run.stage = "calling" /\ UNCHANGED <<events, queue, reply>> /\ run'.stage = "ready"
    BY <1>7, <1>0 DEF PartConfirmed, At, clients, TypeOK, Run
  <2>1. CASE IsGroup(r)
    <3> DEFINE row == [jobs[r.key] EXCEPT !.done = run.sent + 1, !.inflight = FALSE]
    <3>1. jobs' = [jobs EXCEPT ![r.key] = row]
      BY <1>7, <2>1 DEF PartConfirmed
    <3>2. row.status = jobs[r.key].status /\ row.recon = FALSE /\ row.inflight = FALSE
          /\ row.tenant = r.tenant /\ row.fp = Fp(r)
      <4>1. /\ jobs[r.key] \in JobRow /\ jobs[r.key].recon = FALSE
            /\ jobs[r.key].tenant = r.tenant /\ jobs[r.key].fp = Fp(r)
        BY <2>0, <1>w
      <4> QED BY <4>1 DEF JobRow
    <3> HIDE DEF row
    <3>3. jobs'[r.key] = row /\ \A l \in Keys \ {r.key} : jobs'[l] = jobs[l]
      BY <1>0, <3>1, RowUpdate
    <3>4. RowTo(r, jobs[r.key].status, FALSE, FALSE, "ready")
      BY <2>0, <3>2, <3>3 DEF RowTo
    <3>5. Serving(r) /\ jobs[r.key].status \in {"Queued", "Processing"}
      BY <2>0, <1>w
    <3> QED BY <3>4, <3>5 DEF GoesOn
  <2>2. CASE ~IsGroup(r)
    <3>1. jobs' = jobs
      BY <1>7, <2>2 DEF PartConfirmed
    <3> QED BY <3>1, <2>0, <1>k
  <2> QED BY <2>1, <2>2
<1>8. CASE PartUnconfirmed
  <2>1. CASE IsGroup(r)
    <3>1. run.stage = "calling" /\ Fail(TRUE)
          /\ UNCHANGED <<registered, events, queue, wire, clients>>
      BY <1>8, <2>1 DEF PartUnconfirmed, At
    <3>2. TRUE = (IsGroup(r) /\ run.stage = "calling")
      BY <3>1, <2>1
    <3> QED BY <3>1, <3>2, FailStep
  <2>2. CASE ~IsGroup(r)
    <3>1. run.stage = "calling" /\ run'.stage = "ready" /\ UNCHANGED <<jobs, events, queue, reply>>
      BY <1>8, <2>2, <1>0 DEF PartUnconfirmed, At, clients, TypeOK, Run
    <3> QED BY <3>1, <1>k
  <2> QED BY <2>1, <2>2
<1> QED BY <1>1, <1>2, <1>3, <1>4, <1>5, <1>6, <1>7, <1>8 DEF Preflight, Proceed, CallReturns

\* The first durable write of a closure.
LEMMA BeginStep ==
    ASSUME RefinementInv, NEW r \in Requests, r = Req, Begin
    PROVE  Serving(r) /\ GoesOn(r)
<1>0. TypeOK /\ r.key \in Keys /\ Fp(r).type = r.type
  BY ReqType DEF RefinementInv, GatewayInv
<1> DEFINE kept == IF IsGroup(r) THEN jobs[r.key].done ELSE 0
           row == [tenant |-> IF Exists(r) THEN jobs[r.key].tenant ELSE r.tenant,
                   status |-> "Queued", fp |-> Fp(r), done |-> kept,
                   inflight |-> FALSE, recon |-> FALSE]
<1>1. /\ run.stage = "idle" /\ Busy /\ ~Refused(r) /\ ~NeedsReconciliation(r) /\ ~AlreadySubmitted(r)
      /\ jobs' = [jobs EXCEPT ![r.key] = row] /\ run'.stage = "preflight"
      /\ UNCHANGED <<events, queue, reply>>
  BY DEF Begin, At, clients
<1>2. ~IllFormed(r) /\ (Exists(r) => jobs[r.key].tenant = r.tenant)
  BY <1>1 DEF Refused, ForeignTenant
<1>3. row.tenant = r.tenant
  BY <1>2
<1>3a. row.fp = Fp(r) /\ row.status = "Queued" /\ row.recon = FALSE /\ row.inflight = FALSE
  OBVIOUS
<1> HIDE DEF row
<1>4. jobs'[r.key] = row /\ \A l \in Keys \ {r.key} : jobs'[l] = jobs[l]
  BY <1>0, <1>1, RowUpdate
<1>5. RowTo(r, "Queued", FALSE, FALSE, "preflight")
  BY <1>1, <1>3, <1>3a, <1>4 DEF RowTo
<1>6. jobs[r.key].recon = FALSE /\ jobs[r.key].inflight = FALSE
  <2>1. jobs[r.key].recon \in BOOLEAN /\ jobs[r.key].inflight \in BOOLEAN
    BY <1>0 DEF TypeOK, JobRow
  <2>2. CASE ~Exists(r)
    BY <2>2, <1>0, <2>1 DEF Exists, RefinementInv, MarkInv
  <2>3. CASE IsGroup(r)
    BY <2>3, <2>1, <1>1 DEF NeedsReconciliation
  <2>4. CASE Exists(r) /\ ~IsGroup(r)
    <3>1. jobs[r.key].fp = Fp(r)
      BY <2>4 DEF Exists, RefinementInv, MessageInv
    <3> QED BY <3>1, <2>4, <2>1, <1>0 DEF RefinementInv, MarkInv, IsGroup
  <2> QED BY <2>2, <2>3, <2>4
<1>7. Serving(r)
  BY <1>1, <1>2, <1>6 DEF Serving, AlreadySubmitted
<1> QED BY <1>5, <1>7 DEF GoesOn

-----------------------------------------------------------------------------
(* RefinementInv is inductive *)

MappingInv == MessageInv /\ KeyInv /\ MarkInv

\* Steps that leave the rows alone.
LEMMA QuietInv ==
    ASSUME RefinementInv, UNCHANGED jobs,
           run'.stage # "failing" \/ (run'.stage = run.stage /\ Req' = Req)
    PROVE  MappingInv'
<1>1. MessageInv' /\ KeyInv'
  BY DEF RefinementInv, MessageInv, KeyInv
<1>2. MarkInv'
  BY DEF RefinementInv, MarkInv
<1> QED BY <1>1, <1>2 DEF MappingInv

\* Steps that write the row of the request being served.
LEMMA RowToInv ==
    ASSUME RefinementInv, NEW r, Serving(r), NEW st, NEW rc, NEW fl, NEW stage,
           RowTo(r, st, rc, fl, stage), st # "None",
           rc => st = "Failed" /\ IsGroup(r),
           fl => st \in {"Processing", "Failed"} /\ IsGroup(r),
           stage = "failing" /\ fl => rc
    PROVE  MappingInv'
<1>1. r \in Requests /\ r.key \in Keys /\ Fp(r).type = r.type /\ Req' = r /\ ~IllFormed(r)
  BY ReqType DEF Serving, RowTo, Req
<1>2. MessageInv'
  <2> SUFFICES ASSUME NEW q \in Requests, jobs'[q.key].status # "None"
               PROVE  jobs'[q.key].tenant = q.tenant /\ jobs'[q.key].fp = Fp(q) /\ ~IllFormed(q)
    BY DEF MessageInv, IllFormed, IsGroup, Fp
  <2>1. CASE q.key = r.key
    BY <2>1, <1>1, OneMessagePerKey DEF RowTo
  <2>2. CASE q.key # r.key
    <3>1. jobs'[q.key] = jobs[q.key]
      BY <2>2, ReqType DEF RowTo
    <3> QED BY <3>1 DEF RefinementInv, MessageInv
  <2> QED BY <2>1, <2>2
<1>3. KeyInv'
  <2> SUFFICES ASSUME NEW k \in Keys, jobs'[k].status # "None" PROVE \E q \in Requests : q.key = k
    BY DEF KeyInv
  <2>1. CASE k = r.key
    BY <2>1, <1>1
  <2>2. CASE k # r.key
    BY <2>2 DEF RowTo, RefinementInv, KeyInv
  <2> QED BY <2>1, <2>2
<1>4. MarkInv'
  <2>1. ASSUME NEW k \in Keys
        PROVE  /\ jobs'[k].recon => jobs'[k].status = "Failed" /\ jobs'[k].fp.type = "Group"
               /\ jobs'[k].inflight => /\ jobs'[k].status \in {"Processing", "Failed"}
                                       /\ jobs'[k].fp.type = "Group"
    <3>1. CASE k = r.key
      BY <3>1, <1>1 DEF RowTo, IsGroup
    <3>2. CASE k # r.key
      BY <3>2 DEF RowTo, RefinementInv, MarkInv
    <3> QED BY <3>1, <3>2
  <2>2. run'.stage = "failing" /\ jobs'[r.key].inflight => jobs'[r.key].recon
    BY DEF RowTo
  <2> QED BY <2>1, <2>2, <1>1 DEF MarkInv
<1> QED BY <1>2, <1>3, <1>4 DEF MappingInv

\* So do all three ways to proceed.
LEMMA ProceedInv ==
    ASSUME RefinementInv, NEW r, Serving(r), GoesOn(r) \/ Fails(r) \/ Succeeds(r)
    PROVE  MappingInv'
<1>1. CASE GoesOn(r)
  <2> PICK st \in {"Queued", "Processing"}, fl \in BOOLEAN,
           stage \in {"preflight", "ready", "marked", "calling"} :
        /\ fl => st = "Processing" /\ IsGroup(r)
        /\ RowTo(r, st, FALSE, fl, stage)
    BY <1>1 DEF GoesOn
  <2> QED BY RowToInv
<1>2. CASE Fails(r)
  <2> PICK u \in BOOLEAN : (u => IsGroup(r)) /\ RowTo(r, "Failed", u, u, "failing")
    BY <1>2 DEF Fails
  <2> QED BY RowToInv
<1>3. CASE Succeeds(r)
  BY <1>3, RowToInv DEF Succeeds
<1> QED BY <1>1, <1>2, <1>3

\* The initial state.
LEMMA RefinementInit == Init => RefinementInv
<1> SUFFICES ASSUME Init PROVE RefinementInv
  OBVIOUS
<1>1. GatewayInv
  BY InitInv
<1>2. \A k \in Keys : jobs[k].status = "None" /\ ~jobs[k].recon /\ ~jobs[k].inflight
  BY DEF Init, NoJob
<1>3. MessageInv /\ KeyInv
  BY <1>2, ReqType DEF MessageInv, KeyInv
<1>4. MarkInv
  BY <1>2 DEF MarkInv, Init, Idle
<1> QED BY <1>1, <1>3, <1>4 DEF RefinementInv

\* Every step keeps what the mapping needs.
LEMMA RefinementStep == RefinementInv /\ [Next]_vars => RefinementInv'
<1> SUFFICES ASSUME RefinementInv, [Next]_vars PROVE RefinementInv'
  OBVIOUS
<1>0. GatewayInv' /\ TypeOK
  BY StepInv DEF RefinementInv, GatewayInv
<1>a. AtAwait => run.stage # "failing"
  BY DEF AtAwait, AwaitStages
<1>b. Idle.stage # "failing"
  BY DEF Idle
<1>1. ASSUME NEW c \in Callers, NEW r \in Requests, Submit(c, r) PROVE MappingInv'
  BY <1>1, <1>a, QuietInv DEF Submit, store
<1>2. ASSUME NEW c \in Callers, ClientTimeout(c) PROVE MappingInv'
  <2>1. UNCHANGED <<jobs, run>>
    BY <1>2 DEF ClientTimeout, store
  <2>2. CASE run.stage = "failing"
    <3>1. Len(queue) \in Nat \ {0}
      BY <2>2, <1>0, EmptySeq DEF RefinementInv, GatewayInv, RunInv, Busy, TypeOK
    <3>2. queue'[1].req = queue[1].req
      BY <1>2, <3>1 DEF ClientTimeout
    <3> QED BY <2>1, <3>2, QuietInv DEF Req
  <2>3. CASE run.stage # "failing"
    BY <2>1, <2>3, QuietInv
  <2> QED BY <2>2, <2>3
<1>3. ASSUME Refuse \/ RefuseUncertain \/ Replay \/ AnnounceSubmitted \/ AnnounceFailure \/ Crash
      PROVE MappingInv'
  <2>1. jobs' = jobs /\ run' = Idle
    BY <1>3 DEF Refuse, RefuseUncertain, Replay, AnnounceSubmitted, AnnounceFailure, Crash, Answer, store
  <2> QED BY <2>1, <1>b, QuietInv
<1>4. ASSUME Begin PROVE MappingInv'
  <2> PICK r \in Requests : r = Req
    BY <1>4, <1>0, CurrentRequest DEF Begin, At
  <2> QED BY <1>4, BeginStep, ProceedInv
<1>5. ASSUME Preflight \/ Proceed \/ CallReturns PROVE MappingInv'
  <2>1. Busy
    BY <1>5 DEF Preflight, Proceed, CallReturns, PreflightFails, PreflightPasses, UploadFails,
             Checkpoint, CallPart, Incomplete, Complete, PartConfirmed, PartUnconfirmed, PartThrows, At
  <2> PICK r \in Requests : r = Req
    BY <2>1, <1>0, CurrentRequest
  <2> QED BY <1>5, WorkStep, ProceedInv
<1>6. ASSUME RecordMessages PROVE MappingInv'
  <2>1. UNCHANGED jobs /\ run'.stage = "announce"
    BY <1>6, <1>0, GoToStage DEF RecordMessages
  <2> QED BY <2>1, QuietInv
<1>7. ASSUME NEW k \in Keys, NEW s \in {"Acknowledged", "Failed"}, Receipt(k, s) PROVE MappingInv'
  BY <1>7, <1>a, QuietInv DEF Receipt, memory
<1>8. ASSUME UNCHANGED vars PROVE MappingInv'
  BY <1>8, QuietInv DEF vars, Req
<1>9. MappingInv'
  BY <1>1, <1>2, <1>3, <1>4, <1>5, <1>6, <1>7, <1>8 DEF Next, Step, Start, Settle
<1> QED BY <1>0, <1>9 DEF RefinementInv, MappingInv

\* What the mapping needs of the tables holds in every reachable state.
THEOREM MappingSound == Spec => []RefinementInv
BY RefinementInit, RefinementStep, PTL DEF Spec

-----------------------------------------------------------------------------
(* Every step is a step of the contract, or a stutter *)

\* The request being served is the first of the abstract inbox.
LEMMA ServedKey ==
    ASSUME TypeOK, Busy
    PROVE  Contract!Pending /\ Contract!Key = Req.key /\ Req.key \in Keys
           /\ Inbox[1].caller = queue[1].caller
<1>1. Len(queue) \in Nat \ {0} /\ Inbox # <<>>
  BY InboxType, EmptySeq DEF TypeOK, Busy
<1>2. Inbox[1].key = queue[1].req.key /\ Inbox[1].caller = queue[1].caller
  BY <1>1, InboxType
<1>3. Req.key \in Keys
  BY CurrentRequest, ReqType
<1> QED BY <1>1, <1>2, <1>3 DEF Contract!Pending, Contract!Key, Req

\* A closure that settles answers its request in the contract.
LEMMA AnswerSettles ==
    ASSUME TypeOK, Busy, NEW a, Answer(a)
    PROVE  Contract!Settled(a)
<1>1. Inbox' = Tail(Inbox)
  BY InboxTail DEF Answer
<1>2. Decided' = FALSE
  BY DEF Answer, Idle, Decided
<1>3. reply' = IF Inbox[1].caller = Gone THEN reply
               ELSE [reply EXCEPT ![Inbox[1].caller] = a]
  BY ServedKey DEF Answer
<1> QED BY <1>1, <1>2, <1>3 DEF Contract!Settled

\* When a closure ends without an unexplained inflight mark, no outcome changes.
LEMMA OutcomesAtRest ==
    ASSUME RefinementInv, UNCHANGED jobs, run' = Idle,
           run.stage \in {"idle", "announce", "failing"}
    PROVE  Outcomes' = Outcomes
<1> SUFFICES ASSUME NEW k \in Keys PROVE OutcomeOf(k)' = OutcomeOf(k)
  BY DEF Outcomes
<1>1. ~Running(k)'
  BY DEF Running, Idle
<1>2. Running(k) /\ jobs[k].inflight => jobs[k].recon
  <2>1. CASE run.stage = "idle"
    BY <2>1 DEF Running
  <2>2. CASE run.stage = "failing"
    BY <2>2 DEF Running, RefinementInv, MarkInv
  <2>3. CASE run.stage = "announce"
    BY <2>3 DEF Running, RefinementInv, MarkInv, GatewayInv, RunInv
  <2> QED BY <2>1, <2>2, <2>3
<1> QED BY <1>1, <1>2 DEF OutcomeOf

\* While a request is served and open, so is its key in the contract.
LEMMA ServingOpen ==
    ASSUME RefinementInv, NEW r, Serving(r)
    PROVE  /\ r.key \in Keys /\ Outcomes[r.key] = "open" /\ ~Decided
           /\ Contract!Pending /\ Contract!Key = r.key
<1>1. r.key \in Keys /\ Contract!Pending /\ Contract!Key = r.key
  BY ServedKey DEF Serving, RefinementInv, GatewayInv
<1>2. OutcomeOf(r.key) = "open"
  BY DEF Serving, OutcomeOf, Running
<1>3. ~Decided
  BY DEF Serving, Decided
<1> QED BY <1>1, <1>2, <1>3 DEF Outcomes

\* The outcome that a row with these fields has while its closure runs.
Became(st, rc) == IF st = "Submitted" THEN "submitted" ELSE IF rc THEN "blocked" ELSE "open"

\* What writing the row of the request being served does to the outcomes.
LEMMA RowToOutcomes ==
    ASSUME RefinementInv, NEW r, Serving(r), NEW st, NEW rc \in BOOLEAN, NEW fl \in BOOLEAN, NEW stage,
           RowTo(r, st, rc, fl, stage), stage # "idle"
    PROVE  /\ Outcomes' = [Outcomes EXCEPT ![r.key] = Became(st, rc)]
           /\ Inbox' = Inbox /\ EventLog' = EventLog /\ reply' = reply /\ Req' = r
<1>1. Inbox' = Inbox /\ EventLog' = EventLog /\ reply' = reply /\ Req' = r /\ r.key \in Keys /\ Req = r
  BY ServingOpen DEF RowTo, Inbox, EventLog, Req, Serving
<1>2. ASSUME NEW k \in Keys, k # r.key PROVE OutcomeOf(k)' = OutcomeOf(k)
  <2>1. jobs'[k] = jobs[k] /\ ~Running(k) /\ ~Running(k)'
    BY <1>2, <1>1 DEF RowTo, Running
  <2> QED BY <2>1 DEF OutcomeOf
<1>3. OutcomeOf(r.key)' = Became(st, rc)
  <2>1. Running(r.key)'
    BY <1>1 DEF Running, RowTo
  <2> QED BY <2>1 DEF OutcomeOf, RowTo, Became
<1>4. Outcomes' = [Outcomes EXCEPT ![r.key] = Became(st, rc)]
  BY <1>1, <1>2, <1>3 DEF Outcomes
<1> QED BY <1>1, <1>4

\* The steps of a closure that leave its outcome open stutter; the others decide.
LEMMA ProceedRefines ==
    ASSUME RefinementInv, NEW r, Serving(r), GoesOn(r) \/ Fails(r) \/ Succeeds(r)
    PROVE  \/ \E o \in {"submitted", "blocked"} : Contract!Decide(o)
           \/ UNCHANGED Contract!contractVars
<1>0. /\ r.key \in Keys /\ Outcomes[r.key] = "open" /\ Decided = FALSE
      /\ Contract!Pending /\ Contract!Key = r.key /\ r \in Requests
  BY ServingOpen DEF Serving, Decided
<1>s. ASSUME Outcomes' = [Outcomes EXCEPT ![r.key] = "open"], Decided' = FALSE,
             Inbox' = Inbox, EventLog' = EventLog, reply' = reply
      PROVE  UNCHANGED Contract!contractVars
  <2>1. Outcomes' = Outcomes
    BY <1>0, <1>s DEF Outcomes
  <2> QED BY <2>1, <1>0, <1>s DEF Contract!contractVars
<1>1. CASE GoesOn(r)
  <2> PICK st \in {"Queued", "Processing"}, fl \in BOOLEAN,
           stage \in {"preflight", "ready", "marked", "calling"} :
        RowTo(r, st, FALSE, fl, stage)
    BY <1>1 DEF GoesOn
  <2>1. /\ Outcomes' = [Outcomes EXCEPT ![r.key] = "open"]
        /\ Inbox' = Inbox /\ EventLog' = EventLog /\ reply' = reply
    <3> DEFINE rc == FALSE
    <3>1. Became(st, rc) = "open" /\ rc \in BOOLEAN /\ stage # "idle"
      BY DEF Became
    <3>2. RowTo(r, st, rc, fl, stage)
      OBVIOUS
    <3> HIDE DEF rc
    <3> QED BY <3>1, <3>2, RowToOutcomes
  <2>2. Decided' = FALSE
    BY DEF RowTo, Decided
  <2> QED BY <2>1, <2>2, <1>s
<1>2. CASE Fails(r)
  <2> PICK u \in BOOLEAN : (u => IsGroup(r)) /\ RowTo(r, "Failed", u, u, "failing")
    BY <1>2 DEF Fails
  <2> DEFINE o == IF u THEN "blocked" ELSE "open"
  <2>1. /\ Outcomes' = [Outcomes EXCEPT ![r.key] = o]
        /\ Inbox' = Inbox /\ EventLog' = EventLog /\ reply' = reply /\ Req' = r
    <3>1. Became("Failed", u) = o
      BY DEF Became
    <3> HIDE DEF o
    <3> QED BY <3>1, RowToOutcomes
  <2>2. Decided' = u
    BY <2>1 DEF RowTo, Decided
  <2>3. CASE u = FALSE
    BY <2>1, <2>2, <2>3, <1>s
  <2>4. CASE u = TRUE
    <3>1. r.key \in Groups
      BY <2>4, <1>0 DEF Groups
    <3> QED BY <3>1, <2>1, <2>2, <2>4, <1>0 DEF Contract!Decide
  <2> QED BY <2>3, <2>4
<1>3. CASE Succeeds(r)
  <2>1. /\ Outcomes' = [Outcomes EXCEPT ![r.key] = "submitted"]
        /\ Inbox' = Inbox /\ EventLog' = EventLog /\ reply' = reply
    <3> DEFINE no == FALSE
    <3>1. Became("Submitted", no) = "submitted" /\ no \in BOOLEAN
      BY DEF Became
    <3>2. RowTo(r, "Submitted", no, no, "record")
      BY <1>3 DEF Succeeds
    <3> HIDE DEF no
    <3> QED BY <3>1, <3>2, RowToOutcomes
  <2>2. Decided' = TRUE
    BY <1>3 DEF Succeeds, RowTo, Decided
  <2> QED BY <2>1, <2>2, <1>0 DEF Contract!Decide
<1> QED BY <1>1, <1>2, <1>3

\* A client that asks, and one that waits no longer.
LEMMA ClientsRefine ==
    ASSUME RefinementInv, TypeOK', NEW c \in Callers,
           ClientTimeout(c) \/ \E r \in Requests : Submit(c, r)
    PROVE  Contract!Abandon(c) \/ \E k \in Keys : Contract!Ask(c, k)
<1>0. TypeOK /\ RunInv
  BY DEF RefinementInv, GatewayInv
<1>r. ASSUME UNCHANGED <<jobs, events, run>>, run.stage # "idle" => Req' = Req
      PROVE  Outcomes' = Outcomes /\ EventLog' = EventLog /\ Decided' = Decided
  <2>1. EventLog' = EventLog
    BY <1>r DEF EventLog
  <2>2. Decided' = Decided
    BY <1>r DEF Decided
  <2>3. ASSUME NEW k \in Keys PROVE OutcomeOf(k)' = OutcomeOf(k)
    BY <1>r DEF OutcomeOf, Running
  <2> QED BY <2>1, <2>2, <2>3 DEF Outcomes
<1>b. run.stage # "idle" => Len(queue) \in Nat \ {0}
  BY <1>0, EmptySeq DEF RunInv, Busy, TypeOK
<1>1. ASSUME ClientTimeout(c) PROVE Contract!Abandon(c)
  <2>1. UNCHANGED <<jobs, events, run>>
    BY <1>1 DEF ClientTimeout, store
  <2>2. run.stage # "idle" => Req' = Req
    BY <1>1, <1>b DEF ClientTimeout, Req
  <2>3. Inbox' = [i \in 1 .. Len(Inbox) |->
                        IF Inbox[i].caller = c
                        THEN [caller |-> Gone, key |-> Inbox[i].key] ELSE Inbox[i]]
    BY <1>1, <1>0, InboxAbandon DEF ClientTimeout
  <2>4. reply[c] = "waiting" /\ reply' = [reply EXCEPT ![c] = "unavailable"]
    BY <1>1 DEF ClientTimeout
  <2> QED BY <1>r, <2>1, <2>2, <2>3, <2>4 DEF Contract!Abandon
<1>2. ASSUME NEW r \in Requests, Submit(c, r) PROVE Contract!Ask(c, r.key) /\ r.key \in Keys
  <2>1. /\ UNCHANGED <<jobs, events, run>> /\ reply[c] # "waiting"
        /\ reply' = [reply EXCEPT ![c] = "waiting"]
        /\ queue' = Append(queue, [caller |-> c, req |-> r])
    BY <1>2 DEF Submit, store
  <2>2. run.stage # "idle" => Req' = Req
    <3> DEFINE e == [caller |-> c, req |-> r]
    <3>1. queue \in Seq(Entry) /\ e \in Entry
      BY <1>0 DEF TypeOK, Entry
    <3> HIDE DEF e
    <3>2. run.stage # "idle" => Append(queue, e)[1] = queue[1]
      BY <3>1, <1>b
    <3> QED BY <2>1, <3>2 DEF Req, e
  <2>3. Inbox' = Append(Inbox, [caller |-> c, key |-> r.key])
    BY <1>0, <2>1, InboxAppend
  <2>4. r.key \in Keys
    BY ReqType
  <2> QED BY <1>r, <2>1, <2>2, <2>3, <2>4 DEF Contract!Ask
<1> QED BY <1>1, <1>2

\* The checks at the start of a closure that end it at once: the refusals and
\* the replay of an earlier success.
LEMMA ChecksRefine ==
    ASSUME RefinementInv, Refuse \/ RefuseUncertain \/ Replay
    PROVE  Contract!AnswerFailed \/ Contract!AnswerUncertain \/ Contract!AnswerOk
<1>0. TypeOK /\ At("idle") /\ Busy /\ run.stage = "idle"
  BY DEF RefinementInv, GatewayInv, Refuse, RefuseUncertain, Replay, At
<1> PICK r \in Requests : r = Req
  BY <1>0, CurrentRequest
<1>1. r.key \in Keys /\ Contract!Pending /\ Contract!Key = r.key /\ Fp(r).type = r.type
  BY <1>0, ServedKey, ReqType
<1>2. jobs' = jobs /\ events' = events /\ run' = Idle
  BY DEF Refuse, RefuseUncertain, Replay, Answer, store
<1>3. Outcomes' = Outcomes /\ EventLog' = EventLog
  BY <1>0, <1>2, OutcomesAtRest DEF EventLog
<1>4. ~Decided /\ ~Running(r.key)
  BY <1>0 DEF Decided, Running
<1>5. Outcomes[r.key] = OutcomeOf(r.key)
  BY <1>1 DEF Outcomes
<1>6. /\ Exists(r) => jobs[r.key].tenant = r.tenant /\ jobs[r.key].fp = Fp(r) /\ ~IllFormed(r)
      /\ jobs[r.key].recon => jobs[r.key].status = "Failed" /\ jobs[r.key].fp.type = "Group"
      /\ jobs[r.key].inflight => jobs[r.key].status \in {"Processing", "Failed"} /\ jobs[r.key].fp.type = "Group"
  BY <1>1 DEF RefinementInv, MessageInv, MarkInv, Exists
<1>7. /\ ~ForeignTenant(r) /\ ~FingerprintChanged(r)
      /\ IllFormed(r) => ~Exists(r)
      /\ jobs[r.key].recon \/ jobs[r.key].inflight => IsGroup(r) /\ Exists(r) /\ ~AlreadySubmitted(r)
  BY <1>1, <1>6 DEF ForeignTenant, FingerprintChanged, IsGroup, Exists, AlreadySubmitted
<1>8. CASE Refuse
  <2>1. Contract!Settled("failed")
    BY <1>8, <1>0, AnswerSettles DEF Refuse
  <2>2. IllFormed(r) \/ (~NeedsReconciliation(r) /\ ~AlreadySubmitted(r))
    BY <1>8, <1>7 DEF Refuse, Refused
  <2>3. ~AlreadySubmitted(r) /\ ~jobs[r.key].recon /\ ~jobs[r.key].inflight
    BY <2>2, <1>7 DEF NeedsReconciliation, Exists, AlreadySubmitted
  <2>4. Outcomes[r.key] = "open"
    BY <2>3, <1>5 DEF OutcomeOf, AlreadySubmitted
  <2> QED BY <2>1, <2>4, <1>1, <1>3 DEF Contract!AnswerFailed
<1>9. CASE RefuseUncertain
  <2>1. Contract!Settled("uncertain")
    BY <1>9, <1>0, AnswerSettles DEF RefuseUncertain
  <2>2. jobs[r.key].recon \/ jobs[r.key].inflight
    BY <1>9 DEF RefuseUncertain, NeedsReconciliation
  <2>3. Outcomes[r.key] = "blocked"
    BY <2>2, <1>4, <1>5, <1>7 DEF OutcomeOf, AlreadySubmitted
  <2> QED BY <2>1, <2>3, <1>1, <1>3, <1>4 DEF Contract!AnswerUncertain, Contract!ReportDecision
<1>10. CASE Replay
  <2>1. Contract!Settled("ok")
    BY <1>10, <1>0, AnswerSettles DEF Replay
  <2>2. Outcomes[r.key] = "submitted"
    BY <1>10, <1>5 DEF Replay, AlreadySubmitted, OutcomeOf
  <2> QED BY <2>1, <2>2, <1>1, <1>3, <1>4 DEF Contract!AnswerOk, Contract!ReportDecision
<1> QED BY <1>8, <1>9, <1>10

\* The end of a closure that has tried: its event and its answer.
LEMMA AnnounceRefines ==
    ASSUME RefinementInv, AnnounceSubmitted \/ AnnounceFailure
    PROVE  Contract!AnswerFailed \/ Contract!AnswerUncertain \/ Contract!AnswerOk
<1>0. TypeOK /\ Busy /\ run.stage \in {"announce", "failing"}
  BY DEF RefinementInv, GatewayInv, AnnounceSubmitted, AnnounceFailure, At
<1> PICK r \in Requests : r = Req
  BY <1>0, CurrentRequest
<1>1. r.key \in Keys /\ Contract!Pending /\ Contract!Key = r.key /\ r.tenant \in Tenants
  BY <1>0, ServedKey, ReqType
<1>2. jobs' = jobs /\ run' = Idle
  BY DEF AnnounceSubmitted, AnnounceFailure, Answer
<1>3. Outcomes' = Outcomes
  BY <1>0, <1>2, OutcomesAtRest
<1>4. Outcomes[r.key] = OutcomeOf(r.key) /\ Running(r.key)
  BY <1>0, <1>1 DEF Outcomes, Running
<1>5. CASE AnnounceSubmitted
  <2>1. Contract!Settled("ok")
    BY <1>5, <1>0, AnswerSettles DEF AnnounceSubmitted
  <2>2. run.stage = "announce" /\ AddEvent(r.key, r.tenant, "Submitted")
    BY <1>5 DEF AnnounceSubmitted, At
  <2>3. Outcomes[r.key] = "submitted" /\ Decided
    BY <2>2, <1>4 DEF OutcomeOf, Decided, RefinementInv, GatewayInv, RunInv
  <2>4. EventLog' = Append(EventLog, [key |-> r.key, status |-> "Submitted"])
    BY <2>2, <1>0, <1>1, LogAppend
  <2> QED BY <2>1, <2>3, <2>4, <1>1, <1>3 DEF Contract!AnswerOk, Contract!ReportDecision, Contract!Report
<1>6. CASE AnnounceFailure
  <2>1. run.stage = "failing" /\ AddEvent(r.key, r.tenant, "Failed")
    BY <1>6 DEF AnnounceFailure, At
  <2>2. EventLog' = Append(EventLog, [key |-> r.key, status |-> "Failed"])
    BY <2>1, <1>0, <1>1, LogAppend
  <2>3. jobs[r.key].status = "Failed"
    BY <2>1 DEF RefinementInv, GatewayInv, RunInv
  <2>4. CASE jobs[r.key].recon
    <3>1. Contract!Settled("uncertain")
      BY <1>6, <1>0, <2>4, AnswerSettles DEF AnnounceFailure
    <3>2. Outcomes[r.key] = "blocked" /\ Decided
      BY <2>1, <2>3, <2>4, <1>4 DEF OutcomeOf, Decided
    <3> QED BY <3>1, <3>2, <2>2, <1>1, <1>3
            DEF Contract!AnswerUncertain, Contract!ReportDecision, Contract!Report
  <2>5. CASE ~jobs[r.key].recon
    <3>1. Contract!Settled("failed")
      BY <1>6, <1>0, <2>5, AnswerSettles DEF AnnounceFailure
    <3>2. Outcomes[r.key] = "open"
      BY <2>3, <2>5, <1>4 DEF OutcomeOf
    <3> QED BY <3>1, <3>2, <2>2, <1>1, <1>3 DEF Contract!AnswerFailed, Contract!Report
  <2> QED BY <2>4, <2>5
<1> QED BY <1>5, <1>6

\* addMessage changes nothing that the contract speaks of.
LEMMA RecordStutters ==
    ASSUME RefinementInv, RecordMessages PROVE UNCHANGED Contract!contractVars
<1>1. /\ UNCHANGED <<jobs, events, queue, reply>> /\ run.stage = "record" /\ run'.stage = "announce"
  BY GoToStage DEF RecordMessages, At, clients, RefinementInv, GatewayInv
<1>2. Decided = TRUE /\ Decided' = TRUE
  BY <1>1 DEF Decided
<1>3. Inbox' = Inbox /\ EventLog' = EventLog
  BY <1>1 DEF Inbox, EventLog
<1>4. ASSUME NEW k \in Keys PROVE OutcomeOf(k)' = OutcomeOf(k)
  BY <1>1 DEF OutcomeOf, Running, Req
<1>5. Outcomes' = Outcomes
  BY <1>4 DEF Outcomes
<1> QED BY <1>1, <1>2, <1>3, <1>5 DEF Contract!contractVars

\* A receipt that finds its job is a notification of the contract.
LEMMA ReceiptRefines ==
    ASSUME RefinementInv, NEW k \in Keys, NEW s \in {"Acknowledged", "Failed"}, Receipt(k, s)
    PROVE  Contract!Notify(k, s)
<1>0. TypeOK
  BY DEF RefinementInv, GatewayInv
<1>1. /\ run.stage \in AwaitStages /\ k \in registered
      /\ s = "Failed" => jobs[k].fp.provider = "Official API"
      /\ UNCHANGED <<jobs, queue, run, reply>>
      /\ AddEvent(k, jobs[k].tenant, s)
  BY DEF Receipt, AtAwait, memory, clients
<1>2. jobs[k].status = "Submitted"
  BY <1>1 DEF RefinementInv, GatewayInv, EventInv
<1>3. PICK r \in Requests : r.key = k
  BY <1>2 DEF RefinementInv, KeyInv
<1>4. jobs[k].tenant = r.tenant /\ jobs[k].fp = Fp(r) /\ ~IllFormed(r)
  BY <1>2, <1>3 DEF RefinementInv, MessageInv
<1>5. r.tenant \in Tenants /\ Fp(r).provider = r.provider
  BY ReqType DEF Fp
<1>6. s = "Failed" => k \in Cloud
  <2> SUFFICES ASSUME s = "Failed" PROVE k \in Cloud
    OBVIOUS
  <2>1. r.provider = "Official API"
    BY <1>1, <1>4, <1>5
  <2>2. ~IsGroup(r)
    BY <2>1, <1>4 DEF IllFormed
  <2> QED BY <1>3, <2>1, <2>2 DEF Cloud
<1>7. EventLog' = Append(EventLog, [key |-> k, status |-> s])
  BY <1>0, <1>1, <1>4, <1>5, LogAppend
<1>8. ~Decided /\ ~Decided'
  BY <1>1 DEF Decided, AwaitStages
<1>9. Outcomes[k] = "submitted"
  BY <1>2 DEF Outcomes, OutcomeOf
<1>10. Outcomes' = Outcomes /\ Inbox' = Inbox
  BY <1>1 DEF Outcomes, OutcomeOf, Running, Req, Inbox
<1>11. Decided' = Decided
  BY <1>1 DEF Decided, Req
<1> QED BY <1>1, <1>6, <1>7, <1>8, <1>9, <1>10, <1>11 DEF Contract!Notify, Contract!Report

\* A crash: the group part that was being handed over blocks its key.
LEMMA CrashRefines ==
    ASSUME RefinementInv, Crash PROVE Contract!Die
<1>0. TypeOK /\ Busy
  BY DEF RefinementInv, GatewayInv, Crash
<1> PICK r \in Requests : r = Req
  BY <1>0, CurrentRequest
<1>1. r.key \in Keys /\ Contract!Pending /\ Contract!Key = r.key /\ Fp(r).type = r.type
  BY <1>0, ServedKey, ReqType
<1>2. /\ jobs' = jobs /\ events' = events /\ queue' = <<>> /\ run' = Idle
      /\ reply' = [c \in Callers |-> IF reply[c] = "waiting" THEN "unavailable" ELSE reply[c]]
  BY DEF Crash, store
<1>3. Decided' = FALSE /\ EventLog' = EventLog
  BY <1>2 DEF Decided, EventLog, Idle
<1>4. Inbox' = <<>>
  <2>1. queue' \in Seq(Entry) /\ queue' = <<>>
    BY <1>2
  <2>2. Inbox' = BoxOf(queue')
    BY DEF Inbox, BoxOf
  <2> QED BY <2>1, <2>2, BoxType
<1>5. ASSUME NEW k \in Keys PROVE ~Running(k)'
  BY <1>2 DEF Running, Idle
<1>6. ASSUME NEW k \in Keys, k # r.key PROVE OutcomeOf(k)' = OutcomeOf(k)
  <2>1. ~Running(k)
    BY <1>6 DEF Running
  <2> QED BY <2>1, <1>5, <1>2 DEF OutcomeOf
<1>7. CASE OutcomeOf(r.key)' = OutcomeOf(r.key)
  <2>1. Outcomes' = Outcomes
    BY <1>6, <1>7 DEF Outcomes
  <2> QED BY <2>1, <1>1, <1>2, <1>3, <1>4 DEF Contract!Die
<1>8. CASE OutcomeOf(r.key)' # OutcomeOf(r.key)
  <2>1. jobs[r.key].status # "Submitted" /\ ~jobs[r.key].recon /\ jobs[r.key].inflight /\ Running(r.key)
    BY <1>8, <1>1, <1>2, <1>5 DEF OutcomeOf
  <2>2. OutcomeOf(r.key) = "open" /\ OutcomeOf(r.key)' = "blocked"
    BY <2>1, <1>1, <1>2, <1>5 DEF OutcomeOf
  <2>3. IsGroup(r)
    <3>1. jobs[r.key].fp.type = "Group" /\ jobs[r.key].status # "None"
      BY <2>1, <1>1 DEF RefinementInv, MarkInv
    <3>2. jobs[r.key].fp = Fp(r)
      BY <3>1 DEF RefinementInv, MessageInv
    <3> QED BY <3>1, <3>2, <1>1 DEF IsGroup
  <2>4. r.key \in Groups
    BY <2>3 DEF Groups
  <2>5. Outcomes[r.key] = "open" /\ Outcomes' = [Outcomes EXCEPT ![r.key] = "blocked"]
    BY <2>2, <1>1, <1>6 DEF Outcomes
  <2> QED BY <2>4, <2>5, <1>1, <1>2, <1>3, <1>4 DEF Contract!Die
<1> QED BY <1>7, <1>8

-----------------------------------------------------------------------------
\* The initial state of the gateway is the contract's.
LEMMA InitRefines == Init => Contract!ContractInit
<1> SUFFICES ASSUME Init PROVE Contract!ContractInit
  OBVIOUS
<1>1. \A k \in Keys : OutcomeOf(k) = "open"
  BY DEF Init, NoJob, OutcomeOf
<1>2. Outcomes = [k \in Keys |-> "open"]
  BY <1>1 DEF Outcomes
<1>3. Inbox = <<>>
  <2>1. queue \in Seq(Entry) /\ queue = <<>> /\ Inbox = BoxOf(queue)
    BY DEF Init, Inbox, BoxOf
  <2> QED BY <2>1, BoxType
<1>4. EventLog = <<>>
  BY DEF Init, EventLog
<1>5. Decided = FALSE
  BY DEF Init, Idle, Decided
<1> QED BY <1>2, <1>3, <1>4, <1>5 DEF Contract!ContractInit, Init

\* Every step of the gateway is a step of the contract or a stutter.
LEMMA StepRefines ==
    ASSUME RefinementInv, TypeOK', [Next]_vars
    PROVE  [Contract!ContractNext]_(Contract!contractVars)
<1>0. TypeOK
  BY DEF RefinementInv, GatewayInv
<1>1. ASSUME NEW c \in Callers, ClientTimeout(c) \/ \E r \in Requests : Submit(c, r)
      PROVE  Contract!ContractNext
  BY <1>1, ClientsRefine DEF Contract!ContractNext
<1>2. ASSUME Refuse \/ RefuseUncertain \/ Replay \/ AnnounceSubmitted \/ AnnounceFailure
      PROVE  Contract!ContractNext
  BY <1>2, ChecksRefine, AnnounceRefines DEF Contract!ContractNext, Contract!Serve
<1>3. ASSUME Begin \/ Preflight \/ Proceed \/ CallReturns
      PROVE  Contract!ContractNext \/ UNCHANGED Contract!contractVars
  <2>1. Busy
    BY <1>3 DEF Begin, Preflight, Proceed, CallReturns, PreflightFails, PreflightPasses, UploadFails,
             Checkpoint, CallPart, Incomplete, Complete, PartConfirmed, PartUnconfirmed, PartThrows, At
  <2> PICK r \in Requests : r = Req
    BY <2>1, <1>0, CurrentRequest
  <2>2. Serving(r) /\ (GoesOn(r) \/ Fails(r) \/ Succeeds(r))
    BY <1>3, BeginStep, WorkStep
  <2> QED BY <2>2, ProceedRefines DEF Contract!ContractNext, Contract!Serve
<1>4. ASSUME RecordMessages PROVE UNCHANGED Contract!contractVars
  BY <1>4, RecordStutters
<1>5. ASSUME NEW k \in Keys, NEW s \in {"Acknowledged", "Failed"}, Receipt(k, s)
      PROVE  Contract!ContractNext
  BY <1>5, ReceiptRefines DEF Contract!ContractNext
<1>6. ASSUME Crash PROVE Contract!ContractNext
  BY <1>6, CrashRefines DEF Contract!ContractNext
<1>7. ASSUME UNCHANGED vars PROVE UNCHANGED Contract!contractVars
  BY <1>7 DEF vars, Contract!contractVars, Outcomes, OutcomeOf, Running, Req, EventLog, Inbox, Decided
<1> QED BY <1>1, <1>2, <1>3, <1>4, <1>5, <1>6, <1>7 DEF Next, Step, Start, Settle

\* The gateway's send path implements its contract: when each idempotency key
\* stands for one message, outcomes are final, success is answered and reported
\* only for messages that were submitted, and reported at most once, whatever
\* retries, time-outs and crashes there are.
THEOREM Implementation == Spec => ImplementsContract
<1>1. RefinementInv => TypeOK
  BY DEF RefinementInv, GatewayInv
<1>2. RefinementInv /\ RefinementInv' /\ [Next]_vars => [Contract!ContractNext]_(Contract!contractVars)
  <2>1. RefinementInv' => TypeOK'
    BY DEF RefinementInv, GatewayInv
  <2> QED BY <2>1, StepRefines
<1> QED BY <1>2, InitRefines, MappingSound, PTL DEF Spec, ImplementsContract, Contract!ContractSpec

=============================================================================
