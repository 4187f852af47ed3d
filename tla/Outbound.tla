------------------------------ MODULE Outbound ------------------------------
(***************************************************************************)
(* The site's outbound queue: delivery history rows, the background        *)
(* workers that run process_outbound_message, the scheduler pass           *)
(* (retry_due_messages, then sync_delivery_statuses) and the release of    *)
(* group copies (outbound.py, company_groups.py, _store_delivery of        *)
(* api.py), composed with the gateway as GatewayContract describes it.     *)
(*                                                                         *)
(* Frappe is external and modelled by what this code relies on.  A worker  *)
(* job, and a scheduler pass, is one database transaction that is          *)
(* committed at its end and rolled back by an exception.  It reads the     *)
(* snapshot of its start.  document.save locks the row, writes every       *)
(* column as the document holds it, and is refused when another save was   *)
(* committed since the document was read.  db.set_value locks the row and  *)
(* writes the named columns only, and other documents do not notice it     *)
(* (update_modified=False).  Locks are held to the end of the transaction. *)
(* A job that raises is not run again, except by Frappe when it gave up    *)
(* waiting for a lock.  So the status Processing, which is saved and       *)
(* overwritten in one transaction, is never committed.                     *)
(***************************************************************************)
EXTENDS GatewayContract, FiniteSets

CONSTANTS
    CopyOf,      \* group copy -> its primary delivery
    MaxRetries,  \* settings.maximum_retries
    BatchSize,   \* most events one /v1/events request returns (code: 200)
    Sched,       \* the scheduler, as the holder of a row lock
    Free,        \* no holder
    MaxFaults,   \* bound: crashes, lock time-outs, lost enqueues, failed passes
    MaxLog       \* bound: receipts arrive while the event log is shorter

Workers == Callers
Deliveries == Keys
Primaries == Keys \ Groups

ASSUME OutboundAssumption ==
    /\ CopyOf \in [Groups -> Primaries]
    /\ \A c \in Groups : CopyOf[c] \notin Cloud
    /\ MaxRetries \in Nat /\ BatchSize \in Nat \ {0}
    /\ MaxFaults \in Nat /\ MaxLog \in Nat
    /\ Sched \notin Workers /\ Free \notin Workers \cup {Sched}

VARIABLES
    rows,        \* committed history rows
    locks,       \* row -> holder of its lock
    jobs,        \* background jobs waiting for a worker
    work,        \* worker -> its transaction
    pass,        \* the scheduler pass
    lastEvent,   \* settings.last_event_id, committed
    asks,        \* history: send requests made, per delivery
    faults       \* faults so far

siteVars == <<rows, locks, jobs, work, pass, lastEvent, asks, faults>>
allVars == <<siteVars, contractVars>>

-----------------------------------------------------------------------------
(* Rows, jobs and transactions *)

TerminalM(row) == row.status \in {"Submitted", "Acknowledged", "Failed"}
Terminal(row) == row.status \in {"Submitted", "Acknowledged"}
Releasable(row) == row.status \in {"Waiting", "Queued"}
AttemptLimit == IF MaxRetries + 1 > 1 THEN MaxRetries + 1 ELSE 1

\* retry stands for next_retry_at: none, in the future, or reached.
Row == [status : {"Absent", "Waiting", "Queued", "Processing",
                  "Submitted", "Acknowledged", "Failed"},
        attempts : 0 .. AttemptLimit,
        retry : {"none", "later", "due"},
        recon : BOOLEAN,
        ids : BOOLEAN]           \* provider_message_ids is filled
NoRow == [status |-> "Absent", attempts |-> 0, retry |-> "none",
          recon |-> FALSE, ids |-> FALSE]

\* A job id: whatsapp:<name> (n = 0) or whatsapp-retry:<name>:<n>.
JobIds == [d : Deliveries, n : 0 .. AttemptLimit + 1]
BaseJob(d) == [d |-> d, n |-> 0]
RetryJob(d) == [d |-> d, n |-> rows[d].attempts + 1]
Copies(d) == {c \in Groups : CopyOf[c] = d}

IdleWork == [stage |-> "idle", job |-> {}, doc |-> NoRow, fresh |-> TRUE,
             kids |-> {}, freed |-> {}, later |-> {}]
IdlePass == [stage |-> "idle", seen |-> {}, copies |-> {}, due |-> {}, cursor |-> 0,
             upto |-> 0, later |-> {}, buf |-> [d \in Deliveries |-> NoRow]]

JobOf(w) == CHOOSE j \in work[w].job : TRUE
Doc(w) == JobOf(w).d
At(w, s) == work[w].stage = s
Known(j) == j \in jobs \/ \E w \in Workers : j \in work[w].job

OutboundInit ==
    /\ ContractInit
    /\ rows = [d \in Deliveries |-> NoRow]
    /\ locks = [d \in Deliveries |-> Free]
    /\ jobs = {}
    /\ work = [w \in Workers |-> IdleWork]
    /\ pass = IdlePass
    /\ lastEvent = 0
    /\ asks = [d \in Deliveries |-> 0]
    /\ faults = 0

Fault == faults < MaxFaults /\ faults' = faults + 1
Unlock(h) == locks' = [d \in Deliveries |-> IF locks[d] = h THEN Free ELSE locks[d]]

\* _store_delivery: the primary, and its copy when the company has a group;
\* the primary's job is enqueued after the commit, unless that is lost.
StoreDelivery(p, kids, lost) ==
    /\ rows[p].status = "Absent"
    /\ rows' = [d \in Deliveries |->
                  IF d = p THEN [NoRow EXCEPT !.status = "Queued"]
                  ELSE IF d \in kids THEN [NoRow EXCEPT !.status = "Waiting"]
                  ELSE rows[d]]
    /\ IF lost THEN Fault /\ UNCHANGED jobs
               ELSE jobs' = jobs \cup {BaseJob(p)} /\ UNCHANGED faults
    /\ UNCHANGED <<locks, work, pass, lastEvent, asks, contractVars>>

\* next_retry_at is reached.
RetryFallsDue(d) ==
    /\ rows[d].retry = "later"
    /\ rows' = [rows EXCEPT ![d].retry = "due"]
    /\ UNCHANGED <<locks, jobs, work, pass, lastEvent, asks, faults, contractVars>>

-----------------------------------------------------------------------------
(* process_outbound_message *)

\* A copy is not sent before its primary (its own early return).
PrimaryPending(d) == d \in Groups /\ ~Terminal(rows[CopyOf[d]])

\* The early returns that leave everything as it is.
NothingToDoM(d) ==
    \/ Terminal(rows[d]) /\ d \in Groups
    \/ ~Terminal(rows[d]) /\ PrimaryPending(d)
    \/ /\ rows[d].status = "Failed" /\ rows[d].retry = "later"
       /\ rows[d].attempts < AttemptLimit
NothingToDo(d) ==
    \/ Terminal(rows[d]) /\ d \in Groups
    \/ rows[d].status = "Processing"
    \/ ~Terminal(rows[d]) /\ rows[d].recon
    \/ ~Terminal(rows[d]) /\ PrimaryPending(d)
    \/ /\ rows[d].status = "Failed" /\ rows[d].retry = "later"
       /\ rows[d].attempts < AttemptLimit

\* The worker reads the row, and all its transaction will read of the copies.
TakeJob(w, j) ==
    /\ At(w, "idle")
    /\ j \in jobs
    /\ jobs' = jobs \ {j}
    /\ work' = [work EXCEPT ![w] =
          IF NothingToDo(j.d) THEN IdleWork
          ELSE [IdleWork EXCEPT
                  !.stage = IF Terminal(rows[j.d]) THEN "releasing" ELSE "loaded",
                  !.job = {j}, !.doc = rows[j.d],
                  !.kids = {c \in Copies(j.d) : Releasable(rows[c])}]]
    /\ UNCHANGED <<rows, locks, pass, lastEvent, asks, faults, contractVars>>

\* The exception handler: another attempt after a delay, or none.
FailedDoc(doc, uncertain) ==
    [doc EXCEPT !.status = "Failed", !.recon = uncertain,
                !.retry = IF ~uncertain /\ doc.attempts < AttemptLimit
                          THEN "later" ELSE "none"]

\* The first save of the document.  It is refused when another save came in
\* between, which ends the job.
FirstSaveM(w) ==
    /\ At(w, "loaded")
    /\ locks[Doc(w)] = Free
    /\ work' = [work EXCEPT ![w].stage = "sending", ![w].doc.attempts = @ + 1,
                            ![w].doc.status = "Processing", ![w].doc.retry = "none"]
    /\ locks' = [locks EXCEPT ![Doc(w)] = w]
    /\ UNCHANGED <<rows, jobs, pass, lastEvent, asks, faults, contractVars>>
FirstSaveN(w) ==
    /\ At(w, "loaded")
    /\ locks[Doc(w)] = Free
    /\ work' = [work EXCEPT ![w].stage = "sending",
                            ![w].doc.status = "Processing", ![w].doc.retry = "none"]
    /\ locks' = [locks EXCEPT ![Doc(w)] = w]
    /\ UNCHANGED <<rows, jobs, pass, lastEvent, asks, faults, contractVars>>
FirstSave(w) ==
    /\ At(w, "loaded")
    /\ locks[Doc(w)] = Free
    /\ LET doc == work[w].doc
       IN  \/ /\ ~work[w].fresh
              /\ work' = [work EXCEPT ![w] = IdleWork]
              /\ UNCHANGED locks
           \/ /\ work[w].fresh
              /\ doc.attempts >= AttemptLimit
              /\ work' = [work EXCEPT ![w].stage = "saved", ![w].kids = {},
                            ![w].doc = [doc EXCEPT !.status = "Failed", !.retry = "none"]]
              /\ locks' = [locks EXCEPT ![Doc(w)] = w]
           \/ /\ work[w].fresh
              /\ doc.attempts < AttemptLimit
              /\ work' = [work EXCEPT ![w].stage = "sending",
                            ![w].doc = [doc EXCEPT !.attempts = @ + 1,
                                        !.status = "Processing", !.retry = "none"]]
              /\ locks' = [locks EXCEPT ![Doc(w)] = w]
    /\ UNCHANGED <<rows, jobs, pass, lastEvent, asks, faults, contractVars>>

\* Transport disabled, the copy no longer valid, or the snapshot PDF unusable.
PrepareFails(w) ==
    /\ At(w, "sending")
    /\ work' = [work EXCEPT ![w].stage = "saved", ![w].kids = {},
                            ![w].doc = FailedDoc(@, FALSE)]
    /\ UNCHANGED <<rows, locks, jobs, pass, lastEvent, asks, faults, contractVars>>

\* send_delivery: POST /v1/send.
Request(w) ==
    /\ At(w, "sending")
    /\ Ask(w, Doc(w))
    /\ work' = [work EXCEPT ![w].stage = "asking"]
    /\ asks' = [asks EXCEPT ![Doc(w)] = @ + 1]
    /\ UNCHANGED <<rows, locks, jobs, pass, lastEvent, faults>>

\* The request times out after 180 s.
RequestTimesOut(w) ==
    /\ At(w, "asking")
    /\ Abandon(w)
    /\ UNCHANGED siteVars

\* The answer, or its absence, is written to the document.
ReceiveM(w) ==
    /\ At(w, "asking")
    /\ answer[w] # "waiting"
    /\ work' = [work EXCEPT
            ![w].stage = "saved",
            ![w].doc = IF answer[w] = "ok"
                       THEN [@ EXCEPT !.status = "Submitted", !.ids = TRUE]
                       ELSE FailedDoc(@, answer[w] # "failed")]
    /\ UNCHANGED <<rows, locks, jobs, pass, lastEvent, asks, faults, contractVars>>
ReceiveN(w) ==
    /\ At(w, "asking")
    /\ answer[w] # "waiting"
    /\ work' = [work EXCEPT
            ![w].stage = "saved",
            ![w].doc = IF answer[w] = "failed" THEN FailedDoc(@, FALSE)
                       ELSE [@ EXCEPT !.status = "Submitted", !.ids = TRUE]]
    /\ UNCHANGED <<rows, locks, jobs, pass, lastEvent, asks, faults, contractVars>>
Receive(w) ==
    /\ At(w, "asking")
    /\ answer[w] # "waiting"
    /\ work' = [work EXCEPT
            ![w].stage = IF answer[w] = "ok" THEN "releasing" ELSE "saved",
            ![w].doc = IF answer[w] = "ok"
                       THEN [@ EXCEPT !.status = "Submitted", !.ids = TRUE]
                       ELSE FailedDoc(@, answer[w] = "uncertain")]
    /\ UNCHANGED <<rows, locks, jobs, pass, lastEvent, asks, faults, contractVars>>

\* release_waiting_copies, one copy: the status is written whatever the row
\* holds by now, and the job enqueued after the commit unless it is known.
ReleaseCopy(w, c) ==
    /\ At(w, "releasing")
    /\ c \in work[w].kids
    /\ locks[c] = Free
    /\ locks' = [locks EXCEPT ![c] = w]
    /\ work' = [work EXCEPT ![w].kids = @ \ {c}, ![w].freed = @ \cup {c},
                            ![w].later = IF Known(BaseJob(c)) THEN @
                                         ELSE @ \cup {BaseJob(c)}]
    /\ UNCHANGED <<rows, jobs, pass, lastEvent, asks, faults, contractVars>>

\* Documents read before a save that is now committed are stale.
Stale(w, v) == v # w /\ locks[Doc(w)] = w /\ At(v, "loaded") /\ Doc(v) = Doc(w)

\* The end of the job: commit, and then the enqueues, unless those are lost.
CommitWork(w, lost) ==
    /\ At(w, "saved") \/ (At(w, "releasing") /\ work[w].kids = {})
    /\ rows' = [d \in Deliveries |->
                  IF d = Doc(w) /\ locks[d] = w THEN work[w].doc
                  ELSE IF d \in work[w].freed THEN [rows[d] EXCEPT !.status = "Queued"]
                  ELSE rows[d]]
    /\ work' = [v \in Workers |->
                  IF v = w THEN IdleWork
                  ELSE IF Stale(w, v) THEN [work[v] EXCEPT !.fresh = FALSE]
                  ELSE work[v]]
    /\ Unlock(w)
    /\ IF lost THEN work[w].later # {} /\ Fault /\ UNCHANGED jobs
               ELSE jobs' = jobs \cup work[w].later /\ UNCHANGED faults
    /\ UNCHANGED <<pass, lastEvent, asks, contractVars>>

\* The rows a worker needs to lock next.
WorkerWaits(w, d) ==
    \/ At(w, "loaded") /\ d = Doc(w)
    \/ At(w, "releasing") /\ d \in work[w].kids

\* Everything is rolled back; a request that was made goes on without the job,
\* which Frappe runs again only if it was waiting for a lock.
RollbackWork(w, again) ==
    /\ Unlock(w)
    /\ again => \E d \in Deliveries : WorkerWaits(w, d) /\ locks[d] \notin {Free, w}
    /\ work' = [work EXCEPT ![w] = IdleWork]
    /\ jobs' = IF again THEN jobs \cup work[w].job ELSE jobs
    /\ IF answer[w] = "waiting" THEN Abandon(w) ELSE UNCHANGED contractVars
    /\ UNCHANGED <<rows, pass, lastEvent, asks>>

\* The job dies, or a lock it waits for is not freed in time.
WorkerDies(w, again) ==
    /\ ~At(w, "idle")
    /\ Fault
    /\ RollbackWork(w, again)

-----------------------------------------------------------------------------
(* scheduled_maintenance: one pass at a time *)

InPass(s) == pass.stage = s
Held(d) == locks[d] \in {Free, Sched}
Current(d) == IF locks[d] = Sched THEN pass.buf[d] ELSE rows[d]

\* What the pass works on, from the snapshot of its start: the rows there are,
\* copies that were left behind, and retries that are due.
LeftBehindM(c) == FALSE
LeftBehind(c) == Releasable(rows[c]) /\ Terminal(rows[CopyOf[c]])
DueForRetry(d) == rows[d].status = "Failed" /\ rows[d].retry = "due" /\ ~rows[d].recon

PassStarts ==
    /\ InPass("idle")
    /\ pass' = [IdlePass EXCEPT !.stage = "retry",
                                !.seen = {d \in Deliveries : rows[d].status # "Absent"},
                                !.copies = {c \in Groups : LeftBehind(c)},
                                !.due = {RetryJob(d) : d \in {x \in Deliveries : DueForRetry(x)}}]
    /\ UNCHANGED <<rows, locks, jobs, work, lastEvent, asks, faults, contractVars>>

\* release_waiting_copies for a copy left behind.
PassReleases(c) ==
    /\ InPass("retry")
    /\ c \in pass.copies
    /\ Held(c)
    /\ locks' = [locks EXCEPT ![c] = Sched]
    /\ pass' = [pass EXCEPT !.copies = @ \ {c},
                            !.buf[c] = [Current(c) EXCEPT !.status = "Queued"],
                            !.later = IF Known(BaseJob(c)) THEN @
                                      ELSE @ \cup {BaseJob(c)}]
    /\ UNCHANGED <<rows, jobs, work, lastEvent, asks, faults, contractVars>>

\* A due retry is claimed and enqueued at once, before the pass commits; an
\* exhausted one loses its due time.
PassClaimsM(j) ==
    /\ InPass("retry")
    /\ pass.copies = {}
    /\ j \in pass.due
    /\ Held(j.d)
    /\ locks' = [locks EXCEPT ![j.d] = Sched]
    /\ LET exhausted == j.n >= AttemptLimit
           row == Current(j.d)
       IN  /\ pass' = [pass EXCEPT
                  !.due = @ \ {j},
                  !.buf[j.d] = [row EXCEPT !.retry = "none",
                                    !.status = IF exhausted THEN @ ELSE "Queued"]]
           /\ jobs' = IF exhausted THEN jobs ELSE jobs \cup {j}
    /\ UNCHANGED <<rows, work, lastEvent, asks, faults, contractVars>>
PassClaims(j) ==
    /\ InPass("retry")
    /\ pass.copies = {}
    /\ j \in pass.due
    /\ Held(j.d)
    /\ locks' = [locks EXCEPT ![j.d] = Sched]
    /\ LET exhausted == j.n > AttemptLimit
           row == Current(j.d)
       IN  /\ pass' = [pass EXCEPT
                  !.due = @ \ {j},
                  !.buf[j.d] = [row EXCEPT !.retry = "none",
                                    !.status = IF exhausted THEN @ ELSE "Queued"]]
           /\ jobs' = IF exhausted THEN jobs ELSE jobs \cup {j}
    /\ UNCHANGED <<rows, work, lastEvent, asks, faults, contractVars>>

\* sync_delivery_statuses asks for the events after the last one it applied;
\* the gateway may be unavailable.
PassFetches(reachable) ==
    /\ InPass("retry")
    /\ pass.copies = {} /\ pass.due = {}
    /\ pass' = [pass EXCEPT
            !.stage = "sync", !.cursor = lastEvent,
            !.upto = IF ~reachable THEN lastEvent
                     ELSE IF Len(log) < lastEvent + BatchSize THEN Len(log)
                     ELSE lastEvent + BatchSize]
    /\ UNCHANGED <<rows, locks, jobs, work, lastEvent, asks, faults, contractVars>>

\* The status of the event is written to the row, whatever the row holds; the
\* event of a row that is newer than the snapshot finds none and is passed over.
PassApplies ==
    /\ InPass("sync")
    /\ pass.cursor < pass.upto
    /\ LET e == log[pass.cursor + 1]
       IN  \/ /\ e.key \in pass.seen
              /\ Held(e.key)
              /\ locks' = [locks EXCEPT ![e.key] = Sched]
              /\ pass' = [pass EXCEPT !.cursor = @ + 1,
                              !.buf[e.key] = [Current(e.key) EXCEPT !.status = e.status]]
           \/ /\ e.key \notin pass.seen
              /\ pass' = [pass EXCEPT !.cursor = @ + 1]
              /\ UNCHANGED locks
    /\ UNCHANGED <<rows, jobs, work, lastEvent, asks, faults, contractVars>>

PassCommits ==
    /\ InPass("sync")
    /\ pass.cursor = pass.upto
    /\ rows' = [d \in Deliveries |-> Current(d)]
    /\ Unlock(Sched)
    /\ lastEvent' = pass.cursor
    /\ jobs' = jobs \cup pass.later
    /\ pass' = IdlePass
    /\ UNCHANGED <<work, asks, faults, contractVars>>

\* A crash, a lock time-out, a failed enqueue (whose repair is rolled back with
\* the rest) or a settings document saved by somebody else: the pass is rolled
\* back, but retries it has enqueued stay enqueued.
RollbackPass ==
    /\ Unlock(Sched)
    /\ pass' = IdlePass
    /\ UNCHANGED <<rows, jobs, work, lastEvent, asks, contractVars>>
PassFails ==
    /\ ~InPass("idle")
    /\ Fault
    /\ RollbackPass

\* A worker and the pass each wait for a row the other has locked: the database
\* rolls one of them back.
PassWaits(d) ==
    \/ InPass("retry") /\ d \in pass.copies
    \/ InPass("retry") /\ pass.copies = {} /\ \E j \in pass.due : j.d = d
    \/ /\ InPass("sync") /\ pass.cursor < pass.upto
       /\ log[pass.cursor + 1].key = d /\ d \in pass.seen
BreakDeadlock(w) ==
    /\ \E d \in Deliveries : WorkerWaits(w, d) /\ locks[d] = Sched
    /\ \E d \in Deliveries : PassWaits(d) /\ locks[d] = w
    /\ RollbackWork(w, TRUE) \/ RollbackPass
    /\ UNCHANGED faults

-----------------------------------------------------------------------------
WorkerStep(w) ==
    \/ \E j \in jobs : TakeJob(w, j)
    \/ FirstSave(w)
    \/ PrepareFails(w)
    \/ Request(w)
    \/ Receive(w)
    \/ \E c \in Groups : ReleaseCopy(w, c)
    \/ CommitWork(w, FALSE)

PassStep ==
    \/ PassStarts
    \/ \E c \in Groups : PassReleases(c)
    \/ \E j \in pass.due : PassClaims(j)
    \/ \E reachable \in BOOLEAN : PassFetches(reachable)
    \/ PassApplies
    \/ PassCommits

GatewayStep == Serve /\ UNCHANGED siteVars

Environment ==
    \/ \E p \in Primaries, kids \in SUBSET Groups, lost \in BOOLEAN :
          kids \subseteq Copies(p) /\ StoreDelivery(p, kids, lost)
    \/ \E w \in Workers : RequestTimesOut(w) \/ CommitWork(w, TRUE)
    \/ \E w \in Workers, again \in BOOLEAN : WorkerDies(w, again)
    \/ PassFails
    \/ \E k \in Keys, s \in {"Acknowledged", "Failed"} :
          Len(log) < MaxLog /\ Notify(k, s) /\ UNCHANGED siteVars
    \/ Die /\ Fault /\ UNCHANGED <<rows, locks, jobs, work, pass, lastEvent, asks>>

OutboundNext ==
    \/ \E w \in Workers : WorkerStep(w)
    \/ PassStep
    \/ \E d \in Deliveries : RetryFallsDue(d)
    \/ \E w \in Workers : BreakDeadlock(w)
    \/ GatewayStep
    \/ Environment

OutboundSpec == OutboundInit /\ [][OutboundNext]_allVars

\* Workers and the scheduler keep running and are granted row locks in the order
\* they wait for them (hence strong fairness), the gateway is reachable again and
\* again and answers what it accepted, and time passes; nothing is assumed of the
\* environment.
OutboundFairSpec ==
    /\ OutboundSpec
    /\ \A w \in Workers : SF_allVars(WorkerStep(w))
    /\ SF_allVars(PassStep) /\ SF_allVars(PassFetches(TRUE))
    /\ \A w \in Workers : WF_allVars(BreakDeadlock(w))
    /\ \A d \in Deliveries : WF_allVars(RetryFallsDue(d))
    /\ WF_allVars(GatewayStep)

-----------------------------------------------------------------------------
(* Properties *)

\* Every variable has its type.
OutboundTypeOK ==
    /\ rows \in [Deliveries -> Row]
    /\ locks \in [Deliveries -> Workers \cup {Sched, Free}]
    /\ jobs \subseteq JobIds
    /\ \A w \in Workers :
          /\ work[w].stage \in {"idle", "loaded", "sending", "asking",
                                "releasing", "saved"}
          /\ work[w].job \subseteq JobIds /\ Cardinality(work[w].job) <= 1
          /\ work[w].doc \in Row
          /\ At(w, "asking") => answer[w] # "none"
    /\ pass.stage \in {"idle", "retry", "sync"}
    /\ lastEvent \in 0 .. Len(log)

\* A row that says Submitted or Acknowledged belongs to a message the gateway
\* has submitted, whoever wrote the status: a worker, or the sync of events.
NoFalseSuccess ==
    \A d \in Deliveries : Terminal(rows[d]) => outcome[d] = "submitted"

\* No send request is made for a group copy before its primary message has been
\* submitted (process_outbound_message, validate_copy).
CopyAfterPrimary ==
    \A c \in Groups : asks[c] > 0 => outcome[CopyOf[c]] = "submitted"

\* Until the gateway has submitted the message it is requested at most once plus
\* the configured retries, by all workers together, and a fault costs at most one
\* request more.  (Of a submitted message further requests may be lost to
\* deadlocks over the copies; the gateway sends nothing for them.)
AttemptCeiling ==
    \A d \in Deliveries : outcome[d] # "submitted" => asks[d] <= AttemptLimit + faults

\* CHANGELOG.md: "a hard delivery-attempt ceiling of one initial attempt plus the
\* configured automatic retries", whatever happens to a worker that has asked.
HardCeiling ==
    \A d \in Deliveries : outcome[d] # "submitted" => asks[d] <= AttemptLimit

\* Reconciliation is asked of the operator only when the gateway will never
\* send the message again.
ReconSound ==
    \A d \in Deliveries : rows[d].recon => outcome[d] = "blocked"

\* Once a row requires reconciliation no further send request is made for it,
\* by no duplicate or stale worker either, and the mark stays.
ReconciliationStops ==
    [][\A d \in Deliveries :
          rows[d].recon => asks'[d] = asks[d] /\ rows'[d].recon]_allVars

\* What history has recorded of a delivery no later write takes back: attempts are
\* not uncounted, and provider ids stay.  A release of copies or an event may write
\* an old status over a submitted row, from a snapshot and past the time stamp, and
\* a worker out of attempts may then record Failed; the ids still show the success.
HistoryKept ==
    [][\A d \in Deliveries :
          /\ rows'[d].attempts >= rows[d].attempts
          /\ rows[d].ids => rows'[d].ids]_allVars

\* A copy that was left behind by a lost enqueue or a dead worker is attempted
\* in the end, as long as its primary keeps a successful status.
CopyAttempted ==
    \A c \in Groups :
        (Releasable(rows[c]) /\ Terminal(rows[CopyOf[c]]) /\ ~rows[c].recon)
            ~> (~Releasable(rows[c]) \/ rows[c].recon \/ ~Terminal(rows[CopyOf[c]]))

\* A failed attempt of an individual delivery with retries left is followed by
\* another attempt, unless the message turns out to have been submitted (without
\* faults).  It does not hold of copies: a claimed retry is spent when its worker
\* finds the primary momentarily moved back to Failed by an old event.
RetryAttempted ==
    \A d \in Primaries, n \in 0 .. AttemptLimit :
        (rows[d].retry # "none" /\ rows[d].attempts = n)
            ~> (Terminal(rows[d]) \/ rows[d].attempts > n)

=============================================================================
