--------------------------- MODULE OutboundProofs ---------------------------
(***************************************************************************)
(* Proofs about Outbound, for any deliveries, workers, retries and faults: *)
(* the safety invariants of the runs, that reconciliation stops a delivery *)
(* and that what history has recorded of it is kept.                       *)
(***************************************************************************)
EXTENDS Outbound, FiniteSetTheorems, TLAPS

-----------------------------------------------------------------------------
(* The inductive invariant *)

Statuses == {"Absent", "Waiting", "Queued", "Processing", "Submitted", "Acknowledged", "Failed"}
Stages == {"idle", "loaded", "sending", "asking", "releasing", "saved"}
Work == [stage : Stages, job : SUBSET JobIds, doc : Row, fresh : BOOLEAN,
         kids : SUBSET Groups, freed : SUBSET Groups, later : SUBSET JobIds]
Pass == [stage : {"idle", "retry", "sync"}, seen : SUBSET Deliveries,
         copies : SUBSET Groups, due : SUBSET JobIds, cursor : Nat, upto : Nat, later : SUBSET JobIds, buf : [Deliveries -> Row]]
Event == [key : Keys, status : {"Submitted", "Acknowledged", "Failed"}]
Post == [caller : Callers \cup {Gone}, key : Keys]

SiteTypes ==
    /\ rows \in [Deliveries -> Row]
    /\ locks \in [Deliveries -> Workers \cup {Sched, Free}]
    /\ jobs \subseteq JobIds
    /\ work \in [Workers -> Work]
    /\ pass \in Pass
    /\ lastEvent \in Nat /\ lastEvent <= Len(log) /\ pass.upto <= Len(log)
    /\ asks \in [Deliveries -> Nat] /\ faults \in Nat

ContractTypes ==
    /\ outcome \in [Keys -> {"open", "submitted", "blocked"}]
    /\ log \in Seq(Event)
    /\ inbox \in Seq(Post)
    /\ answer \in [Callers -> Answers]
    /\ decided \in BOOLEAN

Stored(d) == rows[d].status # "Absent"

\* A row that is not stored yet is blank, and a copy is stored with its primary.
RowSound(d) ==
    /\ ~Stored(d) => rows[d].attempts = 0 /\ rows[d].recon = FALSE
    /\ d \in Groups /\ Stored(d) => Stored(CopyOf[d])
    /\ Terminal(rows[d]) => outcome[d] = "submitted"
    /\ rows[d].recon => outcome[d] = "blocked"
    /\ outcome[d] # "open" => Stored(d)
    /\ d \in Groups /\ asks[d] > 0 => outcome[CopyOf[d]] = "submitted"

\* What a busy worker works on: one job, of a stored delivery, and its copies.
WorkSound(w) ==
    /\ \E j \in JobIds : work[w].job = {j}
    /\ Stored(Doc(w)) /\ work[w].doc.status # "Absent"
    /\ Doc(w) \in Groups => outcome[CopyOf[Doc(w)]] = "submitted"
    /\ \A c \in work[w].kids \cup work[w].freed : CopyOf[c] = Doc(w) /\ Stored(c)
    /\ \A c \in work[w].freed : locks[c] = w
    /\ At(w, "releasing") \/ work[w].freed = {}
    /\ \A j \in work[w].later : Stored(j.d)

\* What its document says, and what the row it is going to overwrite says.
Same(w) == ~rows[Doc(w)].recon /\ work[w].doc.attempts = rows[Doc(w)].attempts
Next1(w) == ~rows[Doc(w)].recon /\ work[w].doc.attempts = rows[Doc(w)].attempts + 1
DocSound(w) ==
    /\ Terminal(work[w].doc) => outcome[Doc(w)] = "submitted"
    /\ work[w].doc.recon => outcome[Doc(w)] = "blocked"
    /\ At(w, "loaded") => ~work[w].doc.recon /\ (work[w].fresh => Same(w))
    /\ work[w].stage \in {"sending", "asking"} => ~work[w].doc.recon /\ Next1(w)
    /\ work[w].stage \in {"sending", "asking", "saved"} => locks[Doc(w)] = w
    /\ work[w].stage \in {"saved", "releasing"} /\ locks[Doc(w)] = w => Same(w) \/ Next1(w)
    /\ At(w, "releasing") => Terminal(work[w].doc)

\* What a worker knows of its request.
AnswerSound(w) ==
    /\ answer[w] = "waiting" => At(w, "asking")
    /\ At(w, "asking") =>
          /\ answer[w] # "none"
          /\ answer[w] = "ok" => outcome[Doc(w)] = "submitted"
          /\ answer[w] = "uncertain" => outcome[Doc(w)] = "blocked"

WorkerInv(w) ==
    /\ At(w, "idle") => work[w].job = {}
    /\ ~At(w, "idle") => WorkSound(w) /\ DocSound(w)
    /\ AnswerSound(w)
    /\ \A d \in Deliveries : locks[d] = w =>
          ~At(w, "idle") /\ (d = Doc(w) \/ d \in work[w].freed)

\* The pass holds what it will write; it changes neither the attempts nor the mark.
PassInv ==
    /\ pass.stage = "idle" => \A d \in Deliveries : locks[d] # Sched
    /\ \A c \in pass.copies : Stored(c)
    /\ \A j \in pass.due \cup pass.later : Stored(j.d)
    /\ \A d \in Deliveries :
          /\ Terminal(pass.buf[d]) => outcome[d] = "submitted"
          /\ locks[d] = Sched =>
                /\ Stored(d) /\ pass.buf[d].status # "Absent"
                /\ pass.buf[d].attempts = rows[d].attempts /\ pass.buf[d].recon = rows[d].recon

JobsInv == \A j \in jobs : Stored(j.d)

InboxInv ==
    \A i \in 1 .. Len(inbox) :
        /\ Stored(inbox[i].key)
        /\ inbox[i].caller # Gone =>
              /\ At(inbox[i].caller, "asking") /\ answer[inbox[i].caller] = "waiting"
              /\ inbox[i].key = Doc(inbox[i].caller)
              /\ \A j \in 1 .. Len(inbox) : inbox[j].caller = inbox[i].caller => i = j

LogInv ==
    \A i \in 1 .. Len(log) :
        /\ Stored(log[i].key)
        /\ log[i].status # "Failed" => outcome[log[i].key] = "submitted"

\* The requests made are paid for by attempts, committed or about to be, or faults.
Asked(w, d) == work[w].stage \in {"asking", "saved"} /\ Doc(w) = d
AsksInv ==
    \A d \in Deliveries : outcome[d] # "submitted" =>
        \/ asks[d] <= rows[d].attempts + faults
        \/ \E w \in Workers : Asked(w, d) /\ asks[d] <= work[w].doc.attempts + faults

OutboundInv ==
    /\ SiteTypes /\ ContractTypes
    /\ \A d \in Deliveries : RowSound(d)
    /\ \A w \in Workers : WorkerInv(w)
    /\ PassInv /\ JobsInv /\ InboxInv /\ LogInv /\ AsksInv

-----------------------------------------------------------------------------
(* Rows, documents and the frame of a step *)

\* The limit is a positive number.
LEMMA LimitType == AttemptLimit \in Nat /\ AttemptLimit >= 1
  BY OutboundAssumption DEF AttemptLimit

\* The blank records have their types.
LEMMA Blanks == NoRow \in Row /\ IdleWork \in Work /\ IdlePass \in Pass
<1>1. NoRow \in Row
  BY LimitType DEF NoRow, Row
<1>2. IdleWork \in Work
  BY <1>1 DEF IdleWork, Work, Stages
<1>3. IdlePass \in Pass
  BY <1>1 DEF IdlePass, Pass
<1> QED BY <1>1, <1>2, <1>3

\* The fields of a row.
LEMMA RowFields ==
    ASSUME NEW r \in Row
    PROVE  /\ r.status \in Statuses /\ r.attempts \in Nat /\ r.attempts <= AttemptLimit
           /\ r.retry \in {"none", "later", "due"} /\ r.recon \in BOOLEAN
  BY LimitType DEF Row, Statuses

\* Setting the status, and the due time with it, leaves attempts and mark alone.
LEMMA SetStatus ==
    ASSUME NEW r \in Row, NEW s \in Statuses, NEW t \in {"none", "later", "due"}
    PROVE  /\ [r EXCEPT !.status = s] \in Row
           /\ [r EXCEPT !.status = s].status = s
           /\ [r EXCEPT !.status = s].attempts = r.attempts
           /\ [r EXCEPT !.status = s].recon = r.recon
           /\ [r EXCEPT !.retry = t] \in Row
           /\ [r EXCEPT !.retry = t].status = r.status
           /\ [r EXCEPT !.retry = t].attempts = r.attempts
           /\ [r EXCEPT !.retry = t].recon = r.recon
           /\ [r EXCEPT !.retry = t, !.status = s] \in Row
           /\ [r EXCEPT !.retry = t, !.status = s].status = s
           /\ [r EXCEPT !.retry = t, !.status = s].attempts = r.attempts
           /\ [r EXCEPT !.retry = t, !.status = s].recon = r.recon
           /\ [r EXCEPT !.status = s, !.retry = t] = [r EXCEPT !.retry = t, !.status = s]
  BY DEF Row, Statuses

\* Releasing or claiming a row sets its status alone.
LEMMA SetQueued ==
    ASSUME NEW r \in Row
    PROVE  /\ [r EXCEPT !.status = "Queued"] \in Row
           /\ [r EXCEPT !.status = "Queued"].status = "Queued"
           /\ [r EXCEPT !.status = "Queued"].attempts = r.attempts
           /\ [r EXCEPT !.status = "Queued"].recon = r.recon
  BY DEF Row

\* A worker's document after a failed attempt.
LEMMA FailedDocFields ==
    ASSUME NEW r \in Row, NEW u \in BOOLEAN
    PROVE  /\ FailedDoc(r, u) \in Row /\ FailedDoc(r, u).status = "Failed"
           /\ FailedDoc(r, u).attempts = r.attempts /\ FailedDoc(r, u).recon = u
  BY DEF FailedDoc, Row

\* The job of a worker that has one.
LEMMA DocOfJob == ASSUME NEW w, NEW j, work[w].job = {j} PROVE Doc(w) = j.d
<1>1. JobOf(w) = j
  BY DEF JobOf
<1> QED BY <1>1 DEF Doc

\* A busy worker works on a delivery.
LEMMA DocType ==
    ASSUME NEW w \in Workers, \E j \in JobIds : work[w].job = {j}
    PROVE  Doc(w) \in Deliveries
<1> PICK j \in JobIds : work[w].job = {j}
  OBVIOUS
<1> QED BY DocOfJob DEF JobIds

\* What every step preserves: final outcomes stay, stored rows stay stored.
Final == \A k \in Keys : outcome[k] # "open" => outcome'[k] = outcome[k]
StoredGrows == \A d \in Deliveries : Stored(d) => Stored(d)'

\* A row that is not written stays sound.
LEMMA RowKept ==
    ASSUME NEW d \in Deliveries, RowSound(d), rows'[d] = rows[d], asks'[d] = asks[d],
           Final, StoredGrows, outcome'[d] # "open" => Stored(d), asks[d] \in Nat
    PROVE  RowSound(d)'
<1>1. d \in Groups => CopyOf[d] \in Keys
  BY OutboundAssumption DEF Primaries
<1> QED BY <1>1 DEF RowSound, Final, StoredGrows, Stored, Terminal, Deliveries

\* A worker's transaction goes on as it was, though its document may go stale.
SameWork(v) ==
    /\ work'[v].stage = work[v].stage /\ work'[v].job = work[v].job /\ work'[v].doc = work[v].doc
    /\ work'[v].kids = work[v].kids /\ work'[v].freed = work[v].freed /\ work'[v].later = work[v].later
    /\ work'[v].fresh => work[v].fresh

\* What a worker knows of its request stays true while nobody answers it.
LEMMA AnswerKept ==
    ASSUME NEW v \in Workers, WorkerInv(v), SameWork(v), answer'[v] = answer[v], Final
    PROVE  AnswerSound(v)'
<1>1. Doc(v)' = Doc(v)
  BY DEF SameWork, Doc, JobOf
<1>2. At(v, "asking") => Doc(v) \in Keys
  BY DocType DEF At, WorkerInv, WorkSound, Deliveries
<1> QED BY <1>1, <1>2 DEF AnswerSound, At, Final, WorkerInv, SameWork

\* A worker that does nothing stays sound when its locks are left alone, and the
\* row too as long as it is locked or the document fresh.
LEMMA WorkerKept ==
    ASSUME NEW v \in Workers, SiteTypes, WorkerInv(v), SameWork(v), AnswerSound(v)',
           Final, StoredGrows,
           \A d \in Deliveries : locks'[d] = v <=> locks[d] = v,
           ~At(v, "idle") /\ (locks[Doc(v)] = v \/ (At(v, "loaded") /\ work'[v].fresh)) =>
               /\ rows'[Doc(v)].attempts = rows[Doc(v)].attempts
               /\ rows'[Doc(v)].recon = rows[Doc(v)].recon
    PROVE  WorkerInv(v)'
<1>1. Doc(v)' = Doc(v) /\ \A s : At(v, s)' <=> At(v, s)
  BY DEF SameWork, Doc, JobOf, At
<1>2. ~At(v, "idle") => WorkSound(v)'
  <2> HAVE ~At(v, "idle")
  <2>1. WorkSound(v) /\ Doc(v) \in Deliveries
    BY DocType DEF WorkerInv, WorkSound
  <2>2. /\ work[v].kids \subseteq Groups /\ work[v].freed \subseteq Groups
        /\ \A j \in work[v].later : j.d \in Deliveries
        /\ \A c \in Groups : c \in Deliveries /\ CopyOf[c] \in Deliveries
    BY ContractAssumption, OutboundAssumption DEF SiteTypes, Work, JobIds, Deliveries, Primaries
  <2> QED BY <1>1, <2>1, <2>2 DEF WorkSound, Final, StoredGrows, Stored, Deliveries, SameWork
<1>3. ~At(v, "idle") => DocSound(v)'
  <2> HAVE ~At(v, "idle")
  <2>1. DocSound(v) /\ Doc(v) \in Deliveries
    BY DocType DEF WorkerInv, WorkSound
  <2>2. locks'[Doc(v)] = v <=> locks[Doc(v)] = v
    BY <2>1
  <2>3. /\ Terminal(work'[v].doc) => outcome'[Doc(v)] = "submitted"
        /\ work'[v].doc.recon => outcome'[Doc(v)] = "blocked"
    BY <2>1 DEF DocSound, Final, SameWork, Deliveries
  <2> QED BY <1>1, <2>1, <2>2, <2>3 DEF DocSound, Terminal, Same, Next1, At, SameWork
<1> QED BY <1>1, <1>2, <1>3 DEF WorkerInv, SameWork

\* The entries of the log and the inbox.
LEMMA EmptySeq == ASSUME NEW S PROVE <<>> \in Seq(S)
  OBVIOUS
\* An event names a delivery and one of the three statuses.
LEMMA LogEntries ==
    ASSUME OutboundInv, NEW i \in 1 .. Len(log)
    PROVE  /\ log[i] \in Event /\ log[i].key \in Keys
           /\ log[i].status \in {"Submitted", "Acknowledged", "Failed"}
<1>1. log[i] \in Event
  BY DEF OutboundInv, ContractTypes
<1> QED BY <1>1 DEF Event
\* A request names a delivery, and its caller unless that one has gone.
LEMMA InboxEntries ==
    ASSUME OutboundInv, NEW i \in 1 .. Len(inbox)
    PROVE  inbox[i] \in Post /\ inbox[i].key \in Keys /\ inbox[i].caller \in Callers \cup {Gone}
<1>1. inbox[i] \in Post
  BY DEF OutboundInv, ContractTypes
<1> QED BY <1>1 DEF Post

\* What is counted.
LEMMA Counters ==
    ASSUME OutboundInv
    PROVE  /\ faults \in Nat
           /\ \A d \in Deliveries : rows[d] \in Row /\ rows[d].attempts \in Nat /\ asks[d] \in Nat
           /\ \A w \in Workers : work[w] \in Work /\ work[w].doc \in Row /\ work[w].doc.attempts \in Nat
<1>1. \A d \in Deliveries : rows[d] \in Row
  BY DEF OutboundInv, SiteTypes
<1>2. \A w \in Workers : work[w] \in Work /\ work[w].doc \in Row
  BY DEF OutboundInv, SiteTypes, Work
<1> QED BY <1>1, <1>2, RowFields DEF OutboundInv, SiteTypes

\* Requests stay paid for while the attempt that pays for them goes on, is
\* committed, or is lost to a fault.
SameRequest(w) ==
    /\ work'[w].stage \in {"asking", "saved"} /\ Doc(w)' = Doc(w)
    /\ work'[w].doc.attempts = work[w].doc.attempts

\* A step that counts nothing new keeps the bound on the requests.
LEMMA AsksKept ==
    ASSUME OutboundInv, Final, asks' = asks, faults' \in Nat, faults' >= faults,
           \A d \in Deliveries : rows'[d].attempts \in Nat /\ rows'[d].attempts >= rows[d].attempts,
           \A w \in Workers : work[w].stage \in {"asking", "saved"} =>
               \/ SameRequest(w)
               \/ outcome'[Doc(w)] = "submitted"
               \/ rows'[Doc(w)].attempts + faults' >= work[w].doc.attempts + faults
    PROVE  AsksInv'
<1> SUFFICES ASSUME NEW d \in Deliveries, outcome'[d] # "submitted"
             PROVE  \/ asks[d] <= rows'[d].attempts + faults'
                    \/ \E w \in Workers : Asked(w, d)' /\ asks[d] <= work'[w].doc.attempts + faults'
  BY DEF AsksInv
<1>1. outcome[d] # "submitted"
  BY DEF Final, Deliveries
<1>2. CASE asks[d] <= rows[d].attempts + faults
  BY <1>2, Counters
<1>3. ASSUME NEW w \in Workers, Asked(w, d), asks[d] <= work[w].doc.attempts + faults
      PROVE  \/ asks[d] <= rows'[d].attempts + faults'
             \/ Asked(w, d)' /\ asks[d] <= work'[w].doc.attempts + faults'
  <2>1. work[w].stage \in {"asking", "saved"} /\ Doc(w) = d
    BY <1>3 DEF Asked
  <2>2. CASE SameRequest(w)
    BY <2>1, <2>2, <1>3, Counters DEF SameRequest, Asked
  <2>3. CASE rows'[Doc(w)].attempts + faults' >= work[w].doc.attempts + faults
    BY <2>1, <2>3, <1>3, Counters
  <2> QED BY <2>1, <2>2, <2>3
<1> QED BY <1>1, <1>2, <1>3 DEF OutboundInv, AsksInv

\* Nothing is stored, asked or locked in the beginning.
LEMMA InitInv == OutboundInit => OutboundInv
<1> SUFFICES ASSUME OutboundInit PROVE OutboundInv
  OBVIOUS
<1> USE DEF OutboundInit, ContractInit
<1>1. SiteTypes
  <2>1. IdlePass.upto = 0 /\ Len(log) = 0
    BY DEF IdlePass
  <2>2. pass \in Pass /\ work \in [Workers -> Work] /\ rows \in [Deliveries -> Row]
    BY Blanks
  <2> QED BY <2>1, <2>2 DEF SiteTypes
<1>2. ContractTypes
  <2>1. log \in Seq(Event) /\ inbox \in Seq(Post)
    BY EmptySeq
  <2> QED BY <2>1 DEF ContractTypes, Answers
<1>3. \A d \in Deliveries : RowSound(d)
  <2> SUFFICES ASSUME NEW d \in Deliveries PROVE RowSound(d)
    OBVIOUS
  <2>1. /\ rows[d].status = "Absent" /\ rows[d].attempts = 0 /\ rows[d].recon = FALSE
        /\ outcome[d] = "open" /\ asks[d] = 0
    BY DEF NoRow, Deliveries
  <2> QED BY <2>1 DEF RowSound, Stored, Terminal
<1>4. \A w \in Workers : WorkerInv(w)
  BY OutboundAssumption DEF WorkerInv, AnswerSound, At, IdleWork, Workers
<1>5. PassInv
  BY OutboundAssumption DEF PassInv, IdlePass, Terminal, NoRow
<1>6. JobsInv /\ InboxInv /\ LogInv
  BY DEF JobsInv, InboxInv, LogInv
<1>7. AsksInv
  BY DEF AsksInv, NoRow
<1> QED BY <1>1, <1>2, <1>3, <1>4, <1>5, <1>6, <1>7 DEF OutboundInv

-----------------------------------------------------------------------------
(* Steps of the gateway: the site is as it was *)

\* What follows when a step of the gateway keeps final outcomes and answers soundly.
LEMMA GatewayFrame ==
    ASSUME OutboundInv, UNCHANGED siteVars, Final, ContractTypes',
           \A k \in Keys : outcome'[k] # "open" => Stored(k),
           \A w \in Workers : AnswerSound(w)',
           InboxInv', LogInv', Len(log') >= Len(log)
    PROVE  OutboundInv'
<1> USE DEF siteVars
<1>0. StoredGrows /\ Len(log) \in Nat /\ Len(log') \in Nat
  BY DEF StoredGrows, Stored, OutboundInv, ContractTypes
<1>1. SiteTypes'
  BY <1>0 DEF OutboundInv, SiteTypes, Pass
<1>2. \A d \in Deliveries : RowSound(d)'
  BY <1>0, RowKept DEF OutboundInv, SiteTypes, Deliveries
<1>3. \A w \in Workers : WorkerInv(w)'
  BY <1>0, WorkerKept DEF OutboundInv, SameWork
<1>4. PassInv'
  BY DEF OutboundInv, PassInv, Final, Terminal, Stored, Deliveries
<1>5. JobsInv'
  BY DEF OutboundInv, JobsInv, Stored
<1>6. AsksInv'
  <2>1. \A d \in Deliveries : outcome'[d] # "submitted" => outcome[d] # "submitted"
    BY DEF Final, Deliveries
  <2> QED BY <2>1 DEF OutboundInv, AsksInv, Asked, Doc, JobOf
<1> QED BY <1>1, <1>2, <1>3, <1>4, <1>5, <1>6 DEF OutboundInv

\* The request being served is of a stored delivery, and is its caller's.
LEMMA FirstRequest ==
    ASSUME OutboundInv, Pending
    PROVE  /\ inbox[1] \in Post /\ Key \in Keys /\ Stored(Key) /\ Len(inbox) \in Nat \ {0}
           /\ inbox[1].caller # Gone =>
                 /\ inbox[1].caller \in Workers /\ At(inbox[1].caller, "asking")
                 /\ Key = Doc(inbox[1].caller)
<1>1. Len(inbox) \in Nat \ {0} /\ inbox[1] \in Post
  BY DEF Pending, OutboundInv, ContractTypes
<1> QED BY <1>1 DEF OutboundInv, InboxInv, Key, Post, Workers

\* The outcome of a request becomes final.
LEMMA DecideInv ==
    ASSUME OutboundInv, NEW o \in {"submitted", "blocked"}, Decide(o), UNCHANGED siteVars
    PROVE  OutboundInv'
<1> USE DEF Decide
<1>0. Key \in Keys /\ Stored(Key)
  BY FirstRequest
<1>1. Final /\ ContractTypes' /\ Len(log') >= Len(log)
  BY <1>0 DEF Final, OutboundInv, ContractTypes
<1>2. \A k \in Keys : outcome'[k] # "open" => Stored(k)
  BY <1>0 DEF OutboundInv, RowSound, ContractTypes, Deliveries
<1>3. \A w \in Workers : AnswerSound(w)'
  BY <1>1, AnswerKept DEF OutboundInv, siteVars, SameWork
<1>4. InboxInv'
  BY DEF OutboundInv, InboxInv, siteVars, Stored, At, Doc, JobOf
<1>5. LogInv'
  <2>1. \A i \in 1 .. Len(log) : log[i].key \in Keys
    BY LogEntries
  <2> QED BY <1>1, <2>1 DEF OutboundInv, LogInv, siteVars, Stored, Final
<1> QED BY <1>1, <1>2, <1>3, <1>4, <1>5, GatewayFrame

\* An answer goes to the worker that asked, whose document is of the same key.
LEMMA SettledInv ==
    ASSUME OutboundInv, Pending, NEW a \in {"ok", "failed", "uncertain"}, Settled(a),
           UNCHANGED siteVars, UNCHANGED outcome,
           a = "ok" => outcome[Key] = "submitted",
           a = "uncertain" => outcome[Key] = "blocked",
           NEW s \in {"Submitted", "Failed"}, UNCHANGED log \/ Report(Key, s),
           s = "Submitted" => outcome[Key] = "submitted"
    PROVE  OutboundInv'
<1> DEFINE who == inbox[1].caller
<1>0. /\ Key \in Keys /\ Stored(Key) /\ Len(inbox) \in Nat \ {0} /\ who \in Callers \cup {Gone}
      /\ who # Gone => At(who, "asking") /\ Key = Doc(who)
  BY FirstRequest, InboxEntries
<1>t. inbox \in Seq(Post) /\ log \in Seq(Event) /\ answer \in [Callers -> Answers]
  BY DEF OutboundInv, ContractTypes
<1>1. /\ \A c \in Callers : answer'[c] = IF c = who THEN a ELSE answer[c]
      /\ answer' \in [Callers -> Answers]
  BY <1>0, <1>t, ContractAssumption DEF Settled, Answers
<1>2. /\ inbox' \in Seq(Post) /\ Len(inbox') = Len(inbox) - 1
      /\ \A i \in 1 .. Len(inbox') : inbox'[i] = inbox[i+1] /\ i + 1 \in 1 .. Len(inbox)
  BY <1>0, <1>t DEF Settled
<1>3. \/ log' = log
      \/ /\ log' = Append(log, [key |-> Key, status |-> s])
         /\ [key |-> Key, status |-> s] \in Event
  BY <1>0 DEF Report, Event
<1>4. Final /\ ContractTypes' /\ Len(log') >= Len(log)
  <2>1. log' \in Seq(Event) /\ Len(log') >= Len(log)
    BY <1>3, <1>t
  <2> QED BY <1>1, <1>2, <2>1 DEF Final, OutboundInv, ContractTypes, Settled
<1>5. \A k \in Keys : outcome'[k] # "open" => Stored(k)
  BY DEF OutboundInv, RowSound, Deliveries
<1>6. ASSUME NEW w \in Workers PROVE AnswerSound(w)'
  <2>1. CASE w = who
    <3>1. answer'[w] = a /\ At(w, "asking")' /\ Doc(w)' = Key
      BY <2>1, <1>0, <1>1, ContractAssumption DEF siteVars, At, Doc, JobOf, Workers
    <3> QED BY <3>1 DEF AnswerSound
  <2>2. CASE w # who
    BY <2>2, <1>1, <1>4, AnswerKept DEF OutboundInv, siteVars, Workers, SameWork
  <2> QED BY <2>1, <2>2
<1>7. InboxInv'
  <2> SUFFICES ASSUME NEW i \in 1 .. Len(inbox')
               PROVE  /\ Stored(inbox'[i].key)
                      /\ inbox'[i].caller # Gone =>
                         /\ At(inbox'[i].caller, "asking") /\ answer'[inbox'[i].caller] = "waiting"
                         /\ inbox'[i].key = Doc(inbox'[i].caller)
                         /\ \A j \in 1 .. Len(inbox') : inbox'[j].caller = inbox'[i].caller => i = j
    BY DEF InboxInv, siteVars, At, Stored, Doc, JobOf
  <2>1. inbox'[i] = inbox[i+1] /\ i + 1 \in 1 .. Len(inbox) /\ i + 1 # 1 /\ 1 \in 1 .. Len(inbox)
    BY <1>0, <1>2
  <2>2. /\ Stored(inbox[i+1].key)
        /\ inbox[i+1].caller # Gone =>
              /\ At(inbox[i+1].caller, "asking") /\ answer[inbox[i+1].caller] = "waiting"
              /\ inbox[i+1].key = Doc(inbox[i+1].caller)
              /\ \A j \in 1 .. Len(inbox) : inbox[j].caller = inbox[i+1].caller => i + 1 = j
    BY <2>1 DEF OutboundInv, InboxInv
  <2>3. inbox[i+1].caller # Gone => inbox[i+1].caller # who /\ inbox[i+1].caller \in Callers
    BY <2>1, <2>2, InboxEntries
  <2>4. inbox[i+1].caller # Gone =>
           \A j \in 1 .. Len(inbox') : inbox'[j].caller = inbox'[i].caller => i = j
    <3> SUFFICES ASSUME inbox[i+1].caller # Gone, NEW j \in 1 .. Len(inbox'),
                        inbox'[j].caller = inbox'[i].caller PROVE i = j
      OBVIOUS
    <3>1. inbox'[j] = inbox[j+1] /\ j + 1 \in 1 .. Len(inbox)
      BY <1>2
    <3>2. i + 1 = j + 1
      BY <3>1, <2>1, <2>2
    <3> QED BY <3>2
  <2> QED BY <2>1, <2>2, <2>3, <2>4, <1>1
<1>8. LogInv'
  <2> SUFFICES ASSUME NEW i \in 1 .. Len(log')
               PROVE  /\ Stored(log'[i].key)
                      /\ log'[i].status # "Failed" => outcome[log'[i].key] = "submitted"
    BY DEF LogInv, siteVars, Stored
  <2>1. CASE i \in 1 .. Len(log) /\ log'[i] = log[i]
    BY <2>1 DEF OutboundInv, LogInv
  <2>2. CASE log'[i] = [key |-> Key, status |-> s]
    BY <2>2, <1>0
  <2>3. CASE log' = log
    BY <2>1, <2>3
  <2>4. CASE log' = Append(log, [key |-> Key, status |-> s])
    <3>1. \/ i \in 1 .. Len(log) /\ log'[i] = log[i]
          \/ log'[i] = [key |-> Key, status |-> s]
      BY <2>4, <1>t
    <3> QED BY <3>1, <2>1, <2>2
  <2> QED BY <1>3, <2>3, <2>4
<1> QED BY <1>4, <1>5, <1>6, <1>7, <1>8, GatewayFrame

\* The three answers.
LEMMA AnswerInv ==
    ASSUME OutboundInv, AnswerOk \/ AnswerFailed \/ AnswerUncertain, UNCHANGED siteVars
    PROVE  OutboundInv'
<1>1. CASE AnswerOk
  BY <1>1, SettledInv DEF AnswerOk, ReportDecision
<1>2. CASE AnswerFailed
  BY <1>2, SettledInv DEF AnswerFailed
<1>3. CASE AnswerUncertain
  BY <1>3, SettledInv DEF AnswerUncertain, ReportDecision
<1> QED BY <1>1, <1>2, <1>3

\* A receipt is logged.
LEMMA NotifyInv ==
    ASSUME OutboundInv, NEW k \in Keys, NEW s \in {"Acknowledged", "Failed"}, Notify(k, s),
           UNCHANGED siteVars
    PROVE  OutboundInv'
<1> USE DEF Notify
<1> DEFINE e == [key |-> k, status |-> s]
<1>t. log \in Seq(Event) /\ Stored(k) /\ e \in Event /\ outcome[k] = "submitted"
  BY DEF OutboundInv, ContractTypes, RowSound, Event, Deliveries
<1>0. log' = Append(log, e)
  BY DEF Report
<1>1. Final /\ ContractTypes' /\ Len(log') >= Len(log)
  <2>1. log' \in Seq(Event) /\ Len(log') >= Len(log)
    BY <1>0, <1>t
  <2> QED BY <2>1 DEF Final, OutboundInv, ContractTypes
<1>2. \A x \in Keys : outcome'[x] # "open" => Stored(x)
  BY DEF OutboundInv, RowSound, Deliveries
<1>3. \A w \in Workers : AnswerSound(w)'
  BY <1>1, AnswerKept DEF OutboundInv, siteVars, SameWork
<1>4. InboxInv'
  BY DEF OutboundInv, InboxInv, siteVars, Stored, At, Doc, JobOf
<1>5. LogInv'
  <2> SUFFICES ASSUME NEW i \in 1 .. Len(log')
               PROVE  /\ Stored(log'[i].key)
                      /\ log'[i].status # "Failed" => outcome[log'[i].key] = "submitted"
    BY DEF LogInv, siteVars, Stored
  <2>1. CASE i \in 1 .. Len(log) /\ log'[i] = log[i]
    BY <2>1 DEF OutboundInv, LogInv
  <2>2. CASE log'[i] = e
    BY <2>2, <1>t
  <2> QED BY <1>0, <1>t, <2>1, <2>2
<1> QED BY <1>1, <1>2, <1>3, <1>4, <1>5, GatewayFrame

\* A worker that stops waiting leaves an anonymous request behind.
LEMMA AbandonFacts ==
    ASSUME OutboundInv, NEW w \in Workers, Abandon(w)
    PROVE  /\ ContractTypes'
           /\ UNCHANGED <<outcome, log>>
           /\ \A v \in Workers : answer'[v] = IF v = w THEN "unavailable" ELSE answer[v]
           /\ Len(inbox') = Len(inbox)
           /\ \A i \in 1 .. Len(inbox) :
                 /\ inbox'[i].key = inbox[i].key
                 /\ inbox'[i].caller = IF inbox[i].caller = w THEN Gone ELSE inbox[i].caller
<1> USE DEF Abandon
<1>0. inbox \in Seq(Post) /\ Len(inbox) \in Nat
  BY DEF OutboundInv, ContractTypes
<1>1. ASSUME NEW i \in 1 .. Len(inbox)
      PROVE  /\ inbox'[i] \in Post /\ inbox'[i].key = inbox[i].key
             /\ inbox'[i].caller = IF inbox[i].caller = w THEN Gone ELSE inbox[i].caller
  BY InboxEntries DEF Post
<1>2. inbox' \in Seq(Post) /\ Len(inbox') = Len(inbox)
  BY <1>0, <1>1
<1>3. answer' \in [Callers -> Answers] /\ \A v \in Workers : answer'[v] = IF v = w THEN "unavailable" ELSE answer[v]
  BY DEF OutboundInv, ContractTypes, Answers, Workers
<1> QED BY <1>1, <1>2, <1>3 DEF OutboundInv, ContractTypes

\* The request times out.
LEMMA TimesOutInv ==
    ASSUME OutboundInv, NEW w \in Workers, RequestTimesOut(w)
    PROVE  OutboundInv'
<1>0. UNCHANGED siteVars /\ Abandon(w) /\ At(w, "asking")
  BY DEF RequestTimesOut
<1>1. Final /\ ContractTypes' /\ Len(log') >= Len(log)
  <2>1. Len(log) \in Nat
    BY DEF OutboundInv, ContractTypes
  <2> QED BY <2>1, <1>0, AbandonFacts DEF Final
<1>2. \A x \in Keys : outcome'[x] # "open" => Stored(x)
  BY <1>0, AbandonFacts DEF OutboundInv, RowSound, Deliveries
<1>3. ASSUME NEW v \in Workers PROVE AnswerSound(v)'
  <2>1. CASE v = w
    BY <2>1, <1>0, AbandonFacts DEF AnswerSound, siteVars, At
  <2>2. CASE v # w
    BY <2>2, <1>0, <1>1, AbandonFacts, AnswerKept DEF OutboundInv, siteVars, SameWork
  <2> QED BY <2>1, <2>2
<1>4. InboxInv'
  <2>0. Len(inbox') = Len(inbox)
    BY <1>0, AbandonFacts
  <2> SUFFICES ASSUME NEW i \in 1 .. Len(inbox)
               PROVE  /\ Stored(inbox'[i].key)
                      /\ inbox'[i].caller # Gone =>
                         /\ At(inbox'[i].caller, "asking") /\ answer'[inbox'[i].caller] = "waiting"
                         /\ inbox'[i].key = Doc(inbox'[i].caller)
                         /\ \A j \in 1 .. Len(inbox) : inbox'[j].caller = inbox'[i].caller => i = j
    BY <1>0, <2>0 DEF InboxInv, siteVars, At, Stored, Doc, JobOf
  <2>1. /\ Stored(inbox[i].key)
        /\ inbox[i].caller # Gone =>
              /\ At(inbox[i].caller, "asking") /\ answer[inbox[i].caller] = "waiting"
              /\ inbox[i].key = Doc(inbox[i].caller)
              /\ \A j \in 1 .. Len(inbox) : inbox[j].caller = inbox[i].caller => i = j
    BY DEF OutboundInv, InboxInv
  <2>2. inbox[i].caller \in Workers \cup {Gone}
    BY InboxEntries DEF Workers
  <2> QED BY <2>1, <2>2, <1>0, AbandonFacts
<1>5. LogInv'
  BY <1>0, AbandonFacts DEF OutboundInv, LogInv, siteVars, Stored
<1> QED BY <1>0, <1>1, <1>2, <1>3, <1>4, <1>5, GatewayFrame

\* The gateway dies: its requests are lost, and one of a group may be blocked.
LEMMA DieInv ==
    ASSUME OutboundInv, Die, UNCHANGED <<rows, locks, jobs, work, pass, lastEvent, asks>>,
           faults' = faults + 1
    PROVE  OutboundInv'
<1> USE DEF Die
<1>0. Key \in Keys /\ Stored(Key)
  BY FirstRequest
<1>1. Final /\ ContractTypes' /\ log' = log
  <2>1. outcome' \in [Keys -> {"open", "submitted", "blocked"}] /\ Final
    BY <1>0 DEF Final, OutboundInv, ContractTypes
  <2>2. answer' \in [Callers -> Answers]
    BY DEF OutboundInv, ContractTypes, Answers
  <2>3. inbox' \in Seq(Post)
    BY EmptySeq
  <2> QED BY <2>1, <2>2, <2>3 DEF OutboundInv, ContractTypes
<1>2. \A k \in Keys : outcome'[k] # "open" => Stored(k)
  BY <1>0 DEF OutboundInv, RowSound, ContractTypes, Deliveries
<1>3. ASSUME NEW v \in Workers PROVE AnswerSound(v)'
  <2>1. CASE answer[v] = "waiting"
    <3>1. answer'[v] = "unavailable"
      BY <2>1 DEF Workers
    <3>2. At(v, "asking")'
      BY <2>1 DEF OutboundInv, WorkerInv, AnswerSound, At
    <3> QED BY <3>1, <3>2 DEF AnswerSound
  <2>2. CASE answer[v] # "waiting"
    <3>1. answer'[v] = answer[v]
      BY <2>2 DEF Workers
    <3> QED BY <3>1, <1>1, AnswerKept DEF OutboundInv, SameWork
  <2> QED BY <2>1, <2>2
<1>4. InboxInv'
  BY DEF InboxInv
<1>5. LogInv'
  BY <1>1, LogEntries DEF OutboundInv, LogInv, Stored, Final
<1>6. StoredGrows
  BY DEF StoredGrows, Stored
<1>7. SiteTypes'
  BY <1>1 DEF OutboundInv, SiteTypes
<1>8. \A d \in Deliveries : RowSound(d)'
  BY <1>1, <1>2, <1>6, RowKept DEF OutboundInv, SiteTypes, Deliveries
<1>9. \A w \in Workers : WorkerInv(w)'
  BY <1>1, <1>3, <1>6, WorkerKept DEF OutboundInv, SameWork
<1>10. PassInv' /\ JobsInv'
  BY <1>1 DEF OutboundInv, PassInv, JobsInv, Final, Terminal, Stored, Deliveries
<1>11. AsksInv'
  <2>1. \A w \in Workers : Doc(w)' = Doc(w)
    BY DEF Doc, JobOf
  <2>2. faults' \in Nat /\ faults' >= faults
    BY DEF OutboundInv, SiteTypes
  <2>3. \A d \in Deliveries : rows'[d].attempts \in Nat /\ rows'[d].attempts >= rows[d].attempts
    BY Counters
  <2> QED BY <1>1, <2>1, <2>2, <2>3, AsksKept DEF SameRequest
<1> QED BY <1>1, <1>4, <1>5, <1>7, <1>8, <1>9, <1>10, <1>11 DEF OutboundInv

-----------------------------------------------------------------------------
(* Steps of a worker inside its transaction *)

\* A step that changes only the worker's transaction, and locks at most one free
\* row for it, disturbs nobody else.
Locks(h) == locks' = locks \/ \E d \in Deliveries : locks[d] = Free /\ locks' = [locks EXCEPT ![d] = h]

\* Taking a free row changes nobody else's locks.
LEMMA LockFacts ==
    ASSUME SiteTypes, NEW h \in Workers \cup {Sched}, Locks(h)
    PROVE  /\ locks' \in [Deliveries -> Workers \cup {Sched, Free}]
           /\ \A g \in Workers \cup {Sched} : g # h =>
                 \A d \in Deliveries : locks'[d] = g <=> locks[d] = g
  BY OutboundAssumption DEF SiteTypes, Locks

\* A step of one worker that leaves rows, pass and gateway alone keeps the invariant
\* as soon as that worker is sound after it.
LEMMA WorkerFrame ==
    ASSUME OutboundInv, NEW w \in Workers, NEW new \in Work, work' = [work EXCEPT ![w] = new],
           UNCHANGED <<rows, pass, lastEvent, asks, faults, contractVars>>,
           jobs' \subseteq jobs, Locks(w), WorkerInv(w)',
           work[w].stage \in {"asking", "saved"} => SameRequest(w) \/ outcome[Doc(w)] = "submitted",
           answer[w] = "waiting" => At(w, "asking")' /\ Doc(w)' = Doc(w)
    PROVE  OutboundInv'
<1> USE DEF contractVars
<1>0. Final /\ StoredGrows /\ work \in [Workers -> Work]
  BY DEF Final, StoredGrows, Stored, OutboundInv, SiteTypes
<1>1. \A v \in Workers \ {w} : work'[v] = work[v] /\ Doc(v)' = Doc(v)
  BY <1>0 DEF Doc, JobOf
<1>l. /\ locks' \in [Deliveries -> Workers \cup {Sched, Free}]
      /\ \A g \in Workers \cup {Sched} : g # w =>
            \A d \in Deliveries : locks'[d] = g <=> locks[d] = g
  BY LockFacts DEF OutboundInv
<1>2. SiteTypes' /\ ContractTypes'
  BY <1>0, <1>l DEF OutboundInv, SiteTypes, ContractTypes
<1>3. \A d \in Deliveries : RowSound(d)'
  BY DEF OutboundInv, RowSound, Stored, Terminal
<1>4. ASSUME NEW v \in Workers PROVE WorkerInv(v)'
  <2>1. CASE v # w
    <3>1. AnswerSound(v)'
      BY <2>1, <1>0, <1>1, AnswerKept DEF OutboundInv, SameWork
    <3> QED BY <2>1, <3>1, <1>0, <1>1, <1>l, WorkerKept DEF OutboundInv, SameWork
  <2> QED BY <2>1
<1>5. PassInv'
  BY <1>l, OutboundAssumption DEF OutboundInv, PassInv, Stored, Terminal
<1>6. JobsInv' /\ LogInv'
  BY DEF OutboundInv, JobsInv, LogInv, Stored
<1>7. InboxInv'
  <2>1. \A v \in Workers : At(v, "asking") /\ answer[v] = "waiting" => At(v, "asking")' /\ Doc(v)' = Doc(v)
    BY <1>1 DEF At
  <2> SUFFICES ASSUME NEW i \in 1 .. Len(inbox)
               PROVE  /\ Stored(inbox[i].key)'
                      /\ inbox[i].caller # Gone =>
                         /\ work'[inbox[i].caller].stage = "asking" /\ answer[inbox[i].caller] = "waiting"
                         /\ inbox[i].key = Doc(inbox[i].caller)'
                         /\ \A j \in 1 .. Len(inbox) : inbox[j].caller = inbox[i].caller => i = j
    BY DEF InboxInv, At
  <2>2. /\ Stored(inbox[i].key)
        /\ inbox[i].caller # Gone =>
              /\ At(inbox[i].caller, "asking") /\ answer[inbox[i].caller] = "waiting"
              /\ inbox[i].key = Doc(inbox[i].caller)
              /\ \A j \in 1 .. Len(inbox) : inbox[j].caller = inbox[i].caller => i = j
    BY DEF OutboundInv, InboxInv
  <2>3. inbox[i].caller \in Workers \cup {Gone} /\ inbox' = inbox
    BY InboxEntries DEF Workers
  <2>4. Stored(inbox[i].key)'
    BY <2>2, <2>3 DEF Stored
  <2> QED BY <2>1, <2>2, <2>3, <2>4 DEF At
<1>8. AsksInv'
  <2>1. \A v \in Workers : work[v].stage \in {"asking", "saved"} =>
                            SameRequest(v) \/ outcome'[Doc(v)] = "submitted"
    BY <1>1 DEF SameRequest
  <2>2. \A d \in Deliveries : rows'[d].attempts \in Nat /\ rows'[d].attempts >= rows[d].attempts
    BY Counters
  <2>3. faults' \in Nat /\ faults' >= faults
    BY Counters
  <2> QED BY <1>0, <2>1, <2>2, <2>3, AsksKept
<1> QED BY <1>2, <1>3, <1>4, <1>5, <1>6, <1>7, <1>8 DEF OutboundInv

\* A worker without a job.
LEMMA IdleSound ==
    ASSUME NEW w \in Workers, work'[w] = IdleWork, answer'[w] # "waiting",
           \A d \in Deliveries : locks'[d] # w
    PROVE  WorkerInv(w)'
  BY DEF WorkerInv, AnswerSound, At, IdleWork

\* The worker's transaction after a step.
LEMMA NewWork ==
    ASSUME OutboundInv, NEW w \in Workers, NEW new, work' = [work EXCEPT ![w] = new]
    PROVE  /\ work'[w] = new /\ \A s : At(w, s)' <=> new.stage = s
           /\ \A j : new.job = {j} => Doc(w)' = j.d
           /\ new.job = work[w].job => Doc(w)' = Doc(w)
<1>1. work'[w] = new
  BY DEF OutboundInv, SiteTypes
<1>2. \A j : (CHOOSE x \in {j} : TRUE) = j
  OBVIOUS
<1> QED BY <1>1, <1>2 DEF At, Doc, JobOf

\* A job is taken: it is of a stored delivery that may be sent or released.
LEMMA TakeJobInv ==
    ASSUME OutboundInv, NEW w \in Workers, NEW j \in jobs, TakeJob(w, j)
    PROVE  OutboundInv'
<1> DEFINE stg == IF Terminal(rows[j.d]) THEN "releasing" ELSE "loaded"
           kids == {c \in Copies(j.d) : Releasable(rows[c])}
           new == [IdleWork EXCEPT !.stage = stg, !.job = {j}, !.doc = rows[j.d], !.kids = kids]
<1>0. /\ j \in JobIds /\ j.d \in Deliveries /\ rows[j.d] \in Row /\ Stored(j.d)
      /\ At(w, "idle") /\ work' = [work EXCEPT ![w] = IF NothingToDo(j.d) THEN IdleWork ELSE new]
      /\ UNCHANGED <<rows, locks, pass, lastEvent, asks, faults, contractVars>> /\ jobs' \subseteq jobs
  BY DEF TakeJob, OutboundInv, SiteTypes, JobIds, JobsInv
<1>1. /\ answer[w] # "waiting" /\ answer'[w] = answer[w] /\ Locks(w)
      /\ \A d \in Deliveries : locks[d] # w /\ locks'[d] = locks[d]
      /\ work[w].stage = "idle"
  BY <1>0 DEF OutboundInv, WorkerInv, AnswerSound, At, contractVars, Locks
<1>2. CASE NothingToDo(j.d)
  <2>1. work' = [work EXCEPT ![w] = IdleWork]
    BY <1>0, <1>2
  <2>2. WorkerInv(w)'
    BY <2>1, <1>1, IdleSound, NewWork
  <2> QED BY <1>0, <1>1, <2>1, <2>2, Blanks, WorkerFrame
<1>3. CASE ~NothingToDo(j.d)
  <2>1. /\ stg \in Stages \ {"idle"} /\ kids \subseteq Groups
        /\ new.stage = stg /\ new.job = {j} /\ new.doc = rows[j.d] /\ new.kids = kids
        /\ new.freed = {} /\ new.later = {} /\ new.fresh = TRUE
    BY DEF Stages, IdleWork, Copies
  <2>2. new \in Work
    BY <2>1, <1>0 DEF Work, IdleWork, Stages
  <2>3. work' = [work EXCEPT ![w] = new]
    BY <1>0, <1>3
  <2> HIDE DEF new
  <2>4. work'[w] = new /\ Doc(w)' = j.d /\ \A s : At(w, s)' <=> stg = s
    <3>1. work'[w] = new /\ Doc(w)' = j.d
      <4>1. new.job = {j}
        BY <2>1
      <4> HIDE DEF stg, kids
      <4> QED BY <4>1, <2>3, NewWork
    <3> QED BY <2>1, <3>1 DEF At
  <2>5. WorkSound(w)'
    <3>1. \A c \in kids : CopyOf[c] = j.d /\ Stored(c)
      BY DEF Copies, Releasable, Stored
    <3>2. j.d \in Groups => outcome[CopyOf[j.d]] = "submitted"
      <4> HAVE j.d \in Groups
      <4>1. ~Terminal(rows[j.d]) /\ ~PrimaryPending(j.d)
        BY <1>3 DEF NothingToDo
      <4>2. Terminal(rows[CopyOf[j.d]]) /\ CopyOf[j.d] \in Deliveries
        BY <4>1, OutboundAssumption DEF PrimaryPending, Primaries, Deliveries
      <4> QED BY <4>2 DEF OutboundInv, RowSound
    <3> QED BY <2>1, <2>4, <1>0, <3>1, <3>2 DEF WorkSound, Stored, contractVars
  <2>6. DocSound(w)'
    <3>1. RowSound(j.d)
      BY <1>0 DEF OutboundInv
    <3>2. Terminal(rows[j.d]) \/ ~rows[j.d].recon
      BY <1>3 DEF NothingToDo
    <3>3. locks'[j.d] # w
      BY <1>0, <1>1
    <3>4. /\ Terminal(work'[w].doc) => outcome'[j.d] = "submitted"
          /\ work'[w].doc.recon => outcome'[j.d] = "blocked"
      BY <3>1, <2>1, <2>4, <1>0 DEF RowSound, Terminal, contractVars
    <3>5. At(w, "loaded")' => ~work'[w].doc.recon /\ Same(w)'
      BY <3>2, <2>1, <2>4, <1>0 DEF Same
    <3>6. At(w, "releasing")' => Terminal(work'[w].doc)
      BY <2>1, <2>4
    <3>7. work'[w].stage \in {"loaded", "releasing"}
      BY <2>1, <2>4
    <3> QED BY <2>4, <3>3, <3>4, <3>5, <3>6, <3>7 DEF DocSound, Terminal
  <2>7. AnswerSound(w)'
    BY <1>1, <2>4 DEF AnswerSound
  <2>8. WorkerInv(w)'
    BY <1>1, <2>1, <2>4, <2>5, <2>6, <2>7 DEF WorkerInv
  <2> QED BY <1>0, <1>1, <2>2, <2>3, <2>8, WorkerFrame
<1> QED BY <1>2, <1>3

\* A busy worker's facts, in one place.
LEMMA Busy ==
    ASSUME OutboundInv, NEW w \in Workers, ~At(w, "idle")
    PROVE  /\ WorkSound(w) /\ DocSound(w) /\ Doc(w) \in Deliveries
           /\ work[w] \in Work /\ work[w].doc \in Row
           /\ \E j \in JobIds : work[w].job = {j}
           /\ \A d \in Deliveries : locks[d] = w => d = Doc(w) \/ d \in work[w].freed
  BY DocType, Counters DEF OutboundInv, WorkerInv, WorkSound

\* A step that keeps job, copies and enqueues of the worker and what it has locked.
LEMMA WorkSoundKept ==
    ASSUME OutboundInv, NEW w \in Workers, ~At(w, "idle"), NEW new \in Work,
           work' = [work EXCEPT ![w] = new], new.job = work[w].job, new.doc.status # "Absent",
           new.stage = "releasing" \/ new.freed = {},
           new.kids \subseteq work[w].kids, new.freed = work[w].freed, new.later = work[w].later,
           UNCHANGED <<rows, outcome>>, Locks(w)
    PROVE  WorkSound(w)'
<1>1. work'[w] = new /\ Doc(w)' = Doc(w)
  BY NewWork
<1>2. WorkSound(w)
  BY Busy
<1>3. \A c \in work[w].freed : locks'[c] = w
  <2>1. \A c \in work[w].freed : locks[c] = w /\ c \in Deliveries
    BY <1>2, Busy, ContractAssumption DEF WorkSound, Work, Deliveries
  <2> QED BY <2>1, OutboundAssumption DEF Locks, OutboundInv, SiteTypes
<1> QED BY <1>1, <1>2, <1>3 DEF WorkSound, Stored, At

\* The first save: refused when the document is stale, else the row is locked.
LEMMA FirstSaveInv ==
    ASSUME OutboundInv, NEW w \in Workers, FirstSave(w)
    PROVE  OutboundInv'
<1> DEFINE doc == work[w].doc
           failed == [doc EXCEPT !.status = "Failed", !.retry = "none"]
           next == [doc EXCEPT !.attempts = @ + 1, !.status = "Processing", !.retry = "none"]
<1>0. /\ At(w, "loaded") /\ ~At(w, "idle") /\ work[w].stage = "loaded" /\ locks[Doc(w)] = Free
      /\ UNCHANGED <<rows, jobs, pass, lastEvent, asks, faults, contractVars>>
      /\ UNCHANGED <<outcome, answer>>
  BY DEF FirstSave, At, contractVars
<1>1. /\ WorkSound(w) /\ DocSound(w) /\ Doc(w) \in Deliveries /\ work[w] \in Work /\ doc \in Row
      /\ \A d \in Deliveries : locks[d] # w
      /\ answer[w] # "waiting" /\ locks \in [Deliveries -> Workers \cup {Sched, Free}]
      /\ work \in [Workers -> Work] /\ work[w].freed = {}
  <2>1. WorkSound(w) /\ DocSound(w) /\ Doc(w) \in Deliveries /\ work[w] \in Work /\ doc \in Row
    BY <1>0, Busy
  <2>2. work[w].freed = {}
    BY <1>0, <2>1 DEF WorkSound, At
  <2>3. \A d \in Deliveries : locks[d] # w
    BY <1>0, <2>2, Busy, OutboundAssumption
  <2> QED BY <1>0, <2>1, <2>2, <2>3 DEF OutboundInv, WorkerInv, AnswerSound, At, SiteTypes
<1>2. ~doc.recon /\ (work[w].fresh => Same(w))
  BY <1>0, <1>1 DEF DocSound
<1>d. doc.attempts \in Nat /\ rows[Doc(w)].attempts \in Nat
  BY <1>1, Counters
<1>3. CASE work' = [work EXCEPT ![w] = IdleWork] /\ UNCHANGED locks
  <2>1. WorkerInv(w)'
    BY <1>0, <1>1, <1>3, IdleSound, NewWork
  <2>2. Locks(w)
    BY <1>3 DEF Locks
  <2> QED BY <1>0, <1>1, <1>3, <2>1, <2>2, Blanks, WorkerFrame
<1>4. ASSUME work[w].fresh, NEW new \in Work, NEW row \in Row, work' = [work EXCEPT ![w] = new],
             locks' = [locks EXCEPT ![Doc(w)] = w],
             new.job = work[w].job, new.doc = row, new.kids \subseteq work[w].kids,
             new.freed = work[w].freed, new.later = work[w].later,
             ~row.recon, row.status # "Absent", ~Terminal(row),
             \/ new.stage = "saved" /\ row.attempts = doc.attempts
             \/ new.stage = "sending" /\ row.attempts = doc.attempts + 1
      PROVE  OutboundInv'
  <2>1. work'[w] = new /\ Doc(w)' = Doc(w) /\ \A s : At(w, s)' <=> new.stage = s
    BY <1>4, NewWork
  <2>2. Locks(w) /\ locks'[Doc(w)] = w /\ \A d \in Deliveries : locks'[d] = w => d = Doc(w)
    BY <1>4, <1>0, <1>1 DEF Locks
  <2>3. WorkSound(w)'
    BY <1>4, <1>0, <1>1, <2>2, WorkSoundKept
  <2>4. (Same(w)' /\ new.stage = "saved") \/ (Next1(w)' /\ new.stage = "sending")
    BY <1>4, <1>0, <1>2, <2>1 DEF Same, Next1
  <2>5. DocSound(w)'
    BY <1>4, <2>1, <2>2, <2>4 DEF DocSound, Terminal
  <2>6. AnswerSound(w)'
    BY <1>4, <2>1, <1>0, <1>1 DEF AnswerSound
  <2>7. WorkerInv(w)'
    BY <1>4, <2>1, <2>2, <2>3, <2>5, <2>6 DEF WorkerInv
  <2> QED BY <1>0, <1>1, <1>4, <2>2, <2>7, WorkerFrame
<1>5. CASE /\ work[w].fresh /\ doc.attempts >= AttemptLimit
           /\ work' = [work EXCEPT ![w].stage = "saved", ![w].kids = {}, ![w].doc = failed]
           /\ locks' = [locks EXCEPT ![Doc(w)] = w]
  <2> DEFINE new == [work[w] EXCEPT !.stage = "saved", !.kids = {}, !.doc = failed]
  <2>1. failed \in Row /\ failed.status = "Failed" /\ failed.attempts = doc.attempts /\ failed.recon = doc.recon
    BY <1>1 DEF Row
  <2> HIDE DEF failed
  <2>2. /\ new \in Work /\ new.stage = "saved" /\ new.job = work[w].job /\ new.doc = failed
        /\ new.kids = {} /\ new.freed = work[w].freed /\ new.later = work[w].later
    BY <1>1, <2>1 DEF Work, Stages
  <2>3. work' = [work EXCEPT ![w] = new]
    BY <1>1, <1>5
  <2> HIDE DEF new
  <2> QED BY <1>2, <1>4, <1>5, <2>1, <2>2, <2>3 DEF Terminal
<1>6. CASE /\ work[w].fresh /\ doc.attempts < AttemptLimit
           /\ work' = [work EXCEPT ![w].stage = "sending", ![w].doc = next]
           /\ locks' = [locks EXCEPT ![Doc(w)] = w]
  <2> DEFINE new == [work[w] EXCEPT !.stage = "sending", !.doc = next]
  <2>1. next \in Row /\ next.status = "Processing" /\ next.attempts = doc.attempts + 1 /\ next.recon = doc.recon
    <3>1. doc.attempts + 1 \in 0 .. AttemptLimit
      BY <1>6, <1>d, LimitType
    <3> QED BY <1>1, <3>1 DEF Row
  <2> HIDE DEF next
  <2>2. /\ new \in Work /\ new.stage = "sending" /\ new.job = work[w].job /\ new.doc = next
        /\ new.kids = work[w].kids /\ new.freed = work[w].freed /\ new.later = work[w].later
    BY <1>1, <2>1 DEF Work, Stages
  <2>3. work' = [work EXCEPT ![w] = new]
    BY <1>1, <1>6
  <2> HIDE DEF new
  <2> QED BY <1>2, <1>4, <1>6, <2>1, <2>2, <2>3 DEF Terminal
<1> QED BY <1>3, <1>5, <1>6 DEF FirstSave

\* A failed attempt: nothing was asked, or the answer says so.
LEMMA AttemptFails ==
    ASSUME OutboundInv, NEW w \in Workers, At(w, "sending") \/ At(w, "asking"), NEW u \in BOOLEAN,
           u => outcome[Doc(w)] = "blocked", answer[w] # "waiting",
           NEW kids \in SUBSET work[w].kids,
           work' = [work EXCEPT ![w].stage = "saved", ![w].kids = kids, ![w].doc = FailedDoc(@, u)],
           UNCHANGED <<rows, locks, jobs, pass, lastEvent, asks, faults, contractVars>>
    PROVE  OutboundInv'
<1> DEFINE doc == work[w].doc  row == FailedDoc(doc, u)
           new == [work[w] EXCEPT !.stage = "saved", !.kids = kids, !.doc = row]
<1>0. ~At(w, "idle") /\ UNCHANGED <<outcome, answer>> /\ work[w].stage \in {"sending", "asking"}
  BY DEF At, contractVars
<1>1. /\ WorkSound(w) /\ DocSound(w) /\ Doc(w) \in Deliveries /\ work[w] \in Work /\ doc \in Row
      /\ \A d \in Deliveries : locks[d] = w => d = Doc(w)
      /\ work[w].freed = {} /\ work \in [Workers -> Work]
  BY <1>0, Busy DEF WorkSound, At, OutboundInv, SiteTypes
<1>2. Next1(w) /\ locks[Doc(w)] = w
  BY <1>0, <1>1 DEF DocSound
<1>3. row \in Row /\ row.status = "Failed" /\ row.attempts = doc.attempts /\ row.recon = u
  BY <1>1, FailedDocFields
<1> HIDE DEF row
<1>4. /\ new \in Work /\ new.stage = "saved" /\ new.job = work[w].job /\ new.doc = row
      /\ new.kids \subseteq work[w].kids /\ new.freed = work[w].freed /\ new.later = work[w].later
  BY <1>1, <1>3 DEF Work, Stages
<1>5. work' = [work EXCEPT ![w] = new]
  BY <1>1 DEF row
<1> HIDE DEF new
<1>6. work'[w] = new /\ Doc(w)' = Doc(w) /\ (\A s : At(w, s)' <=> new.stage = s) /\ Locks(w)
  BY <1>4, <1>5, NewWork DEF Locks
<1>7. WorkSound(w)'
  <2>1. new.doc.status # "Absent" /\ new.freed = {} /\ UNCHANGED <<rows, outcome>>
    BY <1>0, <1>1, <1>3, <1>4
  <2> QED BY <1>0, <1>4, <1>5, <1>6, <2>1, WorkSoundKept
<1>8. DocSound(w)'
  <2>1. Next1(w)'
    BY <1>2, <1>3, <1>4, <1>6 DEF Next1
  <2> QED BY <2>1, <1>0, <1>3, <1>4, <1>6, <1>2 DEF DocSound, Terminal
<1>9. AnswerSound(w)'
  BY <1>0, <1>4, <1>6 DEF AnswerSound
<1>10. WorkerInv(w)'
  BY <1>1, <1>4, <1>6, <1>7, <1>8, <1>9 DEF WorkerInv
<1>11. SameRequest(w)
  BY <1>3, <1>4, <1>6 DEF SameRequest
<1> QED BY <1>0, <1>4, <1>5, <1>6, <1>10, <1>11, WorkerFrame

\* An attempt that ends before the request fails with certainty.
LEMMA PrepareFailsInv ==
    ASSUME OutboundInv, NEW w \in Workers, PrepareFails(w)
    PROVE  OutboundInv'
<1>1. answer[w] # "waiting" /\ At(w, "sending")
  BY DEF PrepareFails, OutboundInv, WorkerInv, AnswerSound, At
<1>2. /\ work' = [work EXCEPT ![w].stage = "saved", ![w].kids = {}, ![w].doc = FailedDoc(@, FALSE)]
      /\ UNCHANGED <<rows, locks, jobs, pass, lastEvent, asks, faults, contractVars>>
      /\ {} \in SUBSET work[w].kids /\ FALSE \in BOOLEAN
  BY DEF PrepareFails
<1> QED BY <1>1, <1>2, AttemptFails

\* The answer is written to the document.
LEMMA ReceiveInv ==
    ASSUME OutboundInv, NEW w \in Workers, Receive(w)
    PROVE  OutboundInv'
<1> DEFINE doc == work[w].doc  row == [doc EXCEPT !.status = "Submitted", !.ids = TRUE]
           new == [work[w] EXCEPT !.stage = "releasing", !.doc = row]
<1>0. /\ ~At(w, "idle") /\ UNCHANGED <<outcome, answer>> /\ At(w, "asking") /\ answer[w] # "waiting"
      /\ work[w].stage = "asking"
      /\ UNCHANGED <<rows, locks, jobs, pass, lastEvent, asks, faults, contractVars>>
  BY DEF Receive, At, contractVars
<1>1. /\ WorkSound(w) /\ DocSound(w) /\ Doc(w) \in Deliveries /\ work[w] \in Work /\ doc \in Row
      /\ \A d \in Deliveries : locks[d] = w => d = Doc(w)
      /\ work[w].freed = {} /\ work \in [Workers -> Work]
  BY <1>0, Busy DEF WorkSound, At, OutboundInv, SiteTypes
<1>2. /\ Next1(w) /\ ~doc.recon /\ locks[Doc(w)] = w
      /\ answer[w] = "ok" => outcome[Doc(w)] = "submitted"
      /\ answer[w] = "uncertain" => outcome[Doc(w)] = "blocked"
  BY <1>0, <1>1 DEF DocSound, OutboundInv, WorkerInv, AnswerSound
<1>3. CASE answer[w] # "ok"
  <2>1. work' = [work EXCEPT ![w].stage = "saved", ![w].kids = work[w].kids,
                             ![w].doc = FailedDoc(@, answer[w] = "uncertain")]
    BY <1>1, <1>3 DEF Receive, Work
  <2>2. PICK u \in BOOLEAN : u = (answer[w] = "uncertain")
    OBVIOUS
  <2>3. work' = [work EXCEPT ![w].stage = "saved", ![w].kids = work[w].kids, ![w].doc = FailedDoc(@, u)]
    BY <2>1, <2>2
  <2>4. (u => outcome[Doc(w)] = "blocked") /\ work[w].kids \in SUBSET work[w].kids
    BY <1>2, <2>2
  <2> QED BY <1>0, <2>3, <2>4, AttemptFails
<1>4. CASE answer[w] = "ok"
  <2>1. row \in Row /\ row.status = "Submitted" /\ row.attempts = doc.attempts /\ row.recon = doc.recon
    BY <1>1 DEF Row
  <2> HIDE DEF row
  <2>2. /\ new \in Work /\ new.stage = "releasing" /\ new.job = work[w].job /\ new.doc = row
        /\ new.kids = work[w].kids /\ new.freed = work[w].freed /\ new.later = work[w].later
    BY <1>1, <2>1 DEF Work, Stages
  <2>3. work' = [work EXCEPT ![w] = new]
    BY <1>1, <1>4 DEF Receive, row
  <2> HIDE DEF new
  <2>4. work'[w] = new /\ Doc(w)' = Doc(w) /\ (\A s : At(w, s)' <=> new.stage = s) /\ Locks(w)
    BY <1>0, <2>2, <2>3, NewWork DEF Locks
  <2>5. WorkSound(w)'
    BY <1>0, <1>1, <2>1, <2>2, <2>3, <2>4, WorkSoundKept
  <2>6. DocSound(w)'
    <3>1. Next1(w)'
      BY <1>0, <1>2, <2>1, <2>2, <2>4 DEF Next1
    <3> QED BY <3>1, <1>0, <1>2, <1>4, <2>1, <2>2, <2>4 DEF DocSound, Terminal
  <2>7. AnswerSound(w)'
    BY <1>0, <2>2, <2>4 DEF AnswerSound
  <2>8. WorkerInv(w)'
    BY <1>0, <1>1, <2>2, <2>4, <2>5, <2>6, <2>7 DEF WorkerInv
  <2> QED BY <1>0, <1>2, <1>4, <2>2, <2>3, <2>4, <2>8, WorkerFrame
<1> QED BY <1>3, <1>4

\* The request is made: it joins the inbox, and the attempt pays for it.
LEMMA RequestInv ==
    ASSUME OutboundInv, NEW w \in Workers, Request(w)
    PROVE  OutboundInv'
<1> DEFINE new == [work[w] EXCEPT !.stage = "asking"]
           post == [caller |-> w, key |-> Doc(w)]
<1>0. /\ ~At(w, "idle") /\ work[w].stage = "sending" /\ answer[w] # "waiting"
      /\ UNCHANGED <<outcome, log, decided, rows, locks, jobs, pass, lastEvent, faults>>
      /\ inbox' = Append(inbox, post) /\ answer' = [answer EXCEPT ![w] = "waiting"]
      /\ asks' = [asks EXCEPT ![Doc(w)] = @ + 1]
  BY DEF Request, Ask, At
<1>1. /\ WorkSound(w) /\ DocSound(w) /\ Doc(w) \in Deliveries /\ work[w] \in Work
      /\ \A d \in Deliveries : locks[d] = w => d = Doc(w)
      /\ work[w].freed = {} /\ work \in [Workers -> Work]
  BY <1>0, Busy DEF WorkSound, At, OutboundInv, SiteTypes
<1>2. Next1(w) /\ ~work[w].doc.recon /\ locks[Doc(w)] = w
  BY <1>0, <1>1 DEF DocSound
<1>3. /\ new \in Work /\ new.stage = "asking" /\ new.job = work[w].job /\ new.doc = work[w].doc
      /\ new.kids = work[w].kids /\ new.freed = work[w].freed /\ new.later = work[w].later
  BY <1>1 DEF Work, Stages
<1>4. work' = [work EXCEPT ![w] = new]
  BY <1>1 DEF Request
<1> HIDE DEF new
<1>5. /\ work'[w] = new /\ Doc(w)' = Doc(w) /\ (\A s : At(w, s)' <=> new.stage = s)
      /\ Locks(w) /\ work' \in [Workers -> Work]
      /\ \A v \in Workers \ {w} : work'[v] = work[v] /\ Doc(v)' = Doc(v)
  <2>1. work'[w] = new /\ Doc(w)' = Doc(w) /\ (\A s : At(w, s)' <=> new.stage = s)
    BY <1>3, <1>4, NewWork
  <2> QED BY <1>0, <1>1, <1>3, <1>4, <2>1 DEF Locks, Doc, JobOf
<1>6. Final /\ StoredGrows
  BY <1>0 DEF Final, StoredGrows, Stored
<1>7. /\ post \in Post /\ inbox \in Seq(Post) /\ answer' \in [Callers -> Answers]
      /\ asks' \in [Deliveries -> Nat] /\ \A v \in Workers \ {w} : answer'[v] = answer[v]
      /\ answer'[w] = "waiting"
  BY <1>0, <1>1 DEF Post, OutboundInv, ContractTypes, SiteTypes, Answers, Workers, Deliveries
<1>8. SiteTypes' /\ ContractTypes'
  <2>1. inbox' \in Seq(Post)
    BY <1>0, <1>7
  <2> QED BY <1>0, <1>5, <1>7, <2>1 DEF OutboundInv, SiteTypes, ContractTypes
<1>9. \A d \in Deliveries : RowSound(d)'
  <2> SUFFICES ASSUME NEW d \in Deliveries PROVE RowSound(d)'
    OBVIOUS
  <2>1. RowSound(d) /\ asks'[d] = (IF d = Doc(w) THEN asks[d] + 1 ELSE asks[d])
    BY <1>0, <1>1 DEF OutboundInv, SiteTypes
  <2>2. d \in Groups /\ asks'[d] > 0 => outcome[CopyOf[d]] = "submitted"
    BY <1>1, <2>1 DEF RowSound, WorkSound
  <2> QED BY <1>0, <2>1, <2>2 DEF RowSound, Stored, Terminal
<1>10. ASSUME NEW v \in Workers PROVE WorkerInv(v)'
  <2>1. CASE v = w
    <3>1. WorkSound(w)'
      <4>1. new.doc.status # "Absent" /\ new.freed = {} /\ UNCHANGED <<rows, outcome>>
        BY <1>0, <1>1, <1>3 DEF WorkSound
      <4> QED BY <1>0, <1>3, <1>4, <1>5, <4>1, WorkSoundKept
    <3>2. DocSound(w)'
      <4>1. Next1(w)'
        BY <1>0, <1>2, <1>3, <1>5 DEF Next1
      <4> QED BY <4>1, <1>0, <1>1, <1>2, <1>3, <1>5 DEF DocSound, Terminal
    <3>3. AnswerSound(w)'
      BY <1>3, <1>5, <1>7 DEF AnswerSound
    <3> QED BY <2>1, <1>0, <1>1, <1>3, <1>5, <3>1, <3>2, <3>3 DEF WorkerInv
  <2>2. CASE v # w
    <3>1. AnswerSound(v)'
      BY <2>2, <1>5, <1>6, <1>7, AnswerKept DEF OutboundInv, SameWork
    <3> QED BY <2>2, <3>1, <1>0, <1>5, <1>6, WorkerKept DEF OutboundInv, SameWork
  <2> QED BY <2>1, <2>2
<1>11. PassInv' /\ JobsInv' /\ LogInv'
  BY <1>0 DEF OutboundInv, PassInv, JobsInv, LogInv, Stored, Terminal
<1>12. InboxInv'
  <2>0. Len(inbox') = Len(inbox) + 1 /\ Len(inbox) \in Nat
    BY <1>0, <1>7
  <2>1. ASSUME NEW i \in 1 .. Len(inbox)
        PROVE  /\ inbox'[i] = inbox[i] /\ rows'[inbox'[i].key].status # "Absent" /\ inbox[i].caller # w
               /\ inbox[i].caller # Gone =>
                     /\ inbox[i].caller \in Workers \ {w}
                     /\ work'[inbox[i].caller].stage = "asking" /\ answer'[inbox[i].caller] = "waiting"
                     /\ inbox[i].key = Doc(inbox[i].caller)
                     /\ \A j \in 1 .. Len(inbox) : inbox[j].caller = inbox[i].caller => i = j
    <3>1. inbox[i].caller \in Workers \cup {Gone} /\ inbox'[i] = inbox[i]
      BY <1>0, <1>7, InboxEntries DEF Workers
    <3>2. /\ Stored(inbox[i].key)
          /\ inbox[i].caller # Gone =>
                /\ At(inbox[i].caller, "asking") /\ answer[inbox[i].caller] = "waiting"
                /\ inbox[i].key = Doc(inbox[i].caller)
                /\ \A j \in 1 .. Len(inbox) : inbox[j].caller = inbox[i].caller => i = j
      BY DEF OutboundInv, InboxInv
    <3>3. inbox[i].caller # w
      BY <3>2, <1>0, ContractAssumption DEF Workers
    <3> QED BY <3>1, <3>2, <3>3, <1>0, <1>5, <1>7 DEF Stored, At
  <2>2. /\ inbox'[Len(inbox) + 1] = post /\ rows'[post.key].status # "Absent" /\ w # Gone
        /\ post.caller = w /\ post.key = Doc(w)
    BY <1>0, <1>1, <1>7, ContractAssumption DEF WorkSound, Stored, Workers
  <2> SUFFICES ASSUME NEW i \in 1 .. Len(inbox) + 1
               PROVE  /\ rows'[inbox'[i].key].status # "Absent"
                      /\ inbox'[i].caller # Gone =>
                         /\ work'[inbox'[i].caller].stage = "asking" /\ answer'[inbox'[i].caller] = "waiting"
                         /\ inbox'[i].key = Doc(inbox'[i].caller)
                         /\ \A j \in 1 .. Len(inbox) + 1 : inbox'[j].caller = inbox'[i].caller => i = j
    <3>1. \A i \in 1 .. Len(inbox) + 1 : inbox'[i].caller \in Workers \cup {Gone}
      BY <2>0, <2>1, <2>2
    <3>2. \A v \in Workers : Doc(v)' = Doc(v)
      BY <1>5
    <3> QED BY <2>0, <3>1, <3>2 DEF InboxInv, Stored, At
  <2>3. CASE i \in 1 .. Len(inbox)
    <3>1. \A j \in 1 .. Len(inbox) + 1 : inbox'[i].caller # Gone /\ inbox'[j].caller = inbox'[i].caller => i = j
      BY <2>0, <2>1, <2>2, <2>3
    <3> QED BY <2>1, <2>3, <3>1
  <2>4. CASE i = Len(inbox) + 1
    <3>1. \A j \in 1 .. Len(inbox) + 1 : inbox'[j].caller = inbox'[i].caller => i = j
      BY <2>0, <2>1, <2>2, <2>4
    <3> QED BY <2>2, <2>4, <3>1, <1>3, <1>5, <1>7
  <2> QED BY <2>0, <2>3, <2>4
<1>13. AsksInv'
  <2> SUFFICES ASSUME NEW d \in Deliveries, outcome[d] # "submitted"
               PROVE  \/ asks'[d] <= rows[d].attempts + faults
                      \/ \E v \in Workers : Asked(v, d)' /\ asks'[d] <= work'[v].doc.attempts + faults
    BY <1>0 DEF AsksInv
  <2>1. \/ asks[d] <= rows[d].attempts + faults
        \/ \E v \in Workers : Asked(v, d) /\ asks[d] <= work[v].doc.attempts + faults
    BY DEF OutboundInv, AsksInv
  <2>2. CASE d = Doc(w)
    <3>1. \A v \in Workers : ~Asked(v, d)
      <4> SUFFICES ASSUME NEW v \in Workers, Asked(v, d) PROVE FALSE
        OBVIOUS
      <4>1. work[v].stage \in {"asking", "saved"} /\ Doc(v) = d /\ ~At(v, "idle")
        BY DEF Asked, At
      <4>2. locks[Doc(v)] = v
        BY <4>1, Busy DEF DocSound
      <4> QED BY <4>1, <4>2, <1>0, <1>2, <2>2
    <3>2. asks[d] <= rows[d].attempts + faults /\ asks'[d] = asks[d] + 1
      BY <2>1, <3>1, <2>2, <1>0 DEF OutboundInv, SiteTypes
    <3>3. work'[w].doc.attempts = rows[d].attempts + 1 /\ Asked(w, d)'
      BY <2>2, <1>2, <1>3, <1>5 DEF Next1, Asked
    <3>4. asks'[d] <= work'[w].doc.attempts + faults
      BY <3>2, <3>3, Counters
    <3> QED BY <3>3, <3>4
  <2>3. CASE d # Doc(w)
    <3>1. asks'[d] = asks[d]
      BY <2>3, <1>0 DEF OutboundInv, SiteTypes
    <3>2. \A v \in Workers : Asked(v, d) => Asked(v, d)' /\ work'[v].doc.attempts = work[v].doc.attempts
      BY <2>3, <1>0, <1>5 DEF Asked
    <3> QED BY <2>1, <3>1, <3>2
  <2> QED BY <2>2, <2>3
<1> QED BY <1>8, <1>9, <1>10, <1>11, <1>12, <1>13 DEF OutboundInv

\* One copy is released: its row is locked.
LEMMA ReleaseCopyInv ==
    ASSUME OutboundInv, NEW w \in Workers, NEW c \in Groups, ReleaseCopy(w, c)
    PROVE  OutboundInv'
<1> DEFINE later == IF Known(BaseJob(c)) THEN work[w].later ELSE work[w].later \cup {BaseJob(c)}
           new == [work[w] EXCEPT !.kids = @ \ {c}, !.freed = @ \cup {c}, !.later = later]
<1>0. /\ ~At(w, "idle") /\ At(w, "releasing") /\ work[w].stage = "releasing" /\ c \in work[w].kids
      /\ locks[c] = Free /\ locks' = [locks EXCEPT ![c] = w]
      /\ UNCHANGED <<rows, jobs, pass, lastEvent, asks, faults, contractVars>>
      /\ UNCHANGED <<outcome, answer>>
  BY DEF ReleaseCopy, At, contractVars
<1>1. /\ WorkSound(w) /\ DocSound(w) /\ Doc(w) \in Deliveries /\ work[w] \in Work
      /\ \A d \in Deliveries : locks[d] = w => d = Doc(w) \/ d \in work[w].freed
      /\ work \in [Workers -> Work] /\ locks \in [Deliveries -> Workers \cup {Sched, Free}]
  BY <1>0, Busy DEF OutboundInv, SiteTypes
<1>2. /\ c \in Deliveries /\ CopyOf[c] = Doc(w) /\ Stored(c) /\ c # Doc(w)
      /\ BaseJob(c) \in JobIds /\ BaseJob(c).d = c
  BY <1>0, <1>1, ContractAssumption, OutboundAssumption, LimitType
     DEF WorkSound, Deliveries, Primaries, BaseJob, JobIds
<1>3. later \subseteq JobIds /\ \A j \in later : Stored(j.d)
  BY <1>1, <1>2 DEF Work, WorkSound
<1>4. work' = [work EXCEPT ![w] = new]
  BY <1>1 DEF ReleaseCopy, Work
<1> HIDE DEF later
<1>5. /\ new \in Work /\ new.stage = "releasing" /\ new.job = work[w].job /\ new.doc = work[w].doc
      /\ new.kids = work[w].kids \ {c} /\ new.freed = work[w].freed \cup {c} /\ new.later = later
  BY <1>0, <1>1, <1>3 DEF Work, Stages
<1> HIDE DEF new
<1>6. work'[w] = new /\ Doc(w)' = Doc(w) /\ (\A s : At(w, s)' <=> new.stage = s)
  BY <1>4, <1>5, NewWork
<1>7. /\ Locks(w) /\ locks'[Doc(w)] = locks[Doc(w)] /\ locks'[c] = w
      /\ \A d \in Deliveries \ {c} : locks'[d] = locks[d]
  BY <1>0, <1>1, <1>2 DEF Locks
<1>8. WorkSound(w)'
  <2>1. \A x \in new.kids \cup new.freed : CopyOf[x] = Doc(w) /\ rows'[x].status # "Absent"
    BY <1>0, <1>1, <1>2, <1>5 DEF WorkSound, Stored
  <2>2. \A x \in new.freed : locks'[x] = w
    <3>1. \A x \in work[w].freed : x \in Deliveries /\ locks[x] = w
      BY <1>1, ContractAssumption DEF WorkSound, Work, Deliveries
    <3> QED BY <3>1, <1>5, <1>7
  <2>3. \A j \in new.later : rows'[j.d].status # "Absent"
    BY <1>0, <1>3, <1>5 DEF Stored
  <2> QED BY <1>0, <1>1, <1>5, <1>6, <2>1, <2>2, <2>3 DEF WorkSound, Stored
<1>9. DocSound(w)'
  BY <1>0, <1>1, <1>5, <1>6, <1>7 DEF DocSound, Terminal, Same, Next1, At
<1>10. AnswerSound(w)' /\ answer[w] # "waiting"
  BY <1>0, <1>5, <1>6 DEF AnswerSound, OutboundInv, WorkerInv, At
<1>11. WorkerInv(w)'
  BY <1>1, <1>5, <1>6, <1>7, <1>8, <1>9, <1>10 DEF WorkerInv
<1> QED BY <1>0, <1>4, <1>5, <1>7, <1>10, <1>11, WorkerFrame

-----------------------------------------------------------------------------
(* The end of a transaction *)

\* Unlocking the rows of one holder leaves the others their locks.
LEMMA UnlockFacts ==
    ASSUME OutboundInv, NEW h \in Workers \cup {Sched}, Unlock(h)
    PROVE  /\ locks' \in [Deliveries -> Workers \cup {Sched, Free}]
           /\ \A d \in Deliveries : locks'[d] # h
           /\ \A g \in Workers \cup {Sched} : g # h =>
                 \A d \in Deliveries : locks'[d] = g <=> locks[d] = g
  BY OutboundAssumption DEF OutboundInv, SiteTypes, Unlock

\* What becomes of the rows when a worker commits.
LEMMA CommittedRows ==
    ASSUME OutboundInv, NEW w \in Workers, NEW lost \in BOOLEAN, CommitWork(w, lost)
    PROVE  /\ WorkSound(w) /\ DocSound(w) /\ Doc(w) \in Deliveries /\ work[w] \in Work
           /\ work[w].doc \in Row /\ ~At(w, "idle") /\ answer[w] # "waiting"
           /\ \A d \in Deliveries :
                 rows'[d] = IF d = Doc(w) /\ locks[d] = w THEN work[w].doc
                            ELSE IF d \in work[w].freed THEN [rows[d] EXCEPT !.status = "Queued"]
                            ELSE rows[d]
           /\ rows' \in [Deliveries -> Row] /\ StoredGrows
           /\ \A d \in Deliveries :
                 /\ ~(d = Doc(w) /\ locks[d] = w) =>
                       rows'[d].attempts = rows[d].attempts /\ rows'[d].recon = rows[d].recon
                 /\ rows'[d].attempts >= rows[d].attempts
                 /\ rows[d].recon => rows'[d].recon
<1>1. ~At(w, "idle") /\ work[w].stage \in {"saved", "releasing"} /\ work[w].stage # "asking"
  BY DEF CommitWork, At
<1>2. /\ WorkSound(w) /\ DocSound(w) /\ Doc(w) \in Deliveries /\ work[w] \in Work /\ work[w].doc \in Row
      /\ answer[w] # "waiting"
  BY <1>1, Busy DEF OutboundInv, WorkerInv, AnswerSound, At
<1>3. \A d \in Deliveries :
         rows'[d] = IF d = Doc(w) /\ locks[d] = w THEN work[w].doc
                    ELSE IF d \in work[w].freed THEN [rows[d] EXCEPT !.status = "Queued"]
                    ELSE rows[d]
  BY DEF CommitWork
<1>4. \A d \in Deliveries :
         /\ rows[d] \in Row /\ [rows[d] EXCEPT !.status = "Queued"] \in Row
         /\ [rows[d] EXCEPT !.status = "Queued"].status = "Queued"
         /\ [rows[d] EXCEPT !.status = "Queued"].attempts = rows[d].attempts
         /\ [rows[d] EXCEPT !.status = "Queued"].recon = rows[d].recon
  BY Counters, SetQueued
<1>5. rows' \in [Deliveries -> Row]
  <2>1. \A d \in Deliveries : rows'[d] \in Row
    BY <1>2, <1>3, <1>4
  <2> QED BY <2>1 DEF CommitWork
<1>6. StoredGrows
  BY <1>2, <1>3, <1>4 DEF StoredGrows, Stored, WorkSound
<1>7. ASSUME NEW d \in Deliveries
      PROVE  /\ ~(d = Doc(w) /\ locks[d] = w) =>
                   rows'[d].attempts = rows[d].attempts /\ rows'[d].recon = rows[d].recon
             /\ rows'[d].attempts >= rows[d].attempts
             /\ rows[d].recon => rows'[d].recon
  <2>1. CASE d = Doc(w) /\ locks[d] = w
    <3>1. Same(w) \/ Next1(w)
      BY <1>1, <1>2, <2>1 DEF DocSound
    <3>2. rows'[d] = work[w].doc /\ rows[d].attempts \in Nat /\ work[w].doc.attempts \in Nat
      BY <2>1, <1>3, Counters
    <3> QED BY <3>1, <3>2, <2>1 DEF Same, Next1
  <2>2. CASE ~(d = Doc(w) /\ locks[d] = w)
    <3>1. rows'[d] = rows[d] \/ rows'[d] = [rows[d] EXCEPT !.status = "Queued"]
      BY <2>2, <1>3
    <3>2. rows'[d].attempts = rows[d].attempts /\ rows'[d].recon = rows[d].recon
      BY <3>1, <1>4
    <3> QED BY <2>2, <3>2, Counters
  <2> QED BY <2>1, <2>2
<1> QED BY <1>1, <1>2, <1>3, <1>5, <1>6, <1>7

\* The commit: the row and the released copies are written, others go stale.
LEMMA CommitWorkInv ==
    ASSUME OutboundInv, NEW w \in Workers, NEW lost \in BOOLEAN, CommitWork(w, lost)
    PROVE  OutboundInv'
<1>0. /\ Unlock(w) /\ UNCHANGED <<pass, lastEvent, asks, contractVars>>
      /\ UNCHANGED <<outcome, log, inbox, answer, decided>>
      /\ work' = [v \in Workers |-> IF v = w THEN IdleWork
                                    ELSE IF Stale(w, v) THEN [work[v] EXCEPT !.fresh = FALSE]
                                    ELSE work[v]]
      /\ jobs' \subseteq jobs \cup work[w].later
      /\ faults' \in Nat /\ faults' >= faults
  BY Counters DEF CommitWork, contractVars, Fault
<1>1. /\ WorkSound(w) /\ DocSound(w) /\ Doc(w) \in Deliveries /\ work[w] \in Work
      /\ work[w].doc \in Row /\ ~At(w, "idle") /\ answer[w] # "waiting"
  BY CommittedRows
<1>2. /\ \A d \in Deliveries :
            rows'[d] = IF d = Doc(w) /\ locks[d] = w THEN work[w].doc
                       ELSE IF d \in work[w].freed THEN [rows[d] EXCEPT !.status = "Queued"]
                       ELSE rows[d]
      /\ rows' \in [Deliveries -> Row] /\ StoredGrows
  BY CommittedRows
<1>3. \A d \in Deliveries :
         /\ ~(d = Doc(w) /\ locks[d] = w) =>
               rows'[d].attempts = rows[d].attempts /\ rows'[d].recon = rows[d].recon
         /\ rows'[d].attempts >= rows[d].attempts
         /\ rows[d].recon => rows'[d].recon
  BY CommittedRows
<1>l. /\ locks' \in [Deliveries -> Workers \cup {Sched, Free}]
      /\ \A d \in Deliveries : locks'[d] # w
      /\ \A g \in Workers \cup {Sched} : g # w =>
            \A d \in Deliveries : locks'[d] = g <=> locks[d] = g
  BY <1>0, UnlockFacts
<1>4. Final
  BY <1>0 DEF Final
<1>w. /\ work'[w] = IdleWork
      /\ \A v \in Workers \ {w} : /\ Doc(v)' = Doc(v)
                                   /\ work'[v] = IF Stale(w, v) THEN [work[v] EXCEPT !.fresh = FALSE] ELSE work[v]
  <2>1. work'[w] = IdleWork
    BY <1>0
  <2>2. ASSUME NEW v \in Workers \ {w}
        PROVE  work'[v] = IF Stale(w, v) THEN [work[v] EXCEPT !.fresh = FALSE] ELSE work[v]
    BY <1>0
  <2>3. ASSUME NEW v \in Workers \ {w} PROVE Doc(v)' = Doc(v)
    <3>1. work[v] \in Work
      BY Counters
    <3>2. work'[v].job = work[v].job
      BY <2>2, <3>1 DEF Work
    <3> QED BY <3>2 DEF Doc, JobOf
  <2> QED BY <2>1, <2>2, <2>3
<1>5. SiteTypes' /\ ContractTypes'
  <2>1. work' \in [Workers -> Work]
    <3>1. \A v \in Workers : work[v] \in Work /\ [work[v] EXCEPT !.fresh = FALSE] \in Work
      BY Counters DEF Work
    <3> QED BY <1>0, <3>1, Blanks
  <2>2. jobs' \subseteq JobIds
    BY <1>0, <1>1 DEF OutboundInv, SiteTypes, Work
  <2> QED BY <1>0, <1>2, <1>l, <2>1, <2>2 DEF OutboundInv, SiteTypes, ContractTypes
<1>6. ASSUME NEW d \in Deliveries PROVE RowSound(d)'
  <2>0. RowSound(d) /\ (d \in Groups => CopyOf[d] \in Deliveries)
    BY OutboundAssumption DEF OutboundInv, Primaries, Deliveries
  <2>1. CASE d = Doc(w) /\ locks[d] = w
    <3>1. rows'[d] = work[w].doc
      BY <2>1, <1>2
    <3> QED BY <3>1, <2>0, <2>1, <1>0, <1>1, <1>2 DEF RowSound, WorkSound, DocSound, StoredGrows, Stored, Terminal
  <2>2. CASE ~(d = Doc(w) /\ locks[d] = w) /\ d \in work[w].freed
    <3>0. rows'[d] = [rows[d] EXCEPT !.status = "Queued"] /\ rows[d] \in Row
      BY <2>2, <1>2, Counters
    <3>1. rows'[d].status = "Queued"
      BY <3>0, SetQueued
    <3>2. d \in Groups /\ Stored(CopyOf[d])'
      BY <2>2, <2>0, <1>1, <1>2 DEF WorkSound, StoredGrows, Work
    <3> QED BY <2>0, <2>2, <3>1, <3>2, <1>0, <1>3 DEF RowSound, Stored, Terminal
  <2>3. CASE ~(d = Doc(w) /\ locks[d] = w) /\ d \notin work[w].freed
    <3>1. rows'[d] = rows[d]
      BY <2>3, <1>2
    <3> QED BY <2>0, <3>1, <1>0, <1>2, <1>4, RowKept, Counters DEF RowSound
  <2> QED BY <2>1, <2>2, <2>3
<1>7. ASSUME NEW v \in Workers PROVE WorkerInv(v)'
  <2>1. CASE v = w
    BY <2>1, <1>0, <1>1, <1>l, <1>w, IdleSound
  <2>2. CASE v # w
    <3>1. SameWork(v) /\ (Stale(w, v) => ~work'[v].fresh)
      <4>1. work[v] \in Work /\ work'[v] = IF Stale(w, v) THEN [work[v] EXCEPT !.fresh = FALSE] ELSE work[v]
        BY <2>2, <1>w, Counters
      <4> QED BY <4>1 DEF Work, SameWork
    <3>2. AnswerSound(v)'
      BY <3>1, <1>0, <1>4, AnswerKept DEF OutboundInv
    <3>3. ~At(v, "idle") /\ (locks[Doc(v)] = v \/ (At(v, "loaded") /\ work'[v].fresh)) =>
             /\ rows'[Doc(v)].attempts = rows[Doc(v)].attempts
             /\ rows'[Doc(v)].recon = rows[Doc(v)].recon
      <4> SUFFICES ASSUME ~At(v, "idle"), locks[Doc(v)] = v \/ (At(v, "loaded") /\ work'[v].fresh)
                   PROVE  /\ rows'[Doc(v)].attempts = rows[Doc(v)].attempts
                          /\ rows'[Doc(v)].recon = rows[Doc(v)].recon
        OBVIOUS
      <4>1. ~(Doc(v) = Doc(w) /\ locks[Doc(v)] = w) /\ Doc(v) \in Deliveries
        BY <2>2, <3>1, Busy DEF Stale
      <4> QED BY <4>1, <1>3
    <3> QED BY <2>2, <3>1, <3>2, <3>3, <1>2, <1>4, <1>l, WorkerKept DEF OutboundInv
  <2> QED BY <2>1, <2>2
<1>8. PassInv'
  <2>1. \A c \in pass.copies : c \in Deliveries
    BY ContractAssumption DEF OutboundInv, SiteTypes, Pass, Deliveries
  <2>2. \A j \in pass.due \cup pass.later : j.d \in Deliveries
    BY DEF OutboundInv, SiteTypes, Pass, JobIds
  <2>3. \A d \in Deliveries : locks'[d] = Sched =>
           /\ locks[d] = Sched
           /\ rows'[d].attempts = rows[d].attempts /\ rows'[d].recon = rows[d].recon
    BY <1>3, <1>l, OutboundAssumption
  <2> QED BY <1>0, <1>2, <2>1, <2>2, <2>3 DEF OutboundInv, PassInv, StoredGrows, Terminal
<1>9. JobsInv'
  <2>1. \A j \in jobs \cup work[w].later : Stored(j.d) /\ j.d \in Deliveries
    BY <1>1 DEF OutboundInv, JobsInv, WorkSound, SiteTypes, Work, JobIds
  <2> QED BY <2>1, <1>0, <1>2 DEF JobsInv, StoredGrows
<1>10. LogInv'
  BY <1>0, <1>2, LogEntries DEF OutboundInv, LogInv, StoredGrows, Deliveries
<1>11. InboxInv'
  <2> SUFFICES ASSUME NEW i \in 1 .. Len(inbox)
               PROVE  /\ rows'[inbox[i].key].status # "Absent"
                      /\ inbox[i].caller # Gone =>
                         /\ work'[inbox[i].caller].stage = "asking" /\ answer[inbox[i].caller] = "waiting"
                         /\ inbox[i].caller \in Workers \ {w} /\ inbox[i].key = Doc(inbox[i].caller)
                         /\ \A j \in 1 .. Len(inbox) : inbox[j].caller = inbox[i].caller => i = j
    BY <1>0, <1>w DEF InboxInv, At, Stored
  <2>1. /\ Stored(inbox[i].key)
        /\ inbox[i].caller # Gone =>
              /\ At(inbox[i].caller, "asking") /\ answer[inbox[i].caller] = "waiting"
              /\ inbox[i].key = Doc(inbox[i].caller)
              /\ \A j \in 1 .. Len(inbox) : inbox[j].caller = inbox[i].caller => i = j
    BY DEF OutboundInv, InboxInv
  <2>2. inbox[i].caller \in Workers \cup {Gone} /\ inbox[i].key \in Deliveries
    BY InboxEntries DEF Workers, Deliveries
  <2>3. inbox[i].caller # Gone => inbox[i].caller \in Workers \ {w}
    BY <2>1, <2>2, <1>1
  <2>4. inbox[i].caller # Gone => work'[inbox[i].caller].stage = "asking"
    <3> HAVE inbox[i].caller # Gone
    <3>1. ~Stale(w, inbox[i].caller)
      BY <2>1 DEF Stale, At
    <3> QED BY <2>1, <2>3, <3>1, <1>w DEF At
  <2> QED BY <2>1, <2>2, <2>3, <2>4, <1>2 DEF StoredGrows, Stored
<1>12. AsksInv'
  <2>1. \A d \in Deliveries : rows'[d].attempts \in Nat
    BY <1>2, RowFields
  <2>2. ASSUME NEW v \in Workers, work[v].stage \in {"asking", "saved"}
        PROVE  SameRequest(v) \/ rows'[Doc(v)].attempts + faults' >= work[v].doc.attempts + faults
    <3>1. CASE v = w
      <4>1. locks[Doc(w)] = w
        BY <2>2, <3>1, <1>1 DEF DocSound
      <4>2. rows'[Doc(w)] = work[w].doc
        BY <4>1, <1>1, <1>2
      <4> QED BY <3>1, <4>2, <1>0, Counters
    <3>2. CASE v # w
      <4>1. work'[v] = work[v]
        BY <3>2, <2>2, <1>w DEF Stale, At
      <4> QED BY <3>2, <2>2, <4>1, <1>w DEF SameRequest
    <3> QED BY <3>1, <3>2
  <2> QED BY <1>0, <1>3, <1>4, <2>1, <2>2, AsksKept
<1> QED BY <1>5, <1>6, <1>7, <1>8, <1>9, <1>10, <1>11, <1>12 DEF OutboundInv

\* The rollback: the worker's request, if it made one, is no longer anybody's.
LEMMA RollbackWorkInv ==
    ASSUME OutboundInv, NEW w \in Workers, ~At(w, "idle"), NEW again \in BOOLEAN,
           RollbackWork(w, again), faults' \in Nat, faults' >= faults,
           faults' = faults + 1 \/ work[w].stage \notin {"asking", "saved"}
    PROVE  OutboundInv'
<1>0. /\ Unlock(w) /\ UNCHANGED <<rows, pass, lastEvent, asks>>
      /\ work' = [work EXCEPT ![w] = IdleWork]
      /\ jobs' \subseteq jobs \cup work[w].job
      /\ Abandon(w) \/ (answer[w] # "waiting" /\ UNCHANGED contractVars)
  BY DEF RollbackWork
<1>1. /\ WorkSound(w) /\ DocSound(w) /\ Doc(w) \in Deliveries /\ work[w] \in Work
      /\ work \in [Workers -> Work]
  BY Busy DEF OutboundInv, SiteTypes
<1>l. /\ locks' \in [Deliveries -> Workers \cup {Sched, Free}]
      /\ \A d \in Deliveries : locks'[d] # w
      /\ \A g \in Workers \cup {Sched} : g # w =>
            \A d \in Deliveries : locks'[d] = g <=> locks[d] = g
  BY <1>0, UnlockFacts
<1>c. /\ ContractTypes' /\ UNCHANGED <<outcome, log>>
      /\ answer'[w] # "waiting" /\ \A v \in Workers \ {w} : answer'[v] = answer[v]
      /\ Len(inbox') = Len(inbox)
      /\ \A i \in 1 .. Len(inbox) :
            /\ inbox'[i].key = inbox[i].key
            /\ inbox'[i].caller = IF inbox[i].caller = w THEN Gone ELSE inbox[i].caller
  <2>1. CASE Abandon(w)
    BY <2>1, AbandonFacts
  <2>2. CASE answer[w] # "waiting" /\ UNCHANGED contractVars
    <3>1. \A i \in 1 .. Len(inbox) : inbox[i].caller # w
      BY <2>2, ContractAssumption DEF OutboundInv, InboxInv, Workers
    <3> QED BY <2>2, <3>1 DEF contractVars, OutboundInv, ContractTypes
  <2> QED BY <1>0, <2>1, <2>2
<1>2. Final /\ StoredGrows
  BY <1>0, <1>c DEF Final, StoredGrows, Stored
<1>3. SiteTypes'
  <2>1. work' \in [Workers -> Work] /\ jobs' \subseteq JobIds
    BY <1>0, <1>1, Blanks DEF OutboundInv, SiteTypes, Work
  <2> QED BY <1>0, <1>c, <1>l, <2>1 DEF OutboundInv, SiteTypes
<1>4. \A d \in Deliveries : RowSound(d)'
  BY <1>0, <1>c DEF OutboundInv, RowSound, Stored, Terminal
<1>w. work'[w] = IdleWork /\ \A v \in Workers \ {w} : work'[v] = work[v] /\ Doc(v)' = Doc(v)
  BY <1>0, <1>1 DEF Doc, JobOf
<1>5. ASSUME NEW v \in Workers PROVE WorkerInv(v)'
  <2>1. CASE v = w
    BY <2>1, <1>c, <1>l, <1>w, IdleSound
  <2>2. CASE v # w
    <3>1. AnswerSound(v)'
      BY <2>2, <1>2, <1>c, <1>w, AnswerKept DEF OutboundInv, SameWork
    <3> QED BY <2>2, <3>1, <1>0, <1>2, <1>l, <1>w, WorkerKept DEF OutboundInv, SameWork
  <2> QED BY <2>1, <2>2
<1>6. PassInv'
  <2>1. \A d \in Deliveries : locks'[d] = Sched => locks[d] = Sched
    BY <1>l, OutboundAssumption
  <2> QED BY <1>0, <1>c, <2>1 DEF OutboundInv, PassInv, Stored, Terminal
<1>7. JobsInv'
  <2>1. \A j \in work[w].job : Stored(j.d)
    <3> PICK j \in JobIds : work[w].job = {j}
      BY <1>1 DEF WorkSound
    <3> QED BY <1>1, DocOfJob DEF WorkSound
  <2> QED BY <1>0, <2>1 DEF OutboundInv, JobsInv, Stored
<1>8. LogInv'
  BY <1>0, <1>c DEF OutboundInv, LogInv, Stored
<1>9. InboxInv'
  <2> SUFFICES ASSUME NEW i \in 1 .. Len(inbox)
               PROVE  /\ rows'[inbox'[i].key].status # "Absent"
                      /\ inbox'[i].caller # Gone =>
                         /\ inbox'[i].caller \in Workers \ {w}
                         /\ work'[inbox'[i].caller].stage = "asking" /\ answer'[inbox'[i].caller] = "waiting"
                         /\ inbox'[i].key = Doc(inbox'[i].caller)
                         /\ \A j \in 1 .. Len(inbox) : inbox'[j].caller = inbox'[i].caller => i = j
    <3>1. Len(inbox') = Len(inbox) /\ \A v \in Workers \ {w} : Doc(v)' = Doc(v)
      BY <1>c, <1>w
    <3> QED BY <3>1 DEF InboxInv, At, Stored
  <2>1. /\ Stored(inbox[i].key)
        /\ inbox[i].caller # Gone =>
              /\ At(inbox[i].caller, "asking") /\ answer[inbox[i].caller] = "waiting"
              /\ inbox[i].key = Doc(inbox[i].caller)
              /\ \A j \in 1 .. Len(inbox) : inbox[j].caller = inbox[i].caller => i = j
    BY DEF OutboundInv, InboxInv
  <2>2. inbox[i].caller \in Workers \cup {Gone}
    BY InboxEntries DEF Workers
  <2>3. inbox'[i].caller # Gone => inbox'[i].caller = inbox[i].caller /\ inbox[i].caller \in Workers \ {w}
    BY <2>2, <1>c
  <2> QED BY <2>1, <2>3, <1>0, <1>c, <1>w DEF Stored, At
<1>10. AsksInv'
  <2>1. \A d \in Deliveries : rows'[d].attempts \in Nat /\ rows'[d].attempts >= rows[d].attempts
    BY <1>0, Counters
  <2>2. ASSUME NEW v \in Workers, work[v].stage \in {"asking", "saved"}
        PROVE  SameRequest(v) \/ rows'[Doc(v)].attempts + faults' >= work[v].doc.attempts + faults
    <3>1. CASE v = w
      <4>1. Same(w) \/ Next1(w)
        BY <2>2, <3>1, <1>1 DEF DocSound
      <4>2. rows[Doc(w)].attempts \in Nat /\ work[w].doc.attempts \in Nat /\ faults \in Nat
        BY <1>1, Counters
      <4>3. faults' = faults + 1 /\ rows' = rows
        BY <2>2, <3>1, <1>0
      <4> QED BY <3>1, <4>1, <4>2, <4>3 DEF Same, Next1
    <3>2. CASE v # w
      BY <3>2, <2>2, <1>w DEF SameRequest
    <3> QED BY <3>1, <3>2
  <2> QED BY <1>0, <1>2, <2>1, <2>2, AsksKept
<1> QED BY <1>c, <1>3, <1>4, <1>5, <1>6, <1>7, <1>8, <1>9, <1>10 DEF OutboundInv

\* A worker that dies is rolled back, and the fault is counted.
LEMMA WorkerDiesInv ==
    ASSUME OutboundInv, NEW w \in Workers, NEW again \in BOOLEAN, WorkerDies(w, again)
    PROVE  OutboundInv'
  BY RollbackWorkInv, Counters DEF WorkerDies, Fault

-----------------------------------------------------------------------------
(* Storing a delivery, and time *)

\* Only blank rows are written.
LEMMA StoreDeliveryInv ==
    ASSUME OutboundInv, NEW p \in Primaries, NEW kids \in SUBSET Groups, NEW lost \in BOOLEAN,
           kids \subseteq Copies(p), StoreDelivery(p, kids, lost)
    PROVE  OutboundInv'
<1> DEFINE queued == [NoRow EXCEPT !.status = "Queued"]  waiting == [NoRow EXCEPT !.status = "Waiting"]
<1>0. /\ UNCHANGED <<locks, work, pass, lastEvent, asks, contractVars>>
      /\ UNCHANGED <<outcome, log, inbox, answer, decided>>
      /\ rows' = [d \in Deliveries |-> IF d = p THEN queued ELSE IF d \in kids THEN waiting ELSE rows[d]]
      /\ ~Stored(p) /\ p \in Deliveries /\ jobs' \subseteq jobs \cup {BaseJob(p)}
      /\ faults' \in Nat /\ faults' >= faults
      /\ BaseJob(p) \in JobIds /\ BaseJob(p).d = p
  BY Counters, LimitType DEF StoreDelivery, contractVars, Stored, Fault, Primaries, Deliveries, BaseJob, JobIds
<1>1. /\ queued \in Row /\ queued.status = "Queued" /\ queued.attempts = 0 /\ queued.recon = FALSE
      /\ waiting \in Row /\ waiting.status = "Waiting" /\ waiting.attempts = 0 /\ waiting.recon = FALSE
  <2>1. NoRow \in Row /\ NoRow.attempts = 0 /\ NoRow.recon = FALSE
    BY Blanks DEF NoRow
  <2>2. ASSUME NEW r \in Row
        PROVE  LET x == [r EXCEPT !.status = "Waiting"]
               IN  x \in Row /\ x.status = "Waiting" /\ x.attempts = r.attempts /\ x.recon = r.recon
    BY DEF Row
  <2>3. queued \in Row /\ queued.status = "Queued" /\ queued.attempts = 0 /\ queued.recon = FALSE
    BY <2>1, SetQueued
  <2>4. waiting \in Row /\ waiting.status = "Waiting" /\ waiting.attempts = 0 /\ waiting.recon = FALSE
    BY <2>1, <2>2
  <2> QED BY <2>3, <2>4
<1>2. \A d \in kids : d \in Deliveries /\ d \in Groups /\ CopyOf[d] = p /\ ~Stored(d)
  <2> SUFFICES ASSUME NEW d \in kids PROVE d \in Deliveries /\ d \in Groups /\ CopyOf[d] = p /\ ~Stored(d)
    OBVIOUS
  <2>1. d \in Deliveries /\ d \in Groups /\ CopyOf[d] = p
    BY ContractAssumption DEF Copies, Deliveries
  <2>2. RowSound(d)
    BY <2>1 DEF OutboundInv
  <2> QED BY <2>1, <2>2, <1>0 DEF RowSound
<1>3. \A d \in Deliveries :
         /\ rows'[d] \in Row
         /\ rows'[d].attempts = rows[d].attempts /\ rows'[d].recon = rows[d].recon
         /\ d = p \/ d \in kids => Stored(d)' /\ ~Terminal(rows'[d])
         /\ ~(d = p \/ d \in kids) => rows'[d] = rows[d]
  <2> HIDE DEF queued, waiting
  <2> SUFFICES ASSUME NEW d \in Deliveries
               PROVE  /\ rows'[d] \in Row
                      /\ rows'[d].attempts = rows[d].attempts /\ rows'[d].recon = rows[d].recon
                      /\ d = p \/ d \in kids => Stored(d)' /\ ~Terminal(rows'[d])
                      /\ ~(d = p \/ d \in kids) => rows'[d] = rows[d]
    OBVIOUS
  <2>1. rows'[d] = IF d = p THEN queued ELSE IF d \in kids THEN waiting ELSE rows[d]
    BY <1>0
  <2>2. d = p \/ d \in kids => rows[d].attempts = 0 /\ rows[d].recon = FALSE
    BY <1>0, <1>2 DEF OutboundInv, RowSound
  <2> QED BY <2>1, <2>2, <1>1, Counters DEF Stored, Terminal
<1> HIDE DEF queued, waiting
<1>4. Final /\ StoredGrows
  BY <1>0, <1>3 DEF Final, StoredGrows, Stored
<1>5. SiteTypes' /\ ContractTypes'
  <2>1. rows' \in [Deliveries -> Row]
    BY <1>0, <1>3
  <2> QED BY <1>0, <2>1 DEF OutboundInv, SiteTypes, ContractTypes
<1>6. ASSUME NEW d \in Deliveries PROVE RowSound(d)'
  <2>1. RowSound(d) /\ d \notin kids \cup {p} => RowSound(d)'
    BY <1>0, <1>3, <1>4, RowKept, Counters DEF RowSound
  <2>2. CASE d \in kids \cup {p}
    <3>1. d \in Groups => CopyOf[d] = p /\ Stored(p)'
      BY <2>2, <1>0, <1>2, <1>3 DEF Primaries
    <3> QED BY <2>2, <3>1, <1>0, <1>3 DEF OutboundInv, RowSound
  <2> QED BY <2>1, <2>2 DEF OutboundInv
<1>7. ASSUME NEW v \in Workers PROVE WorkerInv(v)'
  <2>1. AnswerSound(v)'
    BY <1>0, <1>4, AnswerKept DEF OutboundInv, SameWork
  <2>2. ~At(v, "idle") => /\ rows'[Doc(v)].attempts = rows[Doc(v)].attempts
                          /\ rows'[Doc(v)].recon = rows[Doc(v)].recon
    BY <1>3, Busy
  <2> QED BY <2>1, <2>2, <1>0, <1>4, WorkerKept DEF OutboundInv, SameWork
<1>8. PassInv'
  <2>1. \A c \in pass.copies : c \in Deliveries
    BY ContractAssumption DEF OutboundInv, SiteTypes, Pass, Deliveries
  <2>2. \A j \in pass.due \cup pass.later : j.d \in Deliveries
    BY DEF OutboundInv, SiteTypes, Pass, JobIds
  <2> QED BY <1>0, <1>3, <1>4, <2>1, <2>2 DEF OutboundInv, PassInv, StoredGrows, Terminal
<1>9. JobsInv'
  <2>1. \A j \in jobs : Stored(j.d) /\ j.d \in Deliveries
    BY DEF OutboundInv, JobsInv, SiteTypes, JobIds
  <2> QED BY <2>1, <1>0, <1>3, <1>4 DEF JobsInv, StoredGrows
<1>10. LogInv' /\ InboxInv'
  <2>1. LogInv'
    BY <1>0, <1>4, LogEntries DEF OutboundInv, LogInv, StoredGrows, Deliveries
  <2>2. InboxInv'
    <3>1. \A i \in 1 .. Len(inbox) : Stored(inbox[i].key)'
      BY <1>0, <1>4, InboxEntries DEF OutboundInv, InboxInv, StoredGrows, Deliveries
    <3>2. \A v : Doc(v)' = Doc(v) /\ (At(v, "asking")' <=> At(v, "asking"))
      BY <1>0 DEF Doc, JobOf, At
    <3> QED BY <1>0, <3>1, <3>2 DEF OutboundInv, InboxInv
  <2> QED BY <2>1, <2>2
<1>11. AsksInv'
  <2>1. \A d \in Deliveries : rows'[d].attempts \in Nat /\ rows'[d].attempts >= rows[d].attempts
    BY <1>3, Counters
  <2>2. \A v \in Workers : work[v].stage \in {"asking", "saved"} => SameRequest(v)
    BY <1>0 DEF SameRequest, Doc, JobOf
  <2> QED BY <1>0, <1>4, <2>1, <2>2, AsksKept
<1> QED BY <1>5, <1>6, <1>7, <1>8, <1>9, <1>10, <1>11 DEF OutboundInv

\* The due time of a row is reached.
LEMMA RetryFallsDueInv ==
    ASSUME OutboundInv, NEW x \in Deliveries, RetryFallsDue(x)
    PROVE  OutboundInv'
<1> DEFINE row == [rows[x] EXCEPT !.retry = "due"]
<1>0. /\ UNCHANGED <<locks, jobs, work, pass, lastEvent, asks, faults, contractVars>>
      /\ UNCHANGED <<outcome, log, inbox, answer, decided>>
      /\ rows' = [rows EXCEPT ![x] = row] /\ rows \in [Deliveries -> Row]
  BY DEF RetryFallsDue, contractVars, OutboundInv, SiteTypes
<1>1. row \in Row /\ row.status = rows[x].status /\ row.attempts = rows[x].attempts /\ row.recon = rows[x].recon
  BY <1>0 DEF Row
<1> HIDE DEF row
<1>2. /\ rows' \in [Deliveries -> Row]
      /\ \A d \in Deliveries : /\ rows'[d].status = rows[d].status /\ rows'[d].attempts = rows[d].attempts
                               /\ rows'[d].recon = rows[d].recon
  BY <1>0, <1>1
<1>3. Final /\ StoredGrows /\ \A d \in Deliveries : Stored(d)' <=> Stored(d)
  BY <1>0, <1>2 DEF Final, StoredGrows, Stored
<1>4. SiteTypes' /\ ContractTypes'
  BY <1>0, <1>2 DEF OutboundInv, SiteTypes, ContractTypes
<1>5. ASSUME NEW d \in Deliveries PROVE RowSound(d)'
  <2>1. RowSound(d) /\ (d \in Groups => CopyOf[d] \in Deliveries)
    BY OutboundAssumption DEF OutboundInv, Primaries, Deliveries
  <2> QED BY <2>1, <1>0, <1>2, <1>3 DEF RowSound, Terminal
<1>6. ASSUME NEW v \in Workers PROVE WorkerInv(v)'
  <2>1. AnswerSound(v)'
    BY <1>0, <1>3, AnswerKept DEF OutboundInv, SameWork
  <2>2. ~At(v, "idle") => /\ rows'[Doc(v)].attempts = rows[Doc(v)].attempts
                          /\ rows'[Doc(v)].recon = rows[Doc(v)].recon
    BY <1>2, Busy
  <2> QED BY <2>1, <2>2, <1>0, <1>3, WorkerKept DEF OutboundInv, SameWork
<1>7. PassInv'
  <2>1. \A c \in pass.copies : c \in Deliveries
    BY ContractAssumption DEF OutboundInv, SiteTypes, Pass, Deliveries
  <2>2. \A j \in pass.due \cup pass.later : j.d \in Deliveries
    BY DEF OutboundInv, SiteTypes, Pass, JobIds
  <2> QED BY <1>0, <1>2, <1>3, <2>1, <2>2 DEF OutboundInv, PassInv, StoredGrows, Terminal
<1>8. JobsInv'
  <2>1. \A j \in jobs : Stored(j.d) /\ j.d \in Deliveries
    BY DEF OutboundInv, JobsInv, SiteTypes, JobIds
  <2> QED BY <2>1, <1>0, <1>3 DEF JobsInv, StoredGrows
<1>9. LogInv' /\ InboxInv'
  <2>1. LogInv'
    BY <1>0, <1>3, LogEntries DEF OutboundInv, LogInv, StoredGrows, Deliveries
  <2>2. InboxInv'
    <3>1. \A i \in 1 .. Len(inbox) : Stored(inbox[i].key)'
      BY <1>0, <1>3, InboxEntries DEF OutboundInv, InboxInv, StoredGrows, Deliveries
    <3>2. \A v : Doc(v)' = Doc(v) /\ (At(v, "asking")' <=> At(v, "asking"))
      BY <1>0 DEF Doc, JobOf, At
    <3> QED BY <1>0, <3>1, <3>2 DEF OutboundInv, InboxInv
  <2> QED BY <2>1, <2>2
<1>10. AsksInv'
  <2>1. \A d \in Deliveries : rows'[d].attempts \in Nat /\ rows'[d].attempts >= rows[d].attempts
    BY <1>2, Counters
  <2>2. \A v \in Workers : work[v].stage \in {"asking", "saved"} => SameRequest(v)
    BY <1>0 DEF SameRequest, Doc, JobOf
  <2>3. faults' \in Nat /\ faults' >= faults
    BY <1>0, Counters
  <2> QED BY <1>0, <1>3, <2>1, <2>2, <2>3, AsksKept
<1> QED BY <1>4, <1>5, <1>6, <1>7, <1>8, <1>9, <1>10 DEF OutboundInv

-----------------------------------------------------------------------------
(* The scheduler pass *)

\* A step that changes only the pass, its locks and the queue of jobs.
LEMMA PassFrame ==
    ASSUME OutboundInv, pass' \in Pass, pass'.upto <= Len(log),
           locks' \in [Deliveries -> Workers \cup {Sched, Free}],
           \A g \in Workers : \A d \in Deliveries : locks'[d] = g <=> locks[d] = g,
           UNCHANGED <<rows, work, lastEvent, asks, contractVars>>,
           faults' \in Nat, faults' >= faults,
           jobs' \subseteq JobIds, JobsInv', PassInv'
    PROVE  OutboundInv'
<1> USE DEF contractVars
<1>0. Final /\ StoredGrows
  BY DEF Final, StoredGrows, Stored
<1>1. SiteTypes' /\ ContractTypes'
  BY DEF OutboundInv, SiteTypes, ContractTypes
<1>2. \A d \in Deliveries : RowSound(d)'
  BY DEF OutboundInv, RowSound, Stored, Terminal
<1>3. ASSUME NEW v \in Workers PROVE WorkerInv(v)'
  <2>1. AnswerSound(v)'
    BY <1>0, AnswerKept DEF OutboundInv, SameWork
  <2> QED BY <2>1, <1>0, WorkerKept DEF OutboundInv, SameWork
<1>4. LogInv' /\ InboxInv'
  <2>1. \A v : Doc(v)' = Doc(v) /\ (At(v, "asking")' <=> At(v, "asking"))
    BY DEF Doc, JobOf, At
  <2> QED BY <2>1 DEF OutboundInv, LogInv, InboxInv, Stored
<1>5. AsksInv'
  <2>1. \A v \in Workers : work[v].stage \in {"asking", "saved"} => SameRequest(v)
    BY DEF SameRequest, Doc, JobOf
  <2>2. \A d \in Deliveries : rows'[d].attempts \in Nat /\ rows'[d].attempts >= rows[d].attempts
    BY Counters
  <2> QED BY <1>0, <2>1, <2>2, AsksKept
<1> QED BY <1>1, <1>2, <1>3, <1>4, <1>5 DEF OutboundInv

\* The row as the pass sees it.
LEMMA CurrentFacts ==
    ASSUME OutboundInv, NEW d \in Deliveries
    PROVE  /\ Current(d) \in Row
           /\ Current(d).attempts = rows[d].attempts /\ Current(d).recon = rows[d].recon
           /\ Stored(d) <=> Current(d).status # "Absent"
           /\ Terminal(Current(d)) => outcome[d] = "submitted"
<1>1. rows[d] \in Row /\ pass.buf[d] \in Row
  BY DEF OutboundInv, SiteTypes, Pass
<1> QED BY <1>1 DEF Current, OutboundInv, PassInv, RowSound, Stored

\* A row is locked and written to the buffer of the pass.
LEMMA PassWrites ==
    ASSUME OutboundInv, NEW d \in Deliveries, NEW row \in Row, Held(d), Stored(d),
           row.attempts = rows[d].attempts, row.recon = rows[d].recon, row.status # "Absent",
           Terminal(row) => outcome[d] = "submitted",
           locks' = [locks EXCEPT ![d] = Sched], pass'.stage # "idle",
           pass' \in Pass, pass'.upto = pass.upto, pass'.buf = [pass.buf EXCEPT ![d] = row],
           pass'.copies \subseteq pass.copies, pass'.due \subseteq pass.due,
           \A j \in pass'.later : j \in pass.later \/ Stored(j.d),
           jobs' \subseteq JobIds, \A j \in jobs' : j \in jobs \/ Stored(j.d),
           UNCHANGED <<rows, work, lastEvent, asks, faults, contractVars>>
    PROVE  OutboundInv'
<1>1. /\ locks' \in [Deliveries -> Workers \cup {Sched, Free}]
      /\ \A g \in Workers : \A x \in Deliveries : locks'[x] = g <=> locks[x] = g
  BY OutboundAssumption DEF OutboundInv, SiteTypes, Held
<1>2. JobsInv'
  BY DEF OutboundInv, JobsInv, Stored
<1>3. PassInv'
  <2>1. \A x \in Deliveries : /\ pass'.buf[x] = IF x = d THEN row ELSE pass.buf[x]
                             /\ locks'[x] = IF x = d THEN Sched ELSE locks[x]
    BY DEF OutboundInv, SiteTypes, Pass
  <2>2. \A c \in pass'.copies : Stored(c)'
    BY DEF OutboundInv, PassInv, Stored
  <2>3. \A j \in pass'.due \cup pass'.later : Stored(j.d)'
    BY DEF OutboundInv, PassInv, Stored
  <2>4. ASSUME NEW x \in Deliveries
        PROVE  /\ Terminal(pass'.buf[x]) => outcome'[x] = "submitted"
               /\ locks'[x] = Sched =>
                     /\ Stored(x)' /\ pass'.buf[x].status # "Absent"
                     /\ pass'.buf[x].attempts = rows'[x].attempts /\ pass'.buf[x].recon = rows'[x].recon
    BY <2>1 DEF OutboundInv, PassInv, Stored, contractVars
  <2> QED BY <2>2, <2>3, <2>4 DEF PassInv, Terminal
<1>4. pass'.upto <= Len(log) /\ faults' \in Nat /\ faults' >= faults
  BY DEF OutboundInv, SiteTypes
<1> QED BY <1>1, <1>2, <1>3, <1>4, PassFrame

\* The pass begins without a lock and plans to touch stored rows only.
LEMMA PassStartsInv == ASSUME OutboundInv, PassStarts PROVE OutboundInv'
<1> DEFINE copies == {c \in Groups : LeftBehind(c)}
           due == {RetryJob(d) : d \in {x \in Deliveries : DueForRetry(x)}}
           seen == {d \in Deliveries : rows[d].status # "Absent"}
<1>0. /\ UNCHANGED <<rows, locks, jobs, work, lastEvent, asks, faults, contractVars>>
      /\ pass' = [IdlePass EXCEPT !.stage = "retry", !.seen = seen, !.copies = copies, !.due = due]
  BY DEF PassStarts
<1>1. \A c \in copies : c \in Groups /\ Stored(c)
  BY DEF LeftBehind, Releasable, Stored
<1>2. \A j \in due : j \in JobIds /\ Stored(j.d)
  <2> SUFFICES ASSUME NEW d \in Deliveries, DueForRetry(d) PROVE RetryJob(d) \in JobIds /\ Stored(RetryJob(d).d)
    OBVIOUS
  <2>1. rows[d] \in Row
    BY Counters
  <2>2. rows[d].attempts + 1 \in 0 .. AttemptLimit + 1
    BY <2>1, RowFields, LimitType
  <2> QED BY <2>2 DEF RetryJob, JobIds, DueForRetry, Stored
<1>3. /\ pass'.copies = copies /\ pass'.due = due /\ pass'.later = {} /\ pass'.upto = 0
      /\ pass'.stage = "retry" /\ pass'.buf = [d \in Deliveries |-> NoRow] /\ pass'.cursor = 0
  BY <1>0 DEF IdlePass
<1> HIDE DEF copies, due
<1>s. seen \subseteq Deliveries
  OBVIOUS
<1> HIDE DEF seen
<1>4. pass' \in Pass
  <2>1. [d \in Deliveries |-> NoRow] \in [Deliveries -> Row]
    BY Blanks
  <2> QED BY <1>0, <1>1, <1>2, <1>s, <2>1 DEF IdlePass, Pass
<1>5. PassInv'
  <2>1. \A d \in Deliveries : pass'.buf[d].status = "Absent"
    BY <1>3 DEF NoRow
  <2>2. \A d \in Deliveries : locks'[d] # Sched
    BY <1>0 DEF PassStarts, InPass, OutboundInv, PassInv
  <2> QED BY <1>0, <1>1, <1>2, <1>3, <2>1, <2>2 DEF PassInv, Stored, Terminal
<1>6. /\ pass'.upto <= Len(log) /\ locks' \in [Deliveries -> Workers \cup {Sched, Free}]
      /\ jobs' \subseteq JobIds /\ faults' \in Nat /\ faults' >= faults
  BY <1>0, <1>3 DEF OutboundInv, SiteTypes, ContractTypes
<1>7. JobsInv'
  BY <1>0 DEF OutboundInv, JobsInv, Stored
<1> QED BY <1>0, <1>4, <1>5, <1>6, <1>7, PassFrame

\* The pass sets the status of a stored row, and maybe its due time.
LEMMA PassReleasesInv ==
    ASSUME OutboundInv, NEW c \in Groups, PassReleases(c)
    PROVE  OutboundInv'
<1> DEFINE row == [Current(c) EXCEPT !.status = "Queued"]
<1>0. /\ UNCHANGED <<rows, jobs, work, lastEvent, asks, faults, contractVars>>
      /\ Held(c) /\ locks' = [locks EXCEPT ![c] = Sched] /\ pass.stage = "retry"
      /\ c \in Deliveries /\ Stored(c) /\ pass \in Pass
  BY ContractAssumption DEF PassReleases, InPass, Deliveries, OutboundInv, PassInv, SiteTypes
<1>1. /\ row \in Row /\ row.status = "Queued"
      /\ row.attempts = rows[c].attempts /\ row.recon = rows[c].recon
  BY <1>0, CurrentFacts, SetQueued
<1> HIDE DEF row
<1>2. BaseJob(c) \in JobIds /\ BaseJob(c).d = c
  BY <1>0, LimitType DEF BaseJob, JobIds
<1>3. PICK later \in {pass.later, pass.later \cup {BaseJob(c)}} :
         pass' = [pass EXCEPT !.copies = @ \ {c}, !.buf[c] = row, !.later = later]
  BY DEF PassReleases, row
<1>4. /\ pass' \in Pass /\ pass'.upto = pass.upto /\ pass'.stage = pass.stage
      /\ pass'.buf = [pass.buf EXCEPT ![c] = row] /\ pass'.due = pass.due
      /\ pass'.copies = pass.copies \ {c} /\ pass'.later = later
  <2>1. later \subseteq JobIds
    BY <1>0, <1>2 DEF Pass
  <2> QED BY <1>0, <1>1, <1>3, <2>1 DEF Pass
<1>5. \A j \in pass'.later : j \in pass.later \/ Stored(j.d)
  BY <1>0, <1>2, <1>4
<1>6. ~Terminal(row) /\ row.status # "Absent" /\ jobs' \subseteq JobIds /\ pass'.stage # "idle"
  BY <1>0, <1>1, <1>4 DEF Terminal, OutboundInv, SiteTypes
<1> QED BY <1>0, <1>1, <1>4, <1>5, <1>6, PassWrites

\* A due retry is claimed: the job it enqueues at once is of a stored delivery.
LEMMA PassClaimsInv ==
    ASSUME OutboundInv, NEW j \in pass.due, PassClaims(j)
    PROVE  OutboundInv'
<1> DEFINE row == [Current(j.d) EXCEPT !.retry = "none",
                       !.status = IF j.n > AttemptLimit THEN @ ELSE "Queued"]
<1>0. /\ UNCHANGED <<rows, work, lastEvent, asks, faults, contractVars>>
      /\ Held(j.d) /\ locks' = [locks EXCEPT ![j.d] = Sched] /\ pass.stage = "retry"
      /\ j \in JobIds /\ j.d \in Deliveries /\ Stored(j.d) /\ pass \in Pass
      /\ pass' = [pass EXCEPT !.due = @ \ {j}, !.buf[j.d] = row]
      /\ jobs' \subseteq jobs \cup {j}
  BY DEF PassClaims, InPass, OutboundInv, PassInv, SiteTypes, Pass, JobIds
<1>1. /\ row \in Row /\ row.status \in {"Queued", Current(j.d).status}
      /\ row.attempts = rows[j.d].attempts /\ row.recon = rows[j.d].recon
  <2>1. /\ Current(j.d) \in Row
        /\ Current(j.d).attempts = rows[j.d].attempts /\ Current(j.d).recon = rows[j.d].recon
    BY <1>0, CurrentFacts
  <2>2. ASSUME NEW r \in Row, NEW b \in BOOLEAN
        PROVE  LET x == [r EXCEPT !.retry = "none", !.status = IF b THEN @ ELSE "Queued"]
               IN  /\ x \in Row /\ x.status \in {"Queued", r.status}
                   /\ x.attempts = r.attempts /\ x.recon = r.recon
    BY DEF Row
  <2>3. (j.n > AttemptLimit) \in BOOLEAN
    OBVIOUS
  <2> QED BY <2>1, <2>2, <2>3
<1> HIDE DEF row
<1>2. Terminal(row) => outcome[j.d] = "submitted"
  BY <1>0, <1>1, CurrentFacts DEF Terminal
<1>3. row.status # "Absent"
  BY <1>0, <1>1, CurrentFacts
<1>4. /\ pass' \in Pass /\ pass'.upto = pass.upto /\ pass'.stage = pass.stage
      /\ pass'.buf = [pass.buf EXCEPT ![j.d] = row] /\ pass'.due = pass.due \ {j}
      /\ pass'.copies = pass.copies /\ pass'.later = pass.later
  BY <1>0, <1>1 DEF Pass
<1>5. /\ jobs' \subseteq JobIds /\ pass'.stage # "idle"
      /\ \A i \in jobs' : i \in jobs \/ Stored(i.d)
  BY <1>0, <1>4 DEF OutboundInv, SiteTypes
<1> QED BY <1>0, <1>1, <1>2, <1>3, <1>4, <1>5, PassWrites

\* An event is passed over, its row being newer than the pass.
LEMMA PassSkipsInv ==
    ASSUME OutboundInv, PassApplies, log[pass.cursor + 1].key \notin pass.seen
    PROVE  OutboundInv'
<1>0. /\ UNCHANGED <<rows, locks, jobs, work, lastEvent, asks, faults, contractVars>>
      /\ pass.stage = "sync" /\ pass \in Pass /\ pass' = [pass EXCEPT !.cursor = @ + 1]
  BY DEF PassApplies, InPass, OutboundInv, SiteTypes
<1>1. /\ pass' \in Pass /\ pass'.upto = pass.upto /\ pass'.stage = pass.stage
      /\ pass'.buf = pass.buf /\ pass'.due = pass.due
      /\ pass'.copies = pass.copies /\ pass'.later = pass.later
  BY <1>0 DEF Pass
<1>2. PassInv'
  BY <1>0, <1>1 DEF contractVars, OutboundInv, PassInv, Stored, Terminal
<1>3. JobsInv'
  BY <1>0 DEF OutboundInv, JobsInv, Stored
<1>4. /\ pass'.upto <= Len(log) /\ faults' \in Nat /\ faults' >= faults /\ jobs' \subseteq JobIds
      /\ locks' \in [Deliveries -> Workers \cup {Sched, Free}]
  BY <1>0, <1>1 DEF OutboundInv, SiteTypes
<1> QED BY <1>0, <1>1, <1>2, <1>3, <1>4, PassFrame

\* An event is of a stored delivery, and reports success only of a submitted one.
LEMMA PassAppliesInv ==
    ASSUME OutboundInv, PassApplies
    PROVE  OutboundInv'
<1> SUFFICES ASSUME log[pass.cursor + 1].key \in pass.seen PROVE OutboundInv'
  BY PassSkipsInv
<1> DEFINE i == pass.cursor + 1
           k == log[i].key
           row == [Current(k) EXCEPT !.status = log[i].status]
<1>1. i \in 1 .. Len(log) /\ pass \in Pass /\ pass.cursor \in Nat
  BY DEF PassApplies, OutboundInv, SiteTypes, Pass, ContractTypes
<1> HIDE DEF i
<1>2. /\ k \in Deliveries /\ log[i].status \in {"Submitted", "Acknowledged", "Failed"}
      /\ Stored(k) /\ (log[i].status # "Failed" => outcome[k] = "submitted")
  BY <1>1, LogEntries DEF Deliveries, OutboundInv, LogInv
<1>3. /\ UNCHANGED <<rows, jobs, work, lastEvent, asks, faults, contractVars>>
      /\ Held(k) /\ locks' = [locks EXCEPT ![k] = Sched] /\ pass.stage = "sync"
      /\ pass' = [pass EXCEPT !.cursor = @ + 1, !.buf[k] = row]
  BY DEF PassApplies, InPass, i
<1>4. /\ row \in Row /\ row.status = log[i].status
      /\ row.attempts = rows[k].attempts /\ row.recon = rows[k].recon
  <2> HIDE DEF k
  <2>1. log[i].status \in Statuses
    BY <1>2 DEF Statuses
  <2>2. ASSUME NEW r \in Row, NEW s \in Statuses
        PROVE  LET x == [r EXCEPT !.status = s]
               IN  x \in Row /\ x.status = s /\ x.attempts = r.attempts /\ x.recon = r.recon
    BY DEF Row, Statuses
  <2>3. /\ Current(k) \in Row
        /\ Current(k).attempts = rows[k].attempts /\ Current(k).recon = rows[k].recon
    BY <1>2, CurrentFacts
  <2> QED BY <2>1, <2>2, <2>3
<1>5. row.status # "Absent" /\ (Terminal(row) => outcome[k] = "submitted")
  BY <1>2, <1>4 DEF Terminal
<1> HIDE DEF row, k
<1>6. /\ pass' \in Pass /\ pass'.upto = pass.upto /\ pass'.stage = pass.stage
      /\ pass'.buf = [pass.buf EXCEPT ![k] = row] /\ pass'.due = pass.due
      /\ pass'.copies = pass.copies /\ pass'.later = pass.later
  <2>1. PICK n \in Nat : n = pass.cursor + 1
    BY <1>1
  <2>2. pass' = [pass EXCEPT !.cursor = n, !.buf[k] = row]
    BY <1>3, <2>1
  <2> QED BY <1>1, <1>2, <1>4, <2>2 DEF Pass
<1>7. jobs' \subseteq JobIds /\ jobs' = jobs /\ pass'.stage # "idle"
  BY <1>3, <1>6 DEF OutboundInv, SiteTypes
<1> QED BY <1>2, <1>3, <1>4, <1>5, <1>6, <1>7, PassWrites

\* The events asked for are in the log.
LEMMA PassFetchesInv ==
    ASSUME OutboundInv, NEW reachable \in BOOLEAN, PassFetches(reachable)
    PROVE  OutboundInv'
<1>0. /\ UNCHANGED <<rows, locks, jobs, work, lastEvent, asks, faults, contractVars>>
      /\ pass.stage = "retry" /\ pass \in Pass
      /\ lastEvent \in Nat /\ Len(log) \in Nat /\ lastEvent <= Len(log)
  BY DEF PassFetches, InPass, OutboundInv, SiteTypes, ContractTypes
<1>1. PICK n \in Nat : n <= Len(log) /\ pass' = [pass EXCEPT !.stage = "sync", !.cursor = lastEvent, !.upto = n]
  <2> DEFINE n == IF ~reachable THEN lastEvent
                  ELSE IF Len(log) < lastEvent + BatchSize THEN Len(log) ELSE lastEvent + BatchSize
  <2>1. n \in Nat /\ n <= Len(log)
    BY <1>0, OutboundAssumption
  <2>2. pass' = [pass EXCEPT !.stage = "sync", !.cursor = lastEvent, !.upto = n]
    BY DEF PassFetches
  <2> QED BY <2>1, <2>2
<1>2. /\ pass' \in Pass /\ pass'.upto = n /\ pass'.stage = "sync" /\ pass'.buf = pass.buf
      /\ pass'.copies = pass.copies /\ pass'.due = pass.due /\ pass'.later = pass.later
  BY <1>0, <1>1 DEF Pass
<1>3. PassInv'
  BY <1>0, <1>2 DEF contractVars, OutboundInv, PassInv, Stored, Terminal
<1>4. JobsInv'
  BY <1>0 DEF OutboundInv, JobsInv, Stored
<1>5. /\ locks' \in [Deliveries -> Workers \cup {Sched, Free}] /\ jobs' \subseteq JobIds
      /\ faults' \in Nat /\ faults' >= faults
  BY <1>0 DEF OutboundInv, SiteTypes
<1> QED BY <1>0, <1>1, <1>2, <1>3, <1>4, <1>5, PassFrame

\* Nothing is left of a pass that is rolled back but the jobs it has enqueued.
LEMMA RollbackPassInv ==
    ASSUME OutboundInv, RollbackPass, faults' \in Nat, faults' >= faults
    PROVE  OutboundInv'
<1>0. UNCHANGED <<rows, jobs, work, lastEvent, asks, contractVars>> /\ pass' = IdlePass /\ Unlock(Sched)
  BY DEF RollbackPass
<1>1. /\ locks' \in [Deliveries -> Workers \cup {Sched, Free}]
      /\ \A d \in Deliveries : locks'[d] # Sched
      /\ \A g \in Workers : \A d \in Deliveries : locks'[d] = g <=> locks[d] = g
  BY <1>0, OutboundAssumption, UnlockFacts
<1>2. /\ pass' \in Pass /\ pass'.upto = 0 /\ pass'.copies = {} /\ pass'.due = {} /\ pass'.later = {}
      /\ \A d \in Deliveries : pass'.buf[d].status = "Absent"
  BY <1>0, Blanks DEF IdlePass, NoRow
<1>3. PassInv'
  BY <1>1, <1>2 DEF PassInv, Terminal
<1>4. JobsInv' /\ jobs' \subseteq JobIds /\ pass'.upto <= Len(log)
  BY <1>0, <1>2 DEF OutboundInv, JobsInv, Stored, SiteTypes, ContractTypes
<1> QED BY <1>0, <1>1, <1>2, <1>3, <1>4, PassFrame

\* A worker that waits for a row has made no request that is still unpaid.
LEMMA BreakDeadlockInv ==
    ASSUME OutboundInv, NEW w \in Workers, BreakDeadlock(w)
    PROVE  OutboundInv'
<1>1. faults' \in Nat /\ faults' >= faults
  BY Counters DEF BreakDeadlock
<1>2. work[w].stage \in {"loaded", "releasing"}
  BY DEF BreakDeadlock, WorkerWaits, At
<1>3. CASE RollbackWork(w, TRUE)
  BY <1>1, <1>2, <1>3, RollbackWorkInv DEF At
<1>4. CASE RollbackPass
  BY <1>1, <1>4, RollbackPassInv
<1> QED BY <1>3, <1>4 DEF BreakDeadlock

\* The commit of the pass writes what it holds.
LEMMA PassCommitsInv ==
    ASSUME OutboundInv, PassCommits
    PROVE  OutboundInv'
<1>0. /\ UNCHANGED <<work, asks, faults, contractVars>>
      /\ UNCHANGED <<outcome, log, inbox, answer, decided>>
      /\ rows' = [d \in Deliveries |-> Current(d)] /\ Unlock(Sched) /\ pass' = IdlePass
      /\ lastEvent' = pass.upto /\ jobs' = jobs \cup pass.later
  BY DEF PassCommits, contractVars
<1>1. /\ rows' \in [Deliveries -> Row]
      /\ \A d \in Deliveries :
            /\ rows'[d].attempts = rows[d].attempts /\ rows'[d].recon = rows[d].recon
            /\ Stored(d)' <=> Stored(d)
            /\ Terminal(rows'[d]) => outcome[d] = "submitted"
  <2>1. \A d \in Deliveries : rows'[d] = Current(d)
    BY <1>0
  <2> QED BY <1>0, <2>1, CurrentFacts DEF Stored
<1>2. Final /\ StoredGrows
  BY <1>0, <1>1 DEF Final, StoredGrows
<1>3. /\ locks' \in [Deliveries -> Workers \cup {Sched, Free}]
      /\ \A d \in Deliveries : locks'[d] # Sched
      /\ \A g \in Workers : \A d \in Deliveries : locks'[d] = g <=> locks[d] = g
  BY <1>0, OutboundAssumption, UnlockFacts
<1>4. /\ pass' \in Pass /\ pass'.upto = 0 /\ pass'.copies = {} /\ pass'.due = {} /\ pass'.later = {}
      /\ \A d \in Deliveries : pass'.buf[d].status = "Absent"
  BY <1>0, Blanks DEF IdlePass, NoRow
<1>5. SiteTypes' /\ ContractTypes'
  <2>1. lastEvent' \in Nat /\ lastEvent' <= Len(log) /\ pass'.upto <= Len(log) /\ jobs' \subseteq JobIds
    BY <1>0, <1>4 DEF OutboundInv, SiteTypes, ContractTypes, Pass
  <2> QED BY <1>0, <1>1, <1>3, <1>4, <2>1 DEF OutboundInv, SiteTypes, ContractTypes
<1>6. ASSUME NEW d \in Deliveries PROVE RowSound(d)'
  <2>1. RowSound(d) /\ (d \in Groups => CopyOf[d] \in Deliveries)
    BY OutboundAssumption DEF OutboundInv, Primaries, Deliveries
  <2> QED BY <2>1, <1>0, <1>1 DEF RowSound
<1>7. ASSUME NEW v \in Workers PROVE WorkerInv(v)'
  <2>1. AnswerSound(v)'
    BY <1>0, <1>2, AnswerKept DEF OutboundInv, SameWork
  <2>2. ~At(v, "idle") => /\ rows'[Doc(v)].attempts = rows[Doc(v)].attempts
                          /\ rows'[Doc(v)].recon = rows[Doc(v)].recon
    BY <1>1, Busy
  <2> QED BY <2>1, <2>2, <1>0, <1>2, <1>3, WorkerKept DEF OutboundInv, SameWork
<1>8. PassInv'
  BY <1>3, <1>4 DEF PassInv, Terminal
<1>9. JobsInv'
  <2>1. \A j \in jobs \cup pass.later : Stored(j.d) /\ j.d \in Deliveries
    BY DEF OutboundInv, JobsInv, PassInv, SiteTypes, Pass, JobIds
  <2> QED BY <2>1, <1>0, <1>2 DEF JobsInv, StoredGrows
<1>10. LogInv' /\ InboxInv'
  <2>1. LogInv'
    BY <1>0, <1>2, LogEntries DEF OutboundInv, LogInv, StoredGrows, Deliveries
  <2>2. InboxInv'
    <3>1. \A i \in 1 .. Len(inbox) : Stored(inbox[i].key)'
      BY <1>0, <1>2, InboxEntries DEF OutboundInv, InboxInv, StoredGrows, Deliveries
    <3>2. \A v : Doc(v)' = Doc(v) /\ (At(v, "asking")' <=> At(v, "asking"))
      BY <1>0 DEF Doc, JobOf, At
    <3> QED BY <1>0, <3>1, <3>2 DEF OutboundInv, InboxInv
  <2> QED BY <2>1, <2>2
<1>11. AsksInv'
  <2>1. \A d \in Deliveries : rows'[d].attempts \in Nat /\ rows'[d].attempts >= rows[d].attempts
    BY <1>1, Counters
  <2>2. \A v \in Workers : work[v].stage \in {"asking", "saved"} => SameRequest(v)
    BY <1>0 DEF SameRequest, Doc, JobOf
  <2>3. faults' \in Nat /\ faults' >= faults
    BY <1>0, Counters
  <2> QED BY <1>0, <1>2, <2>1, <2>2, <2>3, AsksKept
<1> QED BY <1>5, <1>6, <1>7, <1>8, <1>9, <1>10, <1>11 DEF OutboundInv

-----------------------------------------------------------------------------
(* Every step, and the theorems *)

\* A step that changes nothing.
LEMMA StutterInv == ASSUME OutboundInv, UNCHANGED allVars PROVE OutboundInv'
<1> USE DEF allVars, contractVars
<1>1. UNCHANGED siteVars /\ Final /\ ContractTypes' /\ Len(log') >= Len(log)
  BY DEF Final, OutboundInv, ContractTypes
<1>2. \A k \in Keys : outcome'[k] # "open" => Stored(k)
  BY DEF OutboundInv, RowSound, Deliveries
<1>3. \A w \in Workers : AnswerSound(w)'
  BY <1>1, AnswerKept DEF OutboundInv, siteVars, SameWork
<1>4. InboxInv' /\ LogInv'
  BY DEF OutboundInv, InboxInv, LogInv, siteVars, Stored, At, Doc, JobOf
<1> QED BY <1>1, <1>2, <1>3, <1>4, GatewayFrame

\* Every step of the site, of the gateway and of what surrounds them keeps the invariant.
LEMMA NextInv == ASSUME OutboundInv, [OutboundNext]_allVars PROVE OutboundInv'
<1>1. ASSUME NEW w \in Workers, WorkerStep(w) PROVE OutboundInv'
  BY <1>1, TakeJobInv, FirstSaveInv, PrepareFailsInv, RequestInv, ReceiveInv, ReleaseCopyInv, CommitWorkInv
     DEF WorkerStep
<1>2. CASE PassStep
  BY <1>2, PassStartsInv, PassReleasesInv, PassClaimsInv, PassFetchesInv, PassAppliesInv, PassCommitsInv
     DEF PassStep
<1>3. CASE GatewayStep
  BY <1>3, DecideInv, AnswerInv DEF GatewayStep, Serve
<1>4. CASE Environment
  <2>1. ASSUME NEW p \in Primaries, NEW kids \in SUBSET Groups, NEW lost \in BOOLEAN,
               kids \subseteq Copies(p), StoreDelivery(p, kids, lost)
        PROVE  OutboundInv'
    BY <2>1, StoreDeliveryInv
  <2>2. ASSUME NEW w \in Workers, RequestTimesOut(w) \/ CommitWork(w, TRUE) PROVE OutboundInv'
    BY <2>2, TimesOutInv, CommitWorkInv
  <2>3. ASSUME NEW w \in Workers, NEW again \in BOOLEAN, WorkerDies(w, again) PROVE OutboundInv'
    BY <2>3, WorkerDiesInv
  <2>4. CASE PassFails
    BY <2>4, RollbackPassInv, Counters DEF PassFails, Fault
  <2>5. ASSUME NEW k \in Keys, NEW s \in {"Acknowledged", "Failed"}, Notify(k, s), UNCHANGED siteVars
        PROVE  OutboundInv'
    BY <2>5, NotifyInv
  <2>6. CASE Die /\ Fault /\ UNCHANGED <<rows, locks, jobs, work, pass, lastEvent, asks>>
    BY <2>6, DieInv DEF Fault
  <2> QED BY <1>4, <2>1, <2>2, <2>3, <2>4, <2>5, <2>6 DEF Environment
<1>5. ASSUME NEW d \in Deliveries, RetryFallsDue(d) PROVE OutboundInv'
  BY <1>5, RetryFallsDueInv
<1>6. ASSUME NEW w \in Workers, BreakDeadlock(w) PROVE OutboundInv'
  BY <1>6, BreakDeadlockInv
<1>7. CASE UNCHANGED allVars
  BY <1>7, StutterInv
<1> QED BY <1>1, <1>2, <1>3, <1>4, <1>5, <1>6, <1>7 DEF OutboundNext

\* The invariant holds in every reachable state: rows, documents, the pass, the
\* requests under way and the event log agree with the gateway's outcomes.
THEOREM Inductive == OutboundSpec => []OutboundInv
<1>1. OutboundInit => OutboundInv
  BY InitInv
<1>2. OutboundInv /\ [OutboundNext]_allVars => OutboundInv'
  BY NextInv
<1> QED BY <1>1, <1>2, PTL DEF OutboundSpec

\* Every variable keeps its type, and a worker that has asked knows of its request.
THEOREM TypesKept == OutboundSpec => []OutboundTypeOK
<1>1. OutboundInv => OutboundTypeOK
  <2> SUFFICES ASSUME OutboundInv PROVE OutboundTypeOK
    OBVIOUS
  <2>1. ASSUME NEW w \in Workers
        PROVE  /\ work[w].stage \in Stages /\ work[w].job \subseteq JobIds /\ work[w].doc \in Row
               /\ At(w, "asking") => answer[w] # "none"
    BY DEF OutboundInv, SiteTypes, Work, WorkerInv, AnswerSound
  <2>2. ASSUME NEW w \in Workers PROVE Cardinality(work[w].job) <= 1
    <3>1. CASE work[w].job = {}
      BY <3>1, FS_EmptySet
    <3>2. ASSUME NEW j, work[w].job = {j} PROVE Cardinality(work[w].job) <= 1
      BY <3>2, FS_Singleton
    <3> QED BY <3>1, <3>2 DEF OutboundInv, WorkerInv, WorkSound
  <2>3. lastEvent \in 0 .. Len(log) /\ pass.stage \in {"idle", "retry", "sync"}
    BY DEF OutboundInv, SiteTypes, ContractTypes, Pass
  <2> QED BY <2>1, <2>2, <2>3 DEF OutboundTypeOK, OutboundInv, SiteTypes, Stages
<1> QED BY <1>1, Inductive, PTL

\* A row that says Submitted or Acknowledged belongs to a message the gateway has
\* submitted, whoever wrote it, and however workers, pass, events and faults interleave.
THEOREM SuccessIsTrue == OutboundSpec => []NoFalseSuccess
<1>1. OutboundInv => NoFalseSuccess
  BY DEF OutboundInv, RowSound, NoFalseSuccess
<1> QED BY <1>1, Inductive, PTL

\* Reconciliation is asked for only when the gateway will never send the message again.
THEOREM ReconciliationIsDue == OutboundSpec => []ReconSound
<1>1. OutboundInv => ReconSound
  BY DEF OutboundInv, RowSound, ReconSound
<1> QED BY <1>1, Inductive, PTL

\* No group copy is asked to be sent before its primary message was submitted.
THEOREM PrimaryFirst == OutboundSpec => []CopyAfterPrimary
<1>1. OutboundInv => CopyAfterPrimary
  BY ContractAssumption DEF OutboundInv, RowSound, CopyAfterPrimary, Deliveries
<1> QED BY <1>1, Inductive, PTL

\* The gateway is asked to send a message that is not submitted at most once plus
\* the retries plus the faults, for any number of workers and any interleaving.
THEOREM RequestsBounded == OutboundSpec => []AttemptCeiling
<1>1. OutboundInv => AttemptCeiling
  <2> SUFFICES ASSUME OutboundInv, NEW d \in Deliveries, outcome[d] # "submitted"
               PROVE  asks[d] <= AttemptLimit + faults
    BY DEF AttemptCeiling
  <2>1. CASE asks[d] <= rows[d].attempts + faults
    BY <2>1, Counters, RowFields, LimitType
  <2>2. ASSUME NEW w \in Workers, asks[d] <= work[w].doc.attempts + faults
        PROVE  asks[d] <= AttemptLimit + faults
    BY <2>2, Counters, RowFields, LimitType
  <2> QED BY <2>1, <2>2 DEF OutboundInv, AsksInv
<1> QED BY <1>1, Inductive, PTL

\* A step leaves the requests for a row that requires reconciliation as they are,
\* and the mark: a worker asks only with a document whose row is not marked, the
\* commits and the pass keep the mark, and only blank rows are stored.
LEMMA MarkStops ==
    ASSUME OutboundInv, OutboundNext, NEW d \in Deliveries, rows[d].recon
    PROVE  asks'[d] = asks[d] /\ rows'[d].recon
<1>1. ASSUME NEW w \in Workers, WorkerStep(w) PROVE asks'[d] = asks[d] /\ rows'[d].recon
  <2>1. ASSUME NEW j \in jobs, TakeJob(w, j) PROVE asks'[d] = asks[d] /\ rows'[d].recon
    BY <2>1 DEF TakeJob
  <2>2. CASE FirstSave(w)
    BY <2>2 DEF FirstSave
  <2>3. CASE PrepareFails(w) \/ Receive(w)
    BY <2>3 DEF PrepareFails, Receive
  <2>4. CASE Request(w)
    <3>1. Next1(w)
      BY <2>4 DEF Request, At, OutboundInv, WorkerInv, DocSound
    <3>2. d # Doc(w)
      BY <3>1 DEF Next1
    <3> QED BY <2>4, <3>2 DEF Request, OutboundInv, SiteTypes
  <2>5. ASSUME NEW c \in Groups, ReleaseCopy(w, c) PROVE asks'[d] = asks[d] /\ rows'[d].recon
    BY <2>5 DEF ReleaseCopy
  <2>6. CASE CommitWork(w, FALSE)
    <3>1. rows'[d].recon
      BY <2>6, CommittedRows
    <3> QED BY <2>6, <3>1 DEF CommitWork
  <2> QED BY <1>1, <2>1, <2>2, <2>3, <2>4, <2>5, <2>6 DEF WorkerStep
<1>2. CASE PassStep
  <2>1. CASE PassStarts \/ PassApplies
    BY <2>1 DEF PassStarts, PassApplies
  <2>2. ASSUME NEW c \in Groups, PassReleases(c) PROVE asks'[d] = asks[d] /\ rows'[d].recon
    BY <2>2 DEF PassReleases
  <2>3. ASSUME NEW j \in pass.due, PassClaims(j) PROVE asks'[d] = asks[d] /\ rows'[d].recon
    BY <2>3 DEF PassClaims
  <2>4. ASSUME NEW r \in BOOLEAN, PassFetches(r) PROVE asks'[d] = asks[d] /\ rows'[d].recon
    BY <2>4 DEF PassFetches
  <2>5. CASE PassCommits
    <3>1. rows'[d] = Current(d) /\ asks' = asks
      BY <2>5 DEF PassCommits
    <3> QED BY <3>1, CurrentFacts
  <2> QED BY <1>2, <2>1, <2>2, <2>3, <2>4, <2>5 DEF PassStep
<1>3. CASE GatewayStep
  BY <1>3 DEF GatewayStep, siteVars
<1>4. CASE Environment
  <2>1. ASSUME NEW p \in Primaries, NEW kids \in SUBSET Groups, NEW lost \in BOOLEAN,
               kids \subseteq Copies(p), StoreDelivery(p, kids, lost)
        PROVE  asks'[d] = asks[d] /\ rows'[d].recon
    <3>1. RowSound(d) /\ Stored(d) /\ (d \in Groups => Stored(CopyOf[d]))
      BY DEF OutboundInv, RowSound
    <3>2. d # p /\ d \notin kids
      BY <2>1, <3>1 DEF StoreDelivery, Stored, Copies
    <3> QED BY <2>1, <3>2 DEF StoreDelivery
  <2>2. ASSUME NEW w \in Workers, RequestTimesOut(w) \/ CommitWork(w, TRUE)
        PROVE  asks'[d] = asks[d] /\ rows'[d].recon
    <3>1. CASE RequestTimesOut(w)
      BY <3>1 DEF RequestTimesOut, siteVars
    <3>2. CASE CommitWork(w, TRUE)
      <4>1. rows'[d].recon
        BY <3>2, CommittedRows
      <4> QED BY <3>2, <4>1 DEF CommitWork
    <3> QED BY <2>2, <3>1, <3>2
  <2>3. ASSUME NEW w \in Workers, NEW again \in BOOLEAN, WorkerDies(w, again)
        PROVE  asks'[d] = asks[d] /\ rows'[d].recon
    BY <2>3 DEF WorkerDies, RollbackWork
  <2>4. CASE PassFails
    BY <2>4 DEF PassFails, RollbackPass
  <2>5. ASSUME UNCHANGED siteVars PROVE asks'[d] = asks[d] /\ rows'[d].recon
    BY <2>5 DEF siteVars
  <2>6. CASE Die /\ Fault /\ UNCHANGED <<rows, locks, jobs, work, pass, lastEvent, asks>>
    BY <2>6
  <2> QED BY <1>4, <2>1, <2>2, <2>3, <2>4, <2>5, <2>6 DEF Environment
<1>5. ASSUME NEW x \in Deliveries, RetryFallsDue(x) PROVE asks'[d] = asks[d] /\ rows'[d].recon
  <2>1. rows \in [Deliveries -> Row] /\ rows[x] \in Row /\ [rows[x] EXCEPT !.retry = "due"].recon = rows[x].recon
    BY DEF OutboundInv, SiteTypes, Row
  <2> QED BY <1>5, <2>1 DEF RetryFallsDue
<1>6. ASSUME NEW w \in Workers, BreakDeadlock(w) PROVE asks'[d] = asks[d] /\ rows'[d].recon
  BY <1>6 DEF BreakDeadlock, RollbackWork, RollbackPass
<1> QED BY <1>1, <1>2, <1>3, <1>4, <1>5, <1>6 DEF OutboundNext

\* Once a row requires reconciliation no worker, duplicate or stale, asks the gateway
\* again for it, and the mark stays.
THEOREM StoppedForGood == OutboundSpec => ReconciliationStops
<1> DEFINE Stops == \A d \in Deliveries : rows[d].recon => asks'[d] = asks[d] /\ rows'[d].recon
<1>1. OutboundInv /\ [OutboundNext]_allVars => [Stops]_allVars
  BY MarkStops
<1>2. OutboundSpec => [][Stops]_allVars
  BY <1>1, Inductive, PTL DEF OutboundSpec
<1> QED BY <1>2 DEF ReconciliationStops

-----------------------------------------------------------------------------
(* What history has recorded *)

\* The worker would write its document over the row, if it came to a commit.
Overwrites(w) ==
    \/ At(w, "loaded") /\ work[w].fresh
    \/ work[w].stage \notin {"idle", "loaded"} /\ locks[Doc(w)] = w

\* Rows not stored have no ids, a document that may be written has those of its row,
\* and the pass has buffered rows with the ids they have.
DocIds(w) == Overwrites(w) /\ rows[Doc(w)].ids => work[w].doc.ids
RowIds(d) == ~Stored(d) => ~rows[d].ids
PassIds(d) == locks[d] = Sched => pass.buf[d].ids = rows[d].ids
IdsInv ==
    /\ \A d \in Deliveries : RowIds(d) /\ PassIds(d)
    /\ \A w \in Workers : DocIds(w)

\* The step takes back nothing that history has recorded.
Keeps ==
    \A d \in Deliveries :
        /\ rows'[d].attempts >= rows[d].attempts
        /\ rows[d].ids => rows'[d].ids

\* Of a worker's assignments only that of the gateway's answer sets ids.
LEMMA IdsFields ==
    ASSUME NEW r \in Row, NEW s \in Statuses, NEW t \in {"none", "later", "due"}, NEW u
    PROVE  /\ [r EXCEPT !.status = s, !.retry = t].ids = r.ids
           /\ [r EXCEPT !.attempts = @ + 1, !.status = s, !.retry = t].ids = r.ids
           /\ [r EXCEPT !.status = s, !.ids = TRUE].ids = TRUE
           /\ FailedDoc(r, u).ids = r.ids
  BY DEF Row, FailedDoc

\* Attempts are numbers, so that rows that are not written keep what they have.
LEMMA SameRowsKeep == ASSUME OutboundInv, rows' = rows PROVE Keeps
  BY Counters DEF Keeps

\* A worker that does nothing keeps its document right while its row keeps its ids.
LEMMA DocIdsKept ==
    ASSUME OutboundInv, NEW v \in Workers, DocIds(v), SameWork(v),
           \A d \in Deliveries : locks'[d] = v <=> locks[d] = v,
           Overwrites(v)' /\ ~At(v, "idle") => rows'[Doc(v)].ids = rows[Doc(v)].ids
    PROVE  DocIds(v)'
<1>1. Doc(v)' = Doc(v) /\ \A s : At(v, s)' <=> At(v, s)
  BY DEF SameWork, Doc, JobOf, At
<1>2. ~At(v, "idle") => Doc(v) \in Deliveries
  BY Busy
<1>3. Overwrites(v)' => Overwrites(v) /\ ~At(v, "idle")
  BY <1>1, <1>2 DEF Overwrites, SameWork, At
<1> QED BY <1>1, <1>3 DEF DocIds, SameWork

\* A step of one worker that writes no row.
LEMMA WorkerIds ==
    ASSUME OutboundInv, IdsInv, NEW w \in Workers, DocIds(w)', UNCHANGED <<rows, pass>>,
           \A v \in Workers \ {w} : work'[v] = work[v],
           \A g \in (Workers \ {w}) \cup {Sched} : \A d \in Deliveries : locks'[d] = g <=> locks[d] = g
    PROVE  IdsInv' /\ Keeps
<1>1. ASSUME NEW d \in Deliveries PROVE RowIds(d)' /\ PassIds(d)'
  BY DEF IdsInv, RowIds, PassIds, Stored
<1>2. ASSUME NEW v \in Workers PROVE DocIds(v)'
  <2>1. CASE v # w
    BY <2>1, DocIdsKept DEF IdsInv, SameWork
  <2> QED BY <2>1
<1> QED BY <1>1, <1>2, SameRowsKeep DEF IdsInv

\* A step that leaves the rows, and what is about to be written to them, alone.
LEMMA FrameIds ==
    ASSUME OutboundInv, IdsInv, UNCHANGED <<rows, locks, work>>, pass'.buf = pass.buf
    PROVE  IdsInv' /\ Keeps
<1>1. ASSUME NEW v \in Workers PROVE DocIds(v)'
  BY DocIdsKept DEF IdsInv, SameWork
<1> QED BY <1>1, SameRowsKeep DEF IdsInv, RowIds, PassIds, Stored

\* The pass locks a row and buffers it with another status.
LEMMA PassIdsKept ==
    ASSUME OutboundInv, IdsInv, NEW d \in Deliveries, NEW row, Held(d), row.ids = Current(d).ids,
           locks' = [locks EXCEPT ![d] = Sched], pass'.buf = [pass.buf EXCEPT ![d] = row],
           UNCHANGED <<rows, work>>
    PROVE  IdsInv' /\ Keeps
<1>0. /\ locks \in [Deliveries -> Workers \cup {Sched, Free}] /\ pass.buf \in [Deliveries -> Row]
      /\ Sched \notin Workers /\ Free \notin Workers
  BY OutboundAssumption DEF OutboundInv, SiteTypes, Pass
<1>1. row.ids = rows[d].ids
  BY DEF Current, IdsInv, PassIds
<1>2. ASSUME NEW x \in Deliveries PROVE RowIds(x)' /\ PassIds(x)'
  BY <1>0, <1>1 DEF IdsInv, RowIds, PassIds, Stored
<1>3. ASSUME NEW v \in Workers PROVE DocIds(v)'
  <2>1. \A x \in Deliveries : locks'[x] = v <=> locks[x] = v
    BY <1>0 DEF Held
  <2> QED BY <2>1, DocIdsKept DEF IdsInv, SameWork
<1> QED BY <1>2, <1>3, SameRowsKeep DEF IdsInv

\* A worker's steps before its commit: its document has the ids of the row it was
\* read from, and the lock is taken only if it is fresh.
LEMMA WorkerStepIds ==
    ASSUME OutboundInv, IdsInv, NEW w \in Workers, WorkerStep(w), ~CommitWork(w, FALSE)
    PROVE  IdsInv' /\ Keeps
<1>0. /\ work \in [Workers -> Work] /\ work[w] \in Work /\ work[w].doc \in Row
      /\ locks \in [Deliveries -> Workers \cup {Sched, Free}] /\ DocIds(w)
      /\ Sched \notin Workers /\ Free \notin Workers /\ Sched # Free
      /\ ~At(w, "idle") => Doc(w) \in Deliveries
  BY Counters, Busy, OutboundAssumption DEF OutboundInv, SiteTypes, IdsInv
\* The worker keeps its job, and its document has at least the ids it had.
<1>1. ASSUME NEW new, work' = [work EXCEPT ![w] = new], UNCHANGED <<rows, pass>>, Locks(w),
             \/ new.stage = "idle"
             \/ /\ new.job = work[w].job /\ (work[w].doc.ids => new.doc.ids)
                /\ new.stage \notin {"idle", "loaded"} /\ ~At(w, "idle")
                /\ \/ Overwrites(w)
                   \/ ~At(w, "loaded") /\ locks[Doc(w)] # w /\ locks'[Doc(w)] = locks[Doc(w)]
      PROVE  IdsInv' /\ Keeps
  <2>1. /\ work'[w] = new /\ \A s : At(w, s)' <=> new.stage = s
        /\ new.job = work[w].job => Doc(w)' = Doc(w)
    BY <1>1, NewWork
  <2>2. DocIds(w)'
    <3>1. CASE new.stage = "idle"
      BY <2>1, <3>1 DEF DocIds, Overwrites
    <3>2. CASE new.stage # "idle"
      BY <1>0, <1>1, <2>1, <3>2 DEF DocIds, Overwrites
    <3> QED BY <3>1, <3>2
  <2>3. \A g \in (Workers \ {w}) \cup {Sched} : \A d \in Deliveries : locks'[d] = g <=> locks[d] = g
    BY <1>0, <1>1, LockFacts DEF OutboundInv
  <2>4. \A v \in Workers \ {w} : work'[v] = work[v]
    BY <1>0, <1>1
  <2> QED BY <1>1, <2>2, <2>3, <2>4, WorkerIds
<1>2. ASSUME NEW j \in jobs, TakeJob(w, j) PROVE IdsInv' /\ Keeps
  <2> DEFINE new == [IdleWork EXCEPT
                  !.stage = IF Terminal(rows[j.d]) THEN "releasing" ELSE "loaded",
                  !.job = {j}, !.doc = rows[j.d],
                  !.kids = {c \in Copies(j.d) : Releasable(rows[c])}]
  <2>1. /\ work' = [work EXCEPT ![w] = IF NothingToDo(j.d) THEN IdleWork ELSE new]
        /\ UNCHANGED <<rows, pass, locks>>
    BY <1>2 DEF TakeJob
  <2>2. CASE NothingToDo(j.d)
    BY <1>1, <2>1, <2>2 DEF IdleWork, Locks
  <2>3. CASE ~NothingToDo(j.d)
    <3>1. new.job = {j} /\ new.doc = rows[j.d]
      BY DEF IdleWork
    <3>2. work' = [work EXCEPT ![w] = new]
      BY <2>1, <2>3
    <3> HIDE DEF new
    <3>3. work'[w] = new /\ Doc(w)' = j.d
      <4>1. work'[w] = new /\ \A k : new.job = {k} => Doc(w)' = k.d
        BY <3>2, NewWork
      <4> QED BY <3>1, <4>1
    <3>4. DocIds(w)'
      BY <2>1, <3>1, <3>3 DEF DocIds
    <3>5. \A v \in Workers \ {w} : work'[v] = work[v]
      BY <1>0, <3>2
    <3> QED BY <2>1, <3>4, <3>5, WorkerIds
  <2> QED BY <2>2, <2>3
<1>3. CASE FirstSave(w)
  <2> DEFINE doc == work[w].doc
             failed == [doc EXCEPT !.status = "Failed", !.retry = "none"]
             next == [doc EXCEPT !.attempts = @ + 1, !.status = "Processing", !.retry = "none"]
  <2>0. /\ UNCHANGED <<rows, pass>> /\ At(w, "loaded") /\ ~At(w, "idle") /\ locks[Doc(w)] = Free
        /\ failed.ids = doc.ids /\ next.ids = doc.ids
    <3>1. failed.ids = doc.ids /\ next.ids = doc.ids
      BY <1>0, IdsFields DEF Statuses
    <3> QED BY <1>3, <3>1 DEF FirstSave, At
  <2> HIDE DEF failed, next
  <2>1. CASE work' = [work EXCEPT ![w] = IdleWork] /\ UNCHANGED locks
    BY <1>1, <2>0, <2>1 DEF IdleWork, Locks
  <2>2. ASSUME work[w].fresh, locks' = [locks EXCEPT ![Doc(w)] = w], NEW new,
               work' = [work EXCEPT ![w] = new], new.stage \in {"saved", "sending"},
               new.job = work[w].job, new.doc.ids = doc.ids
        PROVE  IdsInv' /\ Keeps
    <3>1. Locks(w) /\ Overwrites(w)
      BY <1>0, <2>0, <2>2 DEF Locks, Overwrites
    <3> QED BY <1>1, <2>0, <2>2, <3>1
  <2>3. CASE /\ work[w].fresh /\ locks' = [locks EXCEPT ![Doc(w)] = w]
             /\ work' = [work EXCEPT ![w].stage = "saved", ![w].kids = {}, ![w].doc = failed]
    <3> DEFINE new == [work[w] EXCEPT !.stage = "saved", !.kids = {}, !.doc = failed]
    <3>1. new.stage = "saved" /\ new.job = work[w].job /\ new.doc = failed
      BY <1>0 DEF Work
    <3>2. work' = [work EXCEPT ![w] = new]
      BY <1>0, <2>3
    <3> HIDE DEF new
    <3> QED BY <2>0, <2>2, <2>3, <3>1, <3>2
  <2>4. CASE /\ work[w].fresh /\ locks' = [locks EXCEPT ![Doc(w)] = w]
             /\ work' = [work EXCEPT ![w].stage = "sending", ![w].doc = next]
    <3> DEFINE new == [work[w] EXCEPT !.stage = "sending", !.doc = next]
    <3>1. new.stage = "sending" /\ new.job = work[w].job /\ new.doc = next
      BY <1>0 DEF Work
    <3>2. work' = [work EXCEPT ![w] = new]
      BY <1>0, <2>4
    <3> HIDE DEF new
    <3> QED BY <2>0, <2>2, <2>4, <3>1, <3>2
  <2> QED BY <1>3, <2>1, <2>3, <2>4 DEF FirstSave, failed, next
<1>4. CASE PrepareFails(w)
  <2> DEFINE new == [work[w] EXCEPT !.stage = "saved", !.kids = {}, !.doc = FailedDoc(@, FALSE)]
  <2>1. /\ UNCHANGED <<rows, pass, locks>> /\ work[w].stage = "sending"
        /\ work' = [work EXCEPT ![w] = new]
    BY <1>0, <1>4 DEF PrepareFails, At
  <2>2. new.stage = "saved" /\ new.job = work[w].job /\ new.doc = FailedDoc(work[w].doc, FALSE)
    BY <1>0 DEF Work
  <2> HIDE DEF new
  <2>3. new.doc.ids = work[w].doc.ids
    <3>1. ASSUME NEW r \in Row PROVE FailedDoc(r, FALSE).ids = r.ids
      BY DEF FailedDoc, Row
    <3> QED BY <1>0, <2>2, <3>1
  <2>4. Overwrites(w) \/ locks[Doc(w)] # w
    BY <2>1 DEF Overwrites
  <2> QED BY <1>1, <2>1, <2>2, <2>3, <2>4 DEF Locks, At
<1>5. CASE Request(w)
  <2> DEFINE new == [work[w] EXCEPT !.stage = "asking"]
  <2>1. /\ UNCHANGED <<rows, pass, locks>> /\ work[w].stage = "sending"
        /\ work' = [work EXCEPT ![w] = new]
    BY <1>0, <1>5 DEF Request, At
  <2>2. new.stage = "asking" /\ new.job = work[w].job /\ new.doc = work[w].doc
    BY <1>0 DEF Work
  <2> HIDE DEF new
  <2>4. Overwrites(w) \/ locks[Doc(w)] # w
    BY <2>1 DEF Overwrites
  <2> QED BY <1>1, <2>1, <2>2, <2>4 DEF Locks, At
<1>6. CASE Receive(w)
  <2> DEFINE ok == answer[w] = "ok"
             good == [work[w].doc EXCEPT !.status = "Submitted", !.ids = TRUE]
             bad == FailedDoc(work[w].doc, answer[w] = "uncertain")
             new == [work[w] EXCEPT !.stage = IF ok THEN "releasing" ELSE "saved",
                                    !.doc = IF ok THEN good ELSE bad]
  <2>1. /\ UNCHANGED <<rows, pass, locks>> /\ work[w].stage = "asking"
        /\ work' = [work EXCEPT ![w] = new]
    BY <1>0, <1>6 DEF Receive, At
  <2>2. good.ids /\ bad.ids = work[w].doc.ids
    BY <1>0, IdsFields DEF Statuses
  <2> HIDE DEF good, bad
  <2>3. /\ new.stage \in {"releasing", "saved"} /\ new.job = work[w].job
        /\ new.doc \in {good, bad}
    BY <1>0 DEF Work
  <2> HIDE DEF new
  <2>4. Overwrites(w) \/ locks[Doc(w)] # w
    BY <2>1 DEF Overwrites
  <2> QED BY <1>1, <2>1, <2>2, <2>3, <2>4 DEF Locks, At
<1>7. ASSUME NEW c \in Groups, ReleaseCopy(w, c) PROVE IdsInv' /\ Keeps
  <2> DEFINE later == IF Known(BaseJob(c)) THEN work[w].later ELSE work[w].later \cup {BaseJob(c)}
             new == [work[w] EXCEPT !.kids = @ \ {c}, !.freed = @ \cup {c}, !.later = later]
  <2>1. /\ UNCHANGED <<rows, pass>> /\ work[w].stage = "releasing" /\ locks[c] = Free
        /\ locks' = [locks EXCEPT ![c] = w] /\ c \in work[w].kids
    BY <1>7 DEF ReleaseCopy, At
  <2>2. work' = [work EXCEPT ![w] = new]
    BY <1>0, <1>7 DEF ReleaseCopy
  <2> HIDE DEF later
  <2>3. new.stage = "releasing" /\ new.job = work[w].job /\ new.doc = work[w].doc
    BY <1>0, <2>1 DEF Work
  <2> HIDE DEF new
  <2>4. c \in Deliveries /\ c # Doc(w)
    <3>1. WorkSound(w)
      BY <2>1, Busy DEF At
    <3> QED BY <2>1, <3>1, ContractAssumption, OutboundAssumption
            DEF WorkSound, Deliveries, Primaries
  <2>5. Locks(w) /\ locks'[Doc(w)] = locks[Doc(w)]
    BY <1>0, <2>1, <2>4 DEF Locks, At
  <2>6. Overwrites(w) \/ locks[Doc(w)] # w
    BY <2>1 DEF Overwrites
  <2> QED BY <1>1, <2>1, <2>2, <2>3, <2>5, <2>6 DEF At
<1> QED BY <1>2, <1>3, <1>4, <1>5, <1>6, <1>7 DEF WorkerStep

\* The commit: the document has the ids of the row it replaces, a release leaves
\* those of the copies alone, and whoever has read an older document is stale.
LEMMA CommitWorkIds ==
    ASSUME OutboundInv, IdsInv, NEW w \in Workers, NEW lost \in BOOLEAN, CommitWork(w, lost)
    PROVE  IdsInv' /\ Keeps
<1>0. /\ WorkSound(w) /\ Doc(w) \in Deliveries /\ work[w].doc \in Row /\ DocIds(w)
      /\ work[w].stage \notin {"idle", "loaded"} /\ pass' = pass
      /\ work[w].doc.ids \in BOOLEAN
  <2>1. work[w].doc \in Row
    BY Counters
  <2>2. work[w].doc.ids \in BOOLEAN
    BY <2>1 DEF Row
  <2> QED BY <2>1, <2>2, CommittedRows DEF IdsInv, CommitWork, At
<1>1. ASSUME NEW d \in Deliveries
      PROVE  /\ rows[d].ids => rows'[d].ids
             /\ rows'[d].attempts >= rows[d].attempts
             /\ ~(d = Doc(w) /\ locks[d] = w) => rows'[d].ids = rows[d].ids
  <2>1. rows'[d].attempts >= rows[d].attempts
    BY CommittedRows
  <2>2. CASE d = Doc(w) /\ locks[d] = w
    <3>0. \A x \in Deliveries : x = Doc(w) /\ locks[x] = w => rows'[x] = work[w].doc
      BY DEF CommitWork
    <3>1. rows'[d] = work[w].doc
      BY <2>2, <3>0
    <3> QED BY <1>0, <2>1, <2>2, <3>1 DEF DocIds, Overwrites
  <2>3. CASE ~(d = Doc(w) /\ locks[d] = w)
    <3>1. rows'[d] = rows[d] \/ rows'[d] = [rows[d] EXCEPT !.status = "Queued"]
      BY <2>3, CommittedRows
    <3>2. [rows[d] EXCEPT !.status = "Queued"].ids = rows[d].ids
      <4>1. rows[d] \in Row
        BY Counters
      <4> QED BY <4>1 DEF Row
    <3> QED BY <2>1, <2>3, <3>1, <3>2
  <2> QED BY <2>2, <2>3
<1>2. /\ \A d \in Deliveries : locks'[d] # w
      /\ \A g \in Workers \cup {Sched} : g # w =>
            \A d \in Deliveries : locks'[d] = g <=> locks[d] = g
  BY UnlockFacts DEF CommitWork
<1>3. ASSUME NEW d \in Deliveries PROVE RowIds(d)' /\ PassIds(d)'
  <2>1. RowIds(d) /\ PassIds(d) /\ (Stored(d) => Stored(d)')
    BY CommittedRows DEF IdsInv, StoredGrows
  <2>2. RowIds(d)'
    <3>1. ~(d = Doc(w) /\ locks[d] = w) \/ Stored(d)
      BY <1>0 DEF WorkSound
    <3> QED BY <1>1, <2>1, <3>1 DEF RowIds
  <2>3. PassIds(d)'
    <3>1. locks'[d] = Sched => locks[d] = Sched /\ rows'[d].ids = rows[d].ids
      BY <1>1, <1>2, OutboundAssumption
    <3> QED BY <1>0, <2>1, <3>1 DEF PassIds
  <2> QED BY <2>2, <2>3
<1>4. ASSUME NEW v \in Workers PROVE DocIds(v)'
  <2>0. work'[v] = IF v = w THEN IdleWork
                   ELSE IF Stale(w, v) THEN [work[v] EXCEPT !.fresh = FALSE] ELSE work[v]
    BY DEF CommitWork
  <2>1. CASE v = w
    BY <2>0, <2>1 DEF DocIds, Overwrites, At, IdleWork
  <2>2. CASE v # w
    <3>1. SameWork(v) /\ (Stale(w, v) => ~work'[v].fresh)
      <4>1. work[v] \in Work
        BY Counters
      <4> QED BY <2>0, <2>2, <4>1 DEF Work, SameWork
    <3>2. \A d \in Deliveries : locks'[d] = v <=> locks[d] = v
      BY <1>2, <2>2
    <3>3. ASSUME Overwrites(v)', ~At(v, "idle") PROVE rows'[Doc(v)].ids = rows[Doc(v)].ids
      <4>1. Doc(v) \in Deliveries /\ Doc(v)' = Doc(v)
        BY <3>1, <3>3, Busy DEF SameWork, Doc, JobOf
      <4>2. ~(Doc(v) = Doc(w) /\ locks[Doc(v)] = w)
        BY <2>2, <3>1, <3>2, <3>3, <4>1 DEF Overwrites, Stale, SameWork, At
      <4> QED BY <1>1, <4>1, <4>2
    <3> QED BY <3>1, <3>2, <3>3, DocIdsKept DEF IdsInv
  <2> QED BY <2>1, <2>2
<1> QED BY <1>1, <1>3, <1>4 DEF IdsInv, Keeps

\* A rolled back worker writes nothing.
LEMMA RollbackWorkIds ==
    ASSUME OutboundInv, IdsInv, NEW w \in Workers, NEW again \in BOOLEAN, RollbackWork(w, again)
    PROVE  IdsInv' /\ Keeps
<1>0. /\ Unlock(w) /\ UNCHANGED <<rows, pass>> /\ work' = [work EXCEPT ![w] = IdleWork]
      /\ work \in [Workers -> Work] /\ Sched \notin Workers
  BY OutboundAssumption DEF RollbackWork, OutboundInv, SiteTypes
<1>1. DocIds(w)'
  <2>1. work'[w] = IdleWork
    BY <1>0
  <2> QED BY <2>1 DEF DocIds, Overwrites, At, IdleWork
<1>2. \A v \in Workers \ {w} : work'[v] = work[v]
  BY <1>0
<1>3. \A g \in (Workers \ {w}) \cup {Sched} : \A d \in Deliveries : locks'[d] = g <=> locks[d] = g
  BY <1>0, UnlockFacts
<1> QED BY <1>0, <1>1, <1>2, <1>3, WorkerIds

\* A pass that ends leaves the ids of the rows as they were.
LEMMA PassEndsIds ==
    ASSUME OutboundInv, IdsInv, Unlock(Sched), UNCHANGED work,
           \A d \in Deliveries : /\ rows'[d].ids = rows[d].ids /\ rows'[d].attempts = rows[d].attempts
                                 /\ Stored(d)' <=> Stored(d)
    PROVE  IdsInv' /\ Keeps
<1>1. /\ \A d \in Deliveries : locks'[d] # Sched
      /\ \A g \in Workers : \A d \in Deliveries : locks'[d] = g <=> locks[d] = g
  BY UnlockFacts, OutboundAssumption
<1>2. ASSUME NEW d \in Deliveries PROVE RowIds(d)' /\ PassIds(d)'
  BY <1>1 DEF IdsInv, RowIds, PassIds
<1>3. ASSUME NEW v \in Workers PROVE DocIds(v)'
  <2>1. ~At(v, "idle") => rows'[Doc(v)].ids = rows[Doc(v)].ids
    BY Busy
  <2> QED BY <1>1, <2>1, DocIdsKept DEF IdsInv, SameWork
<1> QED BY <1>2, <1>3, Counters DEF IdsInv, Keeps

\* The pass writes statuses and due times only.
LEMMA PassStepIds == ASSUME OutboundInv, IdsInv, PassStep PROVE IdsInv' /\ Keeps
<1>0. pass \in Pass /\ pass.buf \in [Deliveries -> Row]
  BY DEF OutboundInv, SiteTypes, Pass
<1>1. CASE PassStarts
  <2>1. UNCHANGED <<rows, locks, work>> /\ \A d \in Deliveries : locks[d] # Sched
    BY <1>1 DEF PassStarts, InPass, OutboundInv, PassInv
  <2>2. ASSUME NEW v \in Workers PROVE DocIds(v)'
    BY <2>1, DocIdsKept DEF IdsInv, SameWork
  <2> QED BY <2>1, <2>2, SameRowsKeep DEF IdsInv, RowIds, PassIds, Stored
<1>2. ASSUME NEW c \in Groups, PassReleases(c) PROVE IdsInv' /\ Keeps
  <2> DEFINE row == [Current(c) EXCEPT !.status = "Queued"]
  <2>1. c \in Deliveries /\ Held(c) /\ locks' = [locks EXCEPT ![c] = Sched] /\ UNCHANGED <<rows, work>>
    BY <1>2, ContractAssumption DEF PassReleases, Deliveries
  <2>2. row.ids = Current(c).ids
    BY <2>1, CurrentFacts DEF Row
  <2>3. pass'.buf = [pass.buf EXCEPT ![c] = row]
    BY <1>0, <1>2 DEF PassReleases, Pass
  <2> QED BY <2>1, <2>2, <2>3, PassIdsKept
<1>3. ASSUME NEW j \in pass.due, PassClaims(j) PROVE IdsInv' /\ Keeps
  <2> DEFINE row == [Current(j.d) EXCEPT !.retry = "none",
                         !.status = IF j.n > AttemptLimit THEN @ ELSE "Queued"]
  <2>1. /\ j.d \in Deliveries /\ Held(j.d) /\ locks' = [locks EXCEPT ![j.d] = Sched]
        /\ UNCHANGED <<rows, work>> /\ pass' = [pass EXCEPT !.due = @ \ {j}, !.buf[j.d] = row]
    BY <1>0, <1>3 DEF PassClaims, Pass, JobIds
  <2>2. row.ids = Current(j.d).ids
    <3>1. Current(j.d) \in Row
      BY <2>1, CurrentFacts
    <3> QED BY <3>1 DEF Row
  <2>3. pass'.buf = [pass.buf EXCEPT ![j.d] = row]
    <3> HIDE DEF row
    <3> QED BY <1>0, <2>1 DEF Pass
  <2> QED BY <2>1, <2>2, <2>3, PassIdsKept
<1>4. ASSUME NEW r \in BOOLEAN, PassFetches(r) PROVE IdsInv' /\ Keeps
  <2>1. UNCHANGED <<rows, locks, work>> /\ pass'.buf = pass.buf
    BY <1>0, <1>4 DEF PassFetches, Pass
  <2> QED BY <2>1, FrameIds
<1>5. CASE PassApplies
  <2> DEFINE i == pass.cursor + 1
             k == log[i].key
             row == [Current(k) EXCEPT !.status = log[i].status]
  <2>1. UNCHANGED <<rows, work>> /\ i \in 1 .. Len(log)
    BY <1>0, <1>5 DEF PassApplies, OutboundInv, SiteTypes, Pass, ContractTypes
  <2>2. CASE k \notin pass.seen
    <3>1. UNCHANGED locks /\ pass'.buf = pass.buf
      BY <1>0, <1>5, <2>2 DEF PassApplies, Pass
    <3> QED BY <2>1, <3>1, FrameIds
  <2>3. CASE k \in pass.seen
    <3>1. /\ Held(k) /\ locks' = [locks EXCEPT ![k] = Sched]
          /\ pass' = [pass EXCEPT !.cursor = @ + 1, !.buf[k] = row]
      BY <1>5, <2>3 DEF PassApplies
    <3> HIDE DEF i
    <3>2. k \in Deliveries
      BY <2>1, LogEntries DEF Deliveries
    <3> HIDE DEF k
    <3>3. row.ids = Current(k).ids
      <4>1. Current(k) \in Row
        BY <3>2, CurrentFacts
      <4> QED BY <4>1 DEF Row
    <3> HIDE DEF row
    <3>4. pass'.buf = [pass.buf EXCEPT ![k] = row]
      BY <1>0, <3>1 DEF Pass
    <3> QED BY <2>1, <3>1, <3>2, <3>3, <3>4, PassIdsKept
  <2> QED BY <2>2, <2>3
<1>6. CASE PassCommits
  <2>1. UNCHANGED work /\ Unlock(Sched) /\ \A d \in Deliveries : rows'[d] = Current(d)
    BY <1>6 DEF PassCommits
  <2>2. ASSUME NEW d \in Deliveries
        PROVE  /\ rows'[d].ids = rows[d].ids /\ rows'[d].attempts = rows[d].attempts
               /\ Stored(d)' <=> Stored(d)
    <3>1. Current(d).ids = rows[d].ids
      BY DEF Current, IdsInv, PassIds
    <3> QED BY <2>1, <3>1, CurrentFacts DEF Stored
  <2> QED BY <2>1, <2>2, PassEndsIds
<1> QED BY <1>1, <1>2, <1>3, <1>4, <1>5, <1>6 DEF PassStep

\* A rolled back pass writes nothing.
LEMMA RollbackPassIds == ASSUME OutboundInv, IdsInv, RollbackPass PROVE IdsInv' /\ Keeps
  BY PassEndsIds DEF RollbackPass, Stored

\* Only rows that did not exist are stored, and they had no ids.
LEMMA StoreDeliveryIds ==
    ASSUME OutboundInv, IdsInv, NEW p \in Primaries, NEW kids \in SUBSET Groups, NEW lost \in BOOLEAN,
           kids \subseteq Copies(p), StoreDelivery(p, kids, lost)
    PROVE  IdsInv' /\ Keeps
<1>0. UNCHANGED <<locks, work, pass>>
  BY DEF StoreDelivery
<1>1. ASSUME NEW d \in Deliveries, Stored(d) PROVE rows'[d] = rows[d]
  <2>1. RowSound(d)
    BY DEF OutboundInv
  <2>2. d # p /\ d \notin kids
    BY <1>1, <2>1 DEF RowSound, StoreDelivery, Stored, Copies
  <2> QED BY <2>2 DEF StoreDelivery
<1>2. ASSUME NEW d \in Deliveries, ~Stored(d)
      PROVE  ~rows[d].ids /\ rows[d].attempts = 0 /\ ~rows'[d].ids /\ rows'[d].attempts = 0
  <2>1. ~rows[d].ids /\ rows[d].attempts = 0
    BY <1>2 DEF IdsInv, RowIds, OutboundInv, RowSound
  <2>2. rows'[d] \in {rows[d], [NoRow EXCEPT !.status = "Queued"], [NoRow EXCEPT !.status = "Waiting"]}
    BY DEF StoreDelivery
  <2> QED BY <2>1, <2>2 DEF NoRow
<1>3. ASSUME NEW d \in Deliveries PROVE RowIds(d)' /\ PassIds(d)'
  <2>1. CASE Stored(d)
    BY <1>0, <1>1, <2>1 DEF IdsInv, RowIds, PassIds, Stored
  <2>2. CASE ~Stored(d)
    <3>1. locks[d] # Sched
      BY <2>2 DEF OutboundInv, PassInv
    <3> QED BY <1>0, <1>2, <2>2, <3>1 DEF RowIds, PassIds
  <2> QED BY <2>1, <2>2
<1>4. ASSUME NEW v \in Workers PROVE DocIds(v)'
  <2>1. ~At(v, "idle") => rows'[Doc(v)] = rows[Doc(v)]
    BY <1>1, Busy DEF WorkSound
  <2> QED BY <1>0, <2>1, DocIdsKept DEF IdsInv, SameWork
<1>5. ASSUME NEW d \in Deliveries
      PROVE  rows'[d].attempts >= rows[d].attempts /\ (rows[d].ids => rows'[d].ids)
  BY <1>1, <1>2, Counters
<1> QED BY <1>3, <1>4, <1>5 DEF IdsInv, Keeps

\* Time passes.
LEMMA RetryFallsDueIds ==
    ASSUME OutboundInv, IdsInv, NEW x \in Deliveries, RetryFallsDue(x)
    PROVE  IdsInv' /\ Keeps
<1> DEFINE row == [rows[x] EXCEPT !.retry = "due"]
<1>0. UNCHANGED <<locks, work, pass>> /\ rows' = [rows EXCEPT ![x] = row] /\ rows \in [Deliveries -> Row]
  BY DEF RetryFallsDue, OutboundInv, SiteTypes
<1>1. row.status = rows[x].status /\ row.attempts = rows[x].attempts /\ row.ids = rows[x].ids
  BY <1>0 DEF Row
<1> HIDE DEF row
<1>2. \A d \in Deliveries : /\ rows'[d].ids = rows[d].ids /\ rows'[d].attempts = rows[d].attempts
                            /\ Stored(d)' <=> Stored(d)
  BY <1>0, <1>1 DEF Stored
<1>3. ASSUME NEW v \in Workers PROVE DocIds(v)'
  <2>1. ~At(v, "idle") => rows'[Doc(v)].ids = rows[Doc(v)].ids
    BY <1>2, Busy
  <2> QED BY <1>0, <2>1, DocIdsKept DEF IdsInv, SameWork
<1> QED BY <1>0, <1>2, <1>3, Counters DEF IdsInv, RowIds, PassIds, Keeps

\* Every step keeps the ids where they belong, and what history has recorded.
LEMMA NextIds == ASSUME OutboundInv, IdsInv, [OutboundNext]_allVars PROVE IdsInv' /\ Keeps
<1>1. ASSUME NEW w \in Workers, WorkerStep(w) PROVE IdsInv' /\ Keeps
  BY <1>1, WorkerStepIds, CommitWorkIds
<1>2. CASE PassStep
  BY <1>2, PassStepIds
<1>3. ASSUME UNCHANGED <<rows, locks, work, pass>> PROVE IdsInv' /\ Keeps
  BY <1>3, FrameIds
<1>4. CASE GatewayStep
  BY <1>3, <1>4 DEF GatewayStep, siteVars
<1>5. CASE Environment
  <2>1. ASSUME NEW p \in Primaries, NEW kids \in SUBSET Groups, NEW lost \in BOOLEAN,
               kids \subseteq Copies(p), StoreDelivery(p, kids, lost)
        PROVE  IdsInv' /\ Keeps
    BY <2>1, StoreDeliveryIds
  <2>2. ASSUME NEW w \in Workers, RequestTimesOut(w) \/ CommitWork(w, TRUE) PROVE IdsInv' /\ Keeps
    <3>1. CASE RequestTimesOut(w)
      BY <1>3, <3>1 DEF RequestTimesOut, siteVars
    <3> QED BY <2>2, <3>1, CommitWorkIds
  <2>3. ASSUME NEW w \in Workers, NEW again \in BOOLEAN, WorkerDies(w, again) PROVE IdsInv' /\ Keeps
    BY <2>3, RollbackWorkIds DEF WorkerDies
  <2>4. CASE PassFails
    BY <2>4, RollbackPassIds DEF PassFails
  <2>5. ASSUME UNCHANGED siteVars PROVE IdsInv' /\ Keeps
    BY <1>3, <2>5 DEF siteVars
  <2>6. CASE Die /\ Fault /\ UNCHANGED <<rows, locks, jobs, work, pass, lastEvent, asks>>
    BY <1>3, <2>6
  <2> QED BY <1>5, <2>1, <2>2, <2>3, <2>4, <2>5, <2>6 DEF Environment
<1>6. ASSUME NEW x \in Deliveries, RetryFallsDue(x) PROVE IdsInv' /\ Keeps
  BY <1>6, RetryFallsDueIds
<1>7. ASSUME NEW w \in Workers, BreakDeadlock(w) PROVE IdsInv' /\ Keeps
  BY <1>7, RollbackWorkIds, RollbackPassIds DEF BreakDeadlock
<1>8. CASE UNCHANGED allVars
  BY <1>3, <1>8 DEF allVars, siteVars
<1> QED BY <1>1, <1>2, <1>4, <1>5, <1>6, <1>7, <1>8 DEF OutboundNext

\* What history has recorded no step takes back: attempts are not uncounted and
\* provider ids stay, for any number of workers, stale documents and passes.
THEOREM HistoryIsKept == OutboundSpec => HistoryKept
<1>1. OutboundInit => IdsInv
  <2> SUFFICES ASSUME OutboundInit PROVE IdsInv
    OBVIOUS
  <2>1. ASSUME NEW d \in Deliveries PROVE RowIds(d) /\ PassIds(d)
    BY OutboundAssumption DEF OutboundInit, RowIds, PassIds, NoRow
  <2>2. ASSUME NEW w \in Workers PROVE DocIds(w)
    BY DEF OutboundInit, DocIds, Overwrites, At, IdleWork
  <2> QED BY <2>1, <2>2 DEF IdsInv
<1>2. OutboundInv /\ IdsInv /\ [OutboundNext]_allVars => IdsInv' /\ [Keeps]_allVars
  BY NextIds
<1>3. OutboundSpec => [][Keeps]_allVars
  BY <1>1, <1>2, Inductive, PTL DEF OutboundSpec
<1> QED BY <1>3 DEF HistoryKept, Keeps

=============================================================================
