-------------------------- MODULE SiteSettingsProofs --------------------------
(***************************************************************************)
(* For any page size, any number of managers and any log: the event cursor *)
(* skips nothing, no save of the settings document loses another, and the  *)
(* types are kept.                                                         *)
(***************************************************************************)
EXTENDS SiteSettings, FiniteSetTheorems, WellFoundedInduction, TLAPS

\* A document, whatever the bounds of the model.
DocShape == [provider : Providers, status : LinkStatus \cup {"Error"},
             cursor : Nat, stamp : Nat]

\* A copy of the document that was read some time ago, against the document d of
\* now: if its time stamp is the current one, no save has changed provider or
\* cursor since.
Held(copy, d) ==
    /\ copy.doc \in DocShape
    /\ copy.doc.stamp <= d.stamp
    /\ copy.doc.stamp = d.stamp =>
          copy.doc.cursor = d.cursor /\ copy.doc.provider = d.provider

CopiesHeld ==
    /\ \A m \in Managers : form[m] # NoForm => Held(form[m], doc)
    /\ \A m \in Managers :
          call[m] # NoCall /\ call[m].op = "configure" => Held(call[m].copy, doc)
    /\ sync # IdlePass => Held(sync.copy, doc)

\* A fetched page is all there is of the site between the cursor and its end.
PageInv ==
    sync.stage = "fetched" =>
       /\ sync.page \subseteq {i \in (sync.copy.doc.cursor + 1) .. Len(log) : Own(i)}
       /\ \A i \in sync.page, j \in Nat :
             sync.copy.doc.cursor < j /\ j < i /\ Own(j) => j \in sync.page

CallShape(c) ==
    /\ c = [op |-> c.op, answer |-> c.answer, copy |-> c.copy]
    /\ c.answer \in LinkStatus \cup {"Error", None}

SyncShape ==
    /\ sync = [stage |-> sync.stage, copy |-> sync.copy, rows |-> sync.rows,
               page |-> sync.page]
    /\ sync.stage \in {"started", "fetched"}

Shape ==
    /\ doc \in DocShape
    /\ DOMAIN form = Managers /\ form = [m \in Managers |-> form[m]]
    /\ DOMAIN call = Managers /\ call = [m \in Managers |-> call[m]]
    /\ \A m \in Managers : call[m] # NoCall => CallShape(call[m])
    /\ sync # IdlePass => SyncShape
    /\ log \in Seq(Rows \cup {Foreign})
    /\ doc.cursor <= Len(log)

SyncInv == Shape /\ CopiesHeld /\ PageInv /\ CursorSkipsNothing

-----------------------------------------------------------------------------
\* A bounded set of numbers has a largest one.
LEMMA MaxExists ==
  ASSUME NEW b \in Nat, NEW S \in SUBSET (0 .. b), S # {}
  PROVE  \E i \in S : \A j \in S : j <= i
<1> DEFINE T == {k \in Nat : b - k \in S}
           R == OpToRel(<, Nat)
<1>1. T # {}
  <2> PICK i \in S : TRUE
    OBVIOUS
  <2>1. b - i \in Nat /\ b - (b - i) \in S
    OBVIOUS
  <2> QED
    BY <2>1
<1>2. PICK k \in T : \A j \in T : ~(<<j, k>> \in R)
  <2>1. T \subseteq Nat
    OBVIOUS
  <2> HIDE DEF T, R
  <2>2. IsWellFoundedOn(R, Nat)
    BY NatLessThanWellFounded DEF R
  <2> QED
    BY <1>1, <2>1, <2>2, WFMin
<1>3. \A j \in T : ~(j < k)
  BY <1>2 DEF OpToRel
<1>4. \A j \in S : b - j \in T
  OBVIOUS
<1> QED
  BY <1>3, <1>4

\* eventsAfter leaves no gap: its page is closed downwards.
LEMMA PageClosed ==
  ASSUME NEW id \in Nat, log \in Seq(Rows \cup {Foreign}),
         NEW i \in EventsAfter(id), NEW j \in Nat, id < j, j < i, Own(j)
  PROVE  j \in EventsAfter(id)
<1> DEFINE own == {k \in (id + 1) .. Len(log) : Own(k)}
           B(n) == {k \in own : k < n}
<1>1. i \in own /\ Cardinality(B(i)) < Page
  BY DEF EventsAfter
<1>2. j \in own
  BY <1>1
<1>3. IsFiniteSet(own)
  <2>1. own \in SUBSET ((id + 1) .. Len(log)) /\ Len(log) \in Int /\ id + 1 \in Int
    OBVIOUS
  <2> HIDE DEF own
  <2> QED
    BY <2>1, FS_Interval, FS_Subset
<1>4. B(i) \in SUBSET own /\ B(j) \in SUBSET B(i)
  BY <1>1
<1>5. Cardinality(B(j)) <= Cardinality(B(i)) /\ Cardinality(B(j)) \in Nat
      /\ Cardinality(B(i)) \in Nat
  <2> HIDE DEF B, own
  <2> QED
    BY <1>3, <1>4, FS_Subset, FS_CardinalityType
<1> QED
  BY <1>1, <1>2, <1>5, SettingsAssumption DEF EventsAfter

-----------------------------------------------------------------------------
\* What every step does to the document: a save gives it a new time stamp,
\* _update_status leaves provider and cursor alone.
DocLater ==
    /\ doc' \in DocShape
    /\ \/ doc'.stamp = doc.stamp + 1
       \/ /\ doc'.stamp = doc.stamp
          /\ doc'.cursor = doc.cursor /\ doc'.provider = doc.provider

LogGrows ==
    /\ log' \in Seq(Rows \cup {Foreign})
    /\ Len(log) <= Len(log')
    /\ \A i \in 1 .. Len(log) : log'[i] = log[i]

\* A step that handles no event.
Quiet ==
    /\ DocLater /\ doc'.cursor = doc.cursor
    /\ LogGrows
    /\ UNCHANGED <<applied, missed>>

\* A copy stays a copy, or becomes a stale one.
LEMMA HeldLater ==
  ASSUME NEW copy, doc \in DocShape, Held(copy, doc), DocLater
  PROVE  Held(copy, doc')
BY DEF Held, DocLater, DocShape

\* Writing one field of a document.
LEMMA FieldSet ==
  ASSUME NEW d \in DocShape
  PROVE  /\ \A p \in Providers :
               /\ [d EXCEPT !.provider = p] \in DocShape
               /\ [d EXCEPT !.provider = p].cursor = d.cursor
         /\ \A s \in LinkStatus \cup {"Error"} :
               /\ [d EXCEPT !.status = s] \in DocShape
               /\ [d EXCEPT !.status = s].cursor = d.cursor
         /\ \A c \in Nat :
               /\ [d EXCEPT !.cursor = c] \in DocShape
               /\ [d EXCEPT !.cursor = c].cursor = c
               /\ [d EXCEPT !.cursor = c].provider = d.provider
         /\ \A k \in Nat :
               /\ [d EXCEPT !.stamp = k] \in DocShape
               /\ [d EXCEPT !.stamp = k].cursor = d.cursor
               /\ [d EXCEPT !.stamp = k].provider = d.provider
               /\ [d EXCEPT !.stamp = k].stamp = k
BY DEF DocShape

\* A copy just read is a copy of the document.
LEMMA ReadDocHeld ==
  ASSUME doc \in DocShape
  PROVE  Held(ReadDoc, doc)
BY DEF Held, ReadDoc, DocShape

\* A document that is not written does not move its cursor back.
LEMMA SameDoc ==
  ASSUME doc \in DocShape, UNCHANGED doc
  PROVE  DocLater /\ doc'.cursor = doc.cursor
BY DEF DocLater

\* A log that is not written keeps its events.
LEMMA SameLog ==
  ASSUME log \in Seq(Rows \cup {Foreign}), UNCHANGED log
  PROVE  LogGrows
BY DEF LogGrows

\* New events lie behind the cursor.
LEMMA QuietKeeps ==
  ASSUME SyncInv, Quiet
  PROVE  /\ CursorSkipsNothing'
         /\ doc'.cursor <= Len(log')
         /\ UNCHANGED sync => PageInv'
<1> USE DEF SyncInv, Quiet
<1>1. doc.cursor \in Nat /\ doc.cursor <= Len(log) /\ Len(log) \in Nat /\ Len(log') \in Nat
      /\ Len(log) <= Len(log')
  BY DEF Shape, DocShape, LogGrows
<1>2. \A i \in 1 .. Len(log) : Own(i)' <=> Own(i)
  BY DEF LogGrows, Own
<1>3. CursorSkipsNothing'
  <2>1. {i \in 1 .. doc.cursor : Own(i)} = {i \in 1 .. doc'.cursor : Own(i)'}
    BY <1>1, <1>2
  <2> QED
    BY <2>1 DEF CursorSkipsNothing, Own
<1>4. ASSUME UNCHANGED sync, sync.stage = "fetched"
      PROVE  PageInv'
  <2>1. sync.copy.doc.cursor \in Nat
    BY <1>4 DEF CopiesHeld, Held, DocShape, IdlePass
  <2>2. \A i \in sync.page : i \in (sync.copy.doc.cursor + 1) .. Len(log) /\ Own(i)
    BY <1>4 DEF PageInv
  <2>3. \A i \in sync.page :
           i \in (sync.copy.doc.cursor + 1) .. Len(log') /\ Own(i)'
    BY <1>1, <1>2, <2>1, <2>2
  <2>4. \A i \in sync.page, j \in Nat :
           sync.copy.doc.cursor < j /\ j < i /\ Own(j)' => j \in sync.page
    <3> SUFFICES ASSUME NEW i \in sync.page, NEW j \in Nat,
                        sync.copy.doc.cursor < j, j < i, Own(j)'
                 PROVE  j \in sync.page
      OBVIOUS
    <3>1. j \in 1 .. Len(log)
      BY <1>1, <2>1, <2>2
    <3>2. Own(j)
      BY <1>2, <3>1
    <3> QED
      BY <1>4, <3>2 DEF PageInv
  <2> QED
    BY <1>4, <2>3, <2>4 DEF PageInv, Own
<1>5. sync.stage # "fetched" /\ UNCHANGED sync => PageInv'
  BY DEF PageInv
<1> QED
  BY <1>1, <1>3, <1>4, <1>5

-----------------------------------------------------------------------------
\* One lemma per group of actions.  Most steps are quiet.

\* The settings form is opened or saved.
LEMMA ManagerForm ==
  ASSUME SyncInv, NEW m \in Managers,
         OpenForm(m) \/ \E p \in Providers : SaveForm(m, p)
  PROVE  SyncInv' /\ Quiet /\ UNCHANGED sync
<1> USE DEF SyncInv
<1>1. doc \in DocShape /\ log \in Seq(Rows \cup {Foreign})
  BY DEF Shape
<1>2. CASE OpenForm(m)
  <2>1. UNCHANGED <<doc, call, rows, log, sync, applied, missed>>
        /\ form' = [form EXCEPT ![m] = ReadDoc]
    BY <1>2 DEF OpenForm
  <2>2. Quiet
    BY <1>1, <2>1, SameDoc, SameLog DEF Quiet
  <2>3. CopiesHeld'
    <3>1. \A n \in Managers : form'[n] = IF n = m THEN ReadDoc ELSE form[n]
      BY <2>1 DEF Shape
    <3> QED
      BY <1>1, <2>1, <3>1, ReadDocHeld DEF CopiesHeld
  <2>4. Shape'
    BY <2>1 DEF Shape, SyncShape
  <2> QED
    BY <2>1, <2>2, <2>3, <2>4, QuietKeeps
<1>3. ASSUME NEW p \in Providers, SaveForm(m, p)
      PROVE  SyncInv' /\ Quiet /\ UNCHANGED sync
  <2>1. /\ form[m] # NoForm /\ form[m].doc.stamp = doc.stamp
        /\ doc' = [[form[m].doc EXCEPT !.provider = p] EXCEPT !.stamp = doc.stamp + 1]
        /\ form' = [form EXCEPT ![m] = [doc |-> doc']]
        /\ UNCHANGED <<call, rows, log, sync, applied, missed>>
    BY <1>3 DEF SaveForm, Save, UnchangedSince
  <2>2. /\ doc' \in DocShape /\ doc'.stamp = doc.stamp + 1
        /\ doc'.cursor = doc.cursor
    <3>1. form[m].doc \in DocShape /\ form[m].doc.cursor = doc.cursor
      BY <2>1 DEF CopiesHeld, Held
    <3>2. doc.stamp + 1 \in Nat
      BY <1>1 DEF DocShape
    <3> DEFINE new == [form[m].doc EXCEPT !.provider = p]
    <3>3. new \in DocShape /\ new.cursor = doc.cursor
      BY <3>1, FieldSet
    <3>4. doc' = [new EXCEPT !.stamp = doc.stamp + 1]
      BY <2>1
    <3> HIDE DEF new
    <3> QED
      BY <3>2, <3>3, <3>4, FieldSet
  <2>3. Quiet
    BY <1>1, <2>1, <2>2, SameLog DEF Quiet, DocLater
  <2>4. CopiesHeld'
    <3>1. \A n \in Managers : form'[n] =
             IF n = m THEN [doc |-> doc'] ELSE form[n]
      BY <2>1 DEF Shape
    <3>2. Held([doc |-> doc'], doc')
      BY <2>2 DEF Held, DocShape
    <3>3. \A copy : Held(copy, doc) => Held(copy, doc')
      BY <1>1, <2>3, HeldLater DEF Quiet
    <3> QED
      BY <2>1, <3>1, <3>2, <3>3 DEF CopiesHeld
  <2>5. Shape'
    BY <2>1, <2>2 DEF Shape, SyncShape
  <2> QED
    BY <2>1, <2>3, <2>4, <2>5, QuietKeeps
<1> QED
  BY <1>2, <1>3

\* A manager's request to the gateway is made, answered or fails.
LEMMA ManagerAsks ==
  ASSUME SyncInv, NEW m \in Managers,
         \/ \E op \in Ops : Ask(m, op)
         \/ \E s \in LinkStatus : Answer(m, s)
         \/ AnswerFails(m)
  PROVE  SyncInv' /\ Quiet /\ UNCHANGED sync
<1> USE DEF SyncInv
<1>1. doc \in DocShape /\ log \in Seq(Rows \cup {Foreign})
  BY DEF Shape
<1>2. UNCHANGED <<doc, form, rows, log, sync, applied, missed>>
  BY DEF Ask, Answer, AnswerFails
<1>3. Quiet
  BY <1>1, <1>2, SameDoc, SameLog DEF Quiet
<1>4. PICK c : /\ call' = [call EXCEPT ![m] = c]
               /\ CallShape(c)
               /\ c.op = "configure" => Held(c.copy, doc)
  <2>1. ASSUME NEW op \in Ops, Ask(m, op)
        PROVE  \E c : /\ call' = [call EXCEPT ![m] = c]
                      /\ CallShape(c)
                      /\ c.op = "configure" => Held(c.copy, doc)
    <3> DEFINE c == [op |-> op, answer |-> None,
                     copy |-> IF op = "configure" THEN ReadDoc ELSE NoForm]
    <3>1. call' = [call EXCEPT ![m] = c]
      BY <2>1 DEF Ask
    <3>2. CallShape(c)
      BY DEF CallShape
    <3>3. c.op = "configure" => Held(c.copy, doc)
      BY <1>1, ReadDocHeld
    <3> QED
      BY <3>1, <3>2, <3>3
  <2>2. ASSUME NEW s \in LinkStatus \cup {"Error"}, call[m] # NoCall,
               call' = [call EXCEPT ![m].answer = s]
        PROVE  \E c : /\ call' = [call EXCEPT ![m] = c]
                      /\ CallShape(c)
                      /\ c.op = "configure" => Held(c.copy, doc)
    <3> DEFINE c == [call[m] EXCEPT !.answer = s]
    <3>1. call' = [call EXCEPT ![m] = c]
      BY <2>2
    <3>2. CallShape(call[m])
      BY <2>2 DEF Shape
    <3>3. CallShape(c) /\ c.op = call[m].op /\ c.copy = call[m].copy
      BY <3>2 DEF CallShape
    <3> QED
      BY <2>2, <3>1, <3>3 DEF CopiesHeld
  <2> QED
    BY <2>1, <2>2 DEF Answer, AnswerFails
<1>5. \A n \in Managers : call'[n] = IF n = m THEN c ELSE call[n]
  BY <1>4 DEF Shape
<1>6. CopiesHeld'
  BY <1>2, <1>4, <1>5 DEF CopiesHeld
<1>7. Shape'
  BY <1>2, <1>4, <1>5 DEF Shape, SyncShape
<1> QED
  BY <1>2, <1>3, <1>6, <1>7, QuietKeeps

\* The answer is written to the document as it is by then.
LEMMA ManagerFinishes ==
  ASSUME SyncInv, NEW m \in Managers, Finish(m)
  PROVE  SyncInv' /\ Quiet /\ UNCHANGED sync
<1> USE DEF SyncInv
<1>1. doc \in DocShape /\ log \in Seq(Rows \cup {Foreign})
  BY DEF Shape
<1>2. /\ call[m] # NoCall /\ call[m].answer # None
      /\ call' = [call EXCEPT ![m] = NoCall]
      /\ UNCHANGED <<form, rows, log, sync, applied, missed>>
  BY DEF Finish
<1>3. call[m].answer \in LinkStatus \cup {"Error"}
  BY <1>2 DEF Shape, CallShape
<1>4. DocLater /\ doc'.cursor = doc.cursor
  <2>1. CASE UNCHANGED doc
    BY <1>1, <2>1, SameDoc
  <2>2. CASE UpdateStatus(call[m].answer)
    BY <1>1, <1>3, <2>2 DEF UpdateStatus, DocLater, DocShape
  <2>3. CASE /\ call[m].op = "configure" /\ UnchangedSince(call[m].copy)
             /\ doc' = [call[m].copy.doc EXCEPT !.provider = "Official API",
                          !.status = call[m].answer, !.stamp = doc.stamp + 1]
    <3>1. Held(call[m].copy, doc)
      BY <1>2, <2>3 DEF CopiesHeld
    <3> DEFINE old == call[m].copy.doc
               named == [old EXCEPT !.provider = "Official API"]
               new == [named EXCEPT !.status = call[m].answer]
    <3>2. old \in DocShape /\ old.cursor = doc.cursor
      BY <2>3, <3>1 DEF Held, UnchangedSince
    <3>3. doc' = [new EXCEPT !.stamp = doc.stamp + 1]
      BY <2>3
    <3>4. doc.stamp + 1 \in Nat
      BY <1>1 DEF DocShape
    <3>5. "Official API" \in Providers
      BY DEF Providers
    <3> HIDE DEF old
    <3>6. named \in DocShape /\ named.cursor = doc.cursor
      BY <3>2, <3>5, FieldSet
    <3> HIDE DEF named
    <3>7. new \in DocShape /\ new.cursor = doc.cursor
      BY <1>3, <3>6, FieldSet
    <3> HIDE DEF new
    <3> QED
      BY <3>3, <3>4, <3>7, FieldSet DEF DocLater
  <2> QED
    BY <2>1, <2>2, <2>3 DEF Finish
<1>5. Quiet
  BY <1>1, <1>2, <1>4, SameLog DEF Quiet
<1>6. \A n \in Managers : call'[n] = IF n = m THEN NoCall ELSE call[n]
  BY <1>2 DEF Shape
<1>7. CopiesHeld'
  <2>1. \A copy : Held(copy, doc) => Held(copy, doc')
    BY <1>1, <1>4, HeldLater
  <2> QED
    BY <1>2, <1>6, <2>1 DEF CopiesHeld
<1>8. Shape'
  BY <1>2, <1>4, <1>6 DEF Shape, SyncShape, DocLater
<1> QED
  BY <1>2, <1>5, <1>7, <1>8, QuietKeeps

\* Rows are stored, and events are added at the end of the log.
LEMMA EventLogged ==
  ASSUME SyncInv,
         \/ \E r \in Rows : StoreRow(r) \/ CloudWebhook(r)
         \/ \E r \in Rows \cup {Foreign} : GatewayLogs(r)
  PROVE  SyncInv' /\ Quiet /\ UNCHANGED sync
<1> USE DEF SyncInv
<1>1. doc \in DocShape /\ log \in Seq(Rows \cup {Foreign})
  BY DEF Shape
<1>2. UNCHANGED <<doc, form, call, sync, applied, missed>>
  BY DEF StoreRow, CloudWebhook, GatewayLogs
<1>3. LogGrows
  <2>1. CASE UNCHANGED log
    BY <1>1, <2>1, SameLog
  <2>2. ASSUME NEW r \in Rows \cup {Foreign}, log' = Append(log, r)
        PROVE  LogGrows
    BY <1>1, <2>2 DEF LogGrows
  <2> QED
    BY <2>1, <2>2 DEF StoreRow, CloudWebhook, GatewayLogs, AddEvent
<1>4. Quiet
  BY <1>1, <1>2, <1>3, SameDoc DEF Quiet
<1>5. CopiesHeld'
  BY <1>2 DEF CopiesHeld
<1>6. Shape'
  BY <1>2, <1>3, <1>4, QuietKeeps DEF Shape, SyncShape, LogGrows
<1> QED
  BY <1>2, <1>4, <1>5, <1>6, QuietKeeps

\* The pass reads the document and fetches its page.
LEMMA PassBegins ==
  ASSUME SyncInv, PassStarts \/ PassFetches
  PROVE  SyncInv' /\ Quiet /\ sync' # IdlePass
<1> USE DEF SyncInv
<1>1. doc \in DocShape /\ log \in Seq(Rows \cup {Foreign})
  BY DEF Shape
<1>2. UNCHANGED <<doc, form, call, log, applied, missed>>
  BY DEF PassStarts, PassFetches
<1>3. Quiet
  BY <1>1, <1>2, SameDoc, SameLog DEF Quiet
<1>4. CASE PassStarts
  <2>1. sync' = [stage |-> "started", copy |-> ReadDoc, rows |-> rows, page |-> {}]
    BY <1>4 DEF PassStarts
  <2>2. sync'.stage = "started" /\ sync'.copy = ReadDoc /\ SyncShape'
    BY <2>1 DEF SyncShape
  <2>3. PageInv' /\ sync' # IdlePass
    BY <2>2 DEF PageInv, IdlePass
  <2>4. CopiesHeld'
    BY <1>1, <1>2, <2>2, ReadDocHeld DEF CopiesHeld
  <2>5. Shape'
    BY <1>2, <2>2 DEF Shape
  <2> QED
    BY <1>3, <2>3, <2>4, <2>5, QuietKeeps
<1>5. CASE PassFetches
  <2> DEFINE c == sync.copy.doc.cursor
  <2>1. sync # IdlePass /\ sync' = [sync EXCEPT !.stage = "fetched", !.page = EventsAfter(c)]
    BY <1>5 DEF PassFetches, IdlePass
  <2>2. SyncShape
    BY <2>1 DEF Shape
  <2>3. /\ sync'.stage = "fetched" /\ sync'.copy = sync.copy
        /\ sync'.page = EventsAfter(c) /\ SyncShape'
    BY <2>1, <2>2 DEF SyncShape
  <2>4. c \in Nat
    BY <2>1 DEF CopiesHeld, Held, DocShape
  <2>5. EventsAfter(c) \subseteq {i \in (c + 1) .. Len(log) : Own(i)}
    BY DEF EventsAfter
  <2>6. \A i \in EventsAfter(c), j \in Nat :
           c < j /\ j < i /\ Own(j) => j \in EventsAfter(c)
    BY <1>1, <2>4, PageClosed
  <2>7. PageInv'
    <3> HIDE DEF c
    <3>1. sync'.copy.doc.cursor = c
      BY <2>3 DEF c
    <3>2. \A i : Own(i)' <=> Own(i)
      BY <1>2 DEF Own
    <3>3. sync'.page \subseteq {i \in (c + 1) .. Len(log') : Own(i)'}
      BY <1>2, <2>3, <2>5, <3>2
    <3>4. \A i \in sync'.page, j \in Nat : c < j /\ j < i /\ Own(j)' => j \in sync'.page
      BY <2>3, <2>6, <3>2
    <3> QED
      BY <3>1, <3>3, <3>4 DEF PageInv, Own
  <2>8. CopiesHeld' /\ sync' # IdlePass
    BY <1>2, <2>1, <2>3 DEF CopiesHeld, IdlePass
  <2>9. Shape'
    BY <1>2, <2>3 DEF Shape
  <2> QED
    BY <1>3, <2>7, <2>8, <2>9, QuietKeeps
<1> QED
  BY <1>4, <1>5

\* A pass with nothing to do, or whose save is refused, writes nothing.
LEMMA PassGivesUp ==
  ASSUME SyncInv, PassFindsNothing \/ PassConflicts
  PROVE  SyncInv' /\ Quiet /\ UNCHANGED doc
<1> USE DEF SyncInv
<1>1. doc \in DocShape /\ log \in Seq(Rows \cup {Foreign})
  BY DEF Shape
<1>2. UNCHANGED <<doc, form, call, log, applied, missed>> /\ sync' = IdlePass
  BY DEF PassFindsNothing, PassConflicts, PassEnds
<1>3. Quiet
  BY <1>1, <1>2, SameDoc, SameLog DEF Quiet
<1>4. PageInv'
  BY <1>2 DEF PageInv, IdlePass
<1>5. CopiesHeld'
  BY <1>2 DEF CopiesHeld
<1>6. Shape'
  BY <1>2 DEF Shape
<1> QED
  BY <1>2, <1>3, <1>4, <1>5, <1>6, QuietKeeps

\* The one step that moves the cursor.  Its copy has the current time stamp, so
\* the page was fetched from the current cursor.
LEMMA PassMovesCursor ==
  ASSUME SyncInv, PassCommits
  PROVE  /\ SyncInv'
         /\ doc'.cursor > doc.cursor
         /\ doc'.provider = doc.provider
<1> USE DEF SyncInv
<1> DEFINE page == sync.page
           last == CHOOSE i \in page : \A j \in page : j <= i
           found == {i \in page : log[i] \in sync.rows}
<1>1. /\ sync.stage = "fetched" /\ page # {}
      /\ sync.copy.doc.stamp = doc.stamp
      /\ doc' = [[sync.copy.doc EXCEPT !.cursor = last] EXCEPT !.stamp = doc.stamp + 1]
      /\ applied' = applied \cup found
      /\ missed' = missed \cup (page \ found)
      /\ sync' = IdlePass
      /\ UNCHANGED <<form, call, log>>
  BY DEF PassCommits, Save, UnchangedSince, PassEnds
<1>2. doc \in DocShape /\ log \in Seq(Rows \cup {Foreign}) /\ doc.cursor <= Len(log)
  BY DEF Shape
<1>3. doc.cursor \in Nat /\ Len(log) \in Nat
  BY <1>2 DEF DocShape
<1>4. /\ sync.copy.doc \in DocShape /\ sync.copy.doc.cursor = doc.cursor
      /\ sync.copy.doc.provider = doc.provider
  BY <1>1 DEF CopiesHeld, Held, IdlePass
<1>5. page \subseteq {i \in (doc.cursor + 1) .. Len(log) : Own(i)}
  BY <1>1, <1>4 DEF PageInv
<1>6. \A i \in page, j \in Nat : doc.cursor < j /\ j < i /\ Own(j) => j \in page
  BY <1>1, <1>4 DEF PageInv
<1>7. page \in SUBSET (0 .. Len(log))
  BY <1>3, <1>5
<1>8. last \in page /\ \A j \in page : j <= last
  <2> HIDE DEF page
  <2>1. \E i \in page : \A j \in page : j <= i
    BY <1>1, <1>3, <1>7, MaxExists
  <2> QED
    BY <2>1
<1> HIDE DEF last
<1>9. last \in Nat /\ last > doc.cursor /\ last <= Len(log)
  BY <1>3, <1>5, <1>8
<1>10. /\ doc' \in DocShape /\ doc'.cursor = last
       /\ doc'.provider = doc.provider /\ doc'.stamp = doc.stamp + 1
  <2> DEFINE new == [sync.copy.doc EXCEPT !.cursor = last]
  <2>1. new \in DocShape /\ new.cursor = last /\ new.provider = doc.provider
    BY <1>4, <1>9, FieldSet
  <2>2. doc' = [new EXCEPT !.stamp = doc.stamp + 1]
    BY <1>1
  <2>3. doc.stamp + 1 \in Nat
    BY <1>2 DEF DocShape
  <2> HIDE DEF new
  <2> QED
    BY <2>1, <2>2, <2>3, FieldSet
<1>11. CursorSkipsNothing'
  <2>1. applied' \cup missed' = {i \in 1 .. doc.cursor : Own(i)} \cup page
    BY <1>1 DEF CursorSkipsNothing
  <2>2. {i \in 1 .. doc.cursor : Own(i)} \cup page = {i \in 1 .. last : Own(i)}
    <3>1. ASSUME NEW i \in 1 .. last, Own(i), i \notin 1 .. doc.cursor
          PROVE  i \in page
      <4>1. i \in Nat /\ doc.cursor < i /\ (i < last \/ i = last)
        BY <1>3, <1>9, <3>1
      <4> QED
        BY <1>6, <1>8, <3>1, <4>1
    <3>2. ASSUME NEW i \in page
          PROVE  i \in 1 .. last /\ Own(i)
      BY <1>3, <1>5, <1>8, <1>9, <3>2
    <3>3. \A i \in 1 .. doc.cursor : i \in 1 .. last
      BY <1>3, <1>9
    <3> HIDE DEF page
    <3> QED
      BY <3>1, <3>2, <3>3
  <2>3. \A i : Own(i)' <=> Own(i)
    BY <1>1 DEF Own
  <2> QED
    BY <1>10, <2>1, <2>2, <2>3 DEF CursorSkipsNothing, Own
<1>12. CopiesHeld'
  <2>1. \A copy : Held(copy, doc) => Held(copy, doc')
    BY <1>2, <1>10, HeldLater DEF DocLater
  <2> QED
    BY <1>1, <2>1 DEF CopiesHeld
<1>13. Shape'
  BY <1>1, <1>9, <1>10 DEF Shape
<1>14. PageInv'
  BY <1>1 DEF PageInv, IdlePass
<1> QED
  BY <1>3, <1>9, <1>10, <1>11, <1>12, <1>13, <1>14

\* A step that changes nothing.
LEMMA SettingsStutter ==
  ASSUME SyncInv, UNCHANGED settingsVars
  PROVE  SyncInv'
BY DEF SyncInv, settingsVars, Shape, SyncShape, CallShape, CopiesHeld, PageInv, Own,
       CursorSkipsNothing

-----------------------------------------------------------------------------
\* Whatever is saved, answered, logged or rolled back, the invariant stays.
LEMMA SyncStep ==
  ASSUME SyncInv, SettingsNext
  PROVE  /\ SyncInv'
         /\ doc'.cursor >= doc.cursor
         /\ sync # IdlePass /\ sync' = IdlePass => doc'.provider = doc.provider
<1>1. doc.cursor \in Nat
  BY DEF SyncInv, Shape, DocShape
<1>2. CASE SyncInv' /\ Quiet /\ (UNCHANGED sync \/ sync' # IdlePass \/ UNCHANGED doc)
  BY <1>1, <1>2 DEF Quiet
<1>3. CASE PassCommits
  BY <1>1, <1>3, PassMovesCursor DEF SyncInv, Shape, DocShape
<1> QED
  BY <1>2, <1>3, ManagerForm, ManagerAsks, ManagerFinishes, EventLogged, PassBegins,
     PassGivesUp DEF SettingsNext

\* Nothing is read or applied in the beginning.
LEMMA SyncInit ==
  ASSUME SettingsInit
  PROVE  SyncInv
<1>1. Shape
  <2>1. doc \in DocShape /\ doc.cursor = 0
    <3>1. "Linked Device" \in Providers /\ "Disconnected" \in LinkStatus \cup {"Error"}
      BY DEF Providers, LinkStatus
    <3> QED
      BY <3>1 DEF SettingsInit, DocShape
  <2>2. log \in Seq(Rows \cup {Foreign}) /\ Len(log) = 0
    <3>1. log = <<>>
      BY DEF SettingsInit
    <3> QED
      BY <3>1
  <2>3. /\ DOMAIN form = Managers /\ form = [m \in Managers |-> form[m]]
        /\ DOMAIN call = Managers /\ call = [m \in Managers |-> call[m]]
        /\ \A m \in Managers : call[m] = NoCall
        /\ sync = IdlePass
    BY DEF SettingsInit
  <2> QED
    BY <2>1, <2>2, <2>3 DEF Shape
<1>2. CopiesHeld
  BY DEF SettingsInit, CopiesHeld
<1>3. PageInv
  BY DEF SettingsInit, PageInv, IdlePass
<1>4. CursorSkipsNothing
  <2>1. doc.cursor = 0 /\ applied \cup missed = {}
    BY DEF SettingsInit
  <2>2. {i \in 1 .. 0 : Own(i)} = {}
    OBVIOUS
  <2> QED
    BY <2>1, <2>2 DEF CursorSkipsNothing
<1> QED
  BY <1>1, <1>2, <1>3, <1>4 DEF SyncInv

\* sync_delivery_statuses never skips an event of the site and never handles one
\* twice, however pages are cut, whoever saves the settings in between.
THEOREM CursorComplete == SettingsSpec => []CursorSkipsNothing
<1>1. SettingsInit => SyncInv
  BY SyncInit
<1>2. SyncInv /\ [SettingsNext]_settingsVars => SyncInv'
  BY SyncStep, SettingsStutter
<1>3. SyncInv => CursorSkipsNothing
  BY DEF SyncInv
<1> QED
  BY <1>1, <1>2, <1>3, PTL DEF SettingsSpec

\* No save of the settings document, by a form, configure_official_api or a pass,
\* takes the cursor back, and no pass reverts the provider a manager has chosen.
THEOREM NoLostSave == SettingsSpec => SavesLoseNothing
<1>1. SettingsInit => SyncInv
  BY SyncInit
<1>2. SyncInv /\ [SettingsNext]_settingsVars => SyncInv'
  BY SyncStep, SettingsStutter
<1>3. SyncInv /\ [SettingsNext]_settingsVars =>
        [/\ doc'.cursor >= doc.cursor
         /\ sync # IdlePass /\ sync' = IdlePass => doc'.provider = doc.provider
        ]_settingsVars
  BY SyncStep
<1> QED
  BY <1>1, <1>2, <1>3, PTL DEF SettingsSpec, SavesLoseNothing

-----------------------------------------------------------------------------
(* Types.  The time stamp stays in its bounds because a save is paid for by   *)
(* an event passed, a save of a form or a request that has ended.            *)

Running == {m \in Managers : call[m] # NoCall}

CountInv ==
    /\ IsFiniteSet(Running)
    /\ doc.stamp + Cardinality(Running) <= doc.cursor + saves + asks

TypeInv == SyncInv /\ SettingsTypeOK /\ Len(log) <= MaxLog /\ CountInv

\* A page of eventsAfter is no longer than the limit of its query.
LEMMA PageBounded ==
  ASSUME NEW id \in Nat, log \in Seq(Rows \cup {Foreign})
  PROVE  Cardinality(EventsAfter(id)) <= Page
<1> DEFINE own == {k \in (id + 1) .. Len(log) : Own(k)}
           P == EventsAfter(id)
<1>1. IsFiniteSet(own) /\ own \in SUBSET (0 .. Len(log)) /\ Len(log) \in Nat
  <2>1. own \in SUBSET ((id + 1) .. Len(log)) /\ Len(log) \in Int /\ id + 1 \in Int
    OBVIOUS
  <2>2. own \in SUBSET (0 .. Len(log)) /\ Len(log) \in Nat
    OBVIOUS
  <2> HIDE DEF own
  <2>3. IsFiniteSet(own)
    BY <2>1, FS_Interval, FS_Subset
  <2> QED
    BY <2>2, <2>3
<1>2. P = {i \in own : Cardinality({j \in own : j < i}) < Page}
  BY DEF EventsAfter
<1> HIDE DEF own, P
<1>3. CASE P = {}
  BY <1>3, FS_EmptySet, SettingsAssumption DEF P
<1>4. CASE P # {}
  <2>1. P \in SUBSET (0 .. Len(log))
    BY <1>1, <1>2
  <2>2. PICK i \in P : \A j \in P : j <= i
    BY <1>1, <1>4, <2>1, MaxExists
  <2> DEFINE B == {j \in own : j < i}
  <2>3. B \in SUBSET own /\ Cardinality(B) < Page
    BY <1>2, <2>2
  <2>4. P \ {i} \in SUBSET B
    BY <1>1, <1>2, <2>1, <2>2
  <2>5. IsFiniteSet(P) /\ IsFiniteSet(B)
    BY <1>1, <1>2, <2>3, FS_Subset
  <2> HIDE DEF B
  <2>6. Cardinality(P \ {i}) <= Cardinality(B) /\ Cardinality(P \ {i}) = Cardinality(P) - 1
    BY <2>2, <2>4, <2>5, FS_Subset, FS_RemoveElement
  <2>7. Cardinality(P) \in Nat /\ Cardinality(B) \in Nat
    BY <2>5, FS_CardinalityType
  <2> QED
    BY <2>3, <2>6, <2>7, SettingsAssumption DEF P
<1> QED
  BY <1>3, <1>4

\* The numbers of managers' requests under way.
LEMMA RunningCount ==
  ASSUME IsFiniteSet(Running), NEW m \in Managers,
         \A n \in Managers \ {m} : call'[n] = call[n]
  PROVE  /\ Cardinality(Running) \in Nat /\ Cardinality(Running)' \in Nat
         /\ IsFiniteSet(Running)'
         /\ call[m] = NoCall /\ call'[m] # NoCall =>
               Cardinality(Running)' = Cardinality(Running) + 1
         /\ call[m] # NoCall /\ call'[m] = NoCall =>
               Cardinality(Running)' = Cardinality(Running) - 1
         /\ call[m] # NoCall /\ call'[m] # NoCall =>
               Cardinality(Running)' = Cardinality(Running)
<1>1. call[m] = NoCall /\ call'[m] # NoCall =>
         m \notin Running /\ Running' = Running \cup {m}
  BY DEF Running
<1>2. call[m] # NoCall /\ call'[m] = NoCall =>
         m \in Running /\ Running' = Running \ {m}
  BY DEF Running
<1>3. (call[m] = NoCall <=> call'[m] = NoCall) => Running' = Running
  BY DEF Running
<1> HIDE DEF Running
<1>4. Cardinality(Running) \in Nat
  BY FS_CardinalityType
<1>5. call[m] = NoCall /\ call'[m] # NoCall =>
        /\ IsFiniteSet(Running') /\ Cardinality(Running') = Cardinality(Running) + 1
  BY <1>1, FS_AddElement
<1>6. call[m] # NoCall /\ call'[m] = NoCall =>
        /\ IsFiniteSet(Running') /\ Cardinality(Running') = Cardinality(Running) - 1
  BY <1>2, FS_RemoveElement
<1>7. IsFiniteSet(Running')
  BY <1>3, <1>5, <1>6
<1>8. Cardinality(Running') \in Nat
  BY <1>7, FS_CardinalityType
<1> QED
  BY <1>3, <1>4, <1>5, <1>6, <1>7, <1>8

\* The document is within the bounds of the model.
LEMMA DocBounded ==
  ASSUME NEW d \in DocShape, NEW n \in Nat, NEW a \in 0 .. MaxAsks, NEW s \in 0 .. MaxSaves,
         d.cursor <= MaxLog, d.stamp + n <= d.cursor + s + a
  PROVE  d \in Doc
<1>1. /\ d = [provider |-> d.provider, status |-> d.status, cursor |-> d.cursor,
              stamp |-> d.stamp]
      /\ d.provider \in Providers /\ d.status \in LinkStatus \cup {"Error"}
      /\ d.cursor \in Nat /\ d.stamp \in Nat
  BY DEF DocShape
<1>2. d.cursor \in 0 .. MaxLog /\ d.stamp \in 0 .. MaxLog + MaxSaves + MaxAsks
  BY <1>1, SettingsAssumption
<1> QED
  BY <1>1, <1>2 DEF Doc

\* The balance of saves: n requests run after the step, n0 before it.
LEMMA Balance ==
  ASSUME NEW stamp0 \in Nat, NEW n0 \in Nat, NEW cursor0 \in Nat,
         NEW saves0 \in Nat, NEW asks0 \in Nat,
         NEW stamp \in Nat, NEW n \in Nat, NEW cursor \in Nat,
         NEW saves1 \in Nat, NEW asks1 \in Nat,
         stamp0 + n0 <= cursor0 + saves0 + asks0,
         stamp + n + cursor0 + saves0 + asks0 <= stamp0 + n0 + cursor + saves1 + asks1
  PROVE  stamp + n <= cursor + saves1 + asks1
OBVIOUS

\* What the types say beyond the shape of the state.
LEMMA TypeFacts ==
  ASSUME TypeInv
  PROVE  /\ doc \in DocShape /\ doc.cursor \in Nat /\ doc.stamp \in Nat
         /\ asks \in Nat /\ saves \in Nat
         /\ IsFiniteSet(Running) /\ Cardinality(Running) \in Nat
         /\ Len(log) \in Nat /\ doc.cursor <= MaxLog
         /\ DOMAIN form = Managers /\ DOMAIN call = Managers
         /\ ReadDoc \in Copy
<1>1. doc \in DocShape /\ log \in Seq(Rows \cup {Foreign}) /\ doc.cursor <= Len(log)
      /\ DOMAIN form = Managers /\ DOMAIN call = Managers
  BY DEF TypeInv, SyncInv, Shape
<1>2. doc.cursor \in Nat /\ doc.stamp \in Nat /\ Len(log) \in Nat
  BY <1>1 DEF DocShape
<1>3. asks \in 0 .. MaxAsks /\ saves \in 0 .. MaxSaves /\ doc \in Doc
  BY DEF TypeInv, SettingsTypeOK
<1>4. IsFiniteSet(Running) /\ Cardinality(Running) \in Nat
  BY FS_CardinalityType DEF TypeInv, CountInv
<1>5. doc.cursor <= MaxLog
  BY <1>1, <1>2, SettingsAssumption DEF TypeInv
<1>6. ReadDoc \in Copy
  BY <1>3 DEF ReadDoc, Copy
<1> QED
  BY <1>1, <1>2, <1>3, <1>4, <1>5, <1>6

\* The numbers among them.
LEMMA TypeNumbers ==
  ASSUME TypeInv
  PROVE  /\ doc.cursor \in Nat /\ doc.stamp \in Nat
         /\ asks \in Nat /\ saves \in Nat
         /\ Cardinality(Running) \in Nat
BY TypeFacts

\* A step that adds to the time stamp only what it has paid for.
LEMMA CountKept ==
  ASSUME TypeInv,
         doc'.stamp \in Nat, doc'.cursor \in Nat, asks' \in Nat, saves' \in Nat,
         IsFiniteSet(Running)', Cardinality(Running)' \in Nat,
         doc'.stamp + Cardinality(Running)' + doc.cursor + saves + asks
            <= doc.stamp + Cardinality(Running) + doc'.cursor + saves' + asks'
  PROVE  CountInv'
<1>1. doc.stamp + Cardinality(Running) <= doc.cursor + saves + asks
  BY DEF TypeInv, CountInv
<1>2. doc'.stamp + Cardinality(Running)' <= doc'.cursor + saves' + asks'
  BY <1>1, TypeNumbers, Balance
<1> QED
  BY <1>2 DEF CountInv

\* Types through the settings form.
LEMMA TypesForm ==
  ASSUME TypeInv, NEW m \in Managers,
         OpenForm(m) \/ \E p \in Providers : SaveForm(m, p)
  PROVE  SettingsTypeOK' /\ Len(log') <= MaxLog /\ CountInv'
<1>1. CASE OpenForm(m)
  <2>1. UNCHANGED <<doc, call, rows, log, sync, asks, saves>>
        /\ form' = [form EXCEPT ![m] = ReadDoc]
    BY <1>1 DEF OpenForm
  <2>2. form' \in [Managers -> {NoForm} \cup Copy]
    BY <2>1, TypeFacts DEF TypeInv, SettingsTypeOK
  <2>3. SettingsTypeOK'
    BY <2>1, <2>2 DEF TypeInv, SettingsTypeOK
  <2>4. CountInv'
    BY <2>1 DEF TypeInv, CountInv, Running
  <2> QED
    BY <2>1, <2>3, <2>4 DEF TypeInv
<1>2. ASSUME NEW p \in Providers, SaveForm(m, p)
      PROVE  SettingsTypeOK' /\ Len(log') <= MaxLog /\ CountInv'
  <2> DEFINE new == [form[m].doc EXCEPT !.provider = p]
  <2>1. /\ Save(new) /\ saves < MaxSaves /\ saves' = saves + 1
        /\ form' = [form EXCEPT ![m] = [doc |-> doc']]
        /\ UNCHANGED <<call, rows, log, sync, asks>>
    BY <1>2 DEF SaveForm
  <2>2. doc' \in DocShape /\ doc'.cursor = doc.cursor /\ doc'.stamp <= doc.stamp + 1
    <3>1. Quiet
      BY <1>2, ManagerForm DEF TypeInv
    <3> QED
      BY <3>1, TypeFacts DEF Quiet, DocLater
  <2>3. CountInv'
    <3>1. UNCHANGED Running
      BY <2>1 DEF Running
    <3>2. doc'.stamp \in Nat
      BY <2>2 DEF DocShape
    <3>3. UNCHANGED asks /\ saves' = saves + 1
      BY <2>1
    <3>4. doc'.stamp + Cardinality(Running)' + doc.cursor + saves + asks
             <= doc.stamp + Cardinality(Running) + doc'.cursor + saves' + asks'
      BY <2>2, <3>1, <3>2, <3>3, TypeNumbers
    <3>5. IsFiniteSet(Running)
      BY TypeFacts
    <3> QED
      BY <2>2, <3>1, <3>2, <3>3, <3>4, <3>5, TypeNumbers, CountKept
  <2>4. asks' \in 0 .. MaxAsks /\ saves' \in 0 .. MaxSaves
    BY <2>1, SettingsAssumption DEF TypeInv, SettingsTypeOK
  <2>5. doc' \in Doc
    <3>1. Cardinality(Running)' \in Nat
      BY <2>1, TypeFacts DEF Running
    <3>2. doc'.cursor <= MaxLog /\ doc'.stamp + Cardinality(Running)' <= doc'.cursor + saves' + asks'
      BY <2>2, <2>3, TypeFacts DEF CountInv
    <3> QED
      BY <2>2, <2>4, <3>1, <3>2, DocBounded
  <2>6. form' \in [Managers -> {NoForm} \cup Copy]
    <3>1. [doc |-> doc'] \in Copy
      BY <2>5 DEF Copy
    <3> QED
      BY <2>1, <3>1 DEF TypeInv, SettingsTypeOK
  <2>7. SettingsTypeOK'
    BY <2>1, <2>4, <2>5, <2>6 DEF TypeInv, SettingsTypeOK
  <2> QED
    BY <2>1, <2>3, <2>7 DEF TypeInv
<1> QED
  BY <1>1, <1>2

\* Types through a manager's request, until it is answered.
LEMMA TypesAsk ==
  ASSUME TypeInv, NEW m \in Managers,
         \/ \E op \in Ops : Ask(m, op)
         \/ \E s \in LinkStatus : Answer(m, s)
         \/ AnswerFails(m)
  PROVE  SettingsTypeOK' /\ Len(log') <= MaxLog /\ CountInv'
<1> DEFINE Fits(c) == /\ c.op \in Ops /\ c.answer \in LinkStatus \cup {"Error", None}
                      /\ c.copy \in IF c.op = "configure" THEN Copy ELSE {NoForm}
<1>1. UNCHANGED <<doc, form, rows, log, sync, saves>>
  BY DEF Ask, Answer, AnswerFails
<1>2. PICK c : /\ call' = [call EXCEPT ![m] = c] /\ Fits(c) /\ c # NoCall
               /\ \/ call[m] = NoCall /\ asks < MaxAsks /\ asks' = asks + 1
                  \/ call[m] # NoCall /\ UNCHANGED asks
  <2>1. ASSUME NEW op \in Ops, Ask(m, op)
        PROVE  \E c : /\ call' = [call EXCEPT ![m] = c] /\ Fits(c) /\ c # NoCall
                      /\ \/ call[m] = NoCall /\ asks < MaxAsks /\ asks' = asks + 1
                         \/ call[m] # NoCall /\ UNCHANGED asks
    <3> DEFINE c == [op |-> op, answer |-> None,
                     copy |-> IF op = "configure" THEN ReadDoc ELSE NoForm]
    <3>1. call' = [call EXCEPT ![m] = c] /\ call[m] = NoCall
          /\ asks < MaxAsks /\ asks' = asks + 1
      BY <2>1 DEF Ask
    <3>2. Fits(c) /\ c # NoCall
      BY TypeFacts DEF NoCall
    <3> QED
      BY <3>1, <3>2
  <2>2. ASSUME NEW s \in LinkStatus \cup {"Error"}, call[m] # NoCall,
               call' = [call EXCEPT ![m].answer = s], UNCHANGED asks
        PROVE  \E c : /\ call' = [call EXCEPT ![m] = c] /\ Fits(c) /\ c # NoCall
                      /\ \/ call[m] = NoCall /\ asks < MaxAsks /\ asks' = asks + 1
                         \/ call[m] # NoCall /\ UNCHANGED asks
    <3> DEFINE c == [call[m] EXCEPT !.answer = s]
    <3>1. call' = [call EXCEPT ![m] = c]
      BY <2>2
    <3>2. CallShape(call[m]) /\ Fits(call[m])
      BY <2>2 DEF TypeInv, SyncInv, Shape, SettingsTypeOK
    <3>3. c.op = call[m].op /\ c.copy = call[m].copy /\ c.answer = s
          /\ c = [op |-> c.op, answer |-> c.answer, copy |-> c.copy]
      BY <3>2 DEF CallShape
    <3> HIDE DEF c
    <3>4. Fits(c) /\ c # NoCall
      BY <3>2, <3>3 DEF NoCall
    <3> QED
      BY <2>2, <3>1, <3>4
  <2> QED
    BY <2>1, <2>2 DEF Answer, AnswerFails
<1> HIDE DEF Fits
<1>3. \A n \in Managers : call'[n] = IF n = m THEN c ELSE call[n]
  BY <1>2, TypeFacts DEF TypeInv, SyncInv, Shape
<1>4. asks' \in 0 .. MaxAsks
  BY <1>2, SettingsAssumption DEF TypeInv, SettingsTypeOK
<1>5. \A n \in Managers : call'[n] # NoCall => Fits(call'[n])
  BY <1>2, <1>3 DEF TypeInv, SettingsTypeOK, Fits
<1>6. SettingsTypeOK'
  BY <1>1, <1>4, <1>5 DEF TypeInv, SettingsTypeOK, Fits
<1>7. CountInv'
  <2>1. /\ IsFiniteSet(Running)' /\ Cardinality(Running)' \in Nat
        /\ \/ Cardinality(Running)' = Cardinality(Running) + 1 /\ asks' = asks + 1
           \/ Cardinality(Running)' = Cardinality(Running) /\ asks' = asks
    BY <1>2, <1>3, TypeFacts, RunningCount
  <2>2. UNCHANGED <<doc, saves>>
    BY <1>1
  <2>3. doc'.stamp + Cardinality(Running)' + doc.cursor + saves + asks
            <= doc.stamp + Cardinality(Running) + doc'.cursor + saves' + asks'
    BY <2>1, <2>2, TypeNumbers
  <2> QED
    BY <2>1, <2>2, <2>3, TypeNumbers, CountKept
<1> QED
  BY <1>1, <1>6, <1>7 DEF TypeInv

\* Types when a request ends: the request that has ended pays for the save.
LEMMA TypesFinish ==
  ASSUME TypeInv, NEW m \in Managers, Finish(m)
  PROVE  SettingsTypeOK' /\ Len(log') <= MaxLog /\ CountInv'
<1>1. /\ call[m] # NoCall /\ call' = [call EXCEPT ![m] = NoCall]
      /\ UNCHANGED <<form, rows, log, sync, asks, saves>>
  BY DEF Finish
<1>2. doc' \in DocShape /\ doc'.cursor = doc.cursor /\ doc'.stamp <= doc.stamp + 1
  <2>1. Quiet
    BY ManagerFinishes DEF TypeInv
  <2> QED
    BY <2>1, TypeFacts DEF Quiet, DocLater
<1>3. \A n \in Managers : call'[n] = IF n = m THEN NoCall ELSE call[n]
  BY <1>1, TypeFacts DEF TypeInv, SyncInv, Shape
<1>4. /\ IsFiniteSet(Running)' /\ Cardinality(Running)' \in Nat
      /\ Cardinality(Running)' = Cardinality(Running) - 1
  BY <1>1, <1>3, TypeFacts, RunningCount
<1>5. doc'.stamp \in Nat
  BY <1>2 DEF DocShape
<1>6. UNCHANGED <<asks, saves>>
  BY <1>1
<1>7. CountInv'
  <2>1. doc'.stamp + Cardinality(Running)' + doc.cursor + saves + asks
           <= doc.stamp + Cardinality(Running) + doc'.cursor + saves' + asks'
    BY <1>2, <1>4, <1>5, <1>6, TypeNumbers
  <2> QED
    BY <1>2, <1>4, <1>5, <1>6, <2>1, TypeNumbers, CountKept
<1>8. asks \in 0 .. MaxAsks /\ saves \in 0 .. MaxSaves
  BY DEF TypeInv, SettingsTypeOK
<1>9. doc' \in Doc
  <2>1. doc'.cursor <= MaxLog /\ doc'.stamp + Cardinality(Running)' <= doc'.cursor + saves + asks
    BY <1>1, <1>2, <1>7, TypeFacts DEF CountInv
  <2> QED
    BY <1>2, <1>4, <1>8, <2>1, DocBounded
<1>10. SettingsTypeOK'
  BY <1>1, <1>3, <1>9 DEF TypeInv, SettingsTypeOK
<1> QED
  BY <1>1, <1>7, <1>10 DEF TypeInv

\* Types when rows are stored and events are logged.
LEMMA TypesLog ==
  ASSUME TypeInv,
         \/ \E r \in Rows : StoreRow(r) \/ CloudWebhook(r)
         \/ \E r \in Rows \cup {Foreign} : GatewayLogs(r)
  PROVE  SettingsTypeOK' /\ Len(log') <= MaxLog /\ CountInv'
<1>1. UNCHANGED <<doc, form, call, sync, asks, saves>>
  BY DEF StoreRow, CloudWebhook, GatewayLogs
<1>2. rows \subseteq rows' /\ rows' \subseteq Rows
  BY DEF StoreRow, CloudWebhook, GatewayLogs, TypeInv, SettingsTypeOK
<1>3. /\ Len(log') \in Nat /\ Len(log) <= Len(log') /\ Len(log') <= MaxLog
      /\ \A i \in 1 .. Len(log') : log'[i] \in rows' \cup {Foreign}
  <2>1. log \in Seq(Rows \cup {Foreign}) /\ Len(log) \in Nat /\ Len(log) <= MaxLog
    BY DEF TypeInv, SyncInv, Shape
  <2>2. \A i \in 1 .. Len(log) : log[i] \in rows \cup {Foreign}
    BY DEF TypeInv, SettingsTypeOK
  <2>3. CASE UNCHANGED log
    BY <1>2, <2>1, <2>2, <2>3
  <2>4. ASSUME NEW r \in rows \cup {Foreign}, AddEvent(r), UNCHANGED rows
        PROVE  /\ Len(log') \in Nat /\ Len(log) <= Len(log') /\ Len(log') <= MaxLog
               /\ \A i \in 1 .. Len(log') : log'[i] \in rows' \cup {Foreign}
    <3>1. r \in Rows \cup {Foreign} /\ log' = Append(log, r) /\ Len(log) < MaxLog
      BY <1>2, <2>4 DEF AddEvent
    <3>2. Len(log') = Len(log) + 1
      BY <2>1, <3>1
    <3>3. \A i \in 1 .. Len(log') : log'[i] = IF i <= Len(log) THEN log[i] ELSE r
      BY <2>1, <3>1, <3>2
    <3>4. \A i \in 1 .. Len(log') : log'[i] \in rows' \cup {Foreign}
      BY <2>1, <2>2, <2>4, <3>2, <3>3
    <3> QED
      BY <2>1, <3>1, <3>2, <3>4, SettingsAssumption
  <2> QED
    BY <2>3, <2>4 DEF StoreRow, CloudWebhook, GatewayLogs
<1>4. sync # IdlePass => sync.page \subseteq (sync.copy.doc.cursor + 1) .. Len(log')
  <2> SUFFICES ASSUME sync # IdlePass, NEW i \in sync.page
               PROVE  i \in (sync.copy.doc.cursor + 1) .. Len(log')
    OBVIOUS
  <2>1. sync.copy.doc.cursor \in Nat /\ i \in (sync.copy.doc.cursor + 1) .. Len(log)
    BY DEF TypeInv, SettingsTypeOK, SyncInv, CopiesHeld, Held, DocShape
  <2> QED
    BY <1>3, <2>1, TypeFacts
<1>5. SettingsTypeOK'
  BY <1>1, <1>2, <1>3, <1>4 DEF TypeInv, SettingsTypeOK
<1>6. CountInv'
  BY <1>1 DEF TypeInv, CountInv, Running
<1> QED
  BY <1>3, <1>5, <1>6

\* Types of the scheduler's pass.
LEMMA TypesPass ==
  ASSUME TypeInv,
         PassStarts \/ PassFetches \/ PassFindsNothing \/ PassConflicts \/ PassCommits
  PROVE  SettingsTypeOK' /\ Len(log') <= MaxLog /\ CountInv'
<1>1. UNCHANGED <<form, call, rows, log, asks, saves>>
  BY DEF PassStarts, PassFetches, PassFindsNothing, PassConflicts, PassCommits, PassEnds
<1>2. CASE UNCHANGED doc
  <2>1. CountInv'
    BY <1>1, <1>2 DEF TypeInv, CountInv, Running
  <2>2. sync' # IdlePass =>
          /\ sync'.copy \in Copy /\ sync'.rows \subseteq rows
          /\ sync'.page \subseteq (sync'.copy.doc.cursor + 1) .. Len(log)
          /\ Cardinality(sync'.page) <= Page
    <3>1. CASE PassStarts
      BY <3>1, TypeFacts, FS_EmptySet, SettingsAssumption DEF PassStarts
    <3>2. CASE PassFetches
      <4> DEFINE c == sync.copy.doc.cursor
      <4>1. sync # IdlePass
        BY <3>2 DEF PassFetches, IdlePass
      <4>2. SyncShape /\ c \in Nat /\ log \in Seq(Rows \cup {Foreign})
        BY <4>1 DEF TypeInv, SyncInv, Shape, CopiesHeld, Held, DocShape
      <4>3. /\ sync'.copy = sync.copy /\ sync'.rows = sync.rows
            /\ sync'.page = EventsAfter(c)
        BY <3>2, <4>2 DEF PassFetches, SyncShape
      <4>4. EventsAfter(c) \subseteq (c + 1) .. Len(log)
        BY DEF EventsAfter
      <4>5. Cardinality(EventsAfter(c)) <= Page
        BY <4>2, PageBounded
      <4> QED
        BY <4>1, <4>3, <4>4, <4>5 DEF TypeInv, SettingsTypeOK
    <3>3. CASE sync' = IdlePass
      BY <3>3
    <3>4. PassFindsNothing \/ PassConflicts \/ PassCommits => sync' = IdlePass
      BY DEF PassFindsNothing, PassConflicts, PassCommits, PassEnds
    <3> QED
      BY <3>1, <3>2, <3>3, <3>4
  <2>3. SettingsTypeOK'
    BY <1>1, <1>2, <2>2 DEF TypeInv, SettingsTypeOK
  <2> QED
    BY <1>1, <2>1, <2>3 DEF TypeInv
<1>3. CASE PassCommits
  <2>1. /\ \E new : doc' = [new EXCEPT !.stamp = doc.stamp + 1] /\ new \in DocShape
        /\ sync' = IdlePass
    <3> DEFINE last == CHOOSE i \in sync.page : \A j \in sync.page : j <= i
               new == [sync.copy.doc EXCEPT !.cursor = last]
    <3>1. Save(new) /\ sync # IdlePass /\ sync' = IdlePass
      BY <1>3 DEF PassCommits, PassEnds, IdlePass
    <3>2. sync.copy.doc \in DocShape
      BY <3>1 DEF TypeInv, SyncInv, CopiesHeld, Held
    <3>3. doc' = [new EXCEPT !.stamp = doc.stamp + 1]
      BY <3>1 DEF Save
    <3> HIDE DEF last
    <3>4. doc'.cursor = last
      BY <3>2, <3>3 DEF DocShape
    <3>5. new \in DocShape
      <4>1. doc'.cursor \in Nat
        BY <1>3, PassMovesCursor DEF TypeInv, SyncInv, Shape, DocShape
      <4> QED
        BY <3>2, <3>4, <4>1, FieldSet
    <3> QED
      BY <3>1, <3>3, <3>5
  <2>2. doc'.stamp = doc.stamp + 1
    BY <2>1, TypeFacts, FieldSet
  <2>3. doc' \in DocShape /\ doc'.cursor > doc.cursor /\ doc'.cursor \in Nat
        /\ doc'.cursor <= MaxLog
    <3>1. /\ doc' \in DocShape /\ doc'.cursor > doc.cursor /\ doc'.cursor <= Len(log')
      BY <1>3, PassMovesCursor DEF TypeInv, SyncInv, Shape
    <3>2. doc'.cursor \in Nat
      BY <3>1 DEF DocShape
    <3> QED
      BY <1>1, <3>1, <3>2, TypeFacts, SettingsAssumption DEF TypeInv
  <2>4. UNCHANGED Running
    BY <1>1 DEF Running
  <2>5. UNCHANGED <<asks, saves>>
    BY <1>1
  <2>6. CountInv'
    <3>1. doc'.stamp + Cardinality(Running)' + doc.cursor + saves + asks
             <= doc.stamp + Cardinality(Running) + doc'.cursor + saves' + asks'
      BY <2>2, <2>3, <2>4, <2>5, TypeNumbers
    <3>2. IsFiniteSet(Running)
      BY TypeFacts
    <3> QED
      BY <2>2, <2>3, <2>4, <2>5, <3>1, <3>2, TypeNumbers, CountKept
  <2>7. doc' \in Doc
    <3>1. Cardinality(Running') \in Nat
      BY <2>4, TypeFacts
    <3>2. asks \in 0 .. MaxAsks /\ saves \in 0 .. MaxSaves
      BY DEF TypeInv, SettingsTypeOK
    <3>3. doc'.stamp + Cardinality(Running') <= doc'.cursor + saves + asks
      BY <2>5, <2>6 DEF CountInv
    <3> QED
      BY <2>3, <3>1, <3>2, <3>3, DocBounded
  <2>8. SettingsTypeOK'
    BY <1>1, <2>1, <2>7 DEF TypeInv, SettingsTypeOK
  <2> QED
    BY <1>1, <2>6, <2>8 DEF TypeInv
<1> QED
  BY <1>2, <1>3 DEF PassStarts, PassFetches, PassFindsNothing, PassConflicts

\* The types of the initial state.
LEMMA TypesInit ==
  ASSUME SettingsInit
  PROVE  TypeInv
<1>1. Running = {}
  BY DEF SettingsInit, Running
<1>2. IsFiniteSet(Running) /\ Cardinality(Running) = 0
  BY <1>1, FS_EmptySet
<1>3. /\ doc.cursor = 0 /\ doc.stamp = 0 /\ asks = 0 /\ saves = 0
      /\ log = <<>> /\ Len(log) = 0 /\ rows = {} /\ sync = IdlePass
      /\ \A m \in Managers : call[m] = NoCall
      /\ form = [m \in Managers |-> NoForm]
  <2>1. log = <<>>
    BY DEF SettingsInit
  <2>2. Len(log) = 0
    BY <2>1
  <2> QED
    BY <2>2 DEF SettingsInit
<1>4. SyncInv
  BY SyncInit
<1>5. CountInv
  BY <1>2, <1>3 DEF CountInv
<1>6. doc \in Doc
  <2>1. doc \in DocShape
    BY <1>4 DEF SyncInv, Shape
  <2>2. 0 \in 0 .. MaxAsks /\ 0 \in 0 .. MaxSaves /\ 0 <= MaxLog
    BY SettingsAssumption
  <2> QED
    BY <1>3, <2>1, <2>2, DocBounded
<1>7. asks \in 0 .. MaxAsks /\ saves \in 0 .. MaxSaves /\ Len(log) <= MaxLog
  BY <1>3, SettingsAssumption
<1>8. form \in [Managers -> {NoForm} \cup Copy]
  BY <1>3
<1>9. \A i \in 1 .. Len(log) : log[i] \in rows \cup {Foreign}
  BY <1>3
<1> QED
  BY <1>3, <1>4, <1>5, <1>6, <1>7, <1>8, <1>9 DEF TypeInv, SettingsTypeOK

\* Every step keeps the types and the counts behind them.
LEMMA TypesStep ==
  ASSUME TypeInv, [SettingsNext]_settingsVars
  PROVE  TypeInv'
<1>1. SyncInv'
  BY SyncStep, SettingsStutter DEF TypeInv
<1>2. CASE UNCHANGED settingsVars
  <2>1. SettingsTypeOK' /\ Len(log') <= MaxLog
    BY <1>2 DEF TypeInv, settingsVars, SettingsTypeOK
  <2>2. CountInv'
    BY <1>2 DEF TypeInv, settingsVars, CountInv, Running
  <2> QED
    BY <1>1, <2>1, <2>2 DEF TypeInv
<1>3. CASE SettingsNext
  <2>1. SettingsTypeOK' /\ Len(log') <= MaxLog /\ CountInv'
    BY <1>3, TypesForm, TypesAsk, TypesFinish, TypesLog, TypesPass DEF SettingsNext
  <2> QED
    BY <1>1, <2>1 DEF TypeInv
<1> QED
  BY <1>2, <1>3

\* Every variable keeps its type: the time stamp is bounded by the events passed,
\* the forms saved and the requests ended, and a fetched page lies behind its
\* cursor and is no longer than the limit of eventsAfter.
THEOREM SettingsTypesKept == SettingsSpec => []SettingsTypeOK
<1>1. SettingsInit => TypeInv
  BY TypesInit
<1>2. TypeInv /\ [SettingsNext]_settingsVars => TypeInv'
  BY TypesStep
<1>3. TypeInv => SettingsTypeOK
  BY DEF TypeInv
<1> QED
  BY <1>1, <1>2, <1>3, PTL DEF SettingsSpec

=============================================================================
