---------------------------- MODULE SiteSettings ----------------------------
(***************************************************************************)
(* The settings document of a site.  It holds what managers choose (the    *)
(* provider), a mirror of the gateway's connection status, and the cursor  *)
(* up to which the gateway's event log was read (settings_api.py,          *)
(* sync_delivery_statuses of outbound.py, the settings form, cloud_webhook *)
(* and eventsAfter of store.mjs).                                          *)
(*                                                                         *)
(* Three kinds of writers meet.  The form, configure_official_api and the  *)
(* scheduler save the whole document as they read it before, and are       *)
(* refused if another save came in between (the time stamp of the          *)
(* document); _update_status sets single fields without a new time stamp,  *)
(* so no save notices it.  A request or a pass reads one snapshot, taken   *)
(* at its start, while the gateway's answers come later and in any order.  *)
(***************************************************************************)
EXTENDS Naturals, Sequences, FiniteSets

CONSTANTS
    Managers,
    Rows, Foreign,   \* history rows of this site; events of other tenants
    None,
    Page,            \* LIMIT of eventsAfter
    MaxLog,          \* bound: events in the gateway's log
    MaxAsks,         \* bound: managers' requests
    MaxSaves         \* bound: saves of the form

ASSUME SettingsAssumption ==
    /\ Foreign \notin Rows /\ None \notin Managers
    /\ Page \in Nat \ {0}
    /\ MaxLog \in Nat /\ MaxAsks \in Nat /\ MaxSaves \in Nat

VARIABLES
    doc,       \* the settings document
    form,      \* manager -> the document as the open form read it
    call,      \* manager -> the running request
    rows,      \* history rows of the site
    log,       \* the gateway's event log: the row of each event, by id
    sync,      \* the scheduler's pass
    applied,   \* history: ids of events written to their rows
    missed,    \* history: ids passed over, the row being newer than the pass
    asks, saves

settingsVars == <<doc, form, call, rows, log, sync, applied, missed, asks, saves>>

Providers == {"Linked Device", "Official API"}
LinkStatus == {"Connected", "Disconnected"}
Doc == [provider : Providers, status : LinkStatus \cup {"Error"},
        cursor : 0 .. MaxLog, stamp : 0 .. MaxLog + MaxSaves + MaxAsks]
Ops == {"status", "connect", "disconnect", "configure"}

\* A document as read.
Copy == [doc : Doc]
ReadDoc == [doc |-> doc]
NoForm == [doc |-> None]
NoCall == [op |-> None]
IdlePass == [stage |-> "idle"]

SettingsInit ==
    /\ doc = [provider |-> "Linked Device", status |-> "Disconnected",
              cursor |-> 0, stamp |-> 0]
    /\ form = [m \in Managers |-> NoForm]
    /\ call = [m \in Managers |-> NoCall]
    /\ rows = {} /\ log = <<>>
    /\ sync = IdlePass
    /\ applied = {} /\ missed = {}
    /\ asks = 0 /\ saves = 0

-----------------------------------------------------------------------------
(* Saving the whole document *)

\* Document.check_if_latest, on the time stamp.
UnchangedSinceM(copy) == TRUE
UnchangedSince(copy) == copy.doc.stamp = doc.stamp

\* The save writes every field of the copy, and so puts back a status that
\* _update_status has set since the copy was read.
Save(new) == doc' = [new EXCEPT !.stamp = doc.stamp + 1]

OpenForm(m) ==
    /\ form[m] # ReadDoc
    /\ form' = [form EXCEPT ![m] = ReadDoc]
    /\ UNCHANGED <<doc, call, rows, log, sync, applied, missed, asks, saves>>

\* The form stays open with the saved document.
SaveForm(m, provider) ==
    LET new == [form[m].doc EXCEPT !.provider = provider]
    IN  /\ form[m] # NoForm /\ saves < MaxSaves
        /\ UnchangedSince(form[m])
        /\ Save(new)
        /\ form' = [form EXCEPT ![m] = [doc |-> doc']]
        /\ saves' = saves + 1
        /\ UNCHANGED <<call, rows, log, sync, applied, missed, asks>>

-----------------------------------------------------------------------------
(* Requests of managers: get_status, connect, disconnect_and_remove_       *)
(* authentication and configure_official_api                               *)

\* The snapshot of the request; only configure_official_api saves it again.
Ask(m, op) ==
    /\ call[m] = NoCall /\ asks < MaxAsks
    /\ call' = [call EXCEPT ![m] =
         [op |-> op, answer |-> None,
          copy |-> IF op = "configure" THEN ReadDoc ELSE NoForm]]
    /\ asks' = asks + 1
    /\ UNCHANGED <<doc, form, rows, log, sync, applied, missed, saves>>

\* The gateway answers with the status it has or arrives at (Connections).
Answer(m, s) ==
    /\ call[m] # NoCall /\ call[m].answer = None
    /\ call[m].op = "disconnect" => s = "Disconnected"
    /\ call' = [call EXCEPT ![m].answer = s]
    /\ UNCHANGED <<doc, form, rows, log, sync, applied, missed, asks, saves>>

\* gateway_request raises: refused, timed out, or no gateway.
AnswerFails(m) ==
    /\ call[m] # NoCall /\ call[m].answer = None
    /\ call' = [call EXCEPT ![m].answer = "Error"]
    /\ UNCHANGED <<doc, form, rows, log, sync, applied, missed, asks, saves>>

\* _update_status: single fields, no new time stamp.
UpdateStatus(s) == doc' = [doc EXCEPT !.status = s]

\* The answer is written; a failure is shown by get_status and raised by the
\* others; configure_official_api saves the provider first, and raises if the
\* document has changed or validate refuses (CompanyGroups).
Finish(m) ==
    LET c == call[m]
    IN  /\ c # NoCall /\ c.answer # None
        /\ call' = [call EXCEPT ![m] = NoCall]
        /\ \/ /\ c.op # "configure" /\ (c.op = "status" \/ c.answer # "Error")
              /\ UpdateStatus(c.answer)
           \/ /\ c.op = "configure" /\ c.answer # "Error"
              /\ UnchangedSince(c.copy)
              /\ doc' = [c.copy.doc EXCEPT !.provider = "Official API",
                                           !.status = c.answer, !.stamp = doc.stamp + 1]
           \/ /\ c.op # "status" /\ (c.op = "configure" \/ c.answer = "Error")
              /\ UNCHANGED doc
        /\ UNCHANGED <<form, rows, log, sync, applied, missed, asks, saves>>

-----------------------------------------------------------------------------
(* The event log *)

StoreRow(r) ==
    /\ r \notin rows
    /\ rows' = rows \cup {r}
    /\ UNCHANGED <<doc, form, call, log, sync, applied, missed, asks, saves>>

\* addEvent, for a delivery of this site or of another tenant.
AddEvent(r) == Len(log) < MaxLog /\ log' = Append(log, r)

GatewayLogs(r) ==
    /\ r \in rows \cup {Foreign}
    /\ AddEvent(r)
    /\ UNCHANGED <<doc, form, call, rows, sync, applied, missed, asks, saves>>

\* cloud_webhook relays a report of Meta.  Meta repeats it until the answer
\* arrives, so the same report may be logged again; the challenge of a GET
\* request and a relay that fails change nothing.
CloudWebhook(r) ==
    /\ r \in rows
    /\ AddEvent(r)
    /\ UNCHANGED <<doc, form, call, rows, sync, applied, missed, asks, saves>>

-----------------------------------------------------------------------------
(* sync_delivery_statuses *)

Own(i) == log[i] # Foreign

\* eventsAfter: the next events of the tenant, in order, at most Page of them.
EventsAfterM(id) ==
    LET own == {i \in (id + 1) .. Len(log) : Own(i)}
    IN  {i \in own : Cardinality({j \in own : j > i}) < Page}
EventsAfterN(id) == {i \in (id + 1) .. Len(log) : Own(i)}
EventsAfter(id) ==
    LET own == {i \in (id + 1) .. Len(log) : Own(i)}
    IN  {i \in own : Cardinality({j \in own : j < i}) < Page}

\* The snapshot: retries were claimed before, and may have taken their time.
PassStarts ==
    /\ sync = IdlePass
    /\ sync' = [stage |-> "started", copy |-> ReadDoc, rows |-> rows, page |-> {}]
    /\ UNCHANGED <<doc, form, call, rows, log, applied, missed, asks, saves>>

PassFetches ==
    /\ sync.stage = "started"
    /\ sync' = [sync EXCEPT !.stage = "fetched", !.page = EventsAfter(sync.copy.doc.cursor)]
    /\ UNCHANGED <<doc, form, call, rows, log, applied, missed, asks, saves>>

PassEnds ==
    /\ sync' = IdlePass
    /\ UNCHANGED <<form, call, rows, log, asks, saves>>

\* gateway_request raises: sync returns, or the page was empty.
PassFindsNothing ==
    /\ sync.stage = "started" \/ (sync.stage = "fetched" /\ sync.page = {})
    /\ PassEnds
    /\ UNCHANGED <<doc, applied, missed>>

\* Events of rows in the snapshot are written; the cursor passes all of them.
PassCommitsM ==
    LET last == CHOOSE i \in sync.page : \A j \in sync.page : j <= i
        found == {i \in sync.page : log[i] \in sync.rows}
    IN  /\ sync.stage = "fetched" /\ Cardinality(sync.page) > 1
        /\ UnchangedSince(sync.copy)
        /\ Save([sync.copy.doc EXCEPT !.cursor = last])
        /\ applied' = applied \cup found
        /\ missed' = missed \cup (sync.page \ found)
        /\ PassEnds
PassCommits ==
    LET last == CHOOSE i \in sync.page : \A j \in sync.page : j <= i
        found == {i \in sync.page : log[i] \in sync.rows}
    IN  /\ sync.stage = "fetched" /\ sync.page # {}
        /\ UnchangedSince(sync.copy)
        /\ Save([sync.copy.doc EXCEPT !.cursor = last])
        /\ applied' = applied \cup found
        /\ missed' = missed \cup (sync.page \ found)
        /\ PassEnds

\* The save is refused, and the whole pass rolled back.
PassConflicts ==
    /\ sync.stage = "fetched" /\ sync.page # {}
    /\ ~UnchangedSince(sync.copy)
    /\ PassEnds
    /\ UNCHANGED <<doc, applied, missed>>

-----------------------------------------------------------------------------
SettingsNext ==
    \/ \E m \in Managers :
         \/ OpenForm(m)
         \/ \E p \in Providers : SaveForm(m, p)
         \/ \E op \in Ops : Ask(m, op)
         \/ \E s \in LinkStatus : Answer(m, s)
         \/ AnswerFails(m)
         \/ Finish(m)
    \/ \E r \in Rows : StoreRow(r) \/ CloudWebhook(r)
    \/ \E r \in Rows \cup {Foreign} : GatewayLogs(r)
    \/ PassStarts
    \/ PassFetches
    \/ PassFindsNothing
    \/ PassCommits
    \/ PassConflicts

\* The scheduler runs a pass every minute, and the gateway is reachable again
\* and again.  Nothing is assumed of managers, Meta or the devices.
SettingsFairness ==
    /\ WF_settingsVars(PassStarts)
    /\ SF_settingsVars(PassFetches)
    /\ WF_settingsVars(PassFindsNothing \/ PassCommits \/ PassConflicts)

SettingsSpec == SettingsInit /\ [][SettingsNext]_settingsVars /\ SettingsFairness

-----------------------------------------------------------------------------
(* Properties *)

\* Types; a fetched page lies after the cursor it was asked for and is no
\* longer than the limit of the gateway's query.
SettingsTypeOK ==
    /\ doc \in Doc
    /\ form \in [Managers -> {NoForm} \cup Copy]
    /\ \A m \in Managers : call[m] # NoCall =>
          /\ call[m].op \in Ops /\ call[m].answer \in LinkStatus \cup {"Error", None}
          /\ call[m].copy \in IF call[m].op = "configure" THEN Copy ELSE {NoForm}
    /\ rows \subseteq Rows
    /\ \A i \in 1 .. Len(log) : log[i] \in rows \cup {Foreign}
    /\ sync # IdlePass =>
          /\ sync.copy \in Copy /\ sync.rows \subseteq rows
          /\ sync.page \subseteq (sync.copy.doc.cursor + 1) .. Len(log)
          /\ Cardinality(sync.page) <= Page
    /\ asks \in 0 .. MaxAsks /\ saves \in 0 .. MaxSaves

\* The cursor skips nothing and nothing is read twice: the events of this site
\* up to last_event_id are those a committed pass has handled, although pages
\* are cut off, other tenants' events lie between, passes are rolled back and
\* forms with an old cursor are saved.  Those in missed were handled without
\* effect: their rows were committed after the pass took its snapshot.
CursorSkipsNothing ==
    applied \cup missed = {i \in 1 .. doc.cursor : Own(i)}

\* A save of the whole document loses nothing that another save has written: the
\* cursor never goes back, and a scheduler pass never reverts the provider.
SavesLoseNothing ==
    [][/\ doc'.cursor >= doc.cursor
       /\ sync # IdlePass /\ sync' = IdlePass => doc'.provider = doc.provider
      ]_settingsVars

\* Every event of the site is handled in the end, whatever is saved meanwhile.
EventsDrain ==
    \A i \in 1 .. MaxLog :
       (i <= Len(log) /\ log[i] # Foreign) ~> (i \in applied \cup missed)

=============================================================================
