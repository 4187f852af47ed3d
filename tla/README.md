# Verification of the ERPNext WhatsApp connection

TLA+ models of the two processes that deliver documents by WhatsApp: a Frappe
app (`src/erpnext_whatsapp_connection`, Python) that keeps a delivery history
and a queue of background jobs, and a gateway (`src/gateway`, Node.js) that
talks to WhatsApp through a linked device (Baileys) or Meta's Official API. The
models are checked with TLC on small instances; every safety property that a run
checks, and that the gateway's send path implements its contract, is proved with
TLAPS for every size. `PROJECT.json` lists components, runs, mutants, hazards, findings and
theorems, and maps every definition to the source lines it models.

## The system

| Component | State | Operations | What is hard | Correct means |
|---|---|---|---|---|
| Gateway send path (`gateway.mjs`, `store.mjs`) | SQLite tables `jobs`, `provider_messages`, `events`; in-memory promise queue | `send`, `sendGroup`, `sendBaileys`, `sendCloud`, receipts from the socket and from Meta | a crash between any two durable writes; clients that time out and retry; one key used for two things; late and repeated receipts | a group part is never sent twice, success is answered only when everything was confirmed, the event log never takes a success back |
| Gateway HTTP server and request signing (`server.mjs`, `gateway_client.py`, `core.mjs`) | nonces in memory, requests being read or handled | `gateway_request`, `readBody`, `authenticate`, answers, `shutdown` | requests that arrive late or again at the edge of a time window; time-outs per socket operation against a window counted from the signing; truncated time stamps; a server that stops while it serves | a request is accepted once, and none whose operations fit into the window is refused while it is waited for |
| Linked device sessions (`gateway.mjs`) | `sessions` map, sockets, reconnect timers, encrypted credentials, status | `connect`, `disconnect`, `connection.update`, `creds.update`, `initialize` | every `await` lets another handler in; sockets that were replaced still send events | no dead socket is kept, no pile of sockets, a lost connection comes back, an unlink forgets |
| Official API connection (`gateway.mjs`) | credentials, status | `configureCloud`, `testCloud`, `cloudRequest` | a test that ends after an unlink | sending looks at the credentials, not at the status |
| Outbound queue (`outbound.py`, `company_groups.py`, `api.py`) | history rows, row locks, RQ jobs | `process_outbound_message`, `retry_due_messages`, `sync_delivery_statuses`, `release_waiting_copies`, `_store_delivery` | workers and scheduler interleave; snapshots; saves that conflict and `set_value`s that do not; lost enqueues; lock waits and deadlocks | history tells the truth, attempts are bounded, uncertain outcomes stop, copies follow their primary and are attempted |
| Company group rules (`company_groups.py`, `permissions.py`) | settings with company rules, running requests, deliveries | settings save, `configure_official_api`, `queue_*`, `validate_copy` | everything a decision rests on changes before it is carried out | a group gets only its company's documents, a withdrawn copy is not posted, what is sent is what was shown |
| Queueing API and composer (`api.py`, `adapters.py`, `send_by_whatsapp.js`) | open dialogs; contacts, print formats, adapters of other apps | `prepare_*`, `preview_*`, `queue_*` | what is offered and what is accepted are computed by different functions, at different times, in two languages | an offer is accepted, a delivery goes to a number of the customer its PDF is about, and the gateway can dial it |
| Message templates and installation (`erpnext_whatsapp_message_template.py`, `install.py`) | templates, roles | save, delete, `after_install`, `after_migrate` | a uniqueness check that reads a snapshot; a migration that meets what managers did | one default per target and company, migrations only add |
| Settings API and status mirror (`settings_api.py`, the settings form, `sync_delivery_statuses`) | one document: provider, status, `last_event_id` | form saves, `get_status`, `connect`, `disconnect_and_remove_authentication`, `configure_official_api`, `cloud_webhook`, event sync | whole-document saves of what was read earlier, and single-field writes no save notices | no save loses another, the cursor skips and repeats nothing, every event is handled |
| Transports, encryption and masking, acceptance fixtures | | | | see *Not modelled* |

The app calls the gateway over a Unix socket (`gateway_client.py`). A background
job sends one request per attempt, whose socket operations wait up to 180 s each; a scheduler
pass fetches the gateway's event log and writes the statuses of the events into
the history. The two databases share no transaction; the idempotency key of a
history row is all that ties them together.

## Modules

| Module | Models | Used by |
|---|---|---|
| `GatewayJobs` | the send path of the gateway, at the grain of one durable write or one provider call per step | `MCGatewayJobs`, `GatewayRefinement`, `GatewayJobsProofs` |
| `GatewayContract` | what the gateway promises its clients: an abstract specification with one outcome per key | `GatewayRefinement` (shown to be implemented), `Outbound` (composed) |
| `GatewayRefinement` | how the state of `GatewayJobs` maps to the contract's; EXTENDS `GatewayJobs` | `MCGatewayRefinement`, `GatewayRefinementProofs` |
| `GatewayServer` | signing, authentication, answers, shutdown, one clock | `MCGatewayServer`, `GatewayServerProofs` |
| `Outbound` | history, workers, scheduler, row locks; EXTENDS `GatewayContract` | `MCOutbound`, `OutboundProofs` |
| `Connections` | sessions, timers, credentials and statuses of one site | `MCConnections`, `ConnectionsProofs` |
| `CompanyGroups` | rules, composers, queue requests and copies | `MCCompanyGroups`, `CompanyGroupsProofs` |
| `MessageTemplates` | templates as transactions of managers and of a migration | `Composer` |
| `Composer` | what the dialog offers and the queue request accepts; EXTENDS `MessageTemplates` | `MCComposer`, `ComposerProofs` |
| `SiteSettings` | the settings document, its writers, the event log and its cursor | `MCSiteSettings`, `SiteSettingsProofs` |

Mutated forms of definitions (`...M`, `...N`) stand before the definition they
change; they are plausible bugs, and each property is known to catch one.

### GatewayJobs

`jobs` is the table of the same name (owner, fingerprint, status, parts sent,
in-flight mark, reconciliation mark), `events` and `registered` are the other two
tables, `queue` is the chain of promises of `enqueue`, `run` the closure that
executes. Everything between two awaits is one step, except that every SQLite
write is durable by itself, so `Crash` may come between any two of them. A
client is `reply`: waiting, answered, or gone after its time-out, in which case
its closure still runs. `calls` and `confirmed` are history. Time is left out,
so the throttle between messages is too; a SQLite write that fails is left out.

### GatewayContract and Outbound

The contract has one `outcome` per key (open, submitted, blocked), the `inbox`
of accepted requests and the event `log`. `Outbound` uses it in place of the
gateway, which keeps two workers, a scheduler pass, a crash and a deadlock in
reach. `GatewayRefinement` gives the mapping: a key is submitted when its row is,
blocked when the row requires reconciliation or is marked in flight with no closure
working on it, and open otherwise; `Decided` is the time between the durable outcome
and its event. Its assumption `OneMessagePerKey` is what the site ensures:
`_store_delivery` draws a random key for a new history row, and every attempt sends
what that row holds.

Frappe and MariaDB are external, and modelled by what this code relies on: a job
or a pass is one transaction, reading the snapshot of its start; `document.save`
locks the row and is refused if another save was committed since the document
was read; `db.set_value(..., update_modified=False)` locks the row, writes what
it is told and is not noticed by `save`; jobs enqueued after commit may be lost
with the process; a job that raises is not repeated, except after a lock wait
that failed. `work[w]` is a worker's transaction, `pass` the scheduler's. `asks`
counts requests (history) and `faults` bounds what may go wrong.

### GatewayServer

`now` is the clock of the machine both processes run on, in readings of which
`Second` make a second, so that the truncation of the time stamp
(`int(time.time())`) is there. A request has a nonce of its own, so the map
`seenNonces` is `nonces`, by request. `Arrive` may happen any number of times and
at any time after signing; `Accept` and `Refuse` are `authenticate`, including
its sweep of expired nonces, which uses `<` where the window uses `>`. A client is
in one of the four operations in which `http.client` waits for the socket: connect,
headers, body (a `sendall` each) and the wait for the answer. `settimeout` gives each
of them the whole time-out, so the clock may pass the end of none of them, but the
call as a whole may wait four times as long; between two operations the client takes
no time, and an answer is received when its first bytes are. A request may be read
by the server while its body is still being sent, and is authenticated when the body
is complete. `vain` is history: the requests refused while they were waited for, without
having been accepted. `Exits` forgets the nonces: `accepted` is counted per server process,
because that is all the code keeps. The clock never goes back.

### Connections

One site. `session` is its entry in the `sessions` map, `sock` the sockets ever
created with the reconnect timers they armed, `creds` and `cloud` the stored
credentials, `calls` the managers' requests that wait for WhatsApp or Meta, `boot`
how far `initialize` is; `unlinked` is history. The handlers are
split where they await: `connect` at the version request, the QR handler at the
rendering, `disconnect` at the logout, `testCloud` at Meta's answer. Handlers
of a socket that is no longer in the map still run, up to the checks the code
makes.

### CompanyGroups

`settings`, `users`, `docs`, `offers` (numbers, print formats and templates that
can be chosen), `joined` and the files of a delivery change at any time, each
change counting towards `MaxChanges`. A queue request is two steps, its checks on
the snapshot of its start (`QueueDocument`, `QueueReport`) and, after rendering,
its commit (`StoreDelivery`); an attempt of a copy is two steps, its checks
(`StartCopy`) and its post (`PostCopy`). `granted` and `posts` are history, and
so are `shown`, `pdf` and `allowed` of a row. `MayBeCopied` says, independently of
`validate_copy`, what its sender could still do by hand.

### MessageTemplates and Composer

A save of a template locks its row, validates against the snapshot of its start
(`BeginSave`) and commits later (`CommitSave`); a migration does so for all rows it
inserts. `raced` is history: the pairs of names whose transactions overlapped.
`Blank` is an empty field; with Frappe 16 the filter `company = ""` also finds rows
whose company is absent, so the two are one value.

`Composer` adds what the dialog and the queue request read: phone fields with
their owners (`book`, `readable`), print formats, the adapter registries of other
apps (`hooks`, in the order of installation, one of them possibly broken) and the
size of a report. Numbers are short sequences of characters, because both
normalisations are about them: digits, separators, the prefix `00`, a leading zero
and a digit of another script. An adapter says in which form its report gets the
customer filter, or `"none"` if the filter stays as it came (`_validate_report` lets a
missing `customer_filter_type` pass, docs/GROUP_COPIES.md:141-144), whether it reads a
company and whether it brings a renderer; nothing is assumed of the ones that apps
register, except that an adapter names the field its report reads. That a report with a
filter of the other form lists everybody (`Listed`) is ERPNext's behaviour as
`_validate_report` guards against it, and a renderer is taken to show its customer. `queued`
is the last delivery, with the adapter that was in force and whom its number belonged to
at that moment.

### SiteSettings

`doc` is the document, with the time stamp `Document.check_if_latest` compares.
`SaveForm`, `configure_official_api` (in `Finish`) and a pass of the scheduler
(`PassCommits`) save the whole document as they read it; `UpdateStatus` sets single
fields and leaves the time stamp alone, so that a later save may put an old
status back. A pass takes its snapshot, fetches a
page of the gateway's log after the cursor of the snapshot and commits or is
rolled back. The log also holds events of other tenants, `applied` and `missed`
are history: an event is missed if its row was committed after the pass took its
snapshot.

## Runs

| Run | Bounds | Shows |
|---|---|---|
| `gateway_safety` | 2 clients, 3 requests of 8 kinds on 2 keys (retry, changed content, foreign tenant, other recipient type, empty, ill-formed), 2 parts, 3 events, crashes at any step | `GroupPartAtMostOnce`, `GroupContentUniform`, `GroupPartsInOrder`: group messages are sent once, of one content, in order. `SubmittedComplete`, `ReplySound`: success is real and answered to the owner of the key. `SubmittedIsFinal`: nothing is sent under a submitted key and its row stays. `EventsNeverRegress` |
| `gateway_contract` | 3 keys (group, Official API, ill-formed), 2 clients, 3 requests | the inductive invariant `GatewayInv`, types included; `ImplementsContract`: the send path implements `GatewayContract`; `EveryCallAnswered` under fairness |
| `gateway_server` | 2 requests with time-outs 1 and 2, 2 readings per second, window 7, clock up to 9, one restart | `AcceptedOnce`: a server process accepts a request once. `RefusedOnlyIfStale`: one whose four operations and a second fit into the window is not refused while its client waits |
| `outbound_copies` | primary and copy, 2 workers, no retries, 1 fault of any kind, log of 2, fairness | `NoFalseSuccess`, `ReconSound`, `CopyAttempted` |
| `outbound_reconcile` | primary and copy, 2 workers, 1 retry, no faults | `CopyAfterPrimary`, `ReconciliationStops`, `AttemptCeiling`; `HistoryKept`: no write takes back attempts or provider ids that were recorded; fires the lock deadlock |
| `outbound_retry_liveness` | one delivery, 2 workers, 1 retry, log of 3, fairness | `RetryAttempted` |
| `connections` | 1 manager, 2 sockets, 1 restart, fairness | `SessionIsLive`, `ReconnectsDoNotMultiply`, `Reconnects`, no deadlock |
| `company_copies` | 2 users, 2 companies, 2 groups, 1 document, 1 report, 1 delivery, 3 changes | `RulesNeedLinkedDevice`, `SentAsShown`, `GroupOfTheCompany`, `CopyHonoursRevocation` |
| `composer` | 1 document type, 2 reports (one per form of filter), 2 companies, 4 template names, 5 forms, 2 managers, 1 sender, 2 customers, 6 filters, 4 external registries, 3 changes | `OneDefault`, `MigrationOnlyAdds`, `OfferAccepted`, `NumberReachesGateway`, `PdfOfTheRecipient` |
| `site_settings` | 1 manager, 1 row, pages of 2, log of 3, 2 requests, 1 save of the form, fairness | `CursorSkipsNothing`, `SavesLoseNothing`, `EventsDrain` |

Why the bounds are enough to be interesting: two parts give a first, a next and a
last one; two clients and three requests give a retry that meets the first
request still queued, and one more after it; two workers and the scheduler are
all the parties that can hold a row; one retry gives the first, the last and an
exhausted attempt; two sockets give a current one and an orphan. Three changes
suffice for a rule, its withdrawal and one more. Deliveries in `CompanyGroups`
share nothing, so one is enough, and `Room` keeps the others from being begun.
In `composer` a change is a save of a template or of anything a dialog reads, so
three of them set up a number, take it away and do one more. Three events with pages of two
give a full page, a cut one and another tenant's event between; a manager's form
and request race each other as well as the scheduler. The clock of
`gateway_server` runs past the window of a request signed at the start, and its
window is not a whole number of seconds, so that the edges differ; the four operations
of the first request fit into it as those of a call with 30 or 60 s do, those of the
second do not, as with 75 or 180 s. Of the external registries in `composer` one brings a
renderer and no company, one names an unknown form, one names no form for one report and
the wrong one for the other, and one is broken.
Deadlock is checked in `connections` only: in the other models a state in which
all requests are done, or the bounds used up, is a proper end.

### Where the code and its documents part

Two runs end in a violation, each of one property that a message to the user or the
change log of the repository states.

* `attempt_ceiling` (the bounds of `outbound_copies` with one worker): CHANGELOG.md:33 promises "a hard
  delivery-attempt ceiling of one initial attempt plus the configured automatic
  retries". A worker that dies after its request takes `retry_count` with it, for the
  count is committed with the answer. The row is still `Queued`, the scheduler's recovery
  enqueues it, and it is requested again although no retries are configured. A death costs one
  request each: that is `AttemptCeiling`, which `outbound_reconcile` checks without
  faults and `RequestsBounded` proves with any number of them. The gateway's
  own row keeps a group part from being sent twice.
* `unlink_forgets` (one socket, no restart): `disconnect` finds only the session in the
  map. A device was linked and its socket has closed; a connect, called by another
  request or by the reconnect timer, has read the credentials and waits for the version
  request. The unlink finds no session and deletes the secrets; the connect goes on, makes
  a socket with the linked credentials and stores them again. With two sockets there
  is a second way: of two overlapping connects the first leaves an orphaned socket,
  which an unlink does not find either, and which stores its credentials again.

Noticed on the way, without a run:

* `release_waiting_copies` writes `Queued` from a snapshot over a copy submitted
  meanwhile. If the pass that wrote it cannot fetch the gateway's events (otherwise the
  `Submitted` event repairs the row in the same transaction), the copy's job runs again
  and, out of attempts, records the submitted copy as `Failed`. Nothing is sent again,
  and the row keeps its provider ids: that is `HistoryKept`.
* A primary whose after-commit enqueue is lost, or whose worker dies, is left
  `Queued`: the scheduler only looks for copies and for `Failed` rows, although
  README.md speaks of a durable queue.
* A submitted record "must contain a provider message ID", but after a request
  that timed out `sync_delivery_statuses` writes the status with `set_value`, past
  that validation.
* The attempt limit holds only until the message is submitted, as the proof of
  `AttemptCeiling` showed: a worker that is the victim of a deadlock while it releases
  copies is rolled back, `retry_count` included, and runs again. The gateway answers that request from its
  table and sends nothing.
* The recovery of copies also enqueues a copy that requires reconciliation, which
  then does nothing; a claimed retry of a copy is spent when its worker finds the
  primary momentarily moved back to `Failed` by an old event.
* `disconnect` sets the status of one provider only; a requested `connect` that
  throws leaves the status `Connecting`; a QR code rendered late sets `QR Ready`
  over what happened meanwhile.
* A rule enabled while the composer is open makes a copy it did not announce;
  reports carry no version, so what was previewed and what is queued may differ.
* An event of a row committed after the pass took its snapshot is passed over for
  good (`missed`): the row keeps the status its worker wrote.
* The status in the settings may be old: the answers of two status requests are written
  in the order they come back, and a save of the whole document puts back the status it
  read. Only the form shows it.
* `settimeout` limits each socket operation and the time stamp is that of the signing, so
  that a call with 75 or 180 s can be refused as stale while it is still waited for
  (`RefusedOnlyIfStale` excepts it). It takes two slow operations of 180 s, or four of
  75 s, in a row.
* An adapter of another app that names no `customer_filter_type`, or the wrong one, and
  has no renderer of its own can bring a report of all customers to one of them:
  docs/GROUP_COPIES.md:141-144 leaves the form to the app (`PdfOfTheRecipient` excepts
  it, `FormMissed`).
* Two defaults saved in overlapping transactions both stay (`OneDefault` excepts the
  pairs in `raced`).
* The company's own default template is not preferred to the generic one when the
  dialog preselects a message.
* `after_migrate` fails as a whole if a manager has made a template of another name
  the default of a built-in target and the seeded one is gone.
* A number with digits of another script is accepted by the site and refused by
  the gateway (`NumberReachesGateway` excepts it).
* Nonces are forgotten with the process: within its window, a request can be
  accepted again after a restart, and also if the clock is set back.

## Fairness

* `gateway_contract`: weak fairness of closures and of the provider calls they
  wait for. The event loop runs what is ready, and the code assumes that calls
  return: nothing bounds a socket call.
* `outbound_copies`, `outbound_retry_liveness`: strong fairness of every worker
  and of the scheduler, since MariaDB grants row locks in the order of waiting;
  strong fairness of a fetch that reaches the gateway (it is reachable again and
  again); weak fairness of time (`RetryFallsDue`), of the deadlock detector and of
  the gateway. Nothing is assumed of faults, time-outs, receipts or new
  deliveries.
* `connections`: weak fairness of the gateway's own steps: timers fire, the
  version request returns or throws within its 15 s, Meta's answer comes or times
  out after 30 s, and a logout returns. Nothing is assumed of managers, sockets or
  restarts.
* `site_settings`: weak fairness of the start and the end of a pass, which the
  scheduler runs every minute, strong fairness of its fetch. Conflicts cannot go
  on for ever only because managers stop saving: `MaxSaves` and `MaxAsks` bound
  them, and `EventsDrain` is about what happens after the last one.

The other runs check safety only and need no fairness.

## Proofs

All proofs are for arbitrary constants, under the named `ASSUME`s of the modules
(sets are disjoint where the code's types are, bounds are naturals, functions are
typed; `TemplatesAssumption` also says that seeded names differ; `ComposerAssumption` that
a number has at least two digits, which the limits of the code imply).

* `GatewayJobsProofs`. `GatewayInv` is inductive; `GroupAtMostOnce`,
  `GroupUniform`, `GroupInOrder`, `SubmittedIsComplete`, `RepliesAreSound`,
  `EventLogNeverRegresses` and `TypeCorrectness` follow from it, and so does the
  action property `SubmittedStays`. None of the properties is inductive alone. That
  a part is not called twice needs the link between the history and the row: the
  parts called are those recorded as sent, plus the next one exactly while the row
  is marked in flight; and that link survives a crash only because the closure that
  runs is the only one that may be past the mark (`RunInv`), which in turn needs
  what waits in the queue to be harmless (`QueueInv`).
* `GatewayRefinementProofs`. `Implementation`: every step of the send path is a step
  of the contract or a stutter. `RefinementInv` adds to `GatewayInv` what the mapping
  needs: a row that exists is that of its key's one, well-formed message
  (`MessageInv`, so that refusals for a foreign tenant or a changed content, of which
  the contract knows nothing, cannot come up), and the two marks occur on group rows
  only, reconciliation only on failed ones, and no attempt fails with a part in flight
  unless it is marked (`MarkInv`, without which the end of a closure would change an
  outcome). The steps between the first write and the outcome go through one
  lemma, `ProceedRefines`: the row goes on, fails or succeeds.
* `OutboundProofs`. `OutboundInv` says what each party may rely on between its read and
  its write: rows against the gateway's outcomes (`RowSound`), what a worker's document
  says of the row it will overwrite, if it holds the lock and the document is not stale
  (`DocSound`), what an answer proves (`AnswerSound`), that the rows a pass will write
  differ from the stored ones in the status alone (`PassInv`), that only submitted keys
  have good events (`LogInv`), and that each worker has at most one request in the inbox
  (`InboxInv`). `NoFalseSuccess`, `ReconSound` and `CopyAfterPrimary` are inductive only
  with all of these: each of them is written by the worker, the pass and the release of
  copies, from three different reads. `AsksInv` is the accounting behind
  `AttemptCeiling`: requests are covered by the committed attempts, by those of one
  worker that has asked and not committed, or by faults. `StoppedForGood` is an action
  property: a worker that could still ask has a stale document, and its save is refused.
  So is `HistoryIsKept`, which needs `IdsInv` besides: a document that may still be
  written has the ids of its row, as those who read before a commit are stale after it,
  and the pass buffers rows with the ids they have, which it can as it locks them first.
* `GatewayServerProofs`. `ReplayResistance` rests on `NonceInv`: a request that was
  accepted has a nonce that outlives its time stamp, or its time stamp is out of
  the window already. `NoVainRefusal` rests on `AgeInv`: a client that is in its n-th
  operation began it at most n - 1 time-outs after the signing, and the time stamp is
  less than a second older than that; so whoever still waits when the window has passed
  has a time-out of which four, and a second, exceed it.
* `ConnectionsProofs`. `SessionAlive`: the session in the map has not closed. It is
  inductive together with the types of sockets and sessions. `NoMultiplication` is an
  action property: in each step the sets of pending timers and of starting sockets
  shrink, or one member moves on (timer to starting, starting to session, session to
  timer), so that the sum cannot grow.
* `CompanyGroupsProofs`. `GroupsInv` adds to the properties that enabled rules are
  granted, that rows and running requests carry a granted group and the version
  shown, and that an attempt under way was allowed. `ChecksSuffice` is the heart:
  the checks of `validate_copy`, which are spread over five functions, imply
  `MayBeCopied`; it needs that a waiting copy has a group, for `configured_group`
  checks provider and permission only where a rule is enabled. `RulesStayUsable` is
  a conjunct.
* `ComposerProofs`. `DefaultsAreUnique` needs to know what transactions under way
  will leave behind: a row that is about to be committed is in `raced` with every
  rival among the committed rows and among the other pending ones (`PendingSaves`,
  `PendingSeeds`), and the rows a migration inserts stay missing until it commits
  (`SeedsMissing`), from which `MigrationKeeps` follows too. `PdfIsTheRecipients` rests
  on `ComposerInv`, where the source of an open dialog fixes its customer: whatever
  registry wins, the adapter in force brings the filter into the form the report reads,
  refuses, or is one that misses it (`Misses`, `ReportPdfOfCustomer`). `OffersAreAccepted` and
  `NumbersAreDialled` rest on `OfferInv`: a dialog opened since the last change shows
  what would be offered now, and a queued number is normal. The lemmas about numbers say
  that a normalised number has no separator and no prefix, and that normalising it
  again, by either function, returns it (`NormalizeNormal`, `NormalAgain`); `Compact`
  is written with positions, not recursively, to make that provable.
* `SiteSettingsProofs`. `CursorComplete` and `NoLostSave` rest on `CopiesHeld`: a
  copy of the document with the current time stamp has the current cursor and
  provider, because every whole-document save makes a new time stamp and
  `_update_status` touches neither. With `PageInv` (a fetched page is all there is
  of the site between the cursor and its end, `PageClosed`) a commit moves the cursor over
  exactly what it has handled.
  `SettingsTypesKept` bounds the time stamp (`CountInv`): every new one
  is paid for by an event passed, a form saved or a request that ended.

Only model-checked: liveness (`EveryCallAnswered`, `CopyAttempted`, `RetryAttempted`,
`Reconnects`, `EventsDrain`), which is out of the prover's reach.

## Not modelled

* HMAC, encryption at rest and the masking of numbers and errors: cryptography and
  text. Routing has no state; `/health` is not signed and changes nothing.
* The text of a message and its rendering, PDFs, layout, buttons.
* Failing SQLite writes, the throttle, `limit=50` of the scheduler's two queries
  (fifty copies are out of TLC's reach), Signal key buckets (stored and deleted with
  the credentials).
* The overlay of registered transports, which works like that of the adapters.
* `acceptance.py`, `group_acceptance.py`, `group_browser_acceptance.py` and the
  scripts: drivers that run against a disposable site and tooling for releases.
  They are more than a third of the code; they keep no state of the running system,
  and what they assert is about the components above.

## Plan

Done, in this order: `GatewayJobs`, its contract and refinement, `Outbound` on top
of the contract, `Connections`, `CompanyGroups`, `MessageTemplates` and `Composer`,
`SiteSettings`, `GatewayServer`; then the proofs of the gateway, of the groups, of the
settings and of the composer, of `Outbound`, and of the refinement. Every invariant and
action property of the passing runs is proved. Left:

1. Action properties that follow from the inductive invariants at hand and say more
   than the runs do now, as `HistoryKept` does of the rows.
2. The overlay of registered transports, if it is to be modelled like the adapters.
