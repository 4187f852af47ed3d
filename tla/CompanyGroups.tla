---------------------------- MODULE CompanyGroups ----------------------------
(***************************************************************************)
(* What may be sent to whom: a company's WhatsApp group rule, the preview  *)
(* and the queueing of a document or report, and the copy of it that is    *)
(* posted to the company's group once the primary message is submitted     *)
(* (company_groups.py, api.py, permissions.py, validate of the settings).  *)
(* Everything these decisions rest on changes meanwhile: rules, provider,  *)
(* documents, roles, permissions, customer numbers, stored PDF files.      *)
(*                                                                         *)
(* A request or a background job is one transaction and reads the snapshot *)
(* of its start: a request is split into its checks and, after the PDF is  *)
(* rendered, its commit; an attempt into its checks and its post.  The     *)
(* queue between them, with attempts, retries and locks, is Outbound.      *)
(***************************************************************************)
EXTENDS Naturals, FiniteSets

CONSTANTS
    Users, Managers,          \* and those who are managers at first
    Companies, Groups, NoGroup,
    Docs, Reports,            \* what can be sent
    ReportCompany,            \* report -> the company its filters name
    Deliveries,               \* names of history rows (primary and copy)
    None,
    MaxChanges                \* bound: edits, saves, grants and revocations

Sources == Docs \cup Reports

ASSUME CompanyGroupsAssumption ==
    /\ Managers \subseteq Users
    /\ NoGroup \notin Groups /\ None \notin Sources
    /\ Docs \cap Reports = {}
    /\ ReportCompany \in [Reports -> Companies]
    /\ MaxChanges \in Nat

VARIABLES
    settings,   \* transport enabled, provider and company rules
    joined,     \* groups the linked account belongs to
    users,      \* user -> enabled, role, readable companies and sources
    docs,       \* document -> company, version (its time stamp), fit to be sent
    offers,     \* sources whose chosen number, format and template still stand
    composer,   \* user -> what the open composer shows
    request,    \* user -> the delivery a running queue request will store
    rows,       \* history: a primary and its copy, under one name
    granted,    \* history: rules saved by somebody permitted to make them
    posts,      \* history: what was handed to the gateway
    changes     \* changes so far

groupVars == <<settings, joined, users, docs, offers, composer, request, rows,
               granted, posts, changes>>

Versions == Nat
Rule == [on : BOOLEAN, group : Groups] \cup {[on |-> FALSE, group |-> NoGroup]}
NoRule == [on |-> FALSE, group |-> NoGroup]
Settings == [on : BOOLEAN, provider : {"Linked Device", "Official API"},
             rules : [Companies -> Rule]]
User == [enabled : BOOLEAN, role : {"manager", "sender", "other"},
         companies : SUBSET Companies, sources : SUBSET Sources]
Doc == [company : Companies, version : Versions, fit : BOOLEAN]
Offers == [numbers : SUBSET Sources, formats : SUBSET Docs,
           templates : SUBSET Sources]
Row == [owner : Users, source : Sources, company : Companies,
        version : Versions,              \* source_modified, and of the PDF
        shown : Versions,                \* history: what the composer showed
        group : Groups \cup {NoGroup},   \* recipient of the copy
        files : SUBSET {"primary", "copy"},   \* usable PDF snapshots
        primary : {"queued", "submitted"},
        copy : {"none", "waiting", "trying", "posted"},
        pdf : BOOLEAN,                   \* history: the attempt read a usable PDF
        allowed : BOOLEAN]               \* history: see MayBeCopied
NoRow == [copy |-> "absent"]
Closed == [source |-> None, version |-> 0]

GroupsInit ==
    /\ settings = [on |-> TRUE, provider |-> "Linked Device",
                   rules |-> [c \in Companies |-> NoRule]]
    /\ joined = Groups
    /\ users = [u \in Users |->
                  [enabled |-> TRUE,
                   role |-> IF u \in Managers THEN "manager" ELSE "sender",
                   companies |-> Companies, sources |-> Sources]]
    /\ docs \in [Docs -> {[company |-> c, version |-> 0, fit |-> TRUE] : c \in Companies}]
    /\ offers = [numbers |-> Sources, formats |-> Docs, templates |-> Sources]
    /\ composer = [u \in Users |-> Closed]
    /\ request = [u \in Users |-> NoRow]
    /\ rows = [d \in Deliveries |-> NoRow]
    /\ granted = {}
    /\ posts = {}
    /\ changes = 0

Change == changes < MaxChanges /\ changes' = changes + 1

-----------------------------------------------------------------------------
(* Settings and group rules *)

\* _company: the company is readable for the user.
CanRead(u, c) == c \in users[u].companies

\* validate_settings: changed rules need the permission for their companies,
\* enabled rules need the Linked Device provider and, when a rule changed, a
\* group the account has joined.
ValidateSettingsM(u, new) ==
    LET changed == {c \in Companies : settings.rules[c] # new.rules[c]}
        enabled == {c \in Companies : new.rules[c].on}
    IN  changed # {} =>
            /\ \A c \in changed : CanRead(u, c)
            /\ enabled # {} => new.provider = "Linked Device"
            /\ \A c \in enabled : new.rules[c].group \in joined
ValidateSettings(u, new) ==
    LET changed == {c \in Companies : settings.rules[c] # new.rules[c]}
        enabled == {c \in Companies : new.rules[c].on}
    IN  /\ \A c \in changed : CanRead(u, c)
        /\ enabled # {} => new.provider = "Linked Device"
        /\ changed # {} => \A c \in enabled : new.rules[c].group \in joined

\* What a save grants, by the permissions and the groups at that moment.
Grants(u, new) ==
    {<<c, new.rules[c].group>> : c \in {x \in Companies :
        /\ new.rules[x].on /\ new.rules[x] # settings.rules[x]
        /\ CanRead(u, x) /\ new.rules[x].group \in joined}}

SaveSettings(u, new) ==
    /\ users[u].enabled /\ users[u].role = "manager"
    /\ Change
    /\ new # settings
    /\ ValidateSettings(u, new)
    /\ settings' = new
    /\ granted' = granted \cup Grants(u, new)
    /\ UNCHANGED <<joined, users, docs, offers, composer, request, rows, posts>>

\* configure_official_api: the provider is set and the settings are saved.
ConfigureOfficialApi(u) ==
    LET new == [settings EXCEPT !.provider = "Official API"]
    IN  /\ users[u].enabled /\ users[u].role = "manager"
        /\ Change
        /\ ValidateSettings(u, new)
        /\ settings' = new
        /\ UNCHANGED <<joined, users, docs, offers, composer, request, rows,
                       granted, posts>>

\* configured_group: the group of a company's enabled rule, NoGroup without one;
\* it is refused while the configuration or the user does not allow copies.
ConfiguredGroupM(c) ==
    IF \E x \in Companies : settings.rules[x].on
    THEN settings.rules[CHOOSE x \in Companies : settings.rules[x].on].group
    ELSE NoGroup
ConfiguredGroup(c) ==
    IF settings.rules[c].on THEN settings.rules[c].group ELSE NoGroup
CopyRefused(u, c) ==
    /\ settings.rules[c].on
    /\ settings.provider # "Linked Device" \/ ~CanRead(u, c)

-----------------------------------------------------------------------------
(* The composer and the queue request *)

\* require_sender: managers may send too.
RequireSender(u) == users[u].role \in {"manager", "sender"}

\* _validate_document: readable and printable, an eligible submitted customer
\* document, and the transport enabled.
ValidateDocument(u, x) == x \in users[u].sources /\ docs[x].fit /\ settings.on
\* _validate_report: permitted, with one customer and one readable company.
ValidateReport(u, x) == x \in users[u].sources /\ CanRead(u, ReportCompany[x])

\* The choices made in the composer: a number of the customer, a registered
\* print format and an enabled template.
CustomerNumbers(x) == x \in offers.numbers
ValidatePrintFormat(x) == x \in offers.formats
ValidateSelectedTemplate(x) == x \in offers.templates

\* The company and the version the request finds; a report has no version.
CompanyOf(x) == IF x \in Docs THEN docs[x].company ELSE ReportCompany[x]
VersionOfM(x) == IF x \in Docs THEN docs[x].version ELSE None
VersionOf(x) == IF x \in Docs THEN docs[x].version ELSE 0

\* Bound: as many deliveries are begun as there are names for them.
Begun == {u \in Users : composer[u] # Closed \/ request[u] # NoRow}
Room(u) ==
    \/ composer[u] # Closed
    \/ Cardinality(Begun) < Cardinality({d \in Deliveries : rows[d] = NoRow})

\* prepare_document, prepare_report: what the composer shows.
Show(u, x) ==
    /\ Room(u)
    /\ ~CopyRefused(u, CompanyOf(x))
    /\ composer' = [composer EXCEPT ![u] = [source |-> x, version |-> VersionOf(x)]]
    /\ UNCHANGED <<settings, joined, users, docs, offers, request, rows,
                   granted, posts, changes>>
PrepareDocument(u, x) ==
    /\ users[u].enabled /\ RequireSender(u)
    /\ ValidateDocument(u, x)
    /\ Show(u, x)
PrepareReport(u, x) ==
    /\ users[u].enabled /\ RequireSender(u)
    /\ settings.on
    /\ ValidateReport(u, x)
    /\ Show(u, x)

\* The delivery a request is going to store, with a copy if the company has a
\* group now; it is refused where copies are.
NewDelivery(u, x) ==
    LET group == ConfiguredGroup(CompanyOf(x))
    IN  [owner |-> u, source |-> x, company |-> CompanyOf(x),
         version |-> VersionOf(x), shown |-> composer[u].version,
         group |-> group, files |-> {"primary", "copy"}, primary |-> "queued",
         copy |-> IF group = NoGroup THEN "none" ELSE "waiting",
         pdf |-> FALSE, allowed |-> FALSE]
Enqueue(u, x) ==
    /\ request[u] = NoRow
    /\ ~CopyRefused(u, CompanyOf(x))
    /\ composer' = [composer EXCEPT ![u] = Closed]
    /\ request' = [request EXCEPT ![u] = NewDelivery(u, x)]
    /\ UNCHANGED <<settings, joined, users, docs, offers, rows, granted, posts, changes>>

\* "The document changed after preview. Refresh and review it again."
SameAsShownM(u, x) == TRUE
SameAsShown(u, x) == VersionOf(x) = composer[u].version

\* queue_document, queue_report: all checks of the request, on its snapshot.
QueueDocument(u, x) ==
    /\ x = composer[u].source
    /\ users[u].enabled /\ RequireSender(u)
    /\ ValidateDocument(u, x)
    /\ SameAsShown(u, x)
    /\ CustomerNumbers(x)
    /\ ValidatePrintFormat(x)
    /\ ValidateSelectedTemplate(x)
    /\ Enqueue(u, x)
QueueReport(u, x) ==
    /\ x = composer[u].source
    /\ users[u].enabled /\ RequireSender(u)
    /\ settings.on
    /\ ValidateReport(u, x)
    /\ CustomerNumbers(x)
    /\ ValidateSelectedTemplate(x)
    /\ Enqueue(u, x)

\* The PDF is rendered from the document as it was read; _store_delivery stores
\* the primary and the copy, and the request commits.
StoreDelivery(u, d) ==
    /\ request[u] # NoRow
    /\ rows[d] = NoRow
    /\ rows' = [rows EXCEPT ![d] = request[u]]
    /\ request' = [request EXCEPT ![u] = NoRow]
    /\ UNCHANGED <<settings, joined, users, docs, offers, composer, granted,
                   posts, changes>>

-----------------------------------------------------------------------------
(* The worker *)

\* _pdf_payload: the snapshot is private, attached and has its checksum.
PdfPayload(d, which) == which \in rows[d].files

\* send_delivery
SendDelivery(to, row) == posts' = posts \cup {[to |-> to, row |-> row]}

\* process_outbound_message for the primary; only the transport being enabled
\* and the PDF are checked again.
SendPrimary(d) ==
    /\ rows[d] # NoRow
    /\ rows[d].primary = "queued"
    /\ settings.on
    /\ PdfPayload(d, "primary")
    /\ SendDelivery(NoGroup, [rows[d] EXCEPT !.pdf = "primary" \in rows[d].files])
    /\ rows' = [rows EXCEPT ![d].primary = "submitted"]
    /\ UNCHANGED <<settings, joined, users, docs, offers, composer, request,
                   granted, changes>>

\* The source can still be sent, with the same company and version.
ValidateSource(r) ==
    IF r.source \in Docs
    THEN /\ ValidateDocument(r.owner, r.source)
         /\ docs[r.source].company = r.company /\ docs[r.source].version = r.version
         /\ ValidatePrintFormat(r.source)
    ELSE /\ ValidateReport(r.owner, r.source)
         /\ ReportCompany[r.source] = r.company

\* validate_copy: the original sender, the configuration and the source.
ValidateCopyM(d) ==
    LET r == rows[d]
    IN  /\ ~CopyRefused(r.owner, r.company)
        /\ ConfiguredGroup(r.company) = r.group
        /\ ValidateSource(r)
ValidateCopy(d) ==
    LET r == rows[d]
    IN  /\ r.primary = "submitted"
        /\ users[r.owner].enabled
        /\ RequireSender(r.owner)
        /\ ~CopyRefused(r.owner, r.company)
        /\ ConfiguredGroup(r.company) = r.group
        /\ ValidateSource(r)

\* What the sender could do by hand at this moment: open the same version of
\* the source, as an enabled user with the permissions for it, and send it to a
\* company whose rule names this group, of a site linked to a device.
MayBeCopied(d) ==
    LET r == rows[d]
        u == users[r.owner]
    IN  /\ u.enabled /\ u.role # "other"
        /\ r.source \in u.sources /\ r.company \in u.companies
        /\ r.source \in Docs =>
               /\ docs[r.source] =
                     [company |-> r.company, version |-> r.version, fit |-> TRUE]
               /\ r.source \in offers.formats
        /\ settings = [settings EXCEPT !.on = TRUE, !.provider = "Linked Device",
               !.rules[r.company] = [on |-> TRUE, group |-> r.group]]

\* An attempt of the copy passes its checks, all on the snapshot of its start.
\* One that fails them changes nothing here and may be tried again.
StartCopy(d) ==
    /\ rows[d].copy = "waiting"
    /\ settings.on
    /\ ValidateCopy(d)
    /\ PdfPayload(d, "copy")
    /\ rows' = [rows EXCEPT ![d].copy = "trying", ![d].allowed = MayBeCopied(d),
                            ![d].pdf = "copy" \in rows[d].files]
    /\ UNCHANGED <<settings, joined, users, docs, offers, composer, request,
                   granted, posts, changes>>

PostCopy(d) ==
    /\ rows[d].copy = "trying"
    /\ SendDelivery(rows[d].group, rows[d])
    /\ rows' = [rows EXCEPT ![d].copy = "posted"]
    /\ UNCHANGED <<settings, joined, users, docs, offers, composer, request,
                   granted, changes>>

\* The gateway refuses, or the attempt is lost.
CopyFails(d) ==
    /\ rows[d].copy = "trying"
    /\ rows' = [rows EXCEPT ![d].copy = "waiting"]
    /\ UNCHANGED <<settings, joined, users, docs, offers, composer, request,
                   granted, posts, changes>>

-----------------------------------------------------------------------------
(* The rest of the site *)

\* A document is saved: its time stamp moves on.
EditDocument(x, c, fit) ==
    /\ Change
    /\ docs' = [docs EXCEPT ![x] = [company |-> c, version |-> @.version + 1, fit |-> fit]]
    /\ UNCHANGED <<settings, joined, users, offers, composer, request, rows,
                   granted, posts>>

\* A user is disabled, or gains or loses the role or a permission.
ChangeUser(u, new) ==
    /\ Change
    /\ new # users[u]
    /\ users' = [users EXCEPT ![u] = new]
    /\ UNCHANGED <<settings, joined, docs, offers, composer, request, rows,
                   granted, posts>>
OneRightChanged(old) ==
    {[old EXCEPT !.enabled = ~@], [old EXCEPT !.role = "other"],
     [old EXCEPT !.role = "sender"]}
        \cup {[old EXCEPT !.companies = (@ \ {c}) \cup ({c} \ @)] : c \in Companies}
        \cup {[old EXCEPT !.sources = (@ \ {x}) \cup ({x} \ @)] : x \in Sources}

\* The account leaves or joins a group; a customer's number, a print
\* format or a template is changed.
ChangeMembership(g) ==
    /\ Change
    /\ joined' = (joined \ {g}) \cup ({g} \ joined)
    /\ UNCHANGED <<settings, users, docs, offers, composer, request, rows,
                   granted, posts>>
ChangeOffers(new) ==
    /\ Change
    /\ offers' = new
    /\ UNCHANGED <<settings, joined, users, docs, composer, request, rows,
                   granted, posts>>
OneOfferChanged(old) ==
    {[old EXCEPT !.numbers = (@ \ {x}) \cup ({x} \ @)] : x \in Sources}
        \cup {[old EXCEPT !.formats = (@ \ {x}) \cup ({x} \ @)] : x \in Docs}
        \cup {[old EXCEPT !.templates = (@ \ {x}) \cup ({x} \ @)] : x \in Sources}

\* A stored PDF is replaced, detached or made public.
SpoilFiles(d, which) ==
    /\ Change
    /\ rows[d] # NoRow
    /\ rows' = [rows EXCEPT ![d].files = @ \ which]
    /\ UNCHANGED <<settings, joined, users, docs, offers, composer, request,
                   granted, posts>>

GroupsNext ==
    \/ \E u \in Users, new \in Settings : SaveSettings(u, new)
    \/ \E u \in Users : ConfigureOfficialApi(u)
    \/ \E u \in Users, x \in Docs : PrepareDocument(u, x) \/ QueueDocument(u, x)
    \/ \E u \in Users, x \in Reports : PrepareReport(u, x) \/ QueueReport(u, x)
    \/ \E u \in Users, d \in Deliveries : StoreDelivery(u, d)
    \/ \E d \in Deliveries :
          SendPrimary(d) \/ StartCopy(d) \/ PostCopy(d) \/ CopyFails(d)
    \/ \E d \in Deliveries, which \in SUBSET {"primary", "copy"} : SpoilFiles(d, which)
    \/ \E x \in Docs, c \in Companies, fit \in BOOLEAN : EditDocument(x, c, fit)
    \/ \E u \in Users : \E new \in OneRightChanged(users[u]) : ChangeUser(u, new)
    \/ \E g \in Groups : ChangeMembership(g)
    \/ \E new \in OneOfferChanged(offers) : ChangeOffers(new)

GroupsSpec == GroupsInit /\ [][GroupsNext]_groupVars

-----------------------------------------------------------------------------
(* Properties *)

\* Every variable has its type.
CompanyGroupsTypeOK ==
    /\ settings \in Settings
    /\ joined \subseteq Groups
    /\ users \in [Users -> User]
    /\ docs \in [Docs -> Doc]
    /\ offers \in Offers
    /\ composer \in [Users -> [source : Sources, version : Versions] \cup {Closed}]
    /\ request \in [Users -> Row \cup {NoRow}]
    /\ rows \in [Deliveries -> Row \cup {NoRow}]
    /\ granted \subseteq Companies \X Groups
    /\ changes \in 0 .. MaxChanges

\* Whatever sequence of saves the managers make, through the form or by
\* configuring the Official API, no group rule is enabled while the provider
\* cannot post to groups (validate_settings).
RulesNeedLinkedDevice ==
    (\E c \in Companies : settings.rules[c].on) => settings.provider = "Linked Device"

\* What is sent of a document, to the customer or to the group, is the version
\* its sender saw in the composer, though the document and the stored files change
\* between preview, queueing, rendering and sending; reports have no version.
SentAsShown ==
    \A p \in posts : p.row.version = p.row.shown /\ p.row.pdf

\* A group only receives what belongs to a company for which somebody permitted
\* to do so has named that group, whatever rules, documents and permissions
\* change between the request, its commit and the post.
GroupOfTheCompany ==
    \A p \in posts : p.to # NoGroup => <<p.row.company, p.to>> \in granted

\* A copy is posted only if, when its attempt began, its sender could still have
\* sent it: a role, a permission, the rule, the provider or the document that
\* changed after queueing stops it (validate_copy).
CopyHonoursRevocation ==
    \A p \in posts : p.to # NoGroup => p.row.allowed

-----------------------------------------------------------------------------
(* The inductive invariant: enabled rules are granted, and so is the group of *)
(* every delivery that is queued or about to be.                              *)

RulesGranted ==
    \A c \in Companies :
        settings.rules[c].on => <<c, settings.rules[c].group>> \in granted
RowSound(r) ==
    /\ r.version = r.shown
    /\ r.group # NoGroup => <<r.company, r.group>> \in granted
    /\ r.copy = "waiting" => r.group # NoGroup
    /\ r.copy = "trying" => r.group # NoGroup /\ r.allowed /\ r.pdf
ComposerSound ==
    \A u \in Users : composer[u].source \in Reports => composer[u].version = 0
RowsSound ==
    /\ \A u \in Users : request[u] # NoRow => RowSound(request[u])
    /\ \A d \in Deliveries : rows[d] # NoRow => RowSound(rows[d])

\* The inductive invariant of the group copies.
GroupsInv ==
    /\ CompanyGroupsTypeOK
    /\ RulesNeedLinkedDevice
    /\ RulesGranted
    /\ ComposerSound
    /\ RowsSound
    /\ SentAsShown
    /\ GroupOfTheCompany
    /\ CopyHonoursRevocation
=============================================================================
