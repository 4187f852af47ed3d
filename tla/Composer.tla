------------------------------ MODULE Composer ------------------------------
(***************************************************************************)
(* The composer: which numbers, print formats and templates it offers for  *)
(* a document or a report, what the queue request accepts of them, and     *)
(* what the gateway makes of the number (api.py, adapters.py,              *)
(* send_by_whatsapp.js, core.mjs).  The offer and the checks are made by   *)
(* different functions, and everything they read changes in between.       *)
(*                                                                         *)
(* What a request reads is one snapshot, so a request is one step here;    *)
(* the commit that comes after the rendering is in CompanyGroups, and so   *)
(* are the rights of users, the source's version and the group copy.  The  *)
(* text of the message, which the sender may edit, is left out, and so is  *)
(* the switch that disables sending altogether.                            *)
(***************************************************************************)
EXTENDS MessageTemplates, Sequences

CONSTANTS
    Senders,
    Customers,
    Sources, OwnerOf,    \* phone fields; whose Customer, Contact or Address
    Raws, NoNumber,      \* what the fields may hold: strings of characters
    MinDigits, MaxDigits,
    Formats,             \* print formats besides Standard
    DocCompany, DocCustomer,   \* document type -> of the one document sent
    Filters,             \* the filters a report may be opened with
    Native,              \* report -> the form of customer filter it reads
    External,            \* registries of report adapters an app may provide
    NotADict,            \* ... and what a broken one returns
    MaxRows

Shapes == {"list", "string"}

\* A report adapter: customer_filter_type (none: it was left out), whether it
\* demands the party type, whether it names a company filter, and whether it
\* brings its own PDF renderer.
Adapter == [shape : Shapes \cup {"none", "other"}, party_type : BOOLEAN,
            company : BOOLEAN, renderer : BOOLEAN]
Registry == UNION {[R -> Adapter] : R \in SUBSET Reports}

\* The customer filter: a list or a string (no name: the empty string).
Filter == [party_type : {"Customer", "Supplier"}, list : BOOLEAN,
           party : Seq(Customers), company : Companies \cup {Blank}]

ASSUME ComposerAssumption ==
    /\ OwnerOf \in [Sources -> Customers]
    /\ NoNumber \notin Raws /\ Raws \subseteq Seq(STRING)
    /\ MinDigits \in Nat /\ MaxDigits \in Nat /\ 1 < MinDigits
    /\ DocCompany \in [Doctypes -> Companies]
    /\ DocCustomer \in [Doctypes -> Customers]
    /\ Native \in [Reports -> Shapes]
    /\ Filters \subseteq Filter
    /\ External \ {NotADict} \subseteq Registry
    /\ MaxRows \in Nat

VARIABLES
    book,        \* source -> what its field holds
    readable,    \* sources the sender may read
    formats,     \* print formats that are not disabled
    hooks,       \* external adapter registries, in the order of installation
    size,        \* report -> number of its rows
    composer,    \* sender -> what the open dialog shows
    queued       \* history: the last delivery stored

siteVars == <<book, readable, formats, hooks, size>>
composerVars == <<templateVars, siteVars, composer, queued>>

-----------------------------------------------------------------------------
(* Numbers: _normalize_number and normalizeInternationalNumber *)

Separators == {" ", "(", ")", "+", ".", "-"}
Ascii == {"0", "1", "2"}          \* stand for the digits 0 to 9
Digits == Ascii \cup {"u"}        \* \d of Python matches digits of any script

\* The characters that are no separators, in their order.
Compact(s) ==
    LET kept == {i \in 1 .. Len(s) : s[i] \notin Separators}
        At(k) == CHOOSE i \in kept : Cardinality({j \in kept : j <= i}) = k
    IN  [k \in 1 .. Cardinality(kept) |-> s[At(k)]]
DropPrefix(s) ==
    IF Len(s) > 1 /\ s[1] = "0" /\ s[2] = "0" THEN SubSeq(s, 3, Len(s)) ELSE s
AllIn(s, S) == \A i \in 1 .. Len(s) : s[i] \in S

NormalizeM(value) ==
    LET digits == Compact(value)
    IN  IF Len(digits) \in MinDigits .. MaxDigits /\ AllIn(digits, Digits)
           THEN <<"+">> \o digits ELSE NoNumber
Normalize(value) ==
    LET digits == DropPrefix(Compact(value))
    IN  IF /\ Len(digits) \in MinDigits .. MaxDigits
           /\ digits[1] \in Ascii \ {"0"} /\ AllIn(digits, Digits)
           THEN <<"+">> \o digits ELSE NoNumber

NormalizeInternational(value) ==
    LET digits == DropPrefix(Compact(value))
    IN  IF /\ Len(digits) \in MinDigits .. MaxDigits
           /\ AllIn(digits, Ascii) /\ digits[1] # "0"
           THEN digits ELSE NoNumber

\* _customer_numbers: the valid numbers in the fields the sender may read.
CustomerNumbersM(c) ==
    {Normalize(book[s]) : s \in {x \in Sources :
        OwnerOf[x] = c /\ x \in readable /\ book[x] # NoNumber}}
CustomerNumbers(c) ==
    {Normalize(book[s]) : s \in {x \in Sources :
        OwnerOf[x] = c /\ x \in readable /\ book[x] # NoNumber}} \ {NoNumber}

-----------------------------------------------------------------------------
(* Adapters: the built-in registry, overlaid by the apps in their order *)

\* The built-in adapters request the form their reports read, and a company;
\* those that read a list demand the party type too.
BuiltIn(r) == [shape |-> Native[r], party_type |-> Native[r] = "list",
               company |-> TRUE, renderer |-> FALSE]

RegistryBroken == \E i \in 1 .. Len(hooks) : hooks[i] = NotADict
ReportAdapter(r) ==
    LET by == {i \in 1 .. Len(hooks) : r \in DOMAIN hooks[i]}
    IN  IF by = {} THEN BuiltIn(r)
        ELSE hooks[CHOOSE i \in by : \A j \in by : j <= i][r]

-----------------------------------------------------------------------------
(* What is offered *)

Target(row) == IF row.reference_type = "Document" THEN row.document_type ELSE row.report_name
TypeOf(t) == IF t \in Doctypes THEN "Document" ELSE "Report"

\* _template_rows: enabled, for the target, of no or the same company; Blank
\* stands for the adapter's message, offered when there is no such row.
TemplateRows(t, company) ==
    LET rows == {n \in Names :
          /\ templates[n] # NoTemplate /\ templates[n].enabled
          /\ templates[n].reference_type = TypeOf(t) /\ Target(templates[n]) = t
          /\ templates[n].company \in {Blank, company}}
    IN  IF rows = {} THEN {Blank} ELSE rows

PrintFormats == {"Standard"} \cup formats

\* _validate_report: exactly one customer, of the party type the adapter
\* demands, and a company if the adapter names a filter for it; the customer
\* filter gets the form of the adapter, or keeps its own if there is none.
OneCustomer(f) == Len(f.party) = 1
ReportAllowed(r, f) ==
    /\ ~RegistryBroken
    /\ ReportAdapter(r).shape # "other"
    /\ ReportAdapter(r).party_type => f.party_type = "Customer"
    /\ OneCustomer(f)
    /\ ReportAdapter(r).company => f.company # Blank
ReshapedM(r, f) == f
Reshaped(r, f) ==
    CASE ReportAdapter(r).shape = "list"   -> [f EXCEPT !.list = TRUE]
      [] ReportAdapter(r).shape = "string" -> [f EXCEPT !.list = FALSE]
      [] OTHER                             -> f

\* External: a report lists the customers of its filter if the filter has the
\* form it reads, and anybody's rows if it has not.
Listed(r, f) ==
    IF f.list = (Native[r] = "list") THEN {f.party[i] : i \in 1 .. Len(f.party)}
                                     ELSE Customers

\* _report_pdf: an app's renderer, or the rows of the report as a table.
ReportPdf(r, f) ==
    IF ReportAdapter(r).renderer THEN {f.party[i] : i \in 1 .. Len(f.party)}
                                 ELSE Listed(r, f)
RendersReport(r) == ReportAdapter(r).renderer \/ size[r] <= MaxRows

\* The source of a dialog: a document, or a report with its filters.
DocSource(t) == [target |-> t, filters |-> Blank, customer |-> DocCustomer[t]]
ReportSource(r, f) == [target |-> r, filters |-> f, customer |-> f.party[1]]

\* The company of a report is the one its adapter finds in the filters.
CompanyOf(src) ==
    CASE src.target \in Doctypes            -> DocCompany[src.target]
      [] ReportAdapter(src.target).company  -> src.filters.company
      [] OTHER                              -> Blank
AdapterOf(src) == IF src.target \in Doctypes THEN Blank ELSE ReportAdapter(src.target)
FormatsFor(src) == IF src.target \in Doctypes THEN PrintFormats ELSE {Blank}
Renders(src) == src.target \in Reports => RendersReport(src.target)
Pdf(src) == IF src.target \in Doctypes THEN {src.customer}
            ELSE ReportPdf(src.target, Reshaped(src.target, src.filters))
Allowed(src) == src.target \in Reports => ReportAllowed(src.target, src.filters)

Closed == [source |-> Blank]
Nothing == [source |-> Blank]

\* Whose number it is, by the fields alone.
Holders(number) ==
    {OwnerOf[s] : s \in {x \in Sources : book[x] # NoNumber /\ Normalize(book[x]) = number}}

\* require_sender: the sender's role comes with the installation.
Prepare(u, src) ==
    /\ roles
    /\ composer[u] = Closed
    /\ Allowed(src)
    /\ CustomerNumbers(src.customer) # {}      \* else the dialog is not shown
    /\ composer' = [composer EXCEPT ![u] =
         [source |-> src, numbers |-> CustomerNumbers(src.customer),
          formats |-> FormatsFor(src),
          templates |-> TemplateRows(src.target, CompanyOf(src)),
          previewed |-> FALSE, at |-> changes]]
    /\ UNCHANGED <<templateVars, siteVars, queued>>

PrepareDocument(u, t) == Prepare(u, DocSource(t))
PrepareReport(u, r, f) == OneCustomer(f) /\ Prepare(u, ReportSource(r, f))

\* The rendered PDF is opened in a window of its own.
Previewed(u) ==
    /\ composer' = [composer EXCEPT ![u].previewed = (composer[u].at = changes)]
    /\ UNCHANGED <<templateVars, siteVars, queued>>

PreviewDocumentPdf(u, format) ==
    /\ composer[u] # Closed /\ ~composer[u].previewed
    /\ composer[u].source.target \in Doctypes
    /\ format \in PrintFormats
    /\ Previewed(u)

PreviewReportPdf(u) ==
    /\ composer[u] # Closed /\ ~composer[u].previewed
    /\ composer[u].source.target \in Reports
    /\ Allowed(composer[u].source)
    /\ Renders(composer[u].source)
    /\ Previewed(u)

Close(u) ==
    /\ composer[u] # Closed
    /\ composer' = [composer EXCEPT ![u] = Closed]
    /\ UNCHANGED <<templateVars, siteVars, queued>>

-----------------------------------------------------------------------------
(* What is accepted: queue_document, queue_report *)

TemplateAcceptedM(t, company, n) ==
    n # Blank => /\ templates[n] # NoTemplate /\ templates[n].enabled
                 /\ templates[n].reference_type = TypeOf(t)
                 /\ Target(templates[n]) = t
                 /\ templates[n].company = company
TemplateAccepted(t, company, n) ==
    n # Blank => /\ templates[n] # NoTemplate /\ templates[n].enabled
                 /\ templates[n].reference_type = TypeOf(t)
                 /\ Target(templates[n]) = t
                 /\ templates[n].company # Blank => templates[n].company = company

Accepts(src, number, format, n) ==
    /\ roles
    /\ Allowed(src)
    /\ Normalize(number) \in CustomerNumbers(src.customer)
    /\ format \in FormatsFor(src)
    /\ TemplateAccepted(src.target, CompanyOf(src), n)
    /\ Renders(src)

\* A request that is refused changes nothing and leaves the dialog open.
Queue(u, number, format, n) ==
    LET src == composer[u].source
    IN  /\ composer[u] # Closed
        /\ Accepts(src, number, format, n)
        /\ queued' = [source |-> src, adapter |-> AdapterOf(src),
                      number |-> Normalize(number), pdf |-> Pdf(src),
                      holders |-> Holders(Normalize(number))]
        /\ composer' = [composer EXCEPT ![u] = Closed]
        /\ UNCHANGED <<templateVars, siteVars>>

-----------------------------------------------------------------------------
(* The site's data changes *)

SiteChange == Change /\ UNCHANGED <<templates, saving, migration, seeds, roles, raced,
                                    composer, queued>>

EditNumber(s, raw) ==
    /\ SiteChange
    /\ book[s] # raw
    /\ book' = [book EXCEPT ![s] = raw]
    /\ UNCHANGED <<readable, formats, hooks, size>>

ChangeAccess(s) ==
    /\ SiteChange
    /\ readable' = IF s \in readable THEN readable \ {s} ELSE readable \cup {s}
    /\ UNCHANGED <<book, formats, hooks, size>>

ChangeFormat(p) ==
    /\ SiteChange
    /\ formats' = IF p \in formats THEN formats \ {p} ELSE formats \cup {p}
    /\ UNCHANGED <<book, readable, hooks, size>>

InstallApp(registry) ==
    /\ SiteChange
    /\ hooks' = Append(hooks, registry)
    /\ UNCHANGED <<book, readable, formats, size>>

ReportGrows(r) ==
    /\ SiteChange
    /\ size[r] <= MaxRows
    /\ size' = [size EXCEPT ![r] = @ + 1]
    /\ UNCHANGED <<book, readable, formats, hooks>>

-----------------------------------------------------------------------------
ComposerInit ==
    /\ TemplatesInit
    /\ book = [s \in Sources |-> NoNumber]
    /\ readable = Sources
    /\ formats = Formats
    /\ hooks = <<>>
    /\ size = [r \in Reports |-> MaxRows]
    /\ composer = [u \in Senders |-> Closed]
    /\ queued = Nothing

ComposerNext ==
    \/ TemplatesNext /\ UNCHANGED <<siteVars, composer, queued>>
    \/ \E u \in Senders :
         \/ \E t \in Doctypes : PrepareDocument(u, t)
         \/ \E r \in Reports, f \in Filters : PrepareReport(u, r, f)
         \/ PreviewReportPdf(u)
         \/ Close(u)
         \/ /\ composer[u] # Closed
            /\ \E format \in composer[u].formats :
                 \/ PreviewDocumentPdf(u, format)
                 \/ \E number \in composer[u].numbers, n \in composer[u].templates :
                       Queue(u, number, format, n)
    \/ \E s \in Sources, raw \in Raws \cup {NoNumber} : EditNumber(s, raw)
    \/ \E s \in Sources : ChangeAccess(s)
    \/ \E p \in Formats : ChangeFormat(p)
    \/ \E registry \in External : InstallApp(registry)
    \/ \E r \in Reports : ReportGrows(r)

ComposerSpec == ComposerInit /\ [][ComposerNext]_composerVars

-----------------------------------------------------------------------------
(* Properties *)

Source == [target : Targets, filters : Filters \cup {Blank}, customer : Customers]

\* Types of the templates, the site's data, open dialogs and the last delivery; no dialog
\* is open without a number, a format and a message to choose.
ComposerTypeOK ==
    /\ TemplatesTypeOK
    /\ book \in [Sources -> Raws \cup {NoNumber}]
    /\ readable \subseteq Sources /\ formats \subseteq Formats
    /\ \A i \in 1 .. Len(hooks) : hooks[i] \in External
    /\ size \in [Reports -> Nat]
    /\ \A u \in Senders : composer[u] # Closed =>
          /\ composer[u].source \in Source
          /\ {} \notin {composer[u].numbers, composer[u].formats, composer[u].templates}
          /\ composer[u].templates \subseteq Names \cup {Blank}
          /\ NoNumber \notin composer[u].numbers
          /\ composer[u].at \in 0 .. changes
    /\ queued # Nothing => queued.source \in Source /\ queued.pdf \subseteq Customers

\* What the dialog offers, the queue request accepts: once the preview was
\* rendered and while nothing changes, every choice of number, print format and
\* template passes checks that other functions make (_template_rows against
\* _validate_selected_template, numbers that are normalised a second time).
OfferAccepted ==
    \A u \in Senders :
       LET c == composer[u]
       IN  c # Closed /\ c.previewed /\ c.at = changes =>
              \A number \in c.numbers, format \in c.formats, n \in c.templates :
                 Accepts(c.source, number, format, n)

\* A number the site has accepted is accepted by the gateway and dialled as it
\* is, unless it has digits of another script, which only Python's \d matches.
NumberReachesGateway ==
    queued # Nothing =>
       LET digits == Tail(queued.number)
       IN  AllIn(digits, Ascii) => NormalizeInternational(queued.number) = digits

\* An app's adapter may ask for a form of the customer filter that its report
\* does not read, or for none, so that the filter stays as it came; then, unless
\* the app renders the PDF, the report shows what it makes of such a filter.  The
\* built-in adapters ask for the form the report reads.
FormMissed(q) ==
    LET r == q.source.target
        kept == IF q.source.filters.list THEN "list" ELSE "string"
    IN  /\ r \in Reports /\ ~q.adapter.renderer
        /\ Native[r] # IF q.adapter.shape = "none" THEN kept ELSE q.adapter.shape

\* Whatever was changed, withdrawn, reassigned or installed while the dialog was
\* open, a delivery goes to a number its customer has when it is queued, and its
\* PDF shows this customer and nobody else: in every case under the built-in
\* adapters, and under an app's adapter unless it misses the form its report reads.
PdfOfTheRecipient ==
    queued # Nothing =>
       /\ queued.source.customer \in queued.holders
       /\ queued.pdf = {queued.source.customer} \/ FormMissed(queued)

=============================================================================
