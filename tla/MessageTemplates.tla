-------------------------- MODULE MessageTemplates --------------------------
(***************************************************************************)
(* The message templates of a site: managers save and delete them, and     *)
(* installing or migrating the app seeds a default one for every built-in  *)
(* document type and report (erpnext_whatsapp_message_template.py,         *)
(* install.py, acceptance.py).                                             *)
(*                                                                         *)
(* A save is one transaction.  It locks its row, validates what it sees in *)
(* the snapshot of its start, and commits later; a migration does the same *)
(* for all the rows it inserts, and is rolled back as a whole.  A field    *)
(* left empty is Blank, which the database compares like any other value.  *)
(***************************************************************************)
EXTENDS Naturals, FiniteSets

CONSTANTS
    Doctypes, Reports,   \* targets of DEFAULT_DOCUMENT_ADAPTERS, DEFAULT_REPORT_ADAPTERS
    Companies, Blank,
    Names, NoTemplate,
    SeedName,            \* target -> "Default <target>"
    Editors,             \* managers with the form open
    Forms,               \* what they save, under which name
    MaxChanges           \* bound: changes of the site's data

Targets == Doctypes \cup Reports

\* A row of the DocType: the target is in the field its reference type reads.
Template ==
    [enabled : BOOLEAN, is_default : BOOLEAN,
     reference_type : {"Document", "Report"},
     document_type : Doctypes \cup {Blank}, report_name : Reports \cup {Blank},
     company : Companies \cup {Blank}]

ASSUME TemplatesAssumption ==
    /\ Doctypes \cap Reports = {}
    /\ Blank \notin Targets \cup Companies
    /\ NoTemplate \notin Template
    /\ SeedName \in [Targets -> Names]
    /\ \A s, t \in Targets : SeedName[s] = SeedName[t] => s = t
    /\ Forms \subseteq [name : Names, row : Template]
    /\ MaxChanges \in Nat

VARIABLES
    templates,   \* name -> row, NoTemplate if there is none
    saving,      \* editor -> the row its running request will commit
    migration,   \* "idle", "seeding", "done", "aborted"
    seeds,       \* targets the running migration inserts a row for
    roles,       \* are the app's two roles there?
    raced,       \* history: pairs of names whose saves overlapped
    changes      \* changes so far

templateVars == <<templates, saving, migration, seeds, roles, raced, changes>>

Idle == [name |-> NoTemplate, row |-> NoTemplate]

TemplatesInit ==
    /\ templates = [n \in Names |-> NoTemplate]
    /\ saving = [e \in Editors |-> Idle]
    /\ migration = "idle"
    /\ seeds = {}
    /\ roles = FALSE
    /\ raced = {}
    /\ changes = 0

\* The bound; a transaction that could not commit any more is not begun.
Room == changes + Cardinality({e \in Editors : saving[e] # Idle})
          + (IF migration = "seeding" THEN 1 ELSE 0) < MaxChanges
Change == changes < MaxChanges /\ changes' = changes + 1

\* Names whose rows are locked by a transaction that has not committed.
Locked == {saving[e].name : e \in Editors} \cup {SeedName[t] : t \in seeds}

\* Every pair of a name that starts to be written and one already under way.
Overlaps(ns) == {{n, m} : n \in ns, m \in Locked \cap Names}

-----------------------------------------------------------------------------
(* validate of the template *)

TargetNamed(row) ==
    IF row.reference_type = "Document" THEN row.document_type # Blank
                                       ELSE row.report_name # Blank

\* The target field of the other reference type is cleared.
Cleared(row) ==
    IF row.reference_type = "Document" THEN [row EXCEPT !.report_name = Blank]
                                       ELSE [row EXCEPT !.document_type = Blank]

\* Rows that are defaults for the same target and company.
Rivals(r, s) ==
    /\ r # NoTemplate /\ s # NoTemplate
    /\ r.enabled /\ r.is_default /\ s.enabled /\ s.is_default
    /\ r.reference_type = s.reference_type
    /\ r.document_type = s.document_type /\ r.report_name = s.report_name
    /\ r.company = s.company

OtherDefaultM(n, row) ==
    /\ templates[n] = NoTemplate
    /\ \E m \in Names \ {n} : Rivals(row, templates[m])
OtherDefault(n, row) == \E m \in Names \ {n} : Rivals(row, templates[m])

Validate(n, row) == TargetNamed(row) /\ ~OtherDefault(n, Cleared(row))

-----------------------------------------------------------------------------
(* Saving and deleting *)

BeginSave(e, form) ==
    /\ saving[e] = Idle /\ Room
    /\ form.name \notin Locked
    /\ Validate(form.name, form.row)
    /\ saving' = [saving EXCEPT ![e] = [form EXCEPT !.row = Cleared(@)]]
    /\ raced' = raced \cup Overlaps({form.name})
    /\ UNCHANGED <<templates, migration, seeds, roles, changes>>

CommitSave(e) ==
    /\ saving[e] # Idle
    /\ Change
    /\ templates' = [templates EXCEPT ![saving[e].name] = saving[e].row]
    /\ saving' = [saving EXCEPT ![e] = Idle]
    /\ UNCHANGED <<migration, seeds, roles, raced>>

\* The request fails after validate and is rolled back.
RollBackSave(e) ==
    /\ saving[e] # Idle
    /\ saving' = [saving EXCEPT ![e] = Idle]
    /\ UNCHANGED <<templates, migration, seeds, roles, raced, changes>>

DeleteTemplate(n) ==
    /\ templates[n] # NoTemplate /\ n \notin Locked
    /\ Change
    /\ templates' = [templates EXCEPT ![n] = NoTemplate]
    /\ UNCHANGED <<saving, migration, seeds, roles, raced>>

-----------------------------------------------------------------------------
(* after_install, after_migrate: _ensure_roles, _ensure_default_templates *)

Seed(t) ==
    [enabled |-> TRUE, is_default |-> TRUE, company |-> Blank,
     reference_type |-> IF t \in Doctypes THEN "Document" ELSE "Report",
     document_type |-> IF t \in Doctypes THEN t ELSE Blank,
     report_name |-> IF t \in Reports THEN t ELSE Blank]

\* A target is seeded unless a row has its seeded name, whatever it holds.
MissingM == Targets
Missing == {t \in Targets : templates[SeedName[t]] = NoTemplate}

\* The inserts run one after the other; one that validate refuses, because a
\* manager's own default has the target, ends the whole migration.
BeginMigration ==
    /\ migration # "seeding"
    /\ \A t \in Missing : SeedName[t] \notin Locked
    /\ IF \A t \in Missing : Validate(SeedName[t], Seed(t))
          THEN /\ Room
               /\ migration' = "seeding"
               /\ seeds' = Missing
               /\ raced' = raced \cup Overlaps({SeedName[t] : t \in Missing})
          ELSE migration' = "aborted" /\ UNCHANGED <<seeds, raced>>
    /\ UNCHANGED <<templates, saving, roles, changes>>

CommitMigration ==
    /\ migration = "seeding"
    /\ Change
    /\ templates' = [n \in Names |->
         IF \E t \in seeds : SeedName[t] = n
            THEN Seed(CHOOSE t \in seeds : SeedName[t] = n) ELSE templates[n]]
    /\ roles' = TRUE
    /\ migration' = "done"
    /\ seeds' = {}
    /\ UNCHANGED <<saving, raced>>

\* An installed site, for the property below (validate_installation of
\* acceptance.py looks for one of the document types only).
Installed == roles /\ \A t \in Doctypes : templates[SeedName[t]] # NoTemplate

TemplatesNext ==
    \/ \E e \in Editors, form \in Forms : BeginSave(e, form)
    \/ \E e \in Editors : CommitSave(e) \/ RollBackSave(e)
    \/ \E n \in Names : DeleteTemplate(n)
    \/ BeginMigration
    \/ CommitMigration

-----------------------------------------------------------------------------
(* Properties *)

\* Every stored template names one target, in the field of its reference type.
TemplatesTypeOK ==
    /\ templates \in [Names -> Template \cup {NoTemplate}]
    /\ \A n \in Names : templates[n] # NoTemplate =>
          /\ TargetNamed(templates[n])
          /\ Blank \in {templates[n].document_type, templates[n].report_name}
    /\ saving \in [Editors -> {Idle} \cup [name : Names, row : Template]]
    /\ migration \in {"idle", "seeding", "done", "aborted"}
    /\ seeds \subseteq Targets /\ (migration # "seeding" => seeds = {})
    /\ roles \in BOOLEAN
    /\ raced \subseteq SUBSET Names
    /\ changes \in 0 .. MaxChanges

\* "Only one default template is allowed for this target and company": through
\* saves, re-enabling, retargeting, deletion and seeding, two enabled defaults
\* share a target and a company only if their transactions overlapped.
OneDefault ==
    \A n, m \in Names : n # m /\ Rivals(templates[n], templates[m]) => {n, m} \in raced

\* A migration, finished or aborted, keeps every template the site has, edits
\* committed while it ran included; one that finishes leaves the site installed,
\* but for templates deleted since it began.
MigrationOnlyAdds ==
    [][migration' # migration =>
         /\ \A n \in Names : templates[n] # NoTemplate => templates'[n] = templates[n]
         /\ migration' = "done" =>
               Installed' \/ \E t \in Doctypes : t \notin seeds /\ t \in Missing
      ]_templateVars

=============================================================================
