---------------------------- MODULE ComposerProofs ----------------------------
(***************************************************************************)
(* For any templates, targets, companies and editors: two defaults share a *)
(* target only if their transactions overlapped, and a migration only adds *)
(* templates.  For any numbers, filters, adapters and reports: a PDF goes  *)
(* to the customer it shows, what a dialog offers is accepted, and the two *)
(* normalisations of a number agree.                                       *)
(***************************************************************************)
EXTENDS Composer, FiniteSetTheorems, SequenceTheorems, TLAPS

PendingName(e, n) == saving[e] # Idle /\ saving[e].name = n

\* Types, as far as the argument needs them.
Shape ==
    /\ templates \in [Names -> Template \cup {NoTemplate}]
    /\ saving \in [Editors -> {Idle} \cup [name : Names, row : Template]]
    /\ seeds \subseteq Targets

\* A migration holds the locks of the rows it inserts, so they stay missing.
SeedsMissing ==
    \A t \in seeds :
       /\ templates[SeedName[t]] = NoTemplate
       /\ \A e \in Editors : saving[e] # Idle => saving[e].name # SeedName[t]

\* What two transactions under way will leave behind, and what one of them will
\* leave beside the rows that are committed: rivals are in raced already.
PendingSaves ==
    \A e \in Editors, m \in Names :
       saving[e] # Idle /\ m # saving[e].name =>
          /\ Rivals(saving[e].row, templates[m]) => {saving[e].name, m} \in raced
          /\ \A f \in Editors : saving[f] # Idle /\ saving[f].name = m =>
                {saving[e].name, m} \in raced
          /\ \A t \in seeds : SeedName[t] = m => {saving[e].name, m} \in raced
PendingSeeds ==
    \A t \in seeds, m \in Names :
       m # SeedName[t] /\ Rivals(Seed(t), templates[m]) => {SeedName[t], m} \in raced

DefaultsInv == Shape /\ SeedsMissing /\ PendingSaves /\ PendingSeeds /\ OneDefault

-----------------------------------------------------------------------------
\* The order of two rows does not matter.
LEMMA RivalsSymmetric == \A r, s : Rivals(r, s) => Rivals(s, r)
  BY DEF Rivals

\* An absent row is nobody's rival.
LEMMA NoRivalOfNothing == \A r : ~Rivals(r, NoTemplate)
  BY DEF Rivals

\* Seeded rows are templates, validate leaves them as they are, and two of them
\* are no rivals: each has a target of its own.
LEMMA SeedsDiffer ==
  /\ \A t \in Targets : Seed(t) \in Template /\ Cleared(Seed(t)) = Seed(t)
  /\ \A s, t \in Targets : Rivals(Seed(s), Seed(t)) => s = t
<1>1. ASSUME NEW t \in Doctypes
      PROVE  /\ Seed(t) = [enabled |-> TRUE, is_default |-> TRUE, company |-> Blank, reference_type |-> "Document",
                           document_type |-> t, report_name |-> Blank]
             /\ Seed(t) \in Template
  <2>1. t \notin Reports
    BY TemplatesAssumption
  <2> QED BY <2>1 DEF Seed, Template
<1>2. ASSUME NEW t \in Reports
      PROVE  /\ Seed(t) = [enabled |-> TRUE, is_default |-> TRUE, company |-> Blank, reference_type |-> "Report",
                           document_type |-> Blank, report_name |-> t]
             /\ Seed(t) \in Template
  <2>1. t \notin Doctypes
    BY TemplatesAssumption
  <2> QED BY <2>1 DEF Seed, Template
<1>3. \A t \in Targets : Seed(t) \in Template /\ Cleared(Seed(t)) = Seed(t)
  <2>1. ASSUME NEW t \in Doctypes PROVE Cleared(Seed(t)) = Seed(t)
    BY <1>1 DEF Cleared
  <2>2. ASSUME NEW t \in Reports PROVE Cleared(Seed(t)) = Seed(t)
    BY <1>2 DEF Cleared
  <2> QED BY <1>1, <1>2, <2>1, <2>2 DEF Targets
<1>4. ASSUME NEW s \in Targets, NEW t \in Targets, Rivals(Seed(s), Seed(t)) PROVE s = t
  <2>1. /\ Seed(s).reference_type = Seed(t).reference_type
        /\ Seed(s).document_type = Seed(t).document_type
        /\ Seed(s).report_name = Seed(t).report_name
    BY <1>4 DEF Rivals
  <2>2. CASE s \in Doctypes /\ t \in Doctypes
    BY <1>1, <2>1, <2>2
  <2>3. CASE s \in Reports /\ t \in Reports
    BY <1>2, <2>1, <2>3
  <2>4. CASE (s \in Doctypes /\ t \in Reports) \/ (s \in Reports /\ t \in Doctypes)
    BY <1>1, <1>2, <2>1, <2>4
  <2> QED BY <2>2, <2>3, <2>4 DEF Targets
<1> QED BY <1>3, <1>4

\* What validate stores is a template.
LEMMA ClearedType == \A row \in Template : Cleared(row) \in Template
  BY DEF Cleared, Template

\* Nothing is pending and nothing stored in the beginning.
LEMMA DefaultsInit == TemplatesInit => DefaultsInv
  BY NoRivalOfNothing DEF TemplatesInit, DefaultsInv, Shape, SeedsMissing, PendingSaves,
     PendingSeeds, OneDefault, Rivals

\* validate sees the committed rivals, and the locks show those under way.
LEMMA BeginSaveInv ==
  ASSUME NEW e \in Editors, NEW form \in Forms, DefaultsInv, BeginSave(e, form)
  PROVE  DefaultsInv'
<1> DEFINE new == [form EXCEPT !.row = Cleared(@)]
<1>1. form \in [name : Names, row : Template]
  BY TemplatesAssumption
<1>2. new \in [name : Names, row : Template] /\ new.name = form.name
      /\ new.row = Cleared(form.row)
  BY <1>1, ClearedType
<1>3. /\ saving' = [saving EXCEPT ![e] = new]
      /\ raced' = raced \cup Overlaps({form.name})
      /\ UNCHANGED <<templates, seeds>>
      /\ form.name \notin Locked
  BY DEF BeginSave
<1>4. \A m \in Names : m # new.name => ~Rivals(new.row, templates[m])
  BY <1>1, <1>2 DEF BeginSave, Validate, OtherDefault
<1>5. \A m \in Names : m \in Locked => {form.name, m} \in raced'
  BY <1>3 DEF Overlaps
<1>6. Shape'
  BY <1>2, <1>3 DEF DefaultsInv, Shape
<1>7. SeedsMissing'
  BY <1>2, <1>3 DEF DefaultsInv, Shape, SeedsMissing, Locked
<1>8. PendingSaves'
  <2> SUFFICES ASSUME NEW g \in Editors, NEW m \in Names,
                      saving'[g] # Idle, m # saving'[g].name
               PROVE  /\ Rivals(saving'[g].row, templates[m]) => {saving'[g].name, m} \in raced'
                      /\ \A f \in Editors : saving'[f] # Idle /\ saving'[f].name = m =>
                            {saving'[g].name, m} \in raced'
                      /\ \A t \in seeds : SeedName[t] = m => {saving'[g].name, m} \in raced'
    BY <1>3 DEF PendingSaves
  <2>1. CASE g = e
    BY <1>2, <1>3, <1>4, <1>5, <2>1 DEF DefaultsInv, Shape, Locked
  <2>2. CASE g # e
    <3>1. saving'[g] = saving[g] /\ saving[g].name \in Names /\ saving[g].name \in Locked
      BY <1>3, <2>2 DEF DefaultsInv, Shape, Locked
    <3>2. {form.name, saving[g].name} \in raced'
      BY <1>5, <3>1
    <3>3. \A f \in Editors : saving'[f] # Idle /\ saving'[f].name = m =>
             {saving'[g].name, m} \in raced'
      <4> TAKE f \in Editors
      <4>1. CASE f = e
        BY <1>2, <1>3, <3>1, <3>2, <4>1 DEF DefaultsInv, Shape
      <4>2. CASE f # e
        BY <1>3, <3>1, <4>2 DEF DefaultsInv, Shape, PendingSaves
      <4> QED
        BY <4>1, <4>2
    <3>4. raced \subseteq raced'
      BY <1>3
    <3>5. Rivals(saving[g].row, templates[m]) => {saving[g].name, m} \in raced
      BY <3>1 DEF DefaultsInv, PendingSaves
    <3>6. \A t \in seeds : SeedName[t] = m => {saving[g].name, m} \in raced
      BY <3>1 DEF DefaultsInv, PendingSaves
    <3> QED
      BY <3>1, <3>3, <3>4, <3>5, <3>6
  <2> QED
    BY <2>1, <2>2
<1>9. PendingSeeds' /\ OneDefault'
  BY <1>3 DEF DefaultsInv, PendingSeeds, OneDefault, Seed
<1> QED
  BY <1>6, <1>7, <1>8, <1>9 DEF DefaultsInv

\* A row that is committed was compared with every other row, or raced it.
LEMMA CommitSaveInv ==
  ASSUME NEW e \in Editors, DefaultsInv, CommitSave(e)
  PROVE  DefaultsInv'
<1> DEFINE n == saving[e].name
           row == saving[e].row
<1>1. n \in Names /\ row \in Template /\ saving[e] # Idle
  BY DEF CommitSave, DefaultsInv, Shape
<1>2. /\ templates' = [templates EXCEPT ![n] = row]
      /\ saving' = [saving EXCEPT ![e] = Idle]
      /\ UNCHANGED <<seeds, raced>>
  BY DEF CommitSave
<1> HIDE DEF n, row
<1>3. Shape'
  BY <1>1, <1>2 DEF DefaultsInv, Shape
<1>4. SeedsMissing'
  <2>1. \A t \in seeds : SeedName[t] # n
    BY <1>1 DEF DefaultsInv, SeedsMissing, n
  <2> QED
    BY <1>1, <1>2, <2>1 DEF DefaultsInv, Shape, SeedsMissing
<1>5. \A m \in Names : m # n /\ Rivals(row, templates[m]) => {n, m} \in raced
  BY <1>1 DEF DefaultsInv, PendingSaves, n, row
<1>6. PendingSaves'
  <2> SUFFICES ASSUME NEW g \in Editors, NEW m \in Names,
                      saving'[g] # Idle, m # saving'[g].name
               PROVE  /\ Rivals(saving'[g].row, templates'[m]) => {saving'[g].name, m} \in raced
                      /\ \A f \in Editors : saving'[f] # Idle /\ saving'[f].name = m =>
                            {saving'[g].name, m} \in raced
                      /\ \A t \in seeds : SeedName[t] = m => {saving'[g].name, m} \in raced
    BY <1>2 DEF PendingSaves
  <2>1. g # e /\ saving'[g] = saving[g]
    BY <1>2 DEF DefaultsInv, Shape
  <2>2. Rivals(saving'[g].row, templates'[m]) => {saving'[g].name, m} \in raced
    <3>1. CASE m = n
      BY <1>1, <2>1, <3>1 DEF DefaultsInv, PendingSaves, n
    <3>2. CASE m # n
      BY <1>2, <2>1, <3>2 DEF DefaultsInv, Shape, PendingSaves
    <3> QED
      BY <3>1, <3>2
  <2>3. \A f \in Editors : saving'[f] # Idle => saving'[f] = saving[f]
    BY <1>2 DEF DefaultsInv, Shape
  <2> QED
    BY <2>1, <2>2, <2>3 DEF DefaultsInv, PendingSaves
<1>7. PendingSeeds'
  <2> SUFFICES ASSUME NEW t \in seeds, NEW m \in Names, m # SeedName[t],
                      Rivals(Seed(t), templates'[m])
               PROVE  {SeedName[t], m} \in raced
    BY <1>2 DEF PendingSeeds, Seed
  <2>1. CASE m = n
    <3>1. SeedName[t] \in Names /\ SeedName[t] # n
      BY TemplatesAssumption, <1>1, <2>1 DEF DefaultsInv, Shape
    <3>2. {n, SeedName[t]} \in raced
      BY <1>1, <3>1 DEF DefaultsInv, PendingSaves, n
    <3> QED
      BY <2>1, <3>2
  <2>2. CASE m # n
    BY <1>2, <2>2 DEF DefaultsInv, Shape, PendingSeeds
  <2> QED
    BY <2>1, <2>2
<1>8. OneDefault'
  <2> SUFFICES ASSUME NEW p \in Names, NEW m \in Names, p # m,
                      Rivals(templates'[p], templates'[m])
               PROVE  {p, m} \in raced
    BY <1>2 DEF OneDefault
  <2>1. CASE p = n
    BY <1>1, <1>2, <1>5, <2>1 DEF DefaultsInv, Shape
  <2>2. CASE m = n
    BY <1>1, <1>2, <1>5, <2>2, RivalsSymmetric DEF DefaultsInv, Shape
  <2>3. CASE p # n /\ m # n
    BY <1>2, <2>3 DEF DefaultsInv, Shape, OneDefault
  <2> QED
    BY <2>1, <2>2, <2>3
<1> QED
  BY <1>3, <1>4, <1>6, <1>7, <1>8 DEF DefaultsInv

\* A save that is rolled back leaves nothing behind.
LEMMA RollBackInv ==
  ASSUME NEW e \in Editors, DefaultsInv, RollBackSave(e)
  PROVE  DefaultsInv'
<1>1. /\ saving' = [saving EXCEPT ![e] = Idle]
      /\ UNCHANGED <<templates, seeds, raced>>
  BY DEF RollBackSave
<1>2. \A f \in Editors : saving'[f] # Idle => saving'[f] = saving[f]
  BY <1>1 DEF DefaultsInv, Shape
<1>3. Shape' /\ SeedsMissing'
  BY <1>1, <1>2 DEF DefaultsInv, Shape, SeedsMissing
<1>4. PendingSaves'
  BY <1>1, <1>2 DEF DefaultsInv, PendingSaves
<1>5. PendingSeeds' /\ OneDefault'
  BY <1>1 DEF DefaultsInv, PendingSeeds, OneDefault, Seed
<1> QED
  BY <1>3, <1>4, <1>5 DEF DefaultsInv

\* A template that is deleted is nobody's rival any more.
LEMMA DeleteInv ==
  ASSUME NEW n \in Names, DefaultsInv, DeleteTemplate(n)
  PROVE  DefaultsInv'
<1>1. /\ templates' = [templates EXCEPT ![n] = NoTemplate]
      /\ UNCHANGED <<saving, seeds, raced>>
  BY DEF DeleteTemplate
<1>2. \A m \in Names : templates'[m] \in {templates[m], NoTemplate}
  BY <1>1 DEF DefaultsInv, Shape
<1>3. \A r, m : m \in Names /\ Rivals(r, templates'[m]) => templates'[m] = templates[m]
  BY <1>2, NoRivalOfNothing
<1>4. Shape' /\ SeedsMissing'
  BY TemplatesAssumption, <1>1, <1>2 DEF DefaultsInv, Shape, SeedsMissing
<1>5. PendingSaves'
  <2> SUFFICES ASSUME NEW g \in Editors, NEW m \in Names, saving[g] # Idle, m # saving[g].name
               PROVE  /\ Rivals(saving[g].row, templates'[m]) => {saving[g].name, m} \in raced
                      /\ \A f \in Editors : saving[f] # Idle /\ saving[f].name = m =>
                            {saving[g].name, m} \in raced
                      /\ \A t \in seeds : SeedName[t] = m => {saving[g].name, m} \in raced
    BY <1>1 DEF PendingSaves
  <2> QED
    BY <1>3 DEF DefaultsInv, PendingSaves
<1>6. PendingSeeds'
  <2> SUFFICES ASSUME NEW t \in seeds, NEW m \in Names, m # SeedName[t],
                      Rivals(Seed(t), templates'[m])
               PROVE  {SeedName[t], m} \in raced
    BY <1>1 DEF PendingSeeds, Seed
  <2> QED
    BY <1>3 DEF DefaultsInv, PendingSeeds
<1>7. OneDefault'
  <2> SUFFICES ASSUME NEW p \in Names, NEW m \in Names, p # m,
                      Rivals(templates'[p], templates'[m])
               PROVE  {p, m} \in raced
    BY <1>1 DEF OneDefault
  <2>1. templates'[m] = templates[m] /\ templates'[p] = templates[p]
    BY <1>3, RivalsSymmetric
  <2> QED
    BY <2>1 DEF DefaultsInv, OneDefault
<1> QED
  BY <1>4, <1>5, <1>6, <1>7 DEF DefaultsInv

\* The migration validates every row it inserts, and overlaps what is under way.
LEMMA BeginMigrationInv == DefaultsInv /\ BeginMigration => DefaultsInv'
<1> SUFFICES ASSUME DefaultsInv, BeginMigration PROVE DefaultsInv'
  OBVIOUS
<1> USE TemplatesAssumption
<1>1. UNCHANGED <<templates, saving>> /\ \A t \in Missing : SeedName[t] \notin Locked
  BY DEF BeginMigration
<1>2. CASE UNCHANGED <<seeds, raced>>
  BY <1>1, <1>2 DEF DefaultsInv, Shape, SeedsMissing, PendingSaves, PendingSeeds, OneDefault,
     Seed
<1>3. CASE /\ \A t \in Missing : Validate(SeedName[t], Seed(t))
           /\ seeds' = Missing
           /\ raced' = raced \cup Overlaps({SeedName[t] : t \in Missing})
  <2>1. Missing \subseteq Targets /\ raced \subseteq raced'
    BY <1>3 DEF Missing
  <2>2. Shape'
    BY <1>1, <1>3, <2>1 DEF DefaultsInv, Shape
  <2>3. SeedsMissing'
    BY <1>1, <1>3 DEF DefaultsInv, Shape, SeedsMissing, Missing, Locked
  <2>4. \A g \in Editors, t \in Missing :
           saving[g] # Idle => {saving[g].name, SeedName[t]} \in raced'
    <3> SUFFICES ASSUME NEW g \in Editors, NEW t \in Missing, saving[g] # Idle
                 PROVE  {saving[g].name, SeedName[t]} \in raced'
      OBVIOUS
    <3>1. saving[g].name \in Locked \cap Names
      BY DEF DefaultsInv, Shape, Locked
    <3>2. {SeedName[t], saving[g].name} \in Overlaps({SeedName[s] : s \in Missing})
      BY <3>1 DEF Overlaps
    <3> QED
      BY <1>3, <3>2
  <2>5. PendingSaves'
    <3> SUFFICES ASSUME NEW g \in Editors, NEW m \in Names, saving[g] # Idle, m # saving[g].name
                 PROVE  /\ Rivals(saving[g].row, templates[m]) => {saving[g].name, m} \in raced'
                        /\ \A f \in Editors : saving[f] # Idle /\ saving[f].name = m =>
                              {saving[g].name, m} \in raced'
                        /\ \A t \in Missing : SeedName[t] = m => {saving[g].name, m} \in raced'
      BY <1>1, <1>3 DEF PendingSaves
    <3>1. /\ Rivals(saving[g].row, templates[m]) => {saving[g].name, m} \in raced
          /\ \A f \in Editors : saving[f] # Idle /\ saving[f].name = m =>
                {saving[g].name, m} \in raced
      BY DEF DefaultsInv, PendingSaves
    <3> QED
      BY <2>1, <2>4, <3>1
  <2>6. PendingSeeds'
    <3> SUFFICES ASSUME NEW t \in Missing, NEW m \in Names, m # SeedName[t]
                 PROVE  ~Rivals(Seed(t), templates[m])
      BY <1>1, <1>3 DEF PendingSeeds, Seed
    <3>1. ~OtherDefault(SeedName[t], Seed(t))
      BY <1>3, <2>1, SeedsDiffer DEF Validate
    <3> QED
      BY <3>1 DEF OtherDefault
  <2>7. OneDefault'
    BY <1>1, <2>1 DEF DefaultsInv, OneDefault
  <2> QED
    BY <2>2, <2>3, <2>5, <2>6, <2>7 DEF DefaultsInv
<1> QED
  BY <1>2, <1>3 DEF BeginMigration

\* The rows of a migration are of different targets.
LEMMA CommitMigrationInv == DefaultsInv /\ CommitMigration => DefaultsInv'
<1> SUFFICES ASSUME DefaultsInv, CommitMigration PROVE DefaultsInv'
  OBVIOUS
<1> USE TemplatesAssumption
<1>1. /\ templates' = [n \in Names |->
            IF \E t \in seeds : SeedName[t] = n
               THEN Seed(CHOOSE t \in seeds : SeedName[t] = n) ELSE templates[n]]
      /\ seeds' = {} /\ UNCHANGED <<saving, raced>>
  BY DEF CommitMigration
<1>2. \A n \in Names : \/ \E t \in seeds : SeedName[t] = n /\ templates'[n] = Seed(t)
                       \/ templates'[n] = templates[n]
  BY <1>1
<1>3. Shape'
  BY <1>1, <1>2, SeedsDiffer DEF DefaultsInv, Shape
<1>4. SeedsMissing' /\ PendingSeeds'
  BY <1>1 DEF SeedsMissing, PendingSeeds
<1>5. PendingSaves'
  <2> SUFFICES ASSUME NEW g \in Editors, NEW m \in Names, saving[g] # Idle, m # saving[g].name
               PROVE  /\ Rivals(saving[g].row, templates'[m]) => {saving[g].name, m} \in raced
                      /\ \A f \in Editors : saving[f] # Idle /\ saving[f].name = m =>
                            {saving[g].name, m} \in raced
    BY <1>1 DEF PendingSaves
  <2>1. /\ Rivals(saving[g].row, templates[m]) => {saving[g].name, m} \in raced
        /\ \A f \in Editors : saving[f] # Idle /\ saving[f].name = m =>
              {saving[g].name, m} \in raced
        /\ \A t \in seeds : SeedName[t] = m => {saving[g].name, m} \in raced
    BY DEF DefaultsInv, PendingSaves
  <2> QED
    BY <1>2, <2>1
<1>6. OneDefault'
  <2> SUFFICES ASSUME NEW p \in Names, NEW m \in Names, p # m,
                      Rivals(templates'[p], templates'[m])
               PROVE  {p, m} \in raced
    BY <1>1 DEF OneDefault
  <2>1. CASE templates'[p] = templates[p] /\ templates'[m] = templates[m]
    BY <2>1 DEF DefaultsInv, OneDefault
  <2>2. ASSUME NEW t \in seeds, SeedName[t] = p, templates'[p] = Seed(t)
        PROVE  {p, m} \in raced
    <3>1. CASE templates'[m] = templates[m]
      BY <2>2, <3>1 DEF DefaultsInv, PendingSeeds
    <3>2. CASE \E s \in seeds : SeedName[s] = m /\ templates'[m] = Seed(s)
      BY <2>2, <3>2, SeedsDiffer DEF DefaultsInv, Shape
    <3> QED
      BY <1>2, <3>1, <3>2
  <2>3. ASSUME NEW t \in seeds, SeedName[t] = m, templates'[m] = Seed(t),
               templates'[p] = templates[p]
        PROVE  {p, m} \in raced
    <3>1. {m, p} \in raced
      BY <2>3, RivalsSymmetric DEF DefaultsInv, PendingSeeds
    <3> QED
      BY <3>1
  <2> QED
    BY <1>2, <2>1, <2>2, <2>3
<1> QED
  BY <1>3, <1>4, <1>5, <1>6 DEF DefaultsInv

\* Every step of the site keeps the invariant; composing touches no template.
LEMMA DefaultsStep == DefaultsInv /\ [ComposerNext]_composerVars => DefaultsInv'
<1> SUFFICES ASSUME DefaultsInv, [ComposerNext]_composerVars PROVE DefaultsInv'
  OBVIOUS
<1>1. CASE TemplatesNext
  BY <1>1, BeginSaveInv, CommitSaveInv, RollBackInv, DeleteInv, BeginMigrationInv,
     CommitMigrationInv DEF TemplatesNext
<1>2. CASE UNCHANGED <<templates, saving, seeds, raced>>
  BY <1>2 DEF DefaultsInv, Shape, SeedsMissing, PendingSaves, PendingSeeds, OneDefault, Seed
<1>3. ASSUME NEW u \in Senders, NEW src, Prepare(u, src)
      PROVE  UNCHANGED <<templates, saving, seeds, raced>>
  BY <1>3 DEF Prepare, templateVars
<1>4. ASSUME NEW u \in Senders, NEW number, NEW format, NEW n, Queue(u, number, format, n)
      PROVE  UNCHANGED <<templates, saving, seeds, raced>>
  BY <1>4 DEF Queue, templateVars
<1>5. ASSUME NEW u \in Senders, NEW format,
             PreviewDocumentPdf(u, format) \/ PreviewReportPdf(u) \/ Close(u)
      PROVE  UNCHANGED <<templates, saving, seeds, raced>>
  BY <1>5 DEF PreviewDocumentPdf, PreviewReportPdf, Previewed, Close, templateVars
<1>6. ASSUME SiteChange
      PROVE  UNCHANGED <<templates, saving, seeds, raced>>
  BY <1>6 DEF SiteChange
<1>7. CASE UNCHANGED composerVars
  BY <1>2, <1>7 DEF composerVars, templateVars
<1> QED
  BY <1>1, <1>2, <1>3, <1>4, <1>5, <1>6, <1>7
     DEF ComposerNext, PrepareDocument, PrepareReport, EditNumber, ChangeAccess, ChangeFormat,
         InstallApp, ReportGrows

\* validate of the message template: enabled defaults of one target and company
\* are those of transactions that overlapped.
THEOREM DefaultsAreUnique == ComposerSpec => []OneDefault
<1>1. ComposerInit => DefaultsInv
  BY DefaultsInit DEF ComposerInit
<1>2. DefaultsInv => OneDefault
  BY DEF DefaultsInv
<1> QED
  BY <1>1, <1>2, DefaultsStep, PTL DEF ComposerSpec

\* after_migrate keeps every template of the site and leaves it installed.
THEOREM MigrationKeeps == ComposerSpec => MigrationOnlyAdds
<1> DEFINE Keeps == \A n \in Names : templates[n] # NoTemplate => templates'[n] = templates[n]
           Leaves == migration' = "done" =>
                        Installed' \/ \E t \in Doctypes : t \notin seeds /\ t \in Missing
<1>1. DefaultsInv /\ CommitMigration => Keeps /\ Leaves
  <2> SUFFICES ASSUME DefaultsInv, CommitMigration PROVE Keeps /\ Leaves
    OBVIOUS
  <2>1. \A n \in Names :
           templates'[n] = IF \E t \in seeds : SeedName[t] = n
                              THEN Seed(CHOOSE t \in seeds : SeedName[t] = n) ELSE templates[n]
    BY DEF CommitMigration
  <2>2. Keeps
    BY <2>1 DEF DefaultsInv, SeedsMissing
  <2>3. \A t \in Targets : t \in seeds => templates'[SeedName[t]] \in Template
    BY <2>1, SeedsDiffer, TemplatesAssumption DEF DefaultsInv, Shape
  <2>4. ASSUME \A t \in Doctypes : t \in seeds \/ t \notin Missing PROVE Installed'
    BY <2>2, <2>3, <2>4, TemplatesAssumption DEF CommitMigration, Installed, Missing, Targets
  <2> QED
    BY <2>2, <2>4
<1>2. DefaultsInv /\ [ComposerNext]_composerVars
        => [migration' # migration => Keeps /\ Leaves]_templateVars
  <2> SUFFICES ASSUME DefaultsInv, [ComposerNext]_composerVars, migration' # migration
               PROVE  Keeps /\ Leaves
    OBVIOUS
  <2>1. TemplatesNext
    BY DEF ComposerNext, PrepareDocument, PrepareReport, Prepare, PreviewDocumentPdf,
       PreviewReportPdf, Previewed, Close, Queue, EditNumber, ChangeAccess, ChangeFormat,
       InstallApp, ReportGrows, SiteChange, composerVars, templateVars
  <2>2. BeginMigration \/ CommitMigration
    BY <2>1 DEF TemplatesNext, BeginSave, CommitSave, RollBackSave, DeleteTemplate
  <2>3. CASE BeginMigration
    BY <2>3 DEF BeginMigration
  <2> QED
    BY <1>1, <2>2, <2>3
<1>3. ComposerInit => DefaultsInv
  BY DefaultsInit DEF ComposerInit
<1> QED
  BY <1>2, <1>3, DefaultsStep, PTL DEF ComposerSpec, MigrationOnlyAdds

-----------------------------------------------------------------------------
(* Types of the templates *)

\* A stored row: one target, in the field of its reference type.
OneTarget(row) ==
    /\ TargetNamed(row)
    /\ Blank \in {row.document_type, row.report_name}

\* A row that will be committed is one already.
TemplatesInv ==
    /\ TemplatesTypeOK
    /\ \A e \in Editors : saving[e] # Idle => OneTarget(saving[e].row)

\* validate: a row that names its target has no other when it is stored.
LEMMA ClearedTarget ==
  ASSUME NEW row \in Template, TargetNamed(row)
  PROVE  OneTarget(Cleared(row))
BY DEF OneTarget, TargetNamed, Cleared, Template

\* _ensure_default_templates: so has a seeded row.
LEMMA SeedTarget ==
  ASSUME NEW t \in Targets
  PROVE  OneTarget(Seed(t))
<1>1. t # Blank /\ ~(t \in Doctypes /\ t \in Reports) /\ (t \in Doctypes \/ t \in Reports)
  BY TemplatesAssumption DEF Targets
<1>2. CASE t \in Doctypes
  BY <1>1, <1>2 DEF OneTarget, TargetNamed, Seed
<1>3. CASE t \in Reports
  BY <1>1, <1>3 DEF OneTarget, TargetNamed, Seed
<1> QED
  BY <1>1, <1>2, <1>3

\* The template's requests, one after the other.
LEMMA TemplatesStep ==
  ASSUME TemplatesInv, TemplatesNext
  PROVE  TemplatesInv'
<1> USE DEF TemplatesInv, TemplatesTypeOK
<1>0. SeedName \in [Targets -> Names] /\ Forms \subseteq [name : Names, row : Template]
      /\ MaxChanges \in Nat
  BY TemplatesAssumption
<1>1. ASSUME NEW ns \in SUBSET Names PROVE Overlaps(ns) \subseteq SUBSET Names
  BY <1>1 DEF Overlaps
<1>2. ASSUME NEW e \in Editors, NEW form \in Forms, BeginSave(e, form)
      PROVE  TemplatesInv'
  <2> DEFINE new == [form EXCEPT !.row = Cleared(@)]
  <2>1. form \in [name : Names, row : Template] /\ TargetNamed(form.row)
    BY <1>0, <1>2 DEF BeginSave, Validate
  <2>2. new \in [name : Names, row : Template] /\ OneTarget(new.row)
    <3>1. Cleared(form.row) \in Template /\ OneTarget(Cleared(form.row))
      BY <2>1, ClearedType, ClearedTarget
    <3> QED
      BY <2>1, <3>1
  <2>3. /\ saving' = [saving EXCEPT ![e] = new]
        /\ raced' = raced \cup Overlaps({form.name})
        /\ UNCHANGED <<templates, migration, seeds, roles, changes>>
    BY <1>2 DEF BeginSave
  <2> HIDE DEF new
  <2>4. saving' \in [Editors -> {Idle} \cup [name : Names, row : Template]]
    BY <2>2, <2>3
  <2>5. \A f \in Editors : saving'[f] # Idle => OneTarget(saving'[f].row)
    BY <2>2, <2>3
  <2>6. raced' \subseteq SUBSET Names
    BY <1>1, <2>1, <2>3
  <2> QED
    BY <2>3, <2>4, <2>5, <2>6 DEF OneTarget, TargetNamed
<1>3. ASSUME NEW e \in Editors, CommitSave(e)
      PROVE  TemplatesInv'
  <2> DEFINE n == saving[e].name
             row == saving[e].row
  <2>1. n \in Names /\ row \in Template /\ OneTarget(row)
    BY <1>3 DEF CommitSave
  <2>2. /\ templates' = [templates EXCEPT ![n] = row]
        /\ saving' = [saving EXCEPT ![e] = Idle]
        /\ changes < MaxChanges /\ changes' = changes + 1
        /\ UNCHANGED <<migration, seeds, roles, raced>>
    BY <1>3 DEF CommitSave, Change
  <2> HIDE DEF n, row
  <2>3. templates' \in [Names -> Template \cup {NoTemplate}]
    BY <2>1, <2>2
  <2>4. \A m \in Names : templates'[m] # NoTemplate => OneTarget(templates'[m])
    BY <2>1, <2>2 DEF OneTarget
  <2>5. /\ saving' \in [Editors -> {Idle} \cup [name : Names, row : Template]]
        /\ \A f \in Editors : saving'[f] # Idle => OneTarget(saving'[f].row)
    BY <2>2
  <2>6. changes' \in 0 .. MaxChanges
    BY <1>0, <2>2
  <2> QED
    BY <2>2, <2>3, <2>4, <2>5, <2>6 DEF OneTarget, TargetNamed
<1>4. ASSUME NEW e \in Editors, RollBackSave(e)
      PROVE  TemplatesInv'
  <2>1. /\ saving' = [saving EXCEPT ![e] = Idle]
        /\ UNCHANGED <<templates, migration, seeds, roles, raced, changes>>
    BY <1>4 DEF RollBackSave
  <2>2. /\ saving' \in [Editors -> {Idle} \cup [name : Names, row : Template]]
        /\ \A f \in Editors : saving'[f] # Idle => OneTarget(saving'[f].row)
    BY <2>1
  <2> QED
    BY <2>1, <2>2 DEF TargetNamed, OneTarget
<1>5. ASSUME NEW n \in Names, DeleteTemplate(n)
      PROVE  TemplatesInv'
  <2>1. /\ templates' = [templates EXCEPT ![n] = NoTemplate]
        /\ changes < MaxChanges /\ changes' = changes + 1
        /\ UNCHANGED <<saving, migration, seeds, roles, raced>>
    BY <1>5 DEF DeleteTemplate, Change
  <2>2. templates' \in [Names -> Template \cup {NoTemplate}]
    BY <2>1
  <2>3. \A m \in Names : templates'[m] # NoTemplate => OneTarget(templates'[m])
    BY <2>1 DEF OneTarget
  <2>4. changes' \in 0 .. MaxChanges
    BY <1>0, <2>1
  <2> QED
    BY <2>1, <2>2, <2>3, <2>4 DEF OneTarget, TargetNamed
<1>6. CASE BeginMigration
  <2>1. UNCHANGED <<templates, saving, roles, changes>>
    BY <1>6 DEF BeginMigration
  <2>2. CASE migration' = "aborted" /\ UNCHANGED <<seeds, raced>>
    <3>1. seeds = {}
      BY <1>6 DEF BeginMigration
    <3> QED
      BY <2>1, <2>2, <3>1 DEF OneTarget, TargetNamed
  <2>3. CASE /\ migration' = "seeding" /\ seeds' = Missing
             /\ raced' = raced \cup Overlaps({SeedName[t] : t \in Missing})
    <3>1. Missing \subseteq Targets /\ {SeedName[t] : t \in Missing} \in SUBSET Names
      BY <1>0 DEF Missing
    <3>2. raced' \subseteq SUBSET Names
      BY <1>1, <2>3, <3>1
    <3> QED
      BY <2>1, <2>3, <3>1, <3>2 DEF OneTarget, TargetNamed
  <2> QED
    BY <1>6, <2>2, <2>3 DEF BeginMigration
<1>7. CASE CommitMigration
  <2>1. /\ templates' = [n \in Names |->
              IF \E t \in seeds : SeedName[t] = n
                 THEN Seed(CHOOSE t \in seeds : SeedName[t] = n) ELSE templates[n]]
        /\ roles' = TRUE /\ migration' = "done" /\ seeds' = {}
        /\ changes < MaxChanges /\ changes' = changes + 1
        /\ UNCHANGED <<saving, raced>>
    BY <1>7 DEF CommitMigration, Change
  <2>2. \A n \in Names : \/ \E t \in Targets : templates'[n] = Seed(t)
                         \/ templates'[n] = templates[n]
    BY <2>1
  <2>3. templates' \in [Names -> Template \cup {NoTemplate}]
    BY <2>1, <2>2, SeedsDiffer
  <2>4. \A m \in Names : templates'[m] # NoTemplate => OneTarget(templates'[m])
    BY <2>2, SeedTarget DEF OneTarget
  <2>5. changes' \in 0 .. MaxChanges
    BY <1>0, <2>1
  <2> QED
    BY <2>1, <2>3, <2>4, <2>5 DEF OneTarget, TargetNamed
<1> QED
  BY <1>2, <1>3, <1>4, <1>5, <1>6, <1>7 DEF TemplatesNext

-----------------------------------------------------------------------------
(* What a dialog is about *)

\* A document, or a report opened for exactly one customer.
SourceOK(src) ==
    \/ \E t \in Doctypes : src = DocSource(t)
    \/ \E r \in Reports, f \in Filters : OneCustomer(f) /\ src = ReportSource(r, f)

\* An open dialog; later is the number of changes by now.
DialogOK(c, later) ==
    /\ c = [source |-> c.source, numbers |-> c.numbers, formats |-> c.formats,
            templates |-> c.templates, previewed |-> c.previewed, at |-> c.at]
    /\ SourceOK(c.source)
    /\ c.numbers # {} /\ c.formats # {} /\ c.templates # {}
    /\ c.templates \subseteq Names \cup {Blank}
    /\ NoNumber \notin c.numbers
    /\ c.at \in 0 .. later

SiteTypes ==
    /\ book \in [Sources -> Raws \cup {NoNumber}]
    /\ readable \subseteq Sources /\ formats \subseteq Formats
    /\ hooks \in Seq(External)
    /\ size \in [Reports -> Nat]

Dialogs ==
    /\ DOMAIN composer = Senders /\ composer = [u \in Senders |-> composer[u]]
    /\ \A u \in Senders : composer[u] # Closed => DialogOK(composer[u], changes)

QueuedOK == queued # Nothing => queued.source \in Source /\ queued.pdf \subseteq Customers

ComposerInv == TemplatesInv /\ SiteTypes /\ Dialogs /\ QueuedOK /\ PdfOfTheRecipient

\* Filters with exactly one customer name it, whatever form they have.
LEMMA OneCustomerNamed ==
  ASSUME NEW f \in Filter, OneCustomer(f)
  PROVE  /\ {f.party[i] : i \in 1 .. Len(f.party)} = {f.party[1]}
         /\ f.party[1] \in Customers
<1>1. f.party \in Seq(Customers) /\ Len(f.party) = 1
  BY DEF Filter, OneCustomer
<1>2. 1 .. Len(f.party) = {1}
  BY <1>1
<1> QED
  BY <1>1, <1>2

\* The adapter leaves or brings the filter in a form its report does not read, and
\* has no renderer.
Misses(r, f) ==
    /\ ~ReportAdapter(r).renderer
    /\ Native[r] # IF ReportAdapter(r).shape = "none"
                     THEN IF f.list THEN "list" ELSE "string"
                     ELSE ReportAdapter(r).shape

\* _validate_report and _report_pdf: the PDF of a report lists the one customer of
\* its filter, unless the adapter misses its form.
LEMMA ReportPdfOfCustomer ==
  ASSUME NEW r \in Reports, NEW f \in Filter, OneCustomer(f)
  PROVE  /\ ReportPdf(r, Reshaped(r, f)) = {f.party[1]} \/ Misses(r, f)
         /\ ReportPdf(r, Reshaped(r, f)) \subseteq Customers
<1> DEFINE a == ReportAdapter(r)
           g == Reshaped(r, f)
<1>1. g.party = f.party /\ (a.shape = "list" => g.list = TRUE)
      /\ (a.shape = "string" => g.list = FALSE)
      /\ (a.shape = "none" => g.list = f.list)
  BY DEF Reshaped, Filter
<1> HIDE DEF a, g
<1>2. {g.party[i] : i \in 1 .. Len(g.party)} = {f.party[1]} /\ f.party[1] \in Customers
  BY <1>1, OneCustomerNamed
<1>3. CASE a.renderer
  BY <1>2, <1>3 DEF ReportPdf, a, g
<1>4. CASE ~a.renderer
  <2>1. ReportPdf(r, g) = Listed(r, g)
    BY <1>4 DEF ReportPdf, a
  <2>2. Listed(r, g) \in {{f.party[1]}, Customers}
    BY <1>2 DEF Listed
  <2>3. CASE g.list = (Native[r] = "list")
    BY <1>2, <2>1, <2>3 DEF Listed, g
  <2>4. CASE g.list # (Native[r] = "list")
    <3>1. Native[r] \in {"list", "string"} /\ f.list \in BOOLEAN
      BY ComposerAssumption DEF Shapes, Filter
    <3>2. Native[r] # IF a.shape = "none" THEN IF f.list THEN "list" ELSE "string"
                                          ELSE a.shape
      BY <1>1, <2>4, <3>1
    <3>3. Misses(r, f)
      BY <1>4, <3>2 DEF Misses, a
    <3> QED
      BY <1>2, <2>1, <2>2, <3>3 DEF g
  <2> QED
    BY <2>3, <2>4
<1> QED
  BY <1>3, <1>4

\* The types of a dialog's source.
LEMMA SourceTypes ==
  ASSUME NEW src, SourceOK(src)
  PROVE  src \in Source /\ src.customer \in Customers
<1>1. ASSUME NEW t \in Doctypes, src = DocSource(t)
      PROVE  src \in Source /\ src.customer \in Customers
  BY <1>1, ComposerAssumption DEF DocSource, Source, Targets
<1>2. ASSUME NEW r \in Reports, NEW f \in Filters, OneCustomer(f), src = ReportSource(r, f)
      PROVE  src \in Source /\ src.customer \in Customers
  <2>1. f \in Filter /\ f.party[1] \in Customers
    BY <1>2, ComposerAssumption, OneCustomerNamed
  <2> QED
    BY <1>2, <2>1 DEF ReportSource, Source, Targets
<1> QED
  BY <1>1, <1>2 DEF SourceOK

\* What is queued from a dialog shows the customer of the dialog, unless the
\* adapter of the report misses its form.
LEMMA PdfOfSource ==
  ASSUME NEW src, SourceOK(src)
  PROVE  /\ Pdf(src) \subseteq Customers
         /\ \/ Pdf(src) = {src.customer}
            \/ /\ src.target \in Reports /\ Misses(src.target, src.filters)
               /\ AdapterOf(src) = ReportAdapter(src.target)
<1>1. ASSUME NEW t \in Doctypes, src = DocSource(t)
      PROVE  Pdf(src) = {src.customer} /\ Pdf(src) \subseteq Customers
  <2>1. src.customer \in Customers
    BY SourceTypes
  <2> QED
    BY <1>1, <2>1 DEF Pdf, DocSource
<1>2. ASSUME NEW r \in Reports, NEW f \in Filters, OneCustomer(f), src = ReportSource(r, f)
      PROVE  /\ Pdf(src) \subseteq Customers
             /\ \/ Pdf(src) = {src.customer}
                \/ /\ src.target \in Reports /\ Misses(src.target, src.filters)
                   /\ AdapterOf(src) = ReportAdapter(src.target)
  <2>1. src.target = r /\ src.filters = f /\ src.customer = f.party[1]
    BY <1>2 DEF ReportSource
  <2>2. r \notin Doctypes
    BY TemplatesAssumption
  <2>3. f \in Filter
    BY ComposerAssumption
  <2>4. Pdf(src) = ReportPdf(r, Reshaped(r, f)) /\ AdapterOf(src) = ReportAdapter(r)
    BY <2>1, <2>2 DEF Pdf, AdapterOf
  <2> QED
    BY <1>2, <2>1, <2>3, <2>4, ReportPdfOfCustomer
<1> QED
  BY <1>1, <1>2 DEF SourceOK

-----------------------------------------------------------------------------
\* One lemma per group of actions.

\* A dialog that stays open grows older.
LEMMA DialogLater ==
  ASSUME NEW c, NEW i \in Nat, NEW j \in Nat, DialogOK(c, i), i <= j
  PROVE  DialogOK(c, j)
<1>1. c.at \in 0 .. j
  BY DEF DialogOK
<1> QED
  BY <1>1 DEF DialogOK

\* The changes made so far are a number.
LEMMA ChangesNat ==
  ASSUME TemplatesInv
  PROVE  changes \in Nat
BY DEF TemplatesInv, TemplatesTypeOK

\* prepare_document and prepare_report open a dialog that offers something.
LEMMA PrepareInv ==
  ASSUME ComposerInv, NEW u \in Senders, NEW src, SourceOK(src), Prepare(u, src)
  PROVE  Dialogs'
<1> DEFINE c == [source |-> src, numbers |-> CustomerNumbers(src.customer),
                 formats |-> FormatsFor(src),
                 templates |-> TemplateRows(src.target, CompanyOf(src)),
                 previewed |-> FALSE, at |-> changes]
<1>1. composer' = [composer EXCEPT ![u] = c] /\ UNCHANGED changes
      /\ CustomerNumbers(src.customer) # {}
  BY DEF Prepare, templateVars
<1>2. /\ FormatsFor(src) # {}
      /\ TemplateRows(src.target, CompanyOf(src)) # {}
      /\ TemplateRows(src.target, CompanyOf(src)) \subseteq Names \cup {Blank}
      /\ NoNumber \notin CustomerNumbers(src.customer)
  <2>1. FormatsFor(src) # {}
    BY DEF FormatsFor, PrintFormats
  <2>2. /\ TemplateRows(src.target, CompanyOf(src)) # {}
        /\ TemplateRows(src.target, CompanyOf(src)) \subseteq Names \cup {Blank}
    BY DEF TemplateRows
  <2>3. NoNumber \notin CustomerNumbers(src.customer)
    BY DEF CustomerNumbers
  <2> QED
    BY <2>1, <2>2, <2>3
<1>3. changes \in Nat
  BY ChangesNat DEF ComposerInv
<1>4. DialogOK(c, changes)
  <2>1. changes \in 0 .. changes
    BY <1>3
  <2> QED
    BY <1>1, <1>2, <2>1 DEF DialogOK
<1> HIDE DEF c
<1>5. DOMAIN composer = Senders /\ composer = [v \in Senders |-> composer[v]]
      /\ \A v \in Senders : composer[v] # Closed => DialogOK(composer[v], changes)
  BY DEF ComposerInv, Dialogs
<1>6. /\ composer' = [v \in Senders |-> IF v = u THEN c ELSE composer[v]]
      /\ DOMAIN composer' = Senders
  BY <1>1, <1>5
<1> QED
  BY <1>1, <1>4, <1>5, <1>6 DEF Dialogs

\* A preview changes nothing but the mark that it was shown.
LEMMA PreviewInv ==
  ASSUME ComposerInv, NEW u \in Senders, composer[u] # Closed, Previewed(u)
  PROVE  Dialogs'
<1> DEFINE c == [composer[u] EXCEPT !.previewed = (composer[u].at = changes)]
<1>1. composer' = [composer EXCEPT ![u] = c] /\ UNCHANGED changes
  BY DEF Previewed, templateVars
<1>2. DOMAIN composer = Senders /\ composer = [v \in Senders |-> composer[v]]
      /\ \A v \in Senders : composer[v] # Closed => DialogOK(composer[v], changes)
  BY DEF ComposerInv, Dialogs
<1>3. DialogOK(composer[u], changes)
  BY <1>2
<1>4. /\ c.source = composer[u].source /\ c.numbers = composer[u].numbers
      /\ c.formats = composer[u].formats /\ c.templates = composer[u].templates
      /\ c.at = composer[u].at
      /\ c = [source |-> c.source, numbers |-> c.numbers, formats |-> c.formats,
              templates |-> c.templates, previewed |-> c.previewed, at |-> c.at]
  BY <1>3 DEF DialogOK
<1> HIDE DEF c
<1>5. DialogOK(c, changes)
  BY <1>3, <1>4 DEF DialogOK
<1>6. /\ composer' = [v \in Senders |-> IF v = u THEN c ELSE composer[v]]
      /\ DOMAIN composer' = Senders
  BY <1>1, <1>2
<1> QED
  BY <1>1, <1>2, <1>5, <1>6 DEF Dialogs

\* A dialog is closed.
LEMMA CloseInv ==
  ASSUME ComposerInv, NEW u \in Senders, composer' = [composer EXCEPT ![u] = Closed],
         UNCHANGED changes
  PROVE  Dialogs'
<1>1. DOMAIN composer = Senders /\ composer = [v \in Senders |-> composer[v]]
      /\ \A v \in Senders : composer[v] # Closed => DialogOK(composer[v], changes)
  BY DEF ComposerInv, Dialogs
<1>2. /\ composer' = [v \in Senders |-> IF v = u THEN Closed ELSE composer[v]]
      /\ DOMAIN composer' = Senders
  BY <1>1
<1> QED
  BY <1>1, <1>2 DEF Dialogs

\* queue_document, queue_report: the number is one of the customer's own by now.
LEMMA QueueInv ==
  ASSUME ComposerInv, NEW u \in Senders, NEW number, NEW format, NEW n,
         Queue(u, number, format, n)
  PROVE  Dialogs' /\ QueuedOK' /\ PdfOfTheRecipient'
<1> DEFINE src == composer[u].source
           k == Normalize(number)
<1>1. /\ composer[u] # Closed /\ Accepts(src, number, format, n)
      /\ queued' = [source |-> src, adapter |-> AdapterOf(src), number |-> k,
                    pdf |-> Pdf(src), holders |-> Holders(k)]
      /\ composer' = [composer EXCEPT ![u] = Closed] /\ UNCHANGED changes
  BY DEF Queue, templateVars
<1>2. SourceOK(src)
  BY <1>1 DEF ComposerInv, Dialogs, DialogOK
<1> HIDE DEF src, k
<1>3. k \in CustomerNumbers(src.customer)
  BY <1>1 DEF Accepts, k
<1>4. queued'.pdf \subseteq Customers
      /\ (queued'.pdf = {queued'.source.customer} \/ FormMissed(queued'))
  BY <1>1, <1>2, PdfOfSource DEF FormMissed, Misses
<1>5. src.customer \in Holders(k)
  <2>1. PICK s \in Sources : OwnerOf[s] = src.customer /\ book[s] # NoNumber
                             /\ k = Normalize(book[s])
    BY <1>3 DEF CustomerNumbers
  <2> QED
    BY <2>1 DEF Holders
<1>6. queued'.source = src /\ queued'.holders = Holders(k)
  BY <1>1
<1>7. src \in Source
  BY <1>2, SourceTypes
<1>8. Dialogs'
  BY <1>1, CloseInv
<1> QED
  BY <1>4, <1>5, <1>6, <1>7, <1>8 DEF QueuedOK, PdfOfTheRecipient, FormMissed

\* The site's data keeps its types, and open dialogs stay what they were.
LEMMA SiteChangeInv ==
  ASSUME ComposerInv,
         \/ \E s \in Sources, raw \in Raws \cup {NoNumber} : EditNumber(s, raw)
         \/ \E s \in Sources : ChangeAccess(s)
         \/ \E p \in Formats : ChangeFormat(p)
         \/ \E registry \in External : InstallApp(registry)
         \/ \E r \in Reports : ReportGrows(r)
  PROVE  ComposerInv'
<1>1. SiteChange
  BY DEF EditNumber, ChangeAccess, ChangeFormat, InstallApp, ReportGrows
<1>2. /\ changes < MaxChanges /\ changes' = changes + 1
      /\ UNCHANGED <<templates, saving, migration, seeds, roles, raced, composer, queued>>
  BY <1>1 DEF SiteChange, Change
<1>3. changes \in Nat /\ MaxChanges \in Nat
  BY TemplatesAssumption, ChangesNat DEF ComposerInv
<1>4. TemplatesInv'
  <2>1. changes' \in 0 .. MaxChanges
    BY <1>2, <1>3
  <2> QED
    BY <1>2, <2>1 DEF ComposerInv, TemplatesInv, TemplatesTypeOK, OneTarget, TargetNamed
<1>5. Dialogs'
  <2>1. \A u \in Senders : composer[u] # Closed => DialogOK(composer[u], changes')
    BY <1>2, <1>3, DialogLater DEF ComposerInv, Dialogs
  <2> QED
    BY <1>2, <2>1 DEF ComposerInv, Dialogs
<1>6. SiteTypes'
  <2> USE DEF ComposerInv, SiteTypes
  <2>1. ASSUME NEW s \in Sources, NEW raw \in Raws \cup {NoNumber}, EditNumber(s, raw)
        PROVE  SiteTypes'
    BY <2>1 DEF EditNumber
  <2>2. ASSUME NEW s \in Sources, ChangeAccess(s)
        PROVE  SiteTypes'
    BY <2>2 DEF ChangeAccess
  <2>3. ASSUME NEW p \in Formats, ChangeFormat(p)
        PROVE  SiteTypes'
    BY <2>3 DEF ChangeFormat
  <2>4. ASSUME NEW registry \in External, InstallApp(registry)
        PROVE  SiteTypes'
    BY <2>4 DEF InstallApp
  <2>5. ASSUME NEW r \in Reports, ReportGrows(r)
        PROVE  SiteTypes'
    BY <2>5 DEF ReportGrows
  <2> QED
    BY <2>1, <2>2, <2>3, <2>4, <2>5
<1>7. QueuedOK' /\ PdfOfTheRecipient'
  BY <1>2 DEF ComposerInv, QueuedOK, PdfOfTheRecipient
<1> QED
  BY <1>4, <1>5, <1>6, <1>7 DEF ComposerInv

\* Senders read the site's data and the templates, and write neither.
LEMMA SenderInv ==
  ASSUME ComposerInv, UNCHANGED <<templateVars, siteVars>>, Dialogs', QueuedOK',
         PdfOfTheRecipient'
  PROVE  ComposerInv'
<1>1. TemplatesInv'
  BY DEF ComposerInv, TemplatesInv, TemplatesTypeOK, OneTarget, TargetNamed, templateVars
<1>2. SiteTypes'
  BY DEF ComposerInv, SiteTypes, siteVars
<1> QED
  BY <1>1, <1>2 DEF ComposerInv

\* Whatever managers, apps and senders do, the invariant stays.
LEMMA ComposerStep ==
  ASSUME ComposerInv, [ComposerNext]_composerVars
  PROVE  ComposerInv'
<1>1. CASE TemplatesNext /\ UNCHANGED <<siteVars, composer, queued>>
  <2>1. TemplatesInv'
    BY <1>1, TemplatesStep DEF ComposerInv
  <2>2. changes \in Nat /\ changes' \in Nat /\ changes <= changes'
    <3>1. changes \in Nat
      BY ChangesNat DEF ComposerInv
    <3>2. changes' = changes \/ changes' = changes + 1
      BY <1>1 DEF TemplatesNext, BeginSave, CommitSave, RollBackSave, DeleteTemplate,
         BeginMigration, CommitMigration, Change
    <3> QED
      BY <3>1, <3>2
  <2>3. Dialogs'
    <3>1. \A u \in Senders : composer[u] # Closed => DialogOK(composer[u], changes')
      BY <2>2, DialogLater DEF ComposerInv, Dialogs
    <3> QED
      BY <1>1, <3>1 DEF ComposerInv, Dialogs
  <2>4. SiteTypes' /\ QueuedOK' /\ PdfOfTheRecipient'
    BY <1>1 DEF ComposerInv, SiteTypes, siteVars, QueuedOK, PdfOfTheRecipient
  <2> QED
    BY <2>1, <2>3, <2>4 DEF ComposerInv
<1>2. ASSUME NEW u \in Senders, NEW src, SourceOK(src), Prepare(u, src)
      PROVE  ComposerInv'
  <2>1. UNCHANGED <<templateVars, siteVars, queued>> /\ Dialogs'
    BY <1>2, PrepareInv DEF Prepare
  <2>2. QueuedOK' /\ PdfOfTheRecipient'
    BY <2>1 DEF ComposerInv, QueuedOK, PdfOfTheRecipient
  <2> QED
    BY <2>1, <2>2, SenderInv
<1>3. ASSUME NEW u \in Senders, NEW format, PreviewDocumentPdf(u, format) \/ PreviewReportPdf(u)
      PROVE  ComposerInv'
  <2>1. composer[u] # Closed /\ Previewed(u)
    BY <1>3 DEF PreviewDocumentPdf, PreviewReportPdf
  <2>2. UNCHANGED <<templateVars, siteVars, queued>> /\ Dialogs'
    BY <2>1, PreviewInv DEF Previewed
  <2>3. QueuedOK' /\ PdfOfTheRecipient'
    BY <2>2 DEF ComposerInv, QueuedOK, PdfOfTheRecipient
  <2> QED
    BY <2>2, <2>3, SenderInv
<1>4. ASSUME NEW u \in Senders, Close(u)
      PROVE  ComposerInv'
  <2>1. UNCHANGED <<templateVars, siteVars, queued>> /\ Dialogs'
    BY <1>4, CloseInv DEF Close, templateVars
  <2>2. QueuedOK' /\ PdfOfTheRecipient'
    BY <2>1 DEF ComposerInv, QueuedOK, PdfOfTheRecipient
  <2> QED
    BY <2>1, <2>2, SenderInv
<1>5. ASSUME NEW u \in Senders, NEW number, NEW format, NEW n, Queue(u, number, format, n)
      PROVE  ComposerInv'
  <2>1. UNCHANGED <<templateVars, siteVars>>
    BY <1>5 DEF Queue
  <2> QED
    BY <1>5, <2>1, QueueInv, SenderInv
<1>6. CASE UNCHANGED composerVars
  <2>1. UNCHANGED <<templateVars, siteVars, composer, queued>> /\ UNCHANGED changes
    BY <1>6 DEF composerVars, templateVars
  <2>2. Dialogs' /\ QueuedOK' /\ PdfOfTheRecipient'
    BY <2>1 DEF ComposerInv, Dialogs, QueuedOK, PdfOfTheRecipient
  <2> QED
    BY <2>1, <2>2, SenderInv
<1>7. ASSUME NEW u \in Senders,
             \/ \E t \in Doctypes : PrepareDocument(u, t)
             \/ \E r \in Reports, f \in Filters : PrepareReport(u, r, f)
      PROVE  ComposerInv'
  <2>1. \E src : SourceOK(src) /\ Prepare(u, src)
    BY <1>7 DEF PrepareDocument, PrepareReport, SourceOK
  <2> QED
    BY <1>2, <2>1
<1> QED
  BY <1>1, <1>3, <1>4, <1>5, <1>6, <1>7, SiteChangeInv DEF ComposerNext

\* No dialog is open and nothing queued in the beginning.
LEMMA ComposerStarts ==
  ASSUME ComposerInit
  PROVE  ComposerInv
<1>1. TemplatesInv
  <2> USE DEF ComposerInit, TemplatesInit
  <2>1. changes \in 0 .. MaxChanges
    BY TemplatesAssumption
  <2>2. roles \in BOOLEAN
    OBVIOUS
  <2>3. /\ templates \in [Names -> Template \cup {NoTemplate}]
        /\ \A n \in Names : templates[n] = NoTemplate
    OBVIOUS
  <2>4. /\ saving \in [Editors -> {Idle} \cup [name : Names, row : Template]]
        /\ \A e \in Editors : saving[e] = Idle
    OBVIOUS
  <2>5. migration = "idle" /\ seeds = {} /\ raced = {}
    OBVIOUS
  <2> QED
    BY <2>1, <2>2, <2>3, <2>4, <2>5 DEF TemplatesInv, TemplatesTypeOK
<1>2. SiteTypes
  <2>1. hooks \in Seq(External)
    <3>1. hooks = <<>>
      BY DEF ComposerInit
    <3> QED
      BY <3>1
  <2>2. size \in [Reports -> Nat]
    BY ComposerAssumption DEF ComposerInit
  <2> QED
    BY <2>1, <2>2 DEF ComposerInit, SiteTypes
<1>3. Dialogs /\ QueuedOK /\ PdfOfTheRecipient
  BY DEF ComposerInit, Dialogs, QueuedOK, PdfOfTheRecipient
<1> QED
  BY <1>1, <1>2, <1>3 DEF ComposerInv

\* queue_document and queue_report, whatever was edited, withdrawn, reassigned or
\* installed while the dialog was open: the number is one the customer has, and the
\* PDF shows this customer and nobody else, unless an app's adapter without a
\* renderer misses the form of filter its report reads.  No assumption is made of
\* the apps.
THEOREM PdfIsTheRecipients == ComposerSpec => []PdfOfTheRecipient
<1>1. ComposerInit => ComposerInv
  BY ComposerStarts
<1>2. ComposerInv /\ [ComposerNext]_composerVars => ComposerInv'
  BY ComposerStep
<1>3. ComposerInv => PdfOfTheRecipient
  BY DEF ComposerInv
<1> QED
  BY <1>1, <1>2, <1>3, PTL DEF ComposerSpec

\* Types of templates, site data, dialogs and the last delivery; an open dialog
\* always has a number, a print format and a message to choose.
THEOREM ComposerTypesKept == ComposerSpec => []ComposerTypeOK
<1>1. ComposerInit => ComposerInv
  BY ComposerStarts
<1>2. ComposerInv /\ [ComposerNext]_composerVars => ComposerInv'
  BY ComposerStep
<1>3. ComposerInv => ComposerTypeOK
  <2> SUFFICES ASSUME ComposerInv PROVE ComposerTypeOK
    OBVIOUS
  <2>1. TemplatesTypeOK /\ SiteTypes /\ Dialogs /\ QueuedOK /\ PdfOfTheRecipient
    BY DEF ComposerInv, TemplatesInv
  <2>2. \A i \in 1 .. Len(hooks) : hooks[i] \in External
    BY <2>1 DEF SiteTypes
  <2>3. ASSUME NEW u \in Senders, composer[u] # Closed
        PROVE  /\ composer[u].source \in Source
               /\ {} \notin {composer[u].numbers, composer[u].formats, composer[u].templates}
               /\ composer[u].templates \subseteq Names \cup {Blank}
               /\ NoNumber \notin composer[u].numbers
               /\ composer[u].at \in 0 .. changes
    <3>1. DialogOK(composer[u], changes)
      BY <2>1, <2>3 DEF Dialogs
    <3>2. composer[u].source \in Source
      BY <3>1, SourceTypes DEF DialogOK
    <3> QED
      BY <3>1, <3>2 DEF DialogOK
  <2>4. queued # Nothing => queued.source \in Source /\ queued.pdf \subseteq Customers
    BY <2>1 DEF QueuedOK
  <2> QED
    BY <2>1, <2>2, <2>3, <2>4 DEF ComposerTypeOK, SiteTypes
<1> QED
  BY <1>1, <1>2, <1>3, PTL DEF ComposerSpec

-----------------------------------------------------------------------------
(* Numbers *)

\* What _normalize_number returns: a plus sign and the digits of a number that
\* begins with a country code.
Normal(k) ==
    \E d \in Seq(Digits) :
       /\ k = <<"+">> \o d
       /\ Len(d) \in MinDigits .. MaxDigits
       /\ d[1] \in Ascii \ {"0"}

\* Compact leaves a sequence.
LEMMA CompactIsSeq ==
  ASSUME NEW s \in Seq(STRING)
  PROVE  \E S : Compact(s) \in Seq(S)
<1> DEFINE kept == {i \in 1 .. Len(s) : s[i] \notin Separators}
<1>1. kept \in SUBSET (1 .. Len(s)) /\ 1 \in Int /\ Len(s) \in Int
  OBVIOUS
<1>2. IsFiniteSet(kept)
  <2> HIDE DEF kept
  <2> QED
    BY <1>1, FS_Interval, FS_Subset
<1>3. Cardinality(kept) \in Nat
  <2> HIDE DEF kept
  <2> QED
    BY <1>2, FS_CardinalityType
<1> DEFINE n == Cardinality(kept)
           S == {Compact(s)[k] : k \in 1 .. n}
<1>4. Compact(s) = [k \in 1 .. n |-> Compact(s)[k]]
  BY DEF Compact
<1>5. Compact(s) \in [1 .. n -> S]
  BY <1>4
<1> HIDE DEF n, S
<1>6. n \in Nat
  BY <1>3 DEF n
<1>7. Compact(s) \in Seq(S)
  BY <1>5, <1>6
<1> QED
  BY <1>7

\* The plus sign is a separator, and digits are none.
LEMMA CompactPlus ==
  ASSUME NEW d \in Seq(Digits)
  PROVE  Compact(<<"+">> \o d) = d
<1> DEFINE s == <<"+">> \o d
           n == Len(d)
           kept == {i \in 1 .. Len(s) : s[i] \notin Separators}
           At(k) == CHOOSE i \in kept : Cardinality({j \in kept : j <= i}) = k
<1>1. n \in Nat /\ Len(s) = n + 1 /\ s[1] = "+" /\ \A i \in 1 .. n : s[i + 1] = d[i]
  OBVIOUS
<1>2. \A i \in 1 .. n : d[i] \notin Separators
  <2>1. \A i \in 1 .. n : d[i] \in Digits
    OBVIOUS
  <2>2. \A x \in Digits : x \notin Separators
    BY DEF Digits, Ascii, Separators
  <2> QED
    BY <2>1, <2>2
<1>3. \A i \in 2 .. n + 1 : i - 1 \in 1 .. n /\ s[i] = d[i - 1]
  <2> SUFFICES ASSUME NEW i \in 2 .. n + 1 PROVE i - 1 \in 1 .. n /\ s[i] = d[i - 1]
    OBVIOUS
  <2>1. i - 1 \in 1 .. n /\ (i - 1) + 1 = i
    BY <1>1
  <2> QED
    BY <1>1, <2>1
<1>4. kept = 2 .. n + 1
  <2>1. "+" \in Separators
    BY DEF Separators
  <2> HIDE DEF s, n
  <2> QED
    BY <1>1, <1>2, <1>3, <2>1
<1>5. Cardinality(kept) = n
  <2>1. 2 \in Int /\ n + 1 \in Int
    BY <1>1
  <2>2. Cardinality(2 .. n + 1) = IF 2 > n + 1 THEN 0 ELSE (n + 1) - 2 + 1
    BY <2>1, FS_Interval
  <2> HIDE DEF kept, n
  <2> QED
    BY <1>1, <1>4, <2>2
<1>6. \A i \in kept : Cardinality({j \in kept : j <= i}) = i - 1
  <2> SUFFICES ASSUME NEW i \in kept PROVE Cardinality({j \in kept : j <= i}) = i - 1
    OBVIOUS
  <2> HIDE DEF kept, n
  <2>1. i \in Int /\ 2 <= i /\ i <= n + 1
    BY <1>1, <1>4
  <2>2. {j \in kept : j <= i} = 2 .. i
    BY <1>1, <1>4, <2>1
  <2>3. Cardinality(2 .. i) = IF 2 > i THEN 0 ELSE i - 2 + 1
    BY <2>1, FS_Interval
  <2>4. (IF 2 > i THEN 0 ELSE i - 2 + 1) = i - 1
    BY <2>1
  <2> QED
    BY <2>2, <2>3, <2>4
<1>7. \A k \in 1 .. n : At(k) = k + 1
  <2> SUFFICES ASSUME NEW k \in 1 .. n PROVE At(k) = k + 1
    OBVIOUS
  <2>1. k + 1 \in kept /\ Cardinality({j \in kept : j <= k + 1}) = k
    <3>1. k + 1 \in 2 .. n + 1 /\ (k + 1) - 1 = k
      BY <1>1
    <3>2. k + 1 \in kept
      BY <1>4, <3>1
    <3>3. Cardinality({j \in kept : j <= k + 1}) = (k + 1) - 1
      BY <1>6, <3>2
    <3> QED
      BY <3>1, <3>2, <3>3
  <2>2. \A i \in kept : Cardinality({j \in kept : j <= i}) = k => i = k + 1
    <3> SUFFICES ASSUME NEW i \in kept, Cardinality({j \in kept : j <= i}) = k
                 PROVE  i = k + 1
      OBVIOUS
    <3>1. i - 1 = k
      BY <1>6
    <3>2. i \in Int /\ k \in Int
      BY <1>1, <1>4
    <3> QED
      BY <3>1, <3>2
  <2> HIDE DEF kept
  <2> QED
    BY <2>1, <2>2
<1>8. Compact(s) = [k \in 1 .. n |-> s[At(k)]]
  BY <1>5 DEF Compact
<1>9. \A k \in 1 .. n : s[At(k)] = d[k]
  <2> HIDE DEF At, s, n
  <2> QED
    BY <1>1, <1>7
<1> HIDE DEF At
<1>10. [k \in 1 .. n |-> s[At(k)]] = [k \in 1 .. n |-> d[k]]
  BY <1>9
<1>11. d = [k \in 1 .. n |-> d[k]]
  OBVIOUS
<1> HIDE DEF s, n
<1> QED
  BY <1>8, <1>10, <1>11 DEF s

\* Dropping the prefix 00 leaves a sequence, and a number without it alone.
LEMMA DropPrefixIsSeq ==
  ASSUME NEW S, NEW s \in Seq(S)
  PROVE  DropPrefix(s) \in Seq(S)
BY DEF DropPrefix

\* _normalize_number: what it accepts is normal.
LEMMA NormalizeNormal ==
  ASSUME NEW v \in Seq(STRING), Normalize(v) # NoNumber
  PROVE  Normal(Normalize(v))
<1> DEFINE d == DropPrefix(Compact(v))
<1>1. PICK S : Compact(v) \in Seq(S)
  BY CompactIsSeq
<1>2. d \in Seq(S)
  BY <1>1, DropPrefixIsSeq
<1> HIDE DEF d
<1>3. /\ Normalize(v) = <<"+">> \o d
      /\ Len(d) \in MinDigits .. MaxDigits
      /\ d[1] \in Ascii \ {"0"} /\ AllIn(d, Digits)
  BY DEF Normalize, d
<1>4. d \in Seq(Digits)
  <2>1. Len(d) \in Nat /\ d = [i \in 1 .. Len(d) |-> d[i]]
    BY <1>2
  <2>2. \A i \in 1 .. Len(d) : d[i] \in Digits
    BY <1>3 DEF AllIn
  <2>3. d \in [1 .. Len(d) -> Digits]
    BY <2>1, <2>2
  <2> QED
    BY <2>1, <2>3
<1> QED
  BY <1>3, <1>4 DEF Normal

\* A normal number is normalised to itself, by the site a second time and by
\* normalizeInternationalNumber of the gateway, to its digits.
LEMMA NormalAgain ==
  ASSUME NEW k, Normal(k)
  PROVE  /\ Normalize(k) = k
         /\ AllIn(Tail(k), Ascii) => NormalizeInternational(k) = Tail(k)
<1>1. PICK d \in Seq(Digits) : /\ k = <<"+">> \o d
                               /\ Len(d) \in MinDigits .. MaxDigits
                               /\ d[1] \in Ascii \ {"0"}
  BY DEF Normal
<1>2. Compact(k) = d
  BY <1>1, CompactPlus
<1>3. DropPrefix(d) = d
  BY <1>1 DEF DropPrefix
<1>4. AllIn(d, Digits)
  BY DEF AllIn
<1>5. Normalize(k) = k
  BY <1>1, <1>2, <1>3, <1>4 DEF Normalize
<1>6. Tail(k) = d
  <2>1. d = [i \in 1 .. Len(d) |-> d[i]] /\ Len(d) \in Nat
    OBVIOUS
  <2>2. k \in Seq(Digits \cup {"+"}) /\ Len(k) = Len(d) + 1
        /\ \A i \in 1 .. Len(d) : k[i + 1] = d[i]
    BY <1>1
  <2>3. Tail(k) \in Seq(Digits \cup {"+"}) /\ Len(Tail(k)) = Len(d)
        /\ \A i \in 1 .. Len(d) : Tail(k)[i] = k[i + 1]
    BY <2>1, <2>2
  <2>4. d \in Seq(Digits \cup {"+"})
    OBVIOUS
  <2> QED
    BY <2>2, <2>3, <2>4, SeqEqual
<1>7. AllIn(d, Ascii) => NormalizeInternational(k) = d
  BY <1>1, <1>2, <1>3 DEF NormalizeInternational
<1> QED
  BY <1>5, <1>6, <1>7

\* _customer_numbers offers normal numbers.
LEMMA OfferedNormal ==
  ASSUME SiteTypes, NEW c, NEW k \in CustomerNumbers(c)
  PROVE  Normal(k)
<1>1. PICK s \in Sources : book[s] # NoNumber /\ k = Normalize(book[s]) /\ k # NoNumber
  BY DEF CustomerNumbers
<1>2. book[s] \in Seq(STRING)
  BY <1>1, ComposerAssumption DEF SiteTypes
<1> QED
  BY <1>1, <1>2, NormalizeNormal

-----------------------------------------------------------------------------
(* What is offered is accepted *)

\* A dialog that offers what it would offer if it were opened now.
UpToDate(c) ==
    /\ roles /\ Allowed(c.source)
    /\ c.numbers = CustomerNumbers(c.source.customer)
    /\ c.formats = FormatsFor(c.source)
    /\ c.templates = TemplateRows(c.source.target, CompanyOf(c.source))
    /\ c.previewed => Renders(c.source)

\* Nothing has changed since it was opened: then it does.
Fresh ==
    \A u \in Senders : \A c :
       composer[u] = c /\ c # Closed /\ c.at = changes => UpToDate(c)

QueuedNormal == queued # Nothing => Normal(queued.number)

OfferInv == ComposerInv /\ Fresh /\ QueuedNormal

\* The offer is a function of templates, roles and the site's data.
LEMMA SameOffer ==
  ASSUME UNCHANGED <<templates, roles, siteVars>>, NEW c, UpToDate(c)
  PROVE  UpToDate(c)'
<1>1. UNCHANGED <<templates, roles, book, readable, formats, hooks, size>>
  BY DEF siteVars
<1>2. \A x : CustomerNumbers(x)' = CustomerNumbers(x)
  BY <1>1 DEF CustomerNumbers
<1>3. \A x : FormatsFor(x)' = FormatsFor(x)
  BY <1>1 DEF FormatsFor, PrintFormats
<1>4. \A t, company : TemplateRows(t, company)' = TemplateRows(t, company)
  BY <1>1 DEF TemplateRows
<1>5. \A r : ReportAdapter(r)' = ReportAdapter(r)
  BY <1>1 DEF ReportAdapter
<1>6. \A x : Renders(x)' <=> Renders(x)
  BY <1>1, <1>5 DEF Renders, RendersReport
<1>7. \A x : Allowed(x)' <=> Allowed(x)
  BY <1>1, <1>5 DEF Allowed, ReportAllowed, RegistryBroken
<1>8. \A x : CompanyOf(x)' = CompanyOf(x)
  BY <1>5 DEF CompanyOf
<1> QED
  BY <1>1, <1>2, <1>3, <1>4, <1>6, <1>7, <1>8 DEF UpToDate

\* A step that does not touch the dialogs: it changes nothing they show, or it is
\* counted as a change, and no dialog was opened after it.
LEMMA FreshDialogs ==
  ASSUME OfferInv, UNCHANGED composer,
         \/ UNCHANGED <<templates, roles, siteVars, changes>>
         \/ changes' = changes + 1
  PROVE  Fresh'
<1>1. CASE UNCHANGED <<templates, roles, siteVars, changes>>
  <2>1. \A c : UpToDate(c) => UpToDate(c)'
    BY <1>1, SameOffer
  <2> QED
    BY <1>1, <2>1 DEF OfferInv, Fresh
<1>2. CASE changes' = changes + 1
  <2>1. changes \in Nat
    BY ChangesNat DEF OfferInv, ComposerInv
  <2>2. \A u \in Senders : composer[u] # Closed => composer[u].at \in 0 .. changes
    BY DEF OfferInv, ComposerInv, Dialogs, DialogOK
  <2>3. \A u \in Senders : composer[u] # Closed => composer[u].at # changes'
    BY <1>2, <2>1, <2>2
  <2> QED
    BY <2>3 DEF Fresh
<1> QED
  BY <1>1, <1>2

\* A dialog that is opened, previewed or closed.
LEMMA FreshSender ==
  ASSUME OfferInv, UNCHANGED <<templateVars, siteVars>>, NEW u \in Senders, NEW d,
         composer' = [composer EXCEPT ![u] = d],
         d # Closed /\ d.at = changes => UpToDate(d)
  PROVE  Fresh'
<1>1. UNCHANGED <<templates, roles, siteVars, changes>>
  BY DEF templateVars
<1>2. \A c : UpToDate(c) => UpToDate(c)'
  BY <1>1, SameOffer
<1>3. DOMAIN composer = Senders /\ composer = [v \in Senders |-> composer[v]]
  BY DEF OfferInv, ComposerInv, Dialogs
<1>4. \A v \in Senders : composer'[v] = IF v = u THEN d ELSE composer[v]
  BY <1>3
<1>5. \A v \in Senders : \A c :
         composer'[v] = c /\ c # Closed /\ c.at = changes => UpToDate(c)
  BY <1>4 DEF OfferInv, Fresh
<1> QED
  BY <1>1, <1>2, <1>5 DEF Fresh

\* What prepare offers is what is there.
LEMMA FreshPrepare ==
  ASSUME OfferInv, NEW u \in Senders, NEW src, SourceOK(src), Prepare(u, src)
  PROVE  Fresh'
<1> DEFINE c == [source |-> src, numbers |-> CustomerNumbers(src.customer),
                 formats |-> FormatsFor(src),
                 templates |-> TemplateRows(src.target, CompanyOf(src)),
                 previewed |-> FALSE, at |-> changes]
<1>1. /\ composer' = [composer EXCEPT ![u] = c] /\ UNCHANGED <<templateVars, siteVars>>
      /\ roles /\ Allowed(src)
  BY DEF Prepare
<1>2. UpToDate(c)
  BY <1>1 DEF UpToDate
<1> HIDE DEF c
<1> QED
  BY <1>1, <1>2, FreshSender

\* A preview that was shown could be rendered.
LEMMA FreshPreview ==
  ASSUME OfferInv, NEW u \in Senders, composer[u] # Closed, Previewed(u),
         Renders(composer[u].source)
  PROVE  Fresh'
<1> DEFINE d == [composer[u] EXCEPT !.previewed = (composer[u].at = changes)]
<1>1. composer' = [composer EXCEPT ![u] = d] /\ UNCHANGED <<templateVars, siteVars>>
  BY DEF Previewed
<1>2. DialogOK(composer[u], changes)
  BY DEF OfferInv, ComposerInv, Dialogs
<1>3. /\ d.source = composer[u].source /\ d.numbers = composer[u].numbers
      /\ d.formats = composer[u].formats /\ d.templates = composer[u].templates
      /\ d.at = composer[u].at
  BY <1>2 DEF DialogOK
<1> HIDE DEF d
<1>4. d # Closed /\ d.at = changes => UpToDate(d)
  <2> SUFFICES ASSUME d.at = changes PROVE UpToDate(d)
    OBVIOUS
  <2>1. UpToDate(composer[u])
    BY <1>3 DEF OfferInv, Fresh
  <2> QED
    BY <1>3, <2>1 DEF UpToDate
<1> QED
  BY <1>1, <1>4, FreshSender

\* Whatever is done, a fresh dialog is up to date and a queued number normal.
LEMMA OfferStep ==
  ASSUME OfferInv, [ComposerNext]_composerVars
  PROVE  OfferInv'
<1>1. ComposerInv'
  BY ComposerStep DEF OfferInv
<1>2. CASE TemplatesNext /\ UNCHANGED <<siteVars, composer, queued>>
  <2>1. UNCHANGED <<templates, roles, changes>> \/ changes' = changes + 1
    BY <1>2 DEF TemplatesNext, BeginSave, CommitSave, RollBackSave, DeleteTemplate,
       BeginMigration, CommitMigration, Change
  <2>2. Fresh'
    BY <1>2, <2>1, FreshDialogs
  <2> QED
    BY <1>1, <1>2, <2>2 DEF OfferInv, QueuedNormal
<1>3. ASSUME NEW u \in Senders, NEW src, SourceOK(src), Prepare(u, src)
      PROVE  OfferInv'
  <2>1. Fresh' /\ UNCHANGED queued
    BY <1>3, FreshPrepare DEF Prepare
  <2> QED
    BY <1>1, <2>1 DEF OfferInv, QueuedNormal
<1>4. ASSUME NEW u \in Senders, NEW format, PreviewDocumentPdf(u, format) \/ PreviewReportPdf(u)
      PROVE  OfferInv'
  <2>1. composer[u] # Closed /\ Previewed(u) /\ UNCHANGED queued
    BY <1>4 DEF PreviewDocumentPdf, PreviewReportPdf, Previewed
  <2>2. Renders(composer[u].source)
    BY <1>4, TemplatesAssumption DEF PreviewDocumentPdf, PreviewReportPdf, Renders
  <2> QED
    BY <1>1, <2>1, <2>2, FreshPreview DEF OfferInv, QueuedNormal
<1>5. ASSUME NEW u \in Senders, Close(u)
      PROVE  OfferInv'
  <2>1. composer' = [composer EXCEPT ![u] = Closed]
        /\ UNCHANGED <<templateVars, siteVars, queued>>
    BY <1>5 DEF Close
  <2> QED
    BY <1>1, <2>1, FreshSender DEF OfferInv, QueuedNormal
<1>6. ASSUME NEW u \in Senders, NEW number, NEW format, NEW n, Queue(u, number, format, n)
      PROVE  OfferInv'
  <2>1. composer' = [composer EXCEPT ![u] = Closed] /\ UNCHANGED <<templateVars, siteVars>>
    BY <1>6 DEF Queue
  <2>2. Fresh'
    BY <2>1, FreshSender
  <2>3. Normal(queued'.number)
    <3>1. /\ queued'.number = Normalize(number)
          /\ Normalize(number) \in CustomerNumbers(composer[u].source.customer)
      BY <1>6 DEF Queue, Accepts
    <3> QED
      BY <3>1, OfferedNormal DEF OfferInv, ComposerInv
  <2>4. QueuedNormal'
    BY <2>3 DEF QueuedNormal, Normal
  <2> QED
    BY <1>1, <2>2, <2>4 DEF OfferInv
<1>7. CASE \/ \E s \in Sources, raw \in Raws \cup {NoNumber} : EditNumber(s, raw)
           \/ \E s \in Sources : ChangeAccess(s)
           \/ \E p \in Formats : ChangeFormat(p)
           \/ \E registry \in External : InstallApp(registry)
           \/ \E r \in Reports : ReportGrows(r)
  <2>1. changes' = changes + 1 /\ UNCHANGED <<composer, queued>>
    BY <1>7 DEF EditNumber, ChangeAccess, ChangeFormat, InstallApp, ReportGrows, SiteChange,
       Change
  <2> QED
    BY <1>1, <2>1, FreshDialogs DEF OfferInv, QueuedNormal
<1>8. CASE UNCHANGED composerVars
  <2>1. UNCHANGED <<templates, roles, siteVars, changes>> /\ UNCHANGED <<composer, queued>>
    BY <1>8 DEF composerVars, templateVars
  <2> QED
    BY <1>1, <2>1, FreshDialogs DEF OfferInv, QueuedNormal
<1>9. ASSUME NEW u \in Senders,
             \/ \E t \in Doctypes : PrepareDocument(u, t)
             \/ \E r \in Reports, f \in Filters : PrepareReport(u, r, f)
      PROVE  OfferInv'
  <2>1. \E src : SourceOK(src) /\ Prepare(u, src)
    BY <1>9 DEF PrepareDocument, PrepareReport, SourceOK
  <2> QED
    BY <1>3, <2>1
<1> QED
  BY <1>2, <1>4, <1>5, <1>6, <1>7, <1>8, <1>9 DEF ComposerNext

\* In the beginning no dialog is open.
LEMMA OfferStarts ==
  ASSUME ComposerInit
  PROVE  OfferInv
<1>1. Fresh /\ QueuedNormal
  BY DEF ComposerInit, Fresh, QueuedNormal
<1> QED
  BY <1>1, ComposerStarts DEF OfferInv

\* A template that _template_rows offers passes _validate_selected_template.
LEMMA OfferedTemplate ==
  ASSUME NEW t, NEW company, NEW n \in TemplateRows(t, company)
  PROVE  TemplateAccepted(t, company, n)
BY DEF TemplateRows, TemplateAccepted

\* What the dialog offers, queue_document and queue_report accept: after a preview
\* and while nothing changes, every number, print format and template passes the
\* checks other functions make, the second normalisation included.
THEOREM OffersAreAccepted == ComposerSpec => []OfferAccepted
<1>1. ComposerInit => OfferInv
  BY OfferStarts
<1>2. OfferInv /\ [ComposerNext]_composerVars => OfferInv'
  BY OfferStep
<1>3. OfferInv => OfferAccepted
  <2> SUFFICES ASSUME OfferInv, NEW u \in Senders, NEW c, c = composer[u], c # Closed,
                      c.previewed, c.at = changes,
                      NEW number \in c.numbers, NEW format \in c.formats,
                      NEW n \in c.templates
               PROVE  Accepts(c.source, number, format, n)
    BY DEF OfferAccepted
  <2>1. UpToDate(c)
    BY DEF OfferInv, Fresh
  <2>2. number \in CustomerNumbers(c.source.customer)
    BY <2>1 DEF UpToDate
  <2>3. Normalize(number) = number
    BY <2>2, OfferedNormal, NormalAgain DEF OfferInv, ComposerInv
  <2>4. TemplateAccepted(c.source.target, CompanyOf(c.source), n)
    BY <2>1, OfferedTemplate DEF UpToDate
  <2> QED
    BY <2>1, <2>2, <2>3, <2>4 DEF Accepts, UpToDate
<1> QED
  BY <1>1, <1>2, <1>3, PTL DEF ComposerSpec

\* _normalize_number of the site and normalizeInternationalNumber of the gateway
\* agree: the number of a delivery is dialled as it is, unless it has digits of
\* another script.
THEOREM NumbersAreDialled == ComposerSpec => []NumberReachesGateway
<1>1. ComposerInit => OfferInv
  BY OfferStarts
<1>2. OfferInv /\ [ComposerNext]_composerVars => OfferInv'
  BY OfferStep
<1>3. OfferInv => NumberReachesGateway
  BY NormalAgain DEF OfferInv, QueuedNormal, NumberReachesGateway
<1> QED
  BY <1>1, <1>2, <1>3, PTL DEF ComposerSpec

=============================================================================
