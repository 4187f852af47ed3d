------------------------ MODULE CompanyGroupsProofs ------------------------
(***************************************************************************)
(* For every set of users, companies, groups, sources and deliveries: what *)
(* is sent is what was shown, a group only gets what belongs to a company  *)
(* it was granted to, and a withdrawn copy is not posted.                  *)
(***************************************************************************)
EXTENDS CompanyGroups, TLAPS

\* A counted change of the surroundings stays within its bound.
LEMMA ChangeCounts ==
    ASSUME changes \in 0 .. MaxChanges, Change
    PROVE  changes' \in 0 .. MaxChanges
BY CompanyGroupsAssumption DEF Change

\* Nothing is stored, shown or posted in the beginning.
LEMMA InitInv == GroupsInit => GroupsInv
<1> SUFFICES ASSUME GroupsInit PROVE GroupsInv
    OBVIOUS
<1>1. CompanyGroupsTypeOK
    <2>1. settings \in Settings
        BY DEF GroupsInit, Settings, Rule, NoRule
    <2>2. users \in [Users -> User]
        BY DEF GroupsInit, User
    <2>3. docs \in [Docs -> Doc]
        <3>1. \A c \in Companies : [company |-> c, version |-> 0, fit |-> TRUE] \in Doc
            BY DEF Doc, Versions
        <3> QED
            BY <3>1 DEF GroupsInit
    <2>4. changes \in 0 .. MaxChanges
        <3>1. changes = 0
            BY DEF GroupsInit
        <3> QED
            BY <3>1, CompanyGroupsAssumption
    <2>5. joined \subseteq Groups /\ offers \in Offers
          /\ granted \subseteq Companies \X Groups
        BY DEF GroupsInit, Offers
    <2>6. /\ composer \in [Users -> [source : Sources, version : Versions] \cup {Closed}]
          /\ request \in [Users -> Row \cup {NoRow}]
          /\ rows \in [Deliveries -> Row \cup {NoRow}]
        BY DEF GroupsInit
    <2> QED
        BY <2>1, <2>2, <2>3, <2>4, <2>5, <2>6 DEF CompanyGroupsTypeOK
<1>2. RulesNeedLinkedDevice /\ RulesGranted
    BY DEF GroupsInit, RulesNeedLinkedDevice, RulesGranted, NoRule
<1>3. ComposerSound
    BY CompanyGroupsAssumption DEF GroupsInit, ComposerSound, Closed, Sources
<1>4. RowsSound /\ SentAsShown /\ GroupOfTheCompany /\ CopyHonoursRevocation
    BY DEF GroupsInit, RowsSound, SentAsShown, GroupOfTheCompany, CopyHonoursRevocation
<1> QED
    BY <1>1, <1>2, <1>3, <1>4 DEF GroupsInv

\* A save leaves only enabled rules that are granted, and none of them without a
\* linked device.
LEMMA SavePreserves ==
    ASSUME NEW u \in Users, NEW new \in Settings, GroupsInv, SaveSettings(u, new)
    PROVE  GroupsInv'
<1>1. CompanyGroupsTypeOK'
    <2>1. Grants(u, new) \subseteq Companies \X Groups
        BY DEF Grants, GroupsInv, CompanyGroupsTypeOK
    <2> QED
        BY <2>1, ChangeCounts DEF SaveSettings, GroupsInv, CompanyGroupsTypeOK
<1>2. RulesNeedLinkedDevice'
    BY DEF SaveSettings, ValidateSettings, RulesNeedLinkedDevice
<1>3. RulesGranted'
    <2> SUFFICES ASSUME NEW c \in Companies, new.rules[c].on
                 PROVE  <<c, new.rules[c].group>> \in granted'
        BY DEF SaveSettings, RulesGranted
    <2>1. CASE settings.rules[c] = new.rules[c]
        BY <2>1 DEF SaveSettings, GroupsInv, RulesGranted
    <2>2. CASE settings.rules[c] # new.rules[c]
        <3>1. CanRead(u, c) /\ new.rules[c].group \in joined
            BY <2>2 DEF SaveSettings, ValidateSettings
        <3>2. <<c, new.rules[c].group>> \in Grants(u, new)
            BY <3>1, <2>2 DEF Grants
        <3> QED
            BY <3>2 DEF SaveSettings
    <2> QED
        BY <2>1, <2>2
<1>4. RowsSound'
    <2>1. granted \subseteq granted' /\ request' = request /\ rows' = rows
        BY DEF SaveSettings
    <2> QED
        BY <2>1 DEF GroupsInv, RowsSound, RowSound
<1>5. ComposerSound' /\ SentAsShown' /\ GroupOfTheCompany' /\ CopyHonoursRevocation'
    BY DEF SaveSettings, GroupsInv, ComposerSound, SentAsShown, GroupOfTheCompany, CopyHonoursRevocation
<1> QED
    BY <1>1, <1>2, <1>3, <1>4, <1>5 DEF GroupsInv

\* Changing the provider leaves the group rules and all copies alone.
LEMMA ConfigurePreserves ==
    ASSUME NEW u \in Users, GroupsInv, ConfigureOfficialApi(u)
    PROVE  GroupsInv'
<1> DEFINE new == [settings EXCEPT !.provider = "Official API"]
<1>1. new \in Settings /\ settings' = new /\ new.rules = settings.rules
    BY DEF ConfigureOfficialApi, GroupsInv, CompanyGroupsTypeOK, Settings
<1>2. CompanyGroupsTypeOK'
    BY <1>1, ChangeCounts DEF ConfigureOfficialApi, GroupsInv, CompanyGroupsTypeOK
<1>3. RulesNeedLinkedDevice'
    BY <1>1 DEF ConfigureOfficialApi, ValidateSettings, RulesNeedLinkedDevice
<1>4. RulesGranted' /\ RowsSound'
    BY <1>1 DEF ConfigureOfficialApi, GroupsInv, RulesGranted, RowsSound, RowSound
<1>5. ComposerSound' /\ SentAsShown' /\ GroupOfTheCompany' /\ CopyHonoursRevocation'
    BY DEF ConfigureOfficialApi, GroupsInv, ComposerSound, SentAsShown, GroupOfTheCompany,
           CopyHonoursRevocation
<1> QED
    BY <1>2, <1>3, <1>4, <1>5 DEF GroupsInv

\* What a request stores was checked when it began.
LEMMA EnqueuePreserves ==
    ASSUME NEW u \in Users, NEW x \in Sources, GroupsInv, x = composer[u].source,
           VersionOf(x) = composer[u].version, Enqueue(u, x)
    PROVE  GroupsInv'
<1> DEFINE c == CompanyOf(x)
           r == NewDelivery(u, x)
<1>1. composer[u].version \in Versions /\ c \in Companies
    BY CompanyGroupsAssumption
       DEF GroupsInv, CompanyGroupsTypeOK, Closed, Sources, CompanyOf, Doc, Versions
<1>2. ConfiguredGroup(c) \in Groups \cup {NoGroup}
      /\ (ConfiguredGroup(c) # NoGroup => <<c, ConfiguredGroup(c)>> \in granted)
    BY <1>1 DEF ConfiguredGroup, GroupsInv, CompanyGroupsTypeOK, Settings, Rule, RulesGranted
<1>3. r \in Row /\ RowSound(r)
    BY <1>1, <1>2 DEF NewDelivery, Row, RowSound
<1> HIDE DEF r
<1>4. CompanyGroupsTypeOK'
    BY <1>3 DEF Enqueue, GroupsInv, CompanyGroupsTypeOK, r
<1>5. RowsSound'
    BY <1>3 DEF Enqueue, GroupsInv, RowsSound, RowSound, CompanyGroupsTypeOK, r
<1>6. ComposerSound'
    BY CompanyGroupsAssumption
       DEF Enqueue, GroupsInv, ComposerSound, CompanyGroupsTypeOK, Closed, Sources
<1> QED
    BY <1>4, <1>5, <1>6 DEF Enqueue, GroupsInv, RulesNeedLinkedDevice, RulesGranted,
       ComposerSound, SentAsShown, GroupOfTheCompany, CopyHonoursRevocation

\* Queueing stores at most what the composer showed.
LEMMA QueuePreserves ==
    ASSUME NEW u \in Users, GroupsInv,
           \/ \E x \in Docs : QueueDocument(u, x)
           \/ \E x \in Reports : QueueReport(u, x)
    PROVE  GroupsInv'
<1>1. ASSUME NEW x \in Docs, QueueDocument(u, x) PROVE GroupsInv'
    BY <1>1, EnqueuePreserves DEF QueueDocument, SameAsShown, Sources
<1>2. ASSUME NEW x \in Reports, QueueReport(u, x) PROVE GroupsInv'
    <2>1. VersionOf(x) = composer[u].version
        BY <1>2, CompanyGroupsAssumption DEF QueueReport, VersionOf, GroupsInv, ComposerSound
    <2> QED
        BY <1>2, <2>1, EnqueuePreserves DEF QueueReport, Sources
<1> QED
    BY <1>1, <1>2

\* A request is turned into its rows.
LEMMA StorePreserves ==
    ASSUME NEW u \in Users, NEW d \in Deliveries, GroupsInv, StoreDelivery(u, d)
    PROVE  GroupsInv'
<1>1. CompanyGroupsTypeOK'
    BY DEF StoreDelivery, GroupsInv, CompanyGroupsTypeOK
<1>2. RowsSound'
    BY DEF StoreDelivery, GroupsInv, RowsSound, RowSound, CompanyGroupsTypeOK
<1> QED
    BY <1>1, <1>2 DEF StoreDelivery, GroupsInv, RulesNeedLinkedDevice, RulesGranted,
       ComposerSound, SentAsShown, GroupOfTheCompany, CopyHonoursRevocation

\* The individual message goes out with the content its row holds.
LEMMA PrimaryPreserves ==
    ASSUME NEW d \in Deliveries, GroupsInv, SendPrimary(d)
    PROVE  GroupsInv'
<1> DEFINE sent == [rows[d] EXCEPT !.pdf = "primary" \in rows[d].files]
           post == [to |-> NoGroup, row |-> sent]
<1>1. rows[d] \in Row /\ RowSound(rows[d])
    BY DEF SendPrimary, GroupsInv, CompanyGroupsTypeOK, RowsSound
<1>2. CompanyGroupsTypeOK'
    BY <1>1 DEF SendPrimary, GroupsInv, CompanyGroupsTypeOK, Row
<1>3. RowsSound'
    BY <1>1 DEF SendPrimary, GroupsInv, RowsSound, RowSound, CompanyGroupsTypeOK, Row
<1>4. posts' = posts \cup {post} /\ post.to = NoGroup
    BY DEF SendPrimary, SendDelivery
<1>5. post.row.version = post.row.shown /\ post.row.pdf
    BY <1>1 DEF SendPrimary, PdfPayload, RowSound, Row
<1>6. SentAsShown' /\ GroupOfTheCompany' /\ CopyHonoursRevocation'
    BY <1>4, <1>5 DEF SendPrimary, GroupsInv, SentAsShown, GroupOfTheCompany,
       CopyHonoursRevocation
<1> QED
    BY <1>2, <1>3, <1>6 DEF SendPrimary, GroupsInv, RulesNeedLinkedDevice, RulesGranted,
       ComposerSound

\* The checks of validate_copy imply what the sender could do by hand.
LEMMA ChecksSuffice ==
    ASSUME NEW d \in Deliveries, GroupsInv, rows[d] \in Row, rows[d].copy = "waiting",
           settings.on, ValidateCopy(d)
    PROVE  MayBeCopied(d)
<1> DEFINE r == rows[d]
<1>1. r.owner \in Users /\ r.source \in Sources /\ r.company \in Companies
    BY DEF Row
<1>2. /\ users[r.owner].enabled /\ users[r.owner].role # "other"
      /\ r.source \in users[r.owner].sources
    BY <1>1 DEF ValidateCopy, RequireSender, ValidateSource, ValidateDocument, ValidateReport
<1>3. r.group # NoGroup /\ ConfiguredGroup(r.company) = r.group
    <2>1. rows[d] # NoRow
        BY DEF NoRow
    <2>2. RowSound(rows[d])
        BY <2>1 DEF GroupsInv, RowsSound
    <2> QED
        BY <2>2 DEF RowSound, ValidateCopy
<1>4. settings.rules[r.company].on /\ settings.rules[r.company].group = r.group
    BY <1>3 DEF ConfiguredGroup
<1>5. settings.provider = "Linked Device" /\ r.company \in users[r.owner].companies
    BY <1>4 DEF ValidateCopy, CopyRefused, CanRead
<1>6. settings.rules[r.company] = [on |-> TRUE, group |-> r.group]
    <2>1. settings.rules[r.company] \in Rule
        BY <1>1 DEF GroupsInv, CompanyGroupsTypeOK, Settings
    <2>2. settings.rules[r.company] \in [on : BOOLEAN, group : Groups]
        BY <2>1, <1>3, <1>4 DEF Rule
    <2> QED
        BY <2>2, <1>4
<1>7. settings = [settings EXCEPT !.on = TRUE, !.provider = "Linked Device",
                     !.rules[r.company] = [on |-> TRUE, group |-> r.group]]
    BY <1>1, <1>5, <1>6 DEF GroupsInv, CompanyGroupsTypeOK, Settings
<1>8. r.source \in Docs =>
         /\ docs[r.source] = [company |-> r.company, version |-> r.version, fit |-> TRUE]
         /\ r.source \in offers.formats
    BY <1>1 DEF ValidateCopy, ValidateSource, ValidateDocument, ValidatePrintFormat,
       GroupsInv, CompanyGroupsTypeOK, Doc
<1> QED
    BY <1>2, <1>5, <1>7, <1>8 DEF MayBeCopied

\* A copy is taken up only for a company whose rule still names its group.
LEMMA StartPreserves ==
    ASSUME NEW d \in Deliveries, GroupsInv, StartCopy(d)
    PROVE  GroupsInv'
<1>1. rows[d] \in Row /\ RowSound(rows[d])
    BY DEF StartCopy, GroupsInv, CompanyGroupsTypeOK, RowsSound, NoRow
<1>2. MayBeCopied(d) = TRUE
    <2>1. MayBeCopied(d)
        BY <1>1, ChecksSuffice DEF StartCopy
    <2> QED
        BY <2>1, Zenon
<1> DEFINE new == [rows[d] EXCEPT !.copy = "trying", !.allowed = TRUE, !.pdf = TRUE]
<1>3. rows' = [rows EXCEPT ![d] = new]
    <2>1. ("copy" \in rows[d].files) = TRUE
        BY DEF StartCopy, PdfPayload
    <2>2. rows' = [rows EXCEPT ![d].copy = "trying", ![d].allowed = TRUE, ![d].pdf = TRUE]
        BY <1>2, <2>1 DEF StartCopy
    <2> QED
        BY <2>2, <1>1 DEF GroupsInv, CompanyGroupsTypeOK
<1>4. new \in Row /\ RowSound(new)
    BY <1>1 DEF Row, RowSound, StartCopy
<1> HIDE DEF new
<1>5. CompanyGroupsTypeOK'
    <2>1. rows' \in [Deliveries -> Row \cup {NoRow}]
        BY <1>3, <1>4 DEF GroupsInv, CompanyGroupsTypeOK
    <2> QED
        BY <2>1 DEF StartCopy, GroupsInv, CompanyGroupsTypeOK
<1>6. RowsSound'
    <2>1. rows \in [Deliveries -> Row \cup {NoRow}]
        BY DEF GroupsInv, CompanyGroupsTypeOK
    <2>2. \A e \in Deliveries : rows'[e] = IF e = d THEN new ELSE rows[e]
        BY <1>3, <2>1
    <2>3. \A e \in Deliveries : rows[e] # NoRow => RowSound(rows[e])
        BY DEF GroupsInv, RowsSound
    <2>4. \A e \in Deliveries : rows'[e] # NoRow => RowSound(rows'[e])
        BY <1>4, <2>2, <2>3
    <2> QED
        BY <2>4 DEF StartCopy, GroupsInv, RowsSound, RowSound
<1> QED
    BY <1>5, <1>6 DEF StartCopy, GroupsInv, RulesNeedLinkedDevice, RulesGranted,
       ComposerSound, SentAsShown, GroupOfTheCompany, CopyHonoursRevocation

\* A copy is posted to the group its row names, with the content of its row.
LEMMA PostPreserves ==
    ASSUME NEW d \in Deliveries, GroupsInv, PostCopy(d)
    PROVE  GroupsInv'
<1> DEFINE post == [to |-> rows[d].group, row |-> rows[d]]
<1>1. rows[d] \in Row /\ RowSound(rows[d]) /\ rows[d].copy = "trying"
    BY DEF PostCopy, GroupsInv, CompanyGroupsTypeOK, RowsSound, NoRow
<1>2. CompanyGroupsTypeOK'
    BY <1>1 DEF PostCopy, GroupsInv, CompanyGroupsTypeOK, Row
<1>3. RowsSound'
    BY <1>1 DEF PostCopy, GroupsInv, RowsSound, RowSound, CompanyGroupsTypeOK, Row
<1>4. posts' = posts \cup {post} /\ post.to = rows[d].group /\ post.row = rows[d]
    BY DEF PostCopy, SendDelivery
<1>5. SentAsShown' /\ GroupOfTheCompany' /\ CopyHonoursRevocation'
    BY <1>1, <1>4 DEF PostCopy, RowSound, GroupsInv, SentAsShown, GroupOfTheCompany,
       CopyHonoursRevocation
<1> QED
    BY <1>2, <1>3, <1>5 DEF PostCopy, GroupsInv, RulesNeedLinkedDevice, RulesGranted,
       ComposerSound

\* A failed copy, or lost files, change what is left to send and not what was sent.
LEMMA RowChangesPreserve ==
    ASSUME NEW d \in Deliveries, GroupsInv,
           CopyFails(d) \/ \E which \in SUBSET {"primary", "copy"} : SpoilFiles(d, which)
    PROVE  GroupsInv'
<1>1. rows[d] \in Row /\ RowSound(rows[d])
    BY DEF CopyFails, SpoilFiles, GroupsInv, CompanyGroupsTypeOK, RowsSound, NoRow
<1>2. CASE CopyFails(d)
    <2>1. CompanyGroupsTypeOK'
        BY <1>1, <1>2 DEF CopyFails, GroupsInv, CompanyGroupsTypeOK, Row
    <2>2. RowsSound'
        BY <1>1, <1>2 DEF CopyFails, GroupsInv, RowsSound, RowSound, CompanyGroupsTypeOK, Row
    <2> QED
        BY <1>2, <2>1, <2>2 DEF CopyFails, GroupsInv, RulesNeedLinkedDevice, RulesGranted,
           ComposerSound, SentAsShown, GroupOfTheCompany, CopyHonoursRevocation
<1>3. ASSUME NEW which \in SUBSET {"primary", "copy"}, SpoilFiles(d, which)
      PROVE  GroupsInv'
    <2>1. CompanyGroupsTypeOK'
        BY <1>1, <1>3, ChangeCounts DEF SpoilFiles, GroupsInv, CompanyGroupsTypeOK, Row
    <2>2. RowsSound'
        BY <1>1, <1>3 DEF SpoilFiles, GroupsInv, RowsSound, RowSound, CompanyGroupsTypeOK, Row
    <2> QED
        BY <1>3, <2>1, <2>2 DEF SpoilFiles, GroupsInv, RulesNeedLinkedDevice, RulesGranted,
           ComposerSound, SentAsShown, GroupOfTheCompany, CopyHonoursRevocation
<1> QED
    BY <1>2, <1>3

\* The composer, documents, users, memberships and choices: none of the facts
\* about rules, rows and posts is about them.
LEMMA OthersPreserve ==
    ASSUME GroupsInv, CompanyGroupsTypeOK', ComposerSound',
           UNCHANGED <<settings, request, rows, granted, posts>>
    PROVE  GroupsInv'
BY DEF GroupsInv, RulesNeedLinkedDevice, RulesGranted, RowsSound, RowSound, SentAsShown,
   GroupOfTheCompany, CopyHonoursRevocation

\* The composer shows the present version of a source.
LEMMA ShowPreserves ==
    ASSUME NEW u \in Users, NEW x \in Sources, GroupsInv, Show(u, x)
    PROVE  GroupsInv'
<1>1. VersionOf(x) \in Versions /\ (x \in Reports => VersionOf(x) = 0)
    BY CompanyGroupsAssumption DEF VersionOf, GroupsInv, CompanyGroupsTypeOK, Doc, Versions
<1>2. CompanyGroupsTypeOK'
    BY <1>1 DEF Show, GroupsInv, CompanyGroupsTypeOK
<1>3. ComposerSound'
    BY <1>1 DEF Show, GroupsInv, CompanyGroupsTypeOK, ComposerSound
<1> QED
    BY <1>2, <1>3, OthersPreserve DEF Show

\* Every step keeps the invariant.
LEMMA StepInv == GroupsInv /\ [GroupsNext]_groupVars => GroupsInv'
<1> SUFFICES ASSUME GroupsInv, [GroupsNext]_groupVars PROVE GroupsInv'
    OBVIOUS
<1>1. ASSUME NEW u \in Users, NEW x \in Sources, PrepareDocument(u, x) \/ PrepareReport(u, x)
      PROVE  GroupsInv'
    BY <1>1, ShowPreserves DEF PrepareDocument, PrepareReport
<1>2. ASSUME NEW x \in Docs, NEW c \in Companies, NEW fit \in BOOLEAN,
             EditDocument(x, c, fit)
      PROVE  GroupsInv'
    <2>1. CompanyGroupsTypeOK'
        BY <1>2, ChangeCounts DEF EditDocument, GroupsInv, CompanyGroupsTypeOK, Doc, Versions
    <2> QED
        BY <1>2, <2>1, OthersPreserve DEF EditDocument, GroupsInv, ComposerSound
<1>3. ASSUME NEW u \in Users, NEW new \in OneRightChanged(users[u]), ChangeUser(u, new)
      PROVE  GroupsInv'
    <2>1. new \in User
        <3> DEFINE old == users[u]
        <3>1. old \in User
            BY DEF GroupsInv, CompanyGroupsTypeOK
        <3>2. /\ [old EXCEPT !.enabled = ~@] \in User
              /\ [old EXCEPT !.role = "other"] \in User
              /\ [old EXCEPT !.role = "sender"] \in User
            BY <3>1 DEF User
        <3>3. \A c \in Companies :
                 [old EXCEPT !.companies = (@ \ {c}) \cup ({c} \ @)] \in User
            BY <3>1 DEF User
        <3>4. \A x \in Sources :
                 [old EXCEPT !.sources = (@ \ {x}) \cup ({x} \ @)] \in User
            BY <3>1 DEF User
        <3> QED
            BY <3>2, <3>3, <3>4 DEF OneRightChanged
    <2>2. CompanyGroupsTypeOK'
        BY <1>3, <2>1, ChangeCounts DEF ChangeUser, GroupsInv, CompanyGroupsTypeOK
    <2> QED
        BY <1>3, <2>2, OthersPreserve DEF ChangeUser, GroupsInv, ComposerSound
<1>4. ASSUME NEW g \in Groups, ChangeMembership(g) PROVE GroupsInv'
    <2>1. CompanyGroupsTypeOK'
        BY <1>4, ChangeCounts DEF ChangeMembership, GroupsInv, CompanyGroupsTypeOK
    <2> QED
        BY <1>4, <2>1, OthersPreserve DEF ChangeMembership, GroupsInv, ComposerSound
<1>5. ASSUME NEW new \in OneOfferChanged(offers), ChangeOffers(new) PROVE GroupsInv'
    <2>1. new \in Offers
        <3>1. offers \in Offers
            BY DEF GroupsInv, CompanyGroupsTypeOK
        <3> QED
            BY <3>1 DEF OneOfferChanged, Offers
    <2>2. CompanyGroupsTypeOK'
        BY <1>5, <2>1, ChangeCounts DEF ChangeOffers, GroupsInv, CompanyGroupsTypeOK
    <2> QED
        BY <1>5, <2>2, OthersPreserve DEF ChangeOffers, GroupsInv, ComposerSound
<1>6. CASE UNCHANGED groupVars
    <2>1. CompanyGroupsTypeOK'
        BY <1>6 DEF groupVars, GroupsInv, CompanyGroupsTypeOK
    <2> QED
        BY <1>6, <2>1, OthersPreserve DEF groupVars, GroupsInv, ComposerSound
<1> QED
    BY <1>1, <1>2, <1>3, <1>4, <1>5, <1>6, SavePreserves, ConfigurePreserves, QueuePreserves,
       StorePreserves, PrimaryPreserves, StartPreserves, PostPreserves, RowChangesPreserve
       DEF GroupsNext, Sources

\* The inductive invariant of the group copies holds in every reachable state.
THEOREM GroupsInvariance == GroupsSpec => []GroupsInv
BY InitInv, StepInv, PTL DEF GroupsSpec

\* Type correctness of settings, users, composers, requests and rows.
THEOREM GroupTypes == GroupsSpec => []CompanyGroupsTypeOK
<1>1. GroupsInv => CompanyGroupsTypeOK
    BY DEF GroupsInv
<1> QED
    BY <1>1, GroupsInvariance, PTL

\* No sequence of saves, through the form or configure_official_api, leaves an
\* enabled rule with a provider that has no groups.
THEOREM RulesStayUsable == GroupsSpec => []RulesNeedLinkedDevice
<1>1. GroupsInv => RulesNeedLinkedDevice
    BY DEF GroupsInv
<1> QED
    BY <1>1, GroupsInvariance, PTL

\* A group only receives what belongs to a company it was granted to by somebody
\* permitted to (validate_settings, configured_group, validate_copy).
THEOREM CompanysGroupOnly == GroupsSpec => []GroupOfTheCompany
<1>1. GroupsInv => GroupOfTheCompany
    BY DEF GroupsInv
<1> QED
    BY <1>1, GroupsInvariance, PTL

\* A copy whose sender, source, rule or provider was withdrawn before its attempt
\* began is not posted (validate_copy).
THEOREM RevocationHolds == GroupsSpec => []CopyHonoursRevocation
<1>1. GroupsInv => CopyHonoursRevocation
    BY DEF GroupsInv
<1> QED
    BY <1>1, GroupsInvariance, PTL

\* What is sent is what the composer showed (queue_document, _pdf_payload).
THEOREM ShownIsSent == GroupsSpec => []SentAsShown
<1>1. GroupsInv => SentAsShown
    BY DEF GroupsInv
<1> QED
    BY <1>1, GroupsInvariance, PTL
=============================================================================
