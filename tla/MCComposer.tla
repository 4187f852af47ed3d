----------------------------- MODULE MCComposer -----------------------------
(* One document type and a report of each form, two customers with a phone *)
(* field each, two managers who edit templates and one sender; numbers of  *)
(* two or three digits instead of eight to fifteen.                        *)
EXTENDS Composer, TLC

CONSTANTS inv, ar, cls, A, B, dInv, dAr, dCls, own, k1, k2, s1, s2, e1, e2, u1, pf

MCSeedName == [t \in {inv, ar, cls} |-> CASE t = inv -> dInv [] t = ar -> dAr [] t = cls -> dCls]
MCOwnerOf == [s \in {s1, s2} |-> IF s = s1 THEN k1 ELSE k2]
MCNative == [r \in {ar, cls} |-> IF r = ar THEN "list" ELSE "string"]
MCDocCompany == [t \in {inv} |-> A]
MCDocCustomer == [t \in {inv} |-> k1]

MCForm(n, on, def, type, doc, rep, company) ==
    [name |-> n,
     row |-> [enabled |-> on, is_default |-> def, reference_type |-> type,
              document_type |-> doc, report_name |-> rep, company |-> company]]

\* The seeded default is disabled and enabled again; another template is a default
\* (with a leftover report), one of company B for the report, or has no target.
MCForms == {
    MCForm(dInv, TRUE, TRUE, "Document", inv, Blank, Blank),
    MCForm(dInv, FALSE, TRUE, "Document", inv, Blank, Blank),
    MCForm(own, TRUE, TRUE, "Document", inv, ar, Blank),
    MCForm(own, TRUE, FALSE, "Report", inv, cls, B),
    MCForm(own, TRUE, TRUE, "Report", inv, Blank, A)}

MCFilter(type, list, party, company) ==
    [party_type |-> type, list |-> list, party |-> party, company |-> company]

MCFilters == {
    MCFilter("Customer", TRUE, <<k1>>, A),
    MCFilter("Customer", FALSE, <<k2>>, A),
    MCFilter("Customer", TRUE, <<k1, k2>>, A),
    MCFilter("Supplier", FALSE, <<k1>>, B),
    MCFilter("Customer", FALSE, <<>>, A),
    MCFilter("Customer", TRUE, <<k2>>, Blank)}

MCAdapter(shape, type, company, renderer) ==
    [shape |-> shape, party_type |-> type, company |-> company, renderer |-> renderer]

\* An app that brings a renderer and asks for no company, one whose filter type is
\* not known, and one that names no filter type for one report, and for the other
\* the form it does not read.
MCExternal == {
    [r \in {ar} |-> MCAdapter("none", FALSE, FALSE, TRUE)],
    [r \in {ar, cls} |-> MCAdapter("other", TRUE, TRUE, FALSE)],
    [r \in {ar, cls} |-> MCAdapter(IF r = ar THEN "none" ELSE "list", r = ar, r = ar, FALSE)],
    NotADict}

\* 00 (1)2 is the number +12; a digit of another script; no country code; too long.
MCRaws == {
    <<"0", "0", " ", "(", "1", ")", "2">>, <<"+", "1", "u">>, <<"0", "1", "2">>,
    <<"1", "2", "1", "2">>}

MCSymmetry == Permutations(Editors)
=============================================================================
