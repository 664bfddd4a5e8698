----------------------------- MODULE MCDeckFolder -----------------------------
(***************************************************************************)
(* A small instance of DeckFolder: plans that lack headings, figures or a  *)
(* disclosure, so that a later run leaves out a slot or a chart an earlier *)
(* one wrote, and phrasings that keep, lose, cut or invent a figure.       *)
(***************************************************************************)
EXTENDS DeckFolder

All == Heading
Plan(heads, tam, revenue, manifest, disclosure) == [
    readable |-> TRUE, heads |-> heads, title |-> heads = All, evidence |-> TRUE,
    persona |-> FALSE, ask |-> heads = All,
    fields |-> [specific_user |-> Missing, tam_figure |-> tam, revenue_model |-> revenue, why_ai |-> Missing],
    numbers |-> ({tam, revenue} \ {Missing}) \cup {"in another"},
    manifest |-> manifest, disclosure |-> disclosure]

MCSources == {
    Plan(All, "f1", "f2", {"platform", "resilience"}, "disclosed"),
    Plan(All, "f1", Missing, {"resilience"}, Missing),
    Plan({"Business Value", "Problem Framing"}, Missing, "f2", Missing, "disclosed"),
    Plan({"Why Now", "Architecture"}, "f1", "f2", {"unknown"}, Missing),
    Plan({}, "f1", Missing, {"platform"}, Missing),
    NoSources}

MCPhrasings ==
    {AllOff} \cup {[slot \in DOMAIN AllOff |-> a] : a \in {Failed, {}, {"f1", "in another"}, {"f3"}}}

MCCatalog ==
    [platform |-> [depends |-> {}, subs |-> {"platform/ui"}],
     resilience |-> [depends |-> {"platform"}, subs |-> {}]]
=============================================================================
