---------------------------- MODULE MCPitchScript -----------------------------
(***************************************************************************)
(* A small instance of PitchScript: timing files of both notations with    *)
(* items that are missing, too long, or not numbers; plans with and        *)
(* without figures; drafts that name a part of a figure, invent a figure   *)
(* or a cue, begin a text as a TODO, are short or fail.                    *)
(***************************************************************************)
EXTENDS PitchScript, TLC

Item(id, minutes) == ("id" :> id) @@ ("minutes" :> minutes)

Pair(key, value) == [is |-> "pair", key |-> key, value |-> value]
List(key) == [is |-> "list", key |-> key]
Flow(pairs) == [is |-> "flow", pairs |-> pairs]
First(pairs) == [is |-> "block", pairs |-> pairs]
More(pairs) == [is |-> "more", pairs |-> pairs]

MCTimingFiles ==
    LET live == "live" :> TRUE
    IN {<<Pair("total_minutes", 300), List("sections"), Flow(Item("problem", 50)), Flow(Item("live-demo", 100) @@ live),
          Flow(Item("business-value", 100)), Flow(Item("team-roadmap", 50))>>,
        <<Pair("total_minutes", 80), List("sections"), First("id" :> "problem"), More("minutes" :> 21), First("id" :> "live-demo"), More("minutes" :> 21),
          First("id" :> "business-value"), More("minutes" :> 21), First("id" :> "extra"), More("minutes" :> 21)>>,
        <<Pair("total_minutes", 200), List("sections"), Flow(Item("problem", 50))>>,
        <<List("sections"), Flow(Item("problem", 50)), More(live)>>,
        <<List("sections"), Flow(Item("problem", 5))>>,
        <<List("sections"), Flow(Item("business-value", 100))>>,
        <<Flow(Item("problem", 50))>>,
        <<[is |-> "junk"]>>}

MCPlans ==
    {[tam |-> Undefined, revenue |-> Undefined, ai |-> Undefined],
     [tam |-> {"12B"}, revenue |-> {"fee"}, ai |-> Undefined],
     [tam |-> {"12B"}, revenue |-> Undefined, ai |-> {"8%"}]}

MCPartOf == {<<"2B", "12B">>}

MCDrafts ==
    LET L(id, says) == [id |-> id, says |-> says]
        Text(figures) == Says(FALSE, figures, Undefined, Nothing)
        Behind(figures, cues) == [figures |-> figures, cues |-> cues]
    IN {<<L("business-value", Text({"2B"})), L("business-value", Text({"9%"})), L("unknown", Text({}))>>,
        <<L("business-value", Says(FALSE, {"12B"}, "board", Behind({"9%"}, {}))),
          L("live-demo", Says(FALSE, {}, "invented", Behind({}, {"board"})))>>,
        <<L("problem", Says(FALSE, {"9%"}, "board", Behind({}, {"invented"}))),
          L("business-value", Says(TRUE, {"9%"}, Undefined, Nothing))>>}

MCScreens == <<"widget-detail", "board">>
=============================================================================
