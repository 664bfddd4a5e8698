------------------------------ MODULE MCQaSheet -------------------------------
(***************************************************************************)
(* A small instance of QaSheet: three axes, two of which the answers       *)
(* neglect, answers that are missing, malformed, too few or too many, and  *)
(* figures that no source names.                                           *)
(***************************************************************************)
EXTENDS QaSheet

E(id, tags, figures) == [id |-> id, tags |-> tags, figures |-> figures, grounding |-> "grounded"]

MCAXES == <<"a", "b", "c">>

MCAnswers == {
    Unavailable, NoQuestions, Malformed,
    <<>>,
    <<E(1, <<"a", "sponsor">>, {"f"}), E(2, <<"a">>, {}), E(3, <<"a">>, {"invented"})>>,
    <<E(1, <<"sponsor", "b", "a">>, {}), E(2, <<"a", "c", "sponsor">>, {}), E(3, <<"a">>, {}),
      E(4, <<"a", "sponsor">>, {}), E(5, <<"c">>, {})>>,
    <<E(1, <<"b", "sponsor">>, {}), E(2, <<"b", "sponsor">>, {"invented"}), E(3, <<"b", "sponsor">>, {})>>}
=============================================================================
