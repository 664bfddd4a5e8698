----------------------------- MODULE MCDemoDrive ------------------------------
(***************************************************************************)
(* A small instance of DemoDrive: scripts of no, one and several steps,    *)
(* with a step that has no screenshot, a selector that is or is not there, *)
(* a mock source and a key, and one that is invalid.                       *)
(***************************************************************************)
EXTENDS DemoDrive

Do(what, selector) == [do |-> what, selector |-> selector]

MCScripts ==
    LET S(kind, mock, key, steps) ==
            [valid |-> TRUE, kind |-> kind, mock |-> mock, key |-> key, steps |-> steps]
    IN {S("mock", TRUE, Unnamed, <<<<Do("navigate", FALSE), Do("screenshot", FALSE)>>, <<Do("click", TRUE)>>>>),
        S("mock", FALSE, "k", <<<<Do("click", FALSE)>>>>),
        S("cache", FALSE, "k", <<>>),
        S(Unnamed, FALSE, Unnamed, <<<<>>, <<Do("wait_for", TRUE)>>, <<Do("wait_ms", FALSE)>>>>),
        [valid |-> FALSE, kind |-> Unnamed, mock |-> FALSE, key |-> Unnamed, steps |-> <<>>]}

MCOptions == [kind : {Unnamed, "cache"}, key : {Unnamed, "other"}]
=============================================================================
