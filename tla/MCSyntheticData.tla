--------------------------- MODULE MCSyntheticData ----------------------------
(***************************************************************************)
(* A small instance of SyntheticData: requests for records and documents   *)
(* with and without a key, marked or not, one of which repeats another     *)
(* while the provider is down, and every kind of answer of the model.      *)
(***************************************************************************)
EXTENDS SyntheticData

R(kind, closed, key, mark, allow) ==
    [entry |-> IF kind = "records" THEN kind ELSE "documents", kind |-> kind, legal |-> TRUE,
     closed |-> closed, loose |-> FALSE, count |-> 3, key |-> key, cached |-> TRUE, provider |-> NotGiven,
     mark |-> mark, allowUnmarked |-> allow, forced |-> FALSE]

Basic ==
    {R("records", FALSE, NotGiven, TRUE, FALSE), R("records", TRUE, NotGiven, TRUE, FALSE),
     R("records", FALSE, "k", FALSE, TRUE), R("records", FALSE, "k", FALSE, FALSE),
     [R("records", FALSE, "k", TRUE, FALSE) EXCEPT !.loose = TRUE],
     R("documents", FALSE, NotGiven, TRUE, FALSE), R("freeform", FALSE, "k", FALSE, TRUE),
     R("freeform", FALSE, "k", TRUE, FALSE)}

MCRequests ==
    Basic \cup {[r EXCEPT !.forced = TRUE] : r \in Basic}
    \cup {[R("records", FALSE, NotGiven, TRUE, FALSE) EXCEPT !.legal = FALSE],
          [R("records", FALSE, NotGiven, TRUE, FALSE) EXCEPT !.entry = "documents"],
          [R("documents", FALSE, NotGiven, TRUE, FALSE) EXCEPT !.cached = FALSE]}
=============================================================================
