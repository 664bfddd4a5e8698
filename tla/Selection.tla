------------------------------- MODULE Selection -------------------------------
(***************************************************************************)
(* Filtering and sorting a list: the comprehensions of the stores and the  *)
(* routes, and the order of envelopes.  Selected takes the set of what is  *)
(* wanted where SelectSeq takes a test, and sorting is by insertion, so    *)
(* that they can be reasoned about with first-order provers.               *)
(***************************************************************************)
EXTENDS Integers, Sequences

\* The elements of s that are in S, in their order.
Selected(s, S) ==
    LET upTo[n \in 0..Len(s)] ==
            IF n = 0 THEN <<>>
            ELSE IF s[n] \in S THEN Append(upTo[n - 1], s[n]) ELSE upTo[n - 1]
    IN  upTo[Len(s)]

\* insertBySequence(): before the first row with a greater number; nothing is dropped.
InsertBySequence(rows, row) ==
    LET upTo == {rows[i] : i \in {j \in DOMAIN rows : rows[j].sequence <= row.sequence}}
        over == {rows[i] : i \in {j \in DOMAIN rows : rows[j].sequence > row.sequence}}
    IN  Append(Selected(rows, upTo), row) \o Selected(rows, over)

\* Sorted by their numbers, those with the same number as they came.  (The choice, of the
\* one value there is, lets TLC compute that value once.)
SortBySequence(rows) ==
    LET sorted[n \in 0..Len(rows)] ==
            IF n = 0 THEN <<>>
            ELSE CHOOSE q \in {InsertBySequence(p, rows[n]) : p \in {sorted[n - 1]}} : TRUE
    IN  sorted[Len(rows)]
=============================================================================
