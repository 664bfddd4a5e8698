----------------------------- MODULE DecisionDesk -----------------------------
(***************************************************************************)
(* What the decision store promises the host, without runs, scans or       *)
(* locks.  The desk holds open cards and settled cards.  A card asks one   *)
(* thing (a booking and a kind of decision), carries the reply the agent   *)
(* proposes, and is settled once, with the text that will stand.  Two open *)
(* cards never ask the same thing.                                         *)
(***************************************************************************)
CONSTANTS
    Ask,        \* what a card may be about: a booking and a decision kind
    Text,       \* reply texts
    CardId      \* identities of cards

VARIABLES
    open,       \* cards waiting for the host
    settled     \* cards the host has answered

deskVars == <<open, settled>>

Init == open = {} /\ settled = {}

\* A card is put on the desk: nothing open asks the same, and its identity is new.
Put(id, ask, text) ==
    /\ \A c \in open : c.ask # ask
    /\ \A c \in open \cup settled : c.id # id
    /\ open' = open \cup {[id |-> id, ask |-> ask, text |-> text]}
    /\ UNCHANGED settled

\* The host lets the proposed reply stand.
Approve(c) ==
    /\ open' = open \ {c}
    /\ settled' = settled \cup
         {[id |-> c.id, ask |-> c.ask, answer |-> "approved", text |-> c.text]}

\* The host replaces the proposed reply.
Edit(c, text) ==
    /\ open' = open \ {c}
    /\ settled' = settled \cup
         {[id |-> c.id, ask |-> c.ask, answer |-> "edited", text |-> text]}

Next ==
    \/ \E id \in CardId, ask \in Ask, text \in Text : Put(id, ask, text)
    \/ \E c \in open : Approve(c)
    \/ \E c \in open, text \in Text : Edit(c, text)

Spec == Init /\ [][Next]_deskVars
=============================================================================
