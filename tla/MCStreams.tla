------------------------------ MODULE MCStreams -------------------------------
(***************************************************************************)
(* Small instances of the three components that carry envelopes, in one    *)
(* run: EventRing (two traces, and a ring so small that a connection       *)
(* sending a batch is overrun), StreamHub (two clients of either hub) and  *)
(* EventStream (one hook that errs, retries and falls back).  They share   *)
(* no state: a behaviour is of one of them, and the others rest in a state *)
(* where they have nothing to do.                                          *)
(***************************************************************************)
EXTENDS EventRing, StreamHub, EventStream

VARIABLE part

Init ==
    /\ part \in {"ring", "hub", "hook"}
    /\ RingInit /\ HubInit /\ StreamInit
    /\ part # "hub" => kind = "none"
    /\ part # "hook" => opts = [transport |-> "none", fallback |-> "none"]

Next ==
    \/ part = "ring" /\ RingNext /\ UNCHANGED <<part, hubVars, streamVars>>
    \/ part = "hub" /\ HubNext /\ UNCHANGED <<part, ringVars, streamVars>>
    \/ part = "hook" /\ StreamNext /\ UNCHANGED <<part, ringVars, hubVars>>

vars == <<part, ringVars, hubVars, streamVars>>

Spec == Init /\ [][Next]_vars /\ RingFairness /\ HubFairness
=============================================================================
