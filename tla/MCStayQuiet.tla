----------------------------- MODULE MCStayQuiet ------------------------------
(***************************************************************************)
(* Small instances of StayQuiet.  One booking that triage leaves to the    *)
(* draft, so that it is handled quietly or held for the host depending on  *)
(* whether the draft names an amount; for two bookings, the other one is   *)
(* being cancelled and always held.                                        *)
(***************************************************************************)
EXTENDS StayQuiet

OneImpact == <<"b1">>

TwoImpacts == <<"b1", "b2">>

ForcedKind == [b \in Booking |-> IF b = "b2" THEN "refund" ELSE Quiet]
=============================================================================
