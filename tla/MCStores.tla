------------------------------- MODULE MCStores -------------------------------
(***************************************************************************)
(* Small instances of the stores, in one run: DecisionStore (two cycles    *)
(* open at once), AuditTrail (the cycle thread and the event loop),        *)
(* GoldenCache (two processes), CostStore (two wrappers with budgets) and  *)
(* CostSnapshot (one thread).  They share no state: a behaviour is of one  *)
(* of them, and the others stay as they began.  Values that only name      *)
(* something are interchangeable.                                          *)
(***************************************************************************)
EXTENDS DecisionStore, AuditTrail, GoldenCache, CostStore, CostSnapshot, TLC

\* Both wrappers and the summary warn at 2 units of all, and are critical at 3; one
\* provider has a limit of its own.
ProviderOf == [w \in Wrappers |-> IF w = "w1" THEN "bedrock" ELSE "acme"]

Budget == [k \in Crossings |->
    CASE k = <<"global", "warning">> -> 2
      [] k = <<"global", "critical">> -> 3
      [] k = <<"bedrock", "warning">> -> 2
      [] OTHER -> 0]

Budgets == [w \in Wrappers |-> Budget]

\* Two parts never move in one behaviour, so that bookings and processes, texts
\* and values can be the same model values, and each part has its own symmetry.
Interchangeable == Permutations(Booking) \cup Permutations(Text)

VARIABLE part

Init ==
    /\ part \in {"decisions", "trail", "cache", "cost", "snapshot"}
    /\ StoreInit /\ AuditInit /\ CacheInit /\ CostInit /\ SnapshotInit

Next ==
    \/ /\ part = "decisions" /\ StoreNext
       /\ UNCHANGED <<part, auditVars, cacheVars, costVars, snapshotVars>>
    \/ /\ part = "trail" /\ AuditNext
       /\ UNCHANGED <<part, storeVars, cacheVars, costVars, snapshotVars>>
    \/ /\ part = "cache" /\ CacheNext
       /\ UNCHANGED <<part, storeVars, auditVars, costVars, snapshotVars>>
    \/ /\ part = "cost" /\ CostNext
       /\ UNCHANGED <<part, storeVars, auditVars, cacheVars, snapshotVars>>
    \/ /\ part = "snapshot" /\ SnapshotNext
       /\ UNCHANGED <<part, storeVars, auditVars, cacheVars, costVars>>

vars == <<part, storeVars, auditVars, cacheVars, costVars, snapshotVars>>

Spec == Init /\ [][Next]_vars
=============================================================================
