------------------------------ MODULE CostStore -------------------------------
(***************************************************************************)
(* src/cost/store.py and the metering of src/cost/meter.py: wrappers that  *)
(* share a store append a record per call, check the budgets and pass on   *)
(* what has crossed a threshold, to their own callback and to the store's  *)
(* listeners.  Each operation of the store runs under its lock; between    *)
(* two of them other threads come in.  Persistence is CostSnapshot.        *)
(*                                                                         *)
(* A record is the number of units it adds to its provider and to the      *)
(* total.  A limit is budget * threshold, 0 where the configuration has no *)
(* such threshold.                                                         *)
(* The order in which one check's warnings are passed on is left open.     *)
(***************************************************************************)
EXTENDS Integers

CONSTANTS
    Wrappers,       \* wrapped callables, each called by one thread at a time
    Provider,       \* their providers
    Limits,         \* of each wrapper: its merged budget configuration
    Default,        \* the budget configuration of the store
    Units,          \* what a call may add
    FailureUnits,   \* what a failed one adds: 1 when requests are counted
    Readers,        \* whether summaries are rendered
    MaxRecords,     \* bound: calls
    MaxResets       \* bound: resets and acknowledgements

Scopes == {"global"} \cup {Provider[w] : w \in Wrappers}

Crossings == Scopes \X {"warning", "critical"}

ASSUME CostAssumption ==
    /\ Limits \in [Wrappers -> [Crossings -> Nat]] /\ Default \in [Crossings -> Nat]
    /\ Units \subseteq Nat /\ {FailureUnits, MaxRecords, MaxResets} \subseteq Nat
    /\ "global" \notin {Provider[w] : w \in Wrappers} /\ Readers \in BOOLEAN

VARIABLES
    used,           \* what the records of a scope add up to
    fired,          \* the store's _fired, where True
    fresh,          \* _fresh_edges
    stage,
    warnings,       \* of a wrapper: what its check returned and is not passed on yet
    wrapperFired,   \* of a wrapper: what it has passed on, ever
    active,         \* history: all its last check returned
    heard,          \* history: how often the listeners heard of a crossing since its edge
    swallowed,      \* history: an edge was forgotten before it was passed on, or found by a
                    \* summary, which passes nothing on
    records, resets

costVars == <<used, fired, fresh, stage, warnings, wrapperFired, active, heard, swallowed, records,
          resets>>

CostInit ==
    /\ used = [s \in Scopes |-> 0]
    /\ fired = {} /\ fresh = {}
    /\ stage = [w \in Wrappers |-> "idle"]
    /\ warnings = [w \in Wrappers |-> {}] /\ wrapperFired = [w \in Wrappers |-> {}]
    /\ active = [w \in Wrappers |-> {}]
    /\ heard = [k \in Crossings |-> 0] /\ swallowed = FALSE
    /\ records = 0 /\ resets = 0

\* The totals a record of w is counted in.
Counted(w) == {"global", Provider[w]}

Crossed(limits) == {k \in Crossings : limits[k] > 0 /\ used[k[1]] >= limits[k]}

Add(w, units) ==
    /\ records < MaxRecords
    /\ used' = [s \in Scopes |-> used[s] + (IF s \in Counted(w) THEN units ELSE 0)]
    /\ records' = records + 1

\* A call returned: its record is appended.
MeterSuccess(w, units) ==
    /\ stage[w] = "idle"
    /\ Add(w, units)
    /\ stage' = [stage EXCEPT ![w] = "check"]
    /\ UNCHANGED <<fired, fresh, warnings, wrapperFired, active, heard, swallowed, resets>>

\* check_budget forgets the edges of the last check; a threshold it does not know is left
\* as it is.
UpdateEdges(limits) ==
    LET edges == Crossed(limits) \ fired
    IN  /\ fresh' = edges
        /\ fired' = (fired \ {k \in Crossings : limits[k] > 0}) \cup Crossed(limits)
        /\ heard' = [k \in Crossings |-> IF k \in edges THEN 0 ELSE heard[k]]

\* A call raised: the attempt is appended, and no budget checked.
MeterFailure(w) ==
    /\ stage[w] = "idle"
    /\ Add(w, FailureUnits)
    /\ UNCHANGED <<fired, fresh, stage, warnings, wrapperFired, active, heard, swallowed, resets>>

CheckBudget(w) ==
    /\ stage[w] = "check"
    /\ UpdateEdges(Limits[w])
    /\ swallowed' = (swallowed \/ fresh # {})
    /\ warnings' = [warnings EXCEPT ![w] = Crossed(Limits[w])]
    /\ active' = [active EXCEPT ![w] = Crossed(Limits[w])]
    /\ stage' = [stage EXCEPT ![w] = "warn"]
    /\ UNCHANGED <<used, wrapperFired, records, resets>>

\* Variant: all that is fresh is forgotten with the first warning passed on.
EmitWarningForgetting(k) ==
    /\ heard' = IF k \in fresh THEN [heard EXCEPT ![k] = @ + 1] ELSE heard
    /\ fresh' = {}

\* emit_warning: the listeners hear of a fresh crossing, and it is fresh no more.
EmitWarning(k) ==
    /\ heard' = IF k \in fresh THEN [heard EXCEPT ![k] = @ + 1] ELSE heard
    /\ fresh' = fresh \ {k}

\* One warning: not again through this wrapper; otherwise to its callback, and the store.
Warn(w, k) ==
    /\ stage[w] = "warn" /\ k \in warnings[w]
    /\ warnings' = [warnings EXCEPT ![w] = @ \ {k}]
    /\ IF k \in wrapperFired[w] THEN UNCHANGED <<wrapperFired, heard, fresh>>
       ELSE /\ wrapperFired' = [wrapperFired EXCEPT ![w] = @ \cup {k}]
            /\ EmitWarning(k)
    /\ UNCHANGED <<used, fired, stage, active, swallowed, records, resets>>

Metered(w) ==
    /\ stage[w] = "warn" /\ warnings[w] = {}
    /\ stage' = [stage EXCEPT ![w] = "idle"]
    /\ UNCHANGED <<used, fired, fresh, warnings, wrapperFired, active, heard, swallowed, records,
                   resets>>

\* A summary lists the active warnings, which it has from check_budget.
RenderSummary ==
    /\ Readers
    /\ UpdateEdges(Default)
    /\ swallowed' = (swallowed \/ fresh # {} \/ Crossed(Default) \ fired # {})
    /\ UNCHANGED <<used, stage, warnings, wrapperFired, active, records, resets>>

Acknowledge(k) ==
    /\ k \in fired /\ resets < MaxResets
    /\ fired' = fired \ {k} /\ fresh' = fresh \ {k}
    /\ resets' = resets + 1
    /\ UNCHANGED <<used, stage, warnings, wrapperFired, active, heard, swallowed, records>>

Reset ==
    /\ resets < MaxResets
    /\ used' = [s \in Scopes |-> 0] /\ fired' = {} /\ fresh' = {}
    /\ resets' = resets + 1
    /\ UNCHANGED <<stage, warnings, wrapperFired, active, heard, swallowed, records>>

CostNext ==
    \/ \E w \in Wrappers :
        \/ \E units \in Units : MeterSuccess(w, units)
        \/ MeterFailure(w) \/ CheckBudget(w) \/ Metered(w)
        \/ \E k \in Crossings : Warn(w, k)
    \/ RenderSummary
    \/ \E k \in Crossings : Acknowledge(k)
    \/ Reset

CostSpec == CostInit /\ [][CostNext]_costVars

-----------------------------------------------------------------------------

\* Every variable holds values of its shape; an edge is fresh only while its crossing has
\* fired, and only a wrapper at work has warnings to pass on.
CostTypeOK ==
    /\ used \in [Scopes -> Nat]
    /\ fresh \subseteq fired /\ fired \subseteq Crossings
    /\ stage \in [Wrappers -> {"idle", "check", "warn"}]
    /\ \A w \in Wrappers : warnings[w] \subseteq Crossings /\ (warnings[w] # {} => stage[w] = "warn")
    /\ wrapperFired \in [Wrappers -> SUBSET Crossings] /\ active \in [Wrappers -> SUBSET Crossings]
    /\ heard \in [Crossings -> Nat]
    /\ records \in 0..MaxRecords /\ resets \in 0..MaxResets

\* However many wrappers and summaries check the budgets at the same time, the listeners
\* hear of one crossing at most once ("do not re-notify listeners").
ListenersHearOnce == \A k \in Crossings : heard[k] <= 1

\* A wrapper that is done with a call has told its callback of every threshold its check
\* found crossed, whoever found it crossed before.
CallbackKnows == \A w \in Wrappers : stage[w] = "idle" => active[w] \subseteq wrapperFired[w]

\* The budgets anybody checks, and that a threshold of several of them is one and the same.
CheckedBudgets == {Limits[w] : w \in Wrappers} \cup (IF Readers THEN {Default} ELSE {})

OneLimit ==
    \A a, b \in CheckedBudgets, k \in Crossings : a[k] > 0 /\ b[k] > 0 => a[k] = b[k]

\* Listeners "fire exactly once per threshold crossing": when no wrapper is at work, they
\* have heard of every crossing that counts as fired and that some wrapper's check found,
\* through whichever wrapper, unless a check or a summary forgot an edge another had found
\* and not passed on yet, the warnings were acknowledged or reset, or budgets differ in
\* the limit of a threshold.
CrossingsAreHeard ==
    OneLimit /\ ~swallowed /\ resets = 0 /\ (\A w \in Wrappers : stage[w] = "idle") =>
        \A k \in fired \cap UNION {active[w] : w \in Wrappers} : heard[k] >= 1

\* "callback listeners fire exactly once per threshold crossing" (_fresh_edges), however the
\* wrappers' checks interleave.
ListenersFireExactlyOnce ==
    OneLimit /\ resets = 0 /\ (\A w \in Wrappers : stage[w] = "idle") =>
        \A k \in fired \cap UNION {active[w] : w \in Wrappers} : heard[k] = 1
=============================================================================
