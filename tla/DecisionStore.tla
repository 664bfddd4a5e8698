---------------------------- MODULE DecisionStore -----------------------------
(***************************************************************************)
(* src/stayquiet/store.py: the runs and the decisions of one service       *)
(* process.  Every operation holds store._lock from its first read to its  *)
(* last write, so each is one action; any thread may call it at any time.  *)
(*                                                                         *)
(* A uuid is taken to be fresh, so a run and a decision are named by the   *)
(* rank of their creation: _runs with _run_order, and _decisions with      *)
(* _decision_order, become two sequences.  Of a run, the fields kept are   *)
(* its trace, its status and the decision ids it lists; of a decision, the *)
(* ones a caller or the host can tell apart (its trace is its run's).      *)
(***************************************************************************)
EXTENDS Integers, Sequences, Selection

CONSTANTS
    Trace,          \* trace ids of cycles
    Booking,        \* booking ids
    Kind,           \* decision kinds: refund, exception, review_risk
    Text,           \* non-blank reply texts
    NoText,         \* None, "" or blanks
    MaxRuns,        \* bound: runs opened
    MaxDecisions    \* bound: decisions recorded

ASSUME StoreAssumption ==
    /\ NoText \notin Text
    /\ MaxRuns \in Nat
    /\ MaxDecisions \in Nat

VARIABLES
    runs,           \* _runs in _run_order
    decisions,      \* _decisions in _decision_order
    raised          \* for each run, the decisions its cycle holds in the local
                    \* list `decisions` of run_cycle

storeVars == <<runs, decisions, raised>>

HostAction == {"approve", "edit", "other"}

Run == [trace : Trace, status : {"running", "done", "error"}, decisions : SUBSET Nat]

Decision == [run : Nat, booking : Booking, kind : Kind, draft : Text,
             status : {"pending", "approved", "edited"}, final : Text \cup {NoText}]

StoreInit ==
    /\ runs = <<>>
    /\ decisions = <<>>
    /\ raised = <<>>

-----------------------------------------------------------------------------

\* create_run.
CreateRun(t) ==
    /\ runs' = Append(runs, [trace |-> t, status |-> "running", decisions |-> {}])
    /\ raised' = Append(raised, {})
    /\ UNCHANGED decisions

\* Variant: a scan that looks at the newest decision only.
PendingForIfNewest(b, k) ==
    {i \in DOMAIN decisions : /\ i = Len(decisions)
                              /\ decisions[i].status = "pending"
                              /\ decisions[i].booking = b
                              /\ decisions[i].kind = k}

\* What the dedupe scan of add_decision looks for.
PendingFor(b, k) ==
    {i \in DOMAIN decisions : /\ decisions[i].status = "pending"
                              /\ decisions[i].booking = b
                              /\ decisions[i].kind = k}

\* The scan goes from the newest decision to the oldest and stops at the first hit.
NewestPending(b, k) ==
    CHOOSE i \in PendingFor(b, k) : \A j \in PendingFor(b, k) : j <= i

\* Variant: the card that is there gets the draft of the cycle that raises it again.
RaiseAgainRedrafted(r, b, k) ==
    /\ PendingFor(b, k) # {}
    /\ \E x \in Text : decisions' = [decisions EXCEPT ![NewestPending(b, k)].draft = x]
    /\ runs' = [runs EXCEPT ![r].decisions = @ \cup {NewestPending(b, k)}]
    /\ raised' = [raised EXCEPT ![r] = @ \cup {NewestPending(b, k)}]

\* add_decision when the same ask is already pending: the card that is there is
\* returned as it is, and the run lists it too.
RaiseAgain(r, b, k) ==
    /\ PendingFor(b, k) # {}
    /\ runs' = [runs EXCEPT ![r].decisions = @ \cup {NewestPending(b, k)}]
    /\ raised' = [raised EXCEPT ![r] = @ \cup {NewestPending(b, k)}]
    /\ UNCHANGED decisions

\* add_decision when it is not: a new pending card.
RaiseNew(r, b, k, x) ==
    /\ PendingFor(b, k) = {}
    /\ decisions' = Append(decisions,
           [run |-> r, booking |-> b, kind |-> k, draft |-> x,
            status |-> "pending", final |-> NoText])
    /\ runs' = [runs EXCEPT ![r].decisions = @ \cup {Len(decisions) + 1}]
    /\ raised' = [raised EXCEPT ![r] = @ \cup {Len(decisions) + 1}]

\* add_decision, and the append of what it returns to the cycle's list.
AddDecision(r, b, k, x) == RaiseAgain(r, b, k) \/ RaiseNew(r, b, k, x)

\* finish_run as a cycle that succeeded calls it: the list of the cycle replaces
\* the list the run has gathered.
FinishDone(r) ==
    /\ runs' = [runs EXCEPT ![r].status = "done", ![r].decisions = raised[r]]
    /\ UNCHANGED <<decisions, raised>>

\* finish_run as a cycle that failed calls it: no decisions field.
FinishError(r) ==
    /\ runs' = [runs EXCEPT ![r].status = "error"]
    /\ UNCHANGED <<decisions, raised>>

\* The answers resolve_decision accepts for a pending card.
IsAnswer(action, text) ==
    \/ action = "approve"
    \/ action = "edit" /\ text # NoText

\* resolve_decision returns a record, not None.
Accepted(i, action, text) ==
    /\ i \in DOMAIN decisions
    /\ decisions[i].status = "pending" => IsAnswer(action, text)

\* resolve_decision when it changes the decision.  An unknown id, an answer that is
\* not one, and a decision already resolved leave everything as it is.
ResolveDecision(i, action, text) ==
    /\ i \in DOMAIN decisions
    /\ decisions[i].status = "pending"
    /\ IsAnswer(action, text)
    /\ decisions' = [decisions EXCEPT
           ![i].status = IF action = "approve" THEN "approved" ELSE "edited",
           ![i].final = IF action = "approve" THEN decisions[i].draft ELSE text]
    /\ UNCHANGED <<runs, raised>>

\* list_decisions, newest first, as decision ids.  "any" is the missing filter.
ListDecisions(status) ==
    LET newestFirst == [n \in 1..Len(decisions) |-> Len(decisions) + 1 - n]
    IN  Selected(newestFirst, {i \in DOMAIN decisions : status \in {"any", decisions[i].status}})

-----------------------------------------------------------------------------
\* The callers: any number of cycles, each with its own run while that is running,
\* and the host.

CycleStep(r) ==
    /\ runs[r].status = "running"
    /\ \/ \E b \in Booking, k \in Kind, x \in Text :
             /\ Len(decisions) < MaxDecisions
             /\ AddDecision(r, b, k, x)
       \/ FinishDone(r)
       \/ FinishError(r)

StoreNext ==
    \/ \E t \in Trace : Len(runs) < MaxRuns /\ CreateRun(t)
    \/ \E r \in DOMAIN runs : CycleStep(r)
    \/ \E i \in DOMAIN decisions, a \in HostAction, x \in Text \cup {NoText} :
          ResolveDecision(i, a, x)

StoreSpec == StoreInit /\ [][StoreNext]_storeVars

-----------------------------------------------------------------------------

\* Every variable holds values of its shape: the state store.py declares.
StoreTypeOK ==
    /\ runs \in Seq(Run)
    /\ decisions \in Seq(Decision)
    /\ raised \in Seq(SUBSET Nat)
    /\ Len(raised) = Len(runs)

\* The host is never asked the same thing twice at once, however many cycles raise
\* it and whatever was asked and answered before (add_decision, "returned unchanged
\* instead of creating a duplicate").
OnePendingPerAsk ==
    \A i, j \in DOMAIN decisions :
        /\ decisions[i].status = "pending" /\ decisions[j].status = "pending"
        /\ decisions[i].booking = decisions[j].booking
        /\ decisions[i].kind = decisions[j].kind
        => i = j

\* The reply that stands is the draft that was on the card when it was approved, the
\* host's own words when it was edited, and none before there is an answer.
AnswerCarriesText ==
    \A i \in DOMAIN decisions :
        LET d == decisions[i]
        IN  /\ d.status = "pending" <=> d.final = NoText
            /\ d.status = "approved" => d.final = d.draft

\* The run record lists exactly the decisions its cycle raised or raised again, all
\* of which exist: what add_decision gathers in the run and what finish_run writes
\* over it from the cycle's own list never disagree, in every status.
RunAgreesWithCycle ==
    \A r \in DOMAIN runs :
        /\ runs[r].decisions = raised[r]
        /\ raised[r] \subseteq DOMAIN decisions

\* An answered decision never changes again: not by a second answer, not by a later
\* cycle that raises the same ask (resolve_decision, "returned unchanged").
AnsweredStay ==
    \A i \in DOMAIN decisions :
        decisions[i].status # "pending" =>
            i \in DOMAIN decisions' /\ decisions'[i] = decisions[i]

AnswerIsFinal == [][AnsweredStay]_storeVars

\* The store is a decision desk: pending decisions are its open cards, the others
\* its settled ones.
OpenCards ==
    {[id |-> i, ask |-> <<decisions[i].booking, decisions[i].kind>>,
      text |-> decisions[i].draft] :
        i \in {j \in DOMAIN decisions : decisions[j].status = "pending"}}

SettledCards ==
    {[id |-> i, ask |-> <<decisions[i].booking, decisions[i].kind>>,
      answer |-> decisions[i].status, text |-> decisions[i].final] :
        i \in {j \in DOMAIN decisions : decisions[j].status # "pending"}}

Desk == INSTANCE DecisionDesk
            WITH open <- OpenCards, settled <- SettledCards,
                 Ask <- Booking \X Kind, CardId <- 1..MaxDecisions

\* Every step of the store is a step of the desk or changes nothing on it.
ImplementsDesk == Desk!Spec
=============================================================================
