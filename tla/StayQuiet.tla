------------------------------ MODULE StayQuiet -------------------------------
(***************************************************************************)
(* The StayQuiet service: the threads that run a cycle (run_cycle in       *)
(* engine/agents/stayquiet_agent.py, started by start_cycle_sync), the     *)
(* event loop that serves the host (the routes and the scheduler of        *)
(* src/stayquiet/api.py), and what they share: the decision store, the     *)
(* audit trail, the envelope ring and the tool context of                  *)
(* engine/tools/ctx.py.                                                    *)
(*                                                                         *)
(* A step of a thread is one call that takes a lock, with the thread-local *)
(* work up to it.  The event loop runs one handler at a time and no        *)
(* handler awaits between its first and its last step, but the threads run *)
(* between any two of them.                                                *)
(***************************************************************************)
EXTENDS Integers, Sequences, FiniteSets, Selection

CONSTANTS
    Poster,         \* worker threads started by POST /api/runs
    Scheduler,      \* the worker thread of the scheduler's ticks; without the service one
                    \* more thread for invocations
    EventLoop,      \* the thread of the event loop
    NoThread,       \* the cycle lock is free
    Deployments,    \* "service": the API of src/stayquiet; "agentcore": the entrypoint
                    \* deploy/agentcore/main.py, whose invocations call run_cycle with no
                    \* lock around it and which has no event loop of ours
    Booking,
    Impacts,        \* the bookings a cycle works on: affected_bookings, capped
    Forced,         \* the kind triage gives a booking whatever the draft says, or Quiet
    Quiet,          \* triage returned None
    Text,           \* drafts and edits
    Money,          \* the texts that name an amount (MONEY_RE)
    NoText,
    RING_CAPACITY,
    AUDIT_SHOWN,    \* lines of the trail in a state reply: the 60 of audit_read(60)
    MaxCycles,      \* bound: cycles started
    MaxToolCalls,   \* bound: tools a model turn calls
    MaxAnswers,     \* bound: POSTs to /api/decisions
    MaxDiskFailures,    \* bound: failed writes to the audit file
    StatePolled     \* bound: whether a client asks for /api/state

Kind == {"refund", "exception", "review_risk"}
Thread == Poster \cup {Scheduler}
Trace == 1..MaxCycles

ASSUME ServiceAssumption ==
    /\ Deployments \subseteq {"service", "agentcore"}
    /\ Impacts \in Seq(Booking)
    /\ Forced \in [Booking -> Kind \cup {Quiet}]
    /\ Money \subseteq Text /\ NoText \notin Text
    /\ Scheduler \notin Poster /\ EventLoop \notin Thread /\ NoThread \notin Thread
    /\ RING_CAPACITY \in Nat \ {0} /\ AUDIT_SHOWN \in Nat
    /\ MaxCycles \in Nat /\ MaxToolCalls \in Nat /\ MaxAnswers \in Nat
    /\ MaxDiskFailures \in Nat /\ StatePolled \in BOOLEAN

VARIABLES
    runs, decisions, raised,                                    \* DecisionStore
    mirror, file, writing, recorded, unwritten, crashes,        \* AuditTrail
    seq, ring, conn,                                            \* EventRing
    lock,           \* _cycle_lock: who holds it
    pc,             \* per thread: where it is
    cyc,            \* per thread: the locals of run_cycle
    cycles,         \* cycles begun, which numbers their traces
    ctxTrace,       \* ctx._trace
    ctxCalls,       \* ctx._calls: for each recorded call, the cycle that made it
    skipped,        \* threads told "cycle_already_running"
    loop,           \* the handler the event loop is in; "absent" under AgentCore
    answers         \* POSTs to /api/decisions so far

storeVars == <<runs, decisions, raised>>
auditVars == <<mirror, file, writing, recorded, unwritten, crashes>>
ringVars == <<seq, ring, conn>>
ctxVars == <<ctxTrace, ctxCalls>>
apiVars == <<loop, answers>>
vars == <<storeVars, auditVars, ringVars, lock, pc, cyc, cycles, ctxVars, skipped, apiVars>>

\* Audit lines.  What the code writes into detail is a function of these fields.
PolicyChanged == [action |-> "policy_change_detected", booking |-> "", about |-> <<>>]
CycleFailed == [action |-> "cycle_failed", booking |-> "", about |-> <<>>]
HandledQuietly(b) == [action |-> "resolved_quietly", booking |-> b, about |-> <<>>]
Escalated(b, k) == [action |-> "escalated_to_host", booking |-> b, about |-> <<k>>]
Answered(b, k, status) == [action |-> "host_decision", booking |-> b, about |-> <<k, status>>]

\* What the agent writes with its audit_log tool: words of its own.
Noted(b) == [action |-> "agent", booking |-> b, about |-> <<>>]

\* Variant: the answers of the host are deduplicated with the rest.
CycleLineAndAnswers ==
    {PolicyChanged} \cup {HandledQuietly(b) : b \in Booking}
        \cup {Escalated(b, k) : b \in Booking, k \in Kind}
        \cup {Answered(b, k, s) : b \in Booking, k \in Kind, s \in {"approved", "edited"}}

\* The lines audit_append deduplicates, and the others.
CycleLine ==
    {PolicyChanged} \cup {HandledQuietly(b) : b \in Booking}
        \cup {Escalated(b, k) : b \in Booking, k \in Kind}

OtherLine ==
    {CycleFailed} \cup {Noted(b) : b \in Booking}
        \cup {Answered(b, k, s) : b \in Booking, k \in Kind, s \in {"approved", "edited"}}

Step == {"cycle", "tool", "booking_scan", "draft_reply", "turnover_checklist", "triage",
         "decision_resolved"}

\* A cycle writes at most two lines, per booking one and those of two turns, an answer one.
MaxLines == MaxCycles * (2 + Len(Impacts) * (1 + 2 * MaxToolCalls)) + MaxAnswers

\* A cycle emits at most eight envelopes, and per booking those of two turns.
MaxEnvelopes == MaxCycles * (8 + Len(Impacts) * (5 + 4 * MaxToolCalls)) + MaxAnswers

Store == INSTANCE DecisionStore WITH MaxRuns <- MaxCycles,
             MaxDecisions <- MaxCycles * Len(Impacts)
Audit == INSTANCE AuditTrail WITH Writer <- Thread \cup {EventLoop},
             Line <- CycleLine \cup OtherLine,
             Repeating <- CycleLine, MaxEntries <- MaxLines, MaxCrashes <- 0
Ring == INSTANCE EventRing WITH RingTrace <- Trace, Note <- [step : Step, by : Trace],
             Conn <- {}, AllTraces <- 0, MaxEmits <- MaxEnvelopes

\* The locals of run_cycle: its trace, its run, the impacts left, the model turn it is
\* at, the draft, and the tools called since the last drain (a history variable).
NoCycle == [trace |-> 0, run |-> 0, todo |-> <<>>, turn |-> "draft_reply",
            text |-> NoText, made |-> 0]

Init ==
    /\ Store!StoreInit
    /\ Audit!AuditInit
    /\ Ring!RingInit
    /\ lock = NoThread
    /\ pc = [w \in Thread |-> "idle"]
    /\ cyc = [w \in Thread |-> NoCycle]
    /\ cycles = 0
    /\ ctxTrace = 0
    /\ ctxCalls = <<>>
    /\ skipped = {}
    /\ \E d \in Deployments : loop = [at |-> IF d = "service" THEN "free" ELSE "absent"]
    /\ answers = 0

-----------------------------------------------------------------------------
(***************************************************************************)
(* Starting a cycle.                                                       *)
(***************************************************************************)

\* It is the service that runs, and not the AgentCore entrypoint.
Service == loop.at # "absent"

\* cycle_running().
CycleRunning == lock # NoThread

\* The bound on cycles, counting those a thread has yet to begin.
Room == cycles + Cardinality({w \in Thread : pc[w] \in {"queued", "begin"}}) < MaxCycles

Goto(w, label) == pc' = [pc EXCEPT ![w] = label]

\* start_cycle_bg, for POST /api/runs: a look at the lock, then a task that will run
\* start_cycle_sync in a worker thread.  The reply says started.
PostRun(w) ==
    /\ loop.at = "free" /\ w \in Poster /\ pc[w] = "idle" /\ Room
    /\ ~CycleRunning
    /\ Goto(w, "queued")
    /\ UNCHANGED <<storeVars, auditVars, ringVars, lock, cyc, cycles, ctxVars, skipped,
                   apiVars>>

\* One iteration of _scheduler that finds no cycle running.
Tick ==
    /\ loop.at = "free" /\ pc[Scheduler] = "idle" /\ Room
    /\ ~CycleRunning
    /\ Goto(Scheduler, "queued")
    /\ UNCHANGED <<storeVars, auditVars, ringVars, lock, cyc, cycles, ctxVars, skipped,
                   apiVars>>

\* Variant: the finally covers the early return as well.
AcquireOrRelease(w) ==
    /\ pc[w] = "queued"
    /\ \/ /\ lock = NoThread
          /\ lock' = w
          /\ Goto(w, "begin")
          /\ UNCHANGED skipped
       \/ /\ lock # NoThread
          /\ lock' = NoThread
          /\ skipped' = skipped \cup {w}
          /\ Goto(w, "idle")
    /\ UNCHANGED <<storeVars, auditVars, ringVars, cyc, cycles, ctxVars, apiVars>>

\* start_cycle_sync gets the lock, or is told a cycle is already running.
Acquire(w) ==
    /\ pc[w] = "queued"
    /\ \/ /\ lock = NoThread
          /\ lock' = w
          /\ Goto(w, "begin")
          /\ UNCHANGED skipped
       \/ /\ lock # NoThread
          /\ skipped' = skipped \cup {w}
          /\ Goto(w, "idle")
          /\ UNCHANGED lock
    /\ UNCHANGED <<storeVars, auditVars, ringVars, cyc, cycles, ctxVars, apiVars>>

\* invoke of deploy/agentcore/main.py: straight into run_cycle.
Invoke(w) ==
    /\ ~Service /\ pc[w] = "idle" /\ Room
    /\ Goto(w, "begin")
    /\ UNCHANGED <<storeVars, auditVars, ringVars, lock, cyc, cycles, ctxVars, skipped,
                   apiVars>>

\* Variant: no finally, so the lock is kept.
ReleaseForgotten(w) ==
    /\ pc[w] = "release"
    /\ cyc' = [cyc EXCEPT ![w] = NoCycle]
    /\ Goto(w, "idle")
    /\ UNCHANGED <<storeVars, auditVars, ringVars, lock, cycles, ctxVars, skipped, apiVars>>

\* start_cycle_sync leaves, its finally releases the lock; invoke leaves.
Release(w) ==
    /\ pc[w] = "release"
    /\ lock' = NoThread
    /\ cyc' = [cyc EXCEPT ![w] = NoCycle]
    /\ Goto(w, "idle")
    /\ UNCHANGED <<storeVars, auditVars, ringVars, cycles, ctxVars, skipped, apiVars>>

-----------------------------------------------------------------------------
(***************************************************************************)
(* run_cycle, before the bookings.                                         *)
(***************************************************************************)

\* A thread is at a label, and not inside an audit_append it began.
At(w, label) == pc[w] = label /\ Audit!NotWriting(w)

EmitAs(w, step, trace) == Ring!Emit(trace, [step |-> step, by |-> cyc[w].trace])

\* tool_begin records the call and emits under whatever trace the context holds.
ToolBegin(w) ==
    /\ ctxCalls' = Append(ctxCalls, cyc[w].trace)
    /\ cyc' = [cyc EXCEPT ![w].made = @ + 1]
    /\ EmitAs(w, "tool", ctxTrace)
    /\ UNCHANGED ctxTrace

\* tool_end and tool_error.
ToolEnd(w) == EmitAs(w, "tool", ctxTrace)

\* Variant: the trace is set by the first cycle only.
BeginWithFirstTrace(w) ==
    /\ pc[w] = "begin"
    /\ cycles' = cycles + 1
    /\ cyc' = [cyc EXCEPT ![w].trace = cycles + 1]
    /\ ctxTrace' = IF ctxTrace = 0 THEN cycles + 1 ELSE ctxTrace
    /\ ctxCalls' = <<>>
    /\ Goto(w, "open")
    /\ UNCHANGED <<storeVars, auditVars, ringVars, lock, skipped, apiVars>>

\* set_trace with the new trace.
Begin(w) ==
    /\ pc[w] = "begin"
    /\ cycles' = cycles + 1
    /\ cyc' = [cyc EXCEPT ![w].trace = cycles + 1]
    /\ ctxTrace' = cycles + 1
    /\ ctxCalls' = <<>>
    /\ Goto(w, "open")
    /\ UNCHANGED <<storeVars, auditVars, ringVars, lock, skipped, apiVars>>

OpenRun(w) ==
    /\ pc[w] = "open"
    /\ Store!CreateRun(cyc[w].trace)
    /\ cyc' = [cyc EXCEPT ![w].run = Len(runs) + 1]
    /\ Goto(w, "started")
    /\ UNCHANGED <<auditVars, ringVars, lock, cycles, ctxVars, skipped, apiVars>>

EmitStarted(w) ==
    /\ pc[w] = "started"
    /\ EmitAs(w, "cycle", cyc[w].trace)
    /\ Goto(w, "policy")
    /\ UNCHANGED <<storeVars, auditVars, lock, cyc, cycles, ctxVars, skipped, apiVars>>

\* policy_fetch and policy_diff: each a tool_begin and a tool_end.
PolicyTool(w) ==
    /\ \/ pc[w] = "policy" /\ cyc[w].made < 2 /\ ToolBegin(w) /\ Goto(w, "policyTool")
       \/ pc[w] = "policyTool" /\ ToolEnd(w) /\ UNCHANGED <<cyc, ctxVars>>
          /\ Goto(w, "policy")
    /\ UNCHANGED <<storeVars, auditVars, lock, cycles, skipped, apiVars>>

AuditPolicy(w) ==
    /\ pc[w] = "policy" /\ cyc[w].made = 2
    /\ Audit!AuditAppend(w, PolicyChanged)
    /\ Goto(w, "scan")
    /\ UNCHANGED <<storeVars, ringVars, lock, cyc, cycles, ctxVars, skipped, apiVars>>

\* booking_scan.
EmitScan(w) ==
    /\ At(w, "scan")
    /\ EmitAs(w, "booking_scan", cyc[w].trace)
    /\ Goto(w, "agent")
    /\ UNCHANGED <<storeVars, auditVars, lock, cyc, cycles, ctxVars, skipped, apiVars>>

\* build_agent succeeds; drain_tool_calls drops the policy tools from the report.
BuildAgent(w) ==
    /\ pc[w] = "agent"
    /\ ctxCalls' = <<>>
    /\ cyc' = [cyc EXCEPT ![w].todo = Impacts, ![w].made = 0]
    /\ Goto(w, "next")
    /\ UNCHANGED <<storeVars, auditVars, ringVars, lock, cycles, ctxTrace, skipped, apiVars>>

-----------------------------------------------------------------------------
(***************************************************************************)
(* run_cycle, one booking: the reply turn, the checklist turn, the verdict *)
(***************************************************************************)

EmitTurnStarted(w) ==
    /\ At(w, "next") /\ cyc[w].todo # <<>>
    /\ EmitAs(w, cyc[w].turn, cyc[w].trace)
    /\ Goto(w, "turn")
    /\ UNCHANGED <<storeVars, auditVars, lock, cyc, cycles, ctxVars, skipped, apiVars>>

\* The agent loop calls a tool of its choice during the turn, ...
AgentTool(w) ==
    /\ \/ pc[w] = "turn" /\ cyc[w].made < MaxToolCalls /\ ToolBegin(w) /\ Goto(w, "turnTool")
       \/ (pc[w] = "turnTool" \/ At(w, "toolLogged")) /\ ToolEnd(w)
          /\ UNCHANGED <<cyc, ctxVars>> /\ Goto(w, "turn")
    /\ UNCHANGED <<storeVars, auditVars, lock, cycles, skipped, apiVars>>

\* ... audit_log among them, which writes between its begin and its end.
AgentLogs(w) ==
    /\ pc[w] = "turnTool"
    /\ Audit!AuditAppend(w, Noted(Head(cyc[w].todo)))
    /\ Goto(w, "toolLogged")
    /\ UNCHANGED <<storeVars, ringVars, lock, cyc, cycles, ctxVars, skipped, apiVars>>

\* run_agent returns, live, from the cache or with nothing: a draft is some text in any
\* case (FALLBACK_DRAFT).
TurnEnds(w) ==
    /\ pc[w] = "turn"
    /\ EmitAs(w, cyc[w].turn, cyc[w].trace)
    /\ IF cyc[w].turn = "draft_reply"
       THEN \E x \in Text : cyc' = [cyc EXCEPT ![w].text = x]
       ELSE UNCHANGED cyc
    /\ Goto(w, "drain")
    /\ UNCHANGED <<storeVars, auditVars, lock, cycles, ctxVars, skipped, apiVars>>

\* drain_tool_calls after a turn.
Drain(w) ==
    /\ pc[w] = "drain"
    /\ ctxCalls' = <<>>
    /\ IF cyc[w].turn = "draft_reply"
       THEN cyc' = [cyc EXCEPT ![w].made = 0, ![w].turn = "turnover_checklist"] /\ Goto(w, "next")
       ELSE cyc' = [cyc EXCEPT ![w].made = 0, ![w].turn = "draft_reply"] /\ Goto(w, "triage")
    /\ UNCHANGED <<storeVars, auditVars, ringVars, lock, cycles, ctxTrace, skipped, apiVars>>

\* triage.
Triage(b, text) ==
    IF Forced[b] # Quiet THEN Forced[b] ELSE IF text \in Money THEN "exception" ELSE Quiet

Verdict(w) == Triage(Head(cyc[w].todo), cyc[w].text)

EmitTriage(w) ==
    /\ pc[w] = "triage"
    /\ EmitAs(w, "triage", cyc[w].trace)
    /\ Goto(w, "file")
    /\ UNCHANGED <<storeVars, auditVars, lock, cyc, cycles, ctxVars, skipped, apiVars>>

BookingDone(w) == cyc' = [cyc EXCEPT ![w].todo = Tail(@), ![w].text = NoText]

FileQuietly(w) ==
    /\ pc[w] = "file" /\ Verdict(w) = Quiet
    /\ Audit!AuditAppend(w, HandledQuietly(Head(cyc[w].todo)))
    /\ BookingDone(w)
    /\ Goto(w, "next")
    /\ UNCHANGED <<storeVars, ringVars, lock, cycles, ctxVars, skipped, apiVars>>

\* Variant: the decision goes to the latest run, whosever that is.
RaiseDecisionInLatest(w) ==
    /\ pc[w] = "file" /\ Verdict(w) # Quiet
    /\ Store!AddDecision(Len(runs), Head(cyc[w].todo), Verdict(w), cyc[w].text)
    /\ Goto(w, "escalated")
    /\ UNCHANGED <<auditVars, ringVars, lock, cyc, cycles, ctxVars, skipped, apiVars>>

RaiseDecision(w) ==
    /\ pc[w] = "file" /\ Verdict(w) # Quiet
    /\ Store!AddDecision(cyc[w].run, Head(cyc[w].todo), Verdict(w), cyc[w].text)
    /\ Goto(w, "escalated")
    /\ UNCHANGED <<auditVars, ringVars, lock, cyc, cycles, ctxVars, skipped, apiVars>>

AuditEscalation(w) ==
    /\ pc[w] = "escalated"
    /\ Audit!AuditAppend(w, Escalated(Head(cyc[w].todo), Verdict(w)))
    /\ BookingDone(w)
    /\ Goto(w, "next")
    /\ UNCHANGED <<storeVars, ringVars, lock, cycles, ctxVars, skipped, apiVars>>

-----------------------------------------------------------------------------
(***************************************************************************)
(* run_cycle, its two ends.                                                *)
(***************************************************************************)

\* Variant: the latest run is closed, whosever that is.
FinishLatestRun(w) ==
    /\ At(w, "next") /\ cyc[w].todo = <<>>
    /\ Store!FinishDone(Len(runs))
    /\ Goto(w, "done")
    /\ UNCHANGED <<auditVars, ringVars, lock, cyc, cycles, ctxVars, skipped, apiVars>>

FinishRun(w) ==
    /\ At(w, "next") /\ cyc[w].todo = <<>>
    /\ Store!FinishDone(cyc[w].run)
    /\ Goto(w, "done")
    /\ UNCHANGED <<auditVars, ringVars, lock, cyc, cycles, ctxVars, skipped, apiVars>>

EmitDone(w) ==
    /\ pc[w] = "done"
    /\ EmitAs(w, "cycle", cyc[w].trace)
    /\ Goto(w, "release")
    /\ UNCHANGED <<storeVars, auditVars, lock, cyc, cycles, ctxVars, skipped, apiVars>>

\* Variant: the detail of the escalation's line raises as well.
RaisesAtEscalation(w) ==
    \/ pc[w] \in {"agent", "escalated"}
    \/ pc[w] = "file" /\ Verdict(w) # Quiet

\* Where the body of the try can raise: the scan, building the agent, and reading a booking's
\* fields for an envelope, a prompt or a decision.
Raises(w) ==
    \/ At(w, "scan") \/ pc[w] = "agent"
    \/ At(w, "next") /\ cyc[w].todo # <<>> /\ cyc[w].turn = "draft_reply"
    \/ pc[w] = "turn" /\ cyc[w].made = 0
    \/ pc[w] = "file" /\ Verdict(w) # Quiet

\* Variant: the exception escapes the cycle.
FailEscapes(w) ==
    /\ Raises(w)
    /\ EmitAs(w, "cycle", cyc[w].trace)
    /\ Goto(w, "release")
    /\ UNCHANGED <<storeVars, auditVars, lock, cyc, cycles, ctxVars, skipped, apiVars>>

\* The except branch: emit, audit, finish_run.
Fail(w) ==
    /\ Raises(w)
    /\ EmitAs(w, "cycle", cyc[w].trace)
    /\ Goto(w, "failed")
    /\ UNCHANGED <<storeVars, auditVars, lock, cyc, cycles, ctxVars, skipped, apiVars>>

AuditFailure(w) ==
    /\ pc[w] = "failed"
    /\ Audit!AuditAppend(w, CycleFailed)
    /\ Goto(w, "failedRun")
    /\ UNCHANGED <<storeVars, ringVars, lock, cyc, cycles, ctxVars, skipped, apiVars>>

FinishFailed(w) ==
    /\ At(w, "failedRun")
    /\ Store!FinishError(cyc[w].run)
    /\ Goto(w, "release")
    /\ UNCHANGED <<auditVars, ringVars, lock, cyc, cycles, ctxVars, skipped, apiVars>>

\* The second half of an audit_append, in a cycle or in the handler of an answer.
AuditFile(w) ==
    /\ \/ Audit!WriteLine(w)
       \/ Cardinality(unwritten) < MaxDiskFailures /\ Audit!WriteFails(w)
    /\ UNCHANGED <<storeVars, ringVars, lock, pc, cyc, cycles, ctxVars, skipped, apiVars>>

CycleThread(w) ==
    \/ Acquire(w) \/ Release(w)
    \/ Begin(w) \/ OpenRun(w) \/ EmitStarted(w) \/ PolicyTool(w) \/ AuditPolicy(w)
    \/ EmitScan(w) \/ BuildAgent(w)
    \/ EmitTurnStarted(w) \/ AgentTool(w) \/ AgentLogs(w) \/ TurnEnds(w) \/ Drain(w)
    \/ EmitTriage(w) \/ FileQuietly(w) \/ RaiseDecision(w) \/ AuditEscalation(w)
    \/ FinishRun(w) \/ EmitDone(w)
    \/ Fail(w) \/ AuditFailure(w) \/ FinishFailed(w)
    \/ AuditFile(w)

-----------------------------------------------------------------------------
(***************************************************************************)
(* The handlers of the event loop.                                         *)
(***************************************************************************)

\* Variant: a route of its own thread, which resolves a decision while the event loop is
\* in another handler.
HostAnswersMeanwhile(i, action, text) ==
    /\ Service /\ answers < MaxAnswers
    /\ Store!ResolveDecision(i, action, text)
    /\ answers' = answers + 1
    /\ UNCHANGED <<auditVars, ringVars, lock, pc, cyc, cycles, ctxVars, skipped, loop>>

\* POST /api/decisions/{id}, up to resolve_decision.  A refused answer (404, 400) changes
\* nothing; a card that is already answered is returned as it is and goes on.
HostAnswers(i, action, text) ==
    /\ loop.at = "free" /\ answers < MaxAnswers
    /\ Store!Accepted(i, action, text)
    /\ IF decisions[i].status = "pending"
       THEN Store!ResolveDecision(i, action, text)
       ELSE UNCHANGED storeVars
    /\ loop' = [at |-> "answered", card |-> i]
    /\ answers' = answers + 1
    /\ UNCHANGED <<auditVars, ringVars, lock, pc, cyc, cycles, ctxVars, skipped>>

AuditAnswer ==
    /\ loop.at = "answered"
    /\ LET d == decisions[loop.card]
       IN  Audit!AuditAppend(EventLoop, Answered(d.booking, d.kind, d.status))
    /\ loop' = [loop EXCEPT !.at = "audited"]
    /\ UNCHANGED <<storeVars, ringVars, lock, pc, cyc, cycles, ctxVars, skipped, answers>>

\* decision_resolved, under the trace of the cycle that raised the card.
EmitAnswer ==
    /\ loop.at = "audited" /\ Audit!NotWriting(EventLoop)
    /\ LET t == runs[decisions[loop.card].run].trace
       IN  Ring!Emit(t, [step |-> "decision_resolved", by |-> t])
    /\ loop' = [at |-> "free"]
    /\ UNCHANGED <<storeVars, auditVars, lock, pc, cyc, cycles, ctxVars, skipped, answers>>

Cards(ids) == [n \in DOMAIN ids |-> [id |-> ids[n], status |-> decisions[ids[n]].status]]

\* GET /api/state, build_state: the pending decisions, ...
ReadPending ==
    /\ StatePolled /\ loop.at = "free"
    /\ loop' = [at |-> "pending", cards |-> Cards(Store!ListDecisions("pending")),
                known |-> Len(decisions)]
    /\ UNCHANGED <<storeVars, auditVars, ringVars, lock, pc, cyc, cycles, ctxVars, skipped,
                   answers>>

\* ... then all of them again for the others, ...
ReadResolved ==
    /\ loop.at = "pending"
    /\ LET all == Cards(Store!ListDecisions("any"))
       IN  loop' = [loop EXCEPT !.at = "events",
                    !.cards = @ \o Selected(all, {all[n] : n \in {m \in DOMAIN all :
                                                  all[m].status # "pending"}})]
    /\ UNCHANGED <<storeVars, auditVars, ringVars, lock, pc, cyc, cycles, ctxVars, skipped,
                   answers>>

\* ... then the envelopes of the trace of the last one, ...
ReadEvents ==
    /\ loop.at = "events"
    /\ LET all == Ring!Envelopes(0)
           latest == IF all = <<>> THEN 0 ELSE all[Len(all)].trace
           byTheirs == {all[n].trace : n \in DOMAIN all}
       IN  loop' = [at |-> "audit", cards |-> loop.cards, known |-> loop.known,
                    scope |-> latest,
                    newest |-> IF all = <<>> THEN 0
                               ELSE CHOOSE t \in byTheirs : \A u \in byTheirs : u <= t]
    /\ UNCHANGED <<storeVars, auditVars, ringVars, lock, pc, cyc, cycles, ctxVars, skipped,
                   answers>>

\* ... then the newest lines of the trail.
ReadTrail ==
    /\ loop.at = "audit"
    /\ LET trail == Audit!AuditRead(AUDIT_SHOWN)
       IN  loop' = [at |-> "reply", cards |-> loop.cards, known |-> loop.known,
                    scope |-> loop.scope, newest |-> loop.newest,
                    trail |-> [n \in DOMAIN trail |-> trail[n].line]]
    /\ UNCHANGED <<storeVars, auditVars, ringVars, lock, pc, cyc, cycles, ctxVars, skipped,
                   answers>>

Reply ==
    /\ loop.at = "reply"
    /\ loop' = [at |-> "free"]
    /\ UNCHANGED <<storeVars, auditVars, ringVars, lock, pc, cyc, cycles, ctxVars, skipped,
                   answers>>

HandlerStep ==
    \/ AuditAnswer \/ EmitAnswer \/ AuditFile(EventLoop)
    \/ ReadResolved \/ ReadEvents \/ ReadTrail \/ Reply

Next ==
    \/ \E w \in Poster : PostRun(w)
    \/ \E w \in Thread : Invoke(w)
    \/ Tick
    \/ \E w \in Thread : CycleThread(w)
    \/ \E i \in DOMAIN decisions, a \in Store!HostAction, x \in Text \cup {NoText} :
          HostAnswers(i, a, x)
    \/ ReadPending
    \/ HandlerStep

\* Threads are scheduled, a model turn returns, and a handler that began goes on.  The
\* scheduler's sleep ends again and again, and the event loop, which serves what is
\* ready in turn, comes to it between two requests.  Nobody owes a request.
Fairness ==
    /\ \A w \in Thread : WF_vars(CycleThread(w))
    /\ WF_vars(HandlerStep)
    /\ SF_vars(Tick)

Spec == Init /\ [][Next]_vars /\ Fairness

-----------------------------------------------------------------------------

Label == {"idle", "queued", "begin", "open", "started", "policy", "policyTool", "scan",
          "agent", "next", "turn", "turnTool", "toolLogged", "drain", "triage", "file",
          "escalated", "done", "failed", "failedRun", "release"}

Cycle == [trace : 0..MaxCycles, run : 0..MaxCycles, todo : Seq(Booking),
          turn : {"draft_reply", "turnover_checklist"}, text : Text \cup {NoText},
          made : Nat]

\* Every variable of the threads and of the event loop holds values of its shape; the
\* shared components have type invariants of their own.
TypeOK ==
    /\ lock \in Thread \cup {NoThread}
    /\ pc \in [Thread -> Label]
    /\ cyc \in [Thread -> Cycle]
    /\ cycles \in 0..MaxCycles
    /\ ctxTrace \in 0..MaxCycles
    /\ ctxCalls \in Seq(Trace)
    /\ skipped \subseteq Thread
    /\ loop.at \in {"absent", "free", "answered", "audited", "pending", "events", "audit",
                    "reply"}
    /\ answers \in 0..MaxAnswers

\* In run_cycle, or in start_cycle_sync around it.
InCycle(w) == pc[w] \notin {"idle", "queued"}

LockTells == \A w \in Thread : InCycle(w) <=> lock = w

\* In the service only one cycle runs at a time, whoever asks for it and however often,
\* and the lock says which: what cycle_running shows is what is going on (_cycle_lock,
\* "Only one cycle may run at a time").
OneCycleAtATime == Service => LockTells

\* In the service a tool envelope carries the trace of the cycle whose turn called the
\* tool, though the tool takes that trace from a module variable (ctx.py, "this process
\* runs one cycle at a time by design (DP-API serialises cycles)").
ToolTagsAreOwn ==
    Service =>
        \A n \in DOMAIN ring :
            ring[n].note.step = "tool" => ring[n].trace = ring[n].note.by

\* In the service, what drain_tool_calls returns after a turn is what that turn called, no
\* less and no more: no call is left over from the policy tools, an earlier turn or a failed cycle.
ToolCallsAreOwn ==
    Service =>
        \A w \in Thread :
            InCycle(w) /\ pc[w] # "begin" =>
                ctxCalls = [n \in 1..cyc[w].made |-> cyc[w].trace]

\* The module variables of ctx.py are the running cycle's own, the trace as well as the calls.
ToolContextIsOwn == ToolTagsAreOwn /\ ToolCallsAreOwn

\* A run record says "running" exactly while a thread is at work on it: none is left
\* behind by a cycle that failed or was told to skip, none is closed early, and no two
\* threads share one.
Working(w) == InCycle(w) /\ pc[w] \notin {"begin", "open", "done", "release"}

RunningIsWorkedOn ==
    \A r \in DOMAIN runs :
        Cardinality({w \in Thread : Working(w) /\ cyc[w].run = r})
            = (IF runs[r].status = "running" THEN 1 ELSE 0)

Lines == {mirror[n].line : n \in DOMAIN mirror}

\* A card the host can see has its reason in the trail, except while the cycle that
\* raised it is on the way from add_decision to audit_append: in particular whenever
\* no cycle runs, and after a cycle that failed at a later booking.
CardsAreExplained ==
    \A i \in DOMAIN decisions :
        LET d == decisions[i]
        IN  \/ Escalated(d.booking, d.kind) \in Lines
            \/ \E w \in Thread : /\ pc[w] = "escalated"
                                 /\ Head(cyc[w].todo) = d.booking
                                 /\ Verdict(w) = d.kind

\* Every answer is in the trail, one line for each card answered, except for the one
\* the event loop is handling: repeats of the same answer to the same ask are not taken
\* for duplicates (audit_append, "Host actions ... always append"), and a cycle that
\* writes at the same time displaces none.
AnswersAreOnRecord ==
    \A b \in Booking, k \in Kind, s \in {"approved", "edited"} :
        LET answered == {i \in DOMAIN decisions : /\ decisions[i].booking = b
                                                  /\ decisions[i].kind = k
                                                  /\ decisions[i].status = s}
            lines == {n \in DOMAIN mirror : mirror[n].line = Answered(b, k, s)}
            inHand == IF loop.at = "answered" /\ loop.card \in answered THEN 1 ELSE 0
        IN  Cardinality(answered) <= Cardinality(lines) + inHand

\* A state reply is put together from reads with cycles in between, yet it shows each
\* decision there was when it began once, with the status it has, and with the line of
\* its answer in the trail it shows, as far back as that trail goes.
StateReplyConsistent ==
    loop.at = "reply" =>
        /\ Len(loop.cards) = loop.known
        /\ \A i \in 1..loop.known :
             \E n \in DOMAIN loop.cards :
                 loop.cards[n] = [id |-> i, status |-> decisions[i].status]
        /\ Len(loop.trail) < AUDIT_SHOWN =>
             \A n \in DOMAIN loop.cards :
                 LET d == decisions[loop.cards[n].id]
                 IN  d.status # "pending" =>
                       \E m \in DOMAIN loop.trail :
                           loop.trail[m] = Answered(d.booking, d.kind, d.status)

\* The threads and the event loop use the store only in the ways its own module allows,
\* so what is checked and proved of it holds here: a cycle touches its own run and only
\* while that is running, and an answer changes nothing but its card.
StoreUsedAsSpecified == Store!StoreSpec

\* No run stays "running" for ever: each ends done or in error, whatever its turns call
\* and wherever it fails.
RunIs(r, statuses) == r \in DOMAIN runs /\ runs[r].status \in statuses

EveryRunEnds ==
    \A r \in Trace : RunIs(r, {"running"}) ~> RunIs(r, {"done", "error"})

\* The scheduler keeps cycles coming: neither a cycle that failed, nor a request that
\* was told to skip, nor the handlers of the host leave the lock taken for good.
CyclesKeepComing == <>(cycles = MaxCycles)

-----------------------------------------------------------------------------
\* What the code's own words say, where the code does something else.

\* "Scope events to the latest cycle's trace" (build_state): the envelopes of a state
\* reply are those of the newest cycle the ring still shows.
ScopedToLatestCycle == loop.at = "reply" => loop.scope = loop.newest
=============================================================================
