------------------------------ MODULE StreamHub -------------------------------
(***************************************************************************)
(* src/platform/transport: the publisher with its SSE and WebSocket hubs.  *)
(* publish() numbers, records and writes an envelope to every connection   *)
(* in one turn of the event loop; it then waits for the connections whose  *)
(* buffer was full.  Calls, drains, disconnects and close() interleave     *)
(* between turns.                                                          *)
(***************************************************************************)
EXTENDS Integers, Sequences

CONSTANTS
    Client,         \* connections, each attached at most once
    TraceId,        \* trace ids callers publish under
    NoTrace,        \* lastTraceId before anything is published
    MaxCalls        \* bound: calls of publish()

ASSUME HubAssumption == MaxCalls \in Nat /\ NoTrace \notin TraceId

Transport == {"sse", "websocket", "none"}

VARIABLES
    kind,           \* what resolveTransport() answers in this process
    hubSeq,         \* the publisher's seq
    collected,      \* per trace: the envelopes recorded for collect()
    lastTrace,      \* lastTraceId
    closed,         \* closed
    link,           \* per client: its hub, whether it is in the hub's set, its socket's
                    \* state, its first number, and the envelopes written to it
    calls           \* the calls of publish(): the answer so far, the clients it waits for

hubVars == <<kind, hubSeq, collected, lastTrace, closed, link, calls>>

Unattached == [hub |-> "none", state |-> "new", full |-> FALSE, since |-> 0, sent |-> <<>>]

HubInit ==
    /\ kind \in Transport
    /\ hubSeq = 0
    /\ collected = [t \in TraceId |-> <<>>]
    /\ lastTrace = NoTrace
    /\ closed = FALSE
    /\ link = [c \in Client |-> Unattached]
    /\ calls = <<>>

\* attach(): also after close(), which leaves no mark on the hubs.
Attach(c, hub) ==
    /\ link[c].state = "new"
    /\ link' = [link EXCEPT ![c].hub = hub, ![c].state = "open", ![c].since = hubSeq]
    /\ UNCHANGED <<kind, hubSeq, collected, lastTrace, closed, calls>>

\* The connections fanout() writes to: those in the set of the hub in use.
Members == {c \in Client : link[c].state \in {"open", "broken"} /\ link[c].hub = kind}

\* Variant: a client that has not drained yet is passed over.
WrittenToTheIdle(env, throws) ==
    [c \in Client |->
        IF c \notin Members \/ link[c].full THEN link[c]
        ELSE IF c \in throws THEN [link[c] EXCEPT !.state = "broken"]
        ELSE [link[c] EXCEPT !.sent = Append(@, env)]]

\* One write per member.  A write that throws leaves the connection in the set until
\* its rejection is handled; the others take the frame, whether or not they have room.
Written(env, throws) ==
    [c \in Client |->
        IF c \notin Members THEN link[c]
        ELSE IF c \in throws THEN [link[c] EXCEPT !.state = "broken"]
        ELSE [link[c] EXCEPT !.sent = Append(@, env)]]

\* res.write() answers false while the buffer is over its mark; socket.send() has no
\* such answer.
CanFill == IF kind = "sse" THEN Members ELSE {}

\* The envelope joins its trace's bucket, whichever adapter delivers it.
Recorded(env) == [collected EXCEPT ![env.trace] = Append(@, env)]

\* publish() of an envelope that fails the schema throws and takes no number.
Refuse ==
    /\ calls' = Append(calls, [answer |-> "threw", awaits |-> {}])
    /\ UNCHANGED <<kind, hubSeq, collected, lastTrace, closed, link>>

\* publish() up to its first await.  `throws` are the members whose write throws: all
\* that threw before and have not been removed, and maybe more.  `fills` are the members
\* whose write answers false: all that are full, and maybe more.
Publish(trace, degraded) ==
    LET env == [sequence |-> hubSeq, trace |-> trace, degraded |-> degraded] IN
    /\ hubSeq' = hubSeq + 1
    /\ collected' = Recorded(env)
    /\ lastTrace' = trace
    /\ IF closed
       THEN /\ calls' = Append(calls, [answer |-> "resolved", awaits |-> {}])
            /\ UNCHANGED link
       ELSE \E throws \in SUBSET Members :
              \E fills \in SUBSET (CanFill \ throws) :
                /\ {c \in Members : link[c].state = "broken"} \subseteq throws
                /\ {c \in CanFill \ throws : link[c].full} \subseteq fills
                /\ link' = [c \in Client |->
                              [Written(env, throws)[c] EXCEPT !.full = @ \/ c \in fills]]
                /\ calls' = Append(calls, [
                      answer |-> IF fills = {} THEN "resolved" ELSE "waiting",
                      awaits |-> fills])
    /\ UNCHANGED <<kind, closed>>

\* A connection of the set whose write threw, or that broke on its own, is removed.
Remove(c) ==
    /\ link[c].state \in {"open", "broken"}
    /\ link' = [link EXCEPT ![c].state = "gone"]
    /\ UNCHANGED <<kind, hubSeq, collected, lastTrace, closed, calls>>

\* The answer of a call once c no longer holds it up.
Released(call, c) ==
    IF c \notin call.awaits THEN call
    ELSE [answer |-> IF call.awaits = {c} THEN "resolved" ELSE "waiting",
          awaits |-> call.awaits \ {c}]

\* Variant: one listener is taken for all.
DrainOne(c) ==
    /\ link[c].state = "open" /\ link[c].full
    /\ link' = [link EXCEPT ![c].full = FALSE]
    /\ LET first == CHOOSE k \in DOMAIN calls :
                      /\ c \in calls[k].awaits
                      /\ \A j \in 1..(k - 1) : c \notin calls[j].awaits
       IN calls' = [calls EXCEPT ![first] = Released(@, c)]
    /\ UNCHANGED <<kind, hubSeq, collected, lastTrace, closed>>

\* "drain": every call that waits for the connection hears it.  A response that was ended
\* or whose socket is gone never drains.
Drain(c) ==
    /\ link[c].state = "open" /\ link[c].full
    /\ link' = [link EXCEPT ![c].full = FALSE]
    /\ calls' = [k \in DOMAIN calls |-> Released(calls[k], c)]
    /\ UNCHANGED <<kind, hubSeq, collected, lastTrace, closed>>

\* close(): the trace ends and both hubs drop their connections.
Close ==
    /\ ~closed
    /\ closed' = TRUE
    /\ link' = [c \in Client |->
                  IF link[c].state \in {"open", "broken"}
                  THEN [link[c] EXCEPT !.state = "gone"] ELSE link[c]]
    /\ UNCHANGED <<kind, hubSeq, collected, lastTrace, calls>>

\* collect(): what GET /events answers for a trace, or for the last one published.
Collect(trace) ==
    [trace |-> trace,
     events |-> collected[trace],
     degraded |-> \E i \in DOMAIN collected[trace] : collected[trace][i].degraded]

HubNext ==
    \/ Len(calls) < MaxCalls
       /\ \/ Refuse
          \/ \E t \in TraceId, d \in BOOLEAN : Publish(t, d)
    \/ \E c \in Client :
          \/ \E h \in {"sse", "websocket"} : Attach(c, h)
          \/ Remove(c)
          \/ Drain(c)
    \/ Close

\* The handler of a failed write runs in the next turn; a connected client reads what
\* fills its buffer.  Nobody has to disconnect.
HubFairness ==
    \A c \in Client :
        /\ WF_hubVars(link[c].state = "broken" /\ Remove(c))
        /\ WF_hubVars(Drain(c))

HubSpec == HubInit /\ [][HubNext]_hubVars /\ HubFairness

-----------------------------------------------------------------------------

HubEnvelope == [sequence : Nat, trace : TraceId, degraded : BOOLEAN]

\* Every variable holds values of its shape.
HubTypeOK ==
    /\ kind \in Transport
    /\ hubSeq \in Nat
    /\ collected \in [TraceId -> Seq(HubEnvelope)]
    /\ lastTrace \in TraceId \cup {NoTrace}
    /\ closed \in BOOLEAN
    /\ link \in [Client -> [hub : Transport,
                            state : {"new", "open", "broken", "gone"},
                            full : BOOLEAN, since : Nat, sent : Seq(HubEnvelope)]]
    /\ calls \in Seq([answer : {"waiting", "resolved", "threw"}, awaits : SUBSET Client])

\* Whatever the other connections do, and however many envelopes are refused, a client is
\* sent consecutive numbers from the one next when it attached; one that is still
\* connected to the hub in use has all of them up to the last.
FramesWithoutGap ==
    \A c \in Client :
        /\ \A i \in DOMAIN link[c].sent : link[c].sent[i].sequence = link[c].since + i - 1
        /\ (link[c].state = "open" /\ link[c].hub = kind /\ ~closed)
             => link[c].since + Len(link[c].sent) = hubSeq

\* Each trace's snapshot has every envelope of the trace that any client was sent, in the
\* order they were sent, so the fallback shows no less than the stream did.
SnapshotHoldsAll ==
    \A t \in TraceId :
        /\ \A i, j \in DOMAIN collected[t] :
             i < j => collected[t][i].sequence < collected[t][j].sequence
        /\ \A c \in Client : \A i \in DOMAIN link[c].sent :
             link[c].sent[i].trace = t =>
                 \E j \in DOMAIN Collect(t).events : Collect(t).events[j] = link[c].sent[i]

\* A client that streams and one that fetches the snapshot see the same history.
StreamAndSnapshotAgree == FramesWithoutGap /\ SnapshotHoldsAll

Waiting(k) == k \in DOMAIN calls /\ calls[k].answer = "waiting"

\* A call returns once the clients it waits for have drained, if none of them is lost.
FlushedInTheEnd ==
    \A k \in 1..MaxCalls :
        Waiting(k) ~> (~Waiting(k) \/ \E c \in calls[k].awaits : link[c].state = "gone")
=============================================================================
