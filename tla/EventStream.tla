----------------------------- MODULE EventStream ------------------------------
(****************************************************************************)
(* src/platform/transport/useEventStream.ts over subscriber.ts, fallback.ts *)
(* and adapters/none.ts: one mounted hook, the EventSource it owns, its one *)
(* automatic retry and the fallback fetches it starts, whose answers come   *)
(* at any later time.  The server is external: it publishes envelopes       *)
(* 1, 2, ... of one trace, streams them and answers GET /events with those  *)
(* published so far.                                                        *)
(****************************************************************************)
EXTENDS Selection

CONSTANTS
    MaxPublished,   \* bound: envelopes the server publishes
    MaxSubs,        \* bound: subscriptions opened
    MaxErrors,      \* bound: stream errors and malformed envelopes
    Degraded        \* the envelopes that are marked degraded

ASSUME StreamAssumption ==
    /\ MaxPublished \in Nat /\ MaxSubs \in Nat /\ MaxErrors \in Nat
    /\ Degraded \subseteq 1..MaxPublished

VARIABLES
    published,      \* the server: envelopes published
    mounted,        \* between the effect and its cleanup
    opts,           \* optsRef: the transport and the fallback asked for
    sub,            \* subscriptions opened so far: the number of the current one
    source,         \* the current EventSource: open or not, the next envelope it brings
    budget,         \* reconnectsRef
    disposed,       \* disposedRef
    view,           \* the hook's state: status, error, degraded and the envelopes, each
                    \* with the subscription whose source or fetch brought it
    fetches,        \* GET /events under way: the subscription that asked, on whose behalf,
                    \* and the answer (the envelopes published when the server made it)
    errors          \* stream errors so far

streamVars ==
    <<published, mounted, opts, sub, source, budget, disposed, view, fetches, errors>>

Options == [transport : {"sse", "none"}, fallback : {"auto", "none"}]

NoSource == [live |-> FALSE, next |-> 1]

Unanswered == -1

Fetch(s, by) == [sub |-> s, by |-> by, body |-> Unanswered]

StreamInit ==
    /\ published = 0
    /\ mounted = FALSE
    /\ opts \in Options
    /\ sub = 0
    /\ source = NoSource
    /\ budget = 0
    /\ disposed = FALSE
    /\ view = [status |-> "connecting", error |-> FALSE, degraded |-> FALSE, rows |-> <<>>]
    /\ fetches = {}
    /\ errors = 0

\* A new connection is sent what is still kept (the Python server) or what comes next
\* (the Node hub).
FirstOf == {1, published + 1}

\* openSubscription(): the old subscriber is closed, the buffer is reset, and a source is
\* opened, or, without a streaming transport, one fetch is started beside `rest`.
OpenSubscription(o, rest) ==
    /\ sub' = sub + 1
    /\ disposed' = FALSE
    /\ view' = [view EXCEPT !.status = "connecting", !.error = FALSE, !.rows = <<>>]
    /\ IF o.transport = "none"
       THEN /\ source' = NoSource
            /\ fetches' = rest \cup {Fetch(sub + 1, "adapter")}
       ELSE /\ \E n \in FirstOf : source' = [live |-> TRUE, next |-> n]
            /\ fetches' = rest

\* The effect, on mount (StrictMode mounts again after a cleanup).
Mount ==
    /\ ~mounted
    /\ mounted' = TRUE
    /\ budget' = 0
    /\ OpenSubscription(opts, fetches)
    /\ UNCHANGED <<published, opts, errors>>

\* url, traceId, transport or fallback changed: cleanup, then the effect again.
ChangeOptions(o) ==
    /\ mounted
    /\ opts' = o
    /\ budget' = 0
    /\ OpenSubscription(o, fetches)
    /\ UNCHANGED <<published, mounted, errors>>

\* reconnect(), which the user may press at any time.
Reconnect ==
    /\ mounted
    /\ budget' = 0
    /\ OpenSubscription(opts, fetches)
    /\ UNCHANGED <<published, mounted, opts, errors>>

\* The effect's cleanup.
Unmount ==
    /\ mounted
    /\ mounted' = FALSE
    /\ disposed' = TRUE
    /\ source' = [source EXCEPT !.live = FALSE]
    /\ view' = [view EXCEPT !.status = "closed"]
    /\ UNCHANGED <<published, opts, sub, budget, fetches, errors>>

\* onEnvelope.
Shown(v, n, from) ==
    [v EXCEPT !.status = "open",
              !.degraded = @ \/ n \in Degraded,
              !.rows = InsertBySequence(@, [sequence |-> n, from |-> from])]

\* The source brings an envelope that passes its validation.
Deliver ==
    /\ source.live /\ source.next <= published
    /\ view' = Shown(view, source.next, sub)
    /\ source' = [source EXCEPT !.next = @ + 1]
    /\ UNCHANGED <<published, mounted, opts, sub, budget, disposed, fetches, errors>>

\* Variant: the status says so, and nothing is fetched.
SayConnecting(src, rest) ==
    /\ view' = [view EXCEPT !.error = TRUE, !.status = "connecting"]
    /\ source' = src
    /\ fetches' = rest

\* runFallbackFetch(), to its await: the source is not closed.
RunFallbackFetch(src, rest) ==
    /\ view' = [view EXCEPT !.error = TRUE, !.status = "connecting"]
    /\ source' = src
    /\ fetches' = rest \cup {Fetch(sub, "hook")}

StayInError(src, rest) ==
    /\ view' = [view EXCEPT !.error = TRUE, !.status = "error"]
    /\ source' = src
    /\ fetches' = rest

\* onError: one retry per subscription, then the fallback; without a fallback the error
\* stays.  src is what the error made of the source, rest the fetches still under way.
OnError(src, rest) ==
    /\ errors' = errors + 1
    /\ \/ /\ opts.fallback = "auto" /\ budget < 1
          /\ budget' = budget + 1
          /\ OpenSubscription(opts, rest)
       \/ /\ opts.fallback = "auto" /\ budget >= 1
          /\ RunFallbackFetch(src, rest)
          /\ UNCHANGED <<sub, budget, disposed>>
       \/ /\ opts.fallback = "none"
          /\ StayInError(src, rest)
          /\ UNCHANGED <<sub, budget, disposed>>

\* The source fails: for good, or it connects again by itself, as an EventSource does.
StreamError ==
    /\ source.live
    /\ \E again \in BOOLEAN, n \in FirstOf : OnError([live |-> again, next |-> n], fetches)
    /\ UNCHANGED <<published, mounted, opts>>

\* An envelope that is no JSON or fails the schema.
Malformed ==
    /\ source.live /\ source.next <= published
    /\ OnError([source EXCEPT !.next = @ + 1], fetches)
    /\ UNCHANGED <<published, mounted, opts>>

\* The server publishes.
PublishNext ==
    /\ published' = published + 1
    /\ UNCHANGED <<mounted, opts, sub, source, budget, disposed, view, fetches, errors>>

\* The server answers a fetch; before it published anything its answer is a 404.
Answer(f) ==
    /\ f.body = Unanswered /\ published > 0
    /\ fetches' = (fetches \ {f}) \cup {[f EXCEPT !.body = published]}
    /\ UNCHANGED <<published, mounted, opts, sub, source, budget, disposed, view, errors>>

\* The rows of a snapshot, sorted by parseSnapshot().
SnapshotRows(f) == [n \in 1..f.body |-> [sequence |-> n, from |-> f.sub]]

\* The hook's own fetch: dropped after an unmount, else it replaces the envelopes.
SnapshotArrives(f) ==
    /\ f.by = "hook" /\ f.body # Unanswered
    /\ fetches' = fetches \ {f}
    /\ IF disposed THEN UNCHANGED view
       ELSE view' = [view EXCEPT
                !.error = FALSE, !.status = "closed", !.rows = SnapshotRows(f),
                !.degraded = @ \/ \E n \in 1..f.body : n \in Degraded]
    /\ UNCHANGED <<published, mounted, opts, sub, source, budget, disposed, errors>>

SnapshotFails(f) ==
    /\ f.by = "hook"
    /\ fetches' = fetches \ {f}
    /\ IF disposed THEN UNCHANGED view
       ELSE view' = [view EXCEPT !.error = TRUE, !.status = "error"]
    /\ UNCHANGED <<published, mounted, opts, sub, source, budget, disposed, errors>>

\* A subscription over the none adapter was not cancelled.
Current(f) == mounted /\ f.sub = sub

\* Envelopes 1 to n, one after the other through the callbacks of the stream.
ShownUpTo(n, from) ==
    LET shown[k \in 0..n] == IF k = 0 THEN view ELSE Shown(shown[k - 1], k, from)
    IN  shown[n]

\* The none adapter's fetch, guarded per subscription.
AdapterArrives(f) ==
    /\ f.by = "adapter" /\ f.body # Unanswered
    /\ fetches' = fetches \ {f}
    /\ view' = IF Current(f) THEN ShownUpTo(f.body, f.sub) ELSE view
    /\ UNCHANGED <<published, mounted, opts, sub, source, budget, disposed, errors>>

\* Its failure is the subscription's error.
AdapterFails(f) ==
    /\ f.by = "adapter"
    /\ \/ Current(f) /\ OnError(source, fetches \ {f})
       \/ /\ ~Current(f)
          /\ fetches' = fetches \ {f}
          /\ UNCHANGED <<sub, source, budget, disposed, view, errors>>
    /\ UNCHANGED <<published, mounted, opts>>

StreamNext ==
    \/ published < MaxPublished /\ PublishNext
    \/ sub < MaxSubs /\ (Mount \/ Reconnect \/ \E o \in Options : ChangeOptions(o))
    \/ Unmount
    \/ Deliver
    \/ errors < MaxErrors /\ (StreamError \/ Malformed)
    \/ \E f \in fetches :
          \/ Answer(f)
          \/ SnapshotArrives(f)
          \/ SnapshotFails(f)
          \/ AdapterArrives(f)
          \/ AdapterFails(f)

StreamSpec == StreamInit /\ [][StreamNext]_streamVars

-----------------------------------------------------------------------------

\* Every variable holds values of its shape.
StreamTypeOK ==
    /\ published \in Nat /\ sub \in Nat /\ budget \in Nat /\ errors \in Nat
    /\ mounted \in BOOLEAN /\ disposed \in BOOLEAN
    /\ opts \in Options
    /\ source \in [live : BOOLEAN, next : Nat \ {0}]
    /\ view \in [status : {"connecting", "open", "closed", "error"}, error : BOOLEAN,
                 degraded : BOOLEAN, rows : Seq([sequence : Nat, from : Nat])]
    /\ \A f \in fetches : f \in [sub : Nat, by : {"hook", "adapter"},
                                 body : Nat \cup {Unanswered}]

\* Streamed envelopes and snapshots mix, late and repeated: the rows stay in the order of
\* their numbers, and no degraded one is shown without the degraded flag.
RowsAreSound ==
    /\ \A i, j \in DOMAIN view.rows :
         i < j => view.rows[i].sequence <= view.rows[j].sequence
    /\ \A i \in DOMAIN view.rows : view.rows[i].sequence \in Degraded => view.degraded

\* A mounted view that says "connecting" has a source open or a fetch under way to wait
\* for: no order of errors, retries and answers leaves it there with nothing to come.
ConnectingHasACause ==
    mounted /\ view.status = "connecting" => source.live \/ fetches # {}

\* What the hook shows is sound, and it never waits for nothing.
HookIsSound == RowsAreSound /\ ConnectingHasACause
=============================================================================
