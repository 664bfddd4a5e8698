------------------------------ MODULE WebClient -------------------------------
(*****************************************************************************)
(* src/stayquiet/web: App.tsx over api.ts, with the buttons of DecisionPing  *)
(* and QuietMonitor.  One tab: polls in flight that answer in any order, the *)
(* stream, the host's answer to a card, and "Run a cycle now" with its empty *)
(* window.  The service is external here (StayQuiet.tla models it): a ring   *)
(* of envelopes, one card, a cycle that runs or not, and restarts.           *)
(*                                                                           *)
(* Time is modelled by the order it imposes.  After a click the window lasts *)
(* 3200 ms; after the POST is answered the button comes back at 3000 ms and  *)
(* the view is re-synced at 3400 ms.  So the button may come back before the *)
(* window ends, and a second click can fall before the first re-sync.        *)
(*****************************************************************************)
EXTENDS Selection, FiniteSets

CONSTANTS
    Steps,          \* envelopes one cycle emits, with the same content every cycle
    MaxKept,        \* MAX_STREAM_ENVELOPES
    Slot,           \* polls in flight at once
    MaxRing,        \* bound: envelopes in the ring when a cycle ends, before or after a fault
    MaxLongRing,    \* bound: the same in a behaviour that has none
    MaxClicks,      \* bound: clicks on "Run a cycle now"
    MaxFaults       \* bound: failed requests, broken streams and restarts of the server

ASSUME WebAssumption ==
    /\ Steps \in Nat \ {0} /\ MaxKept \in Nat \ {0}
    /\ MaxRing \in Nat /\ MaxLongRing \in Nat /\ MaxClicks \in Nat /\ MaxFaults \in Nat

VARIABLES
    srv,            \* the service: its ring (contents, the sequence is the position), the
                    \* card, and the next step of the cycle that runs (0: none)
    state,          \* the AppState shown: EMPTY_STATE or an answer of the service
    envs,           \* the streamed envelopes kept
    held,           \* pendingEnvsRef
    floor,          \* floorSeqRef
    window,         \* Date.now() < suppressUntilRef
    runBusy,        \* runBusy
    clicks,         \* clicks so far
    posting,        \* startRun() is not answered yet
    timers,         \* the timeouts set: BusyTimer, and the re-sync of each click
    fetches,        \* fetchState() calls in flight
    filing,         \* the host's answer: idle, posting, fetching
    stream,         \* the EventSource: its status, the next sequence it brings
    faults          \* faults so far

webVars == <<srv, state, envs, held, floor, window, runBusy, clicks, posting, timers,
             fetches, filing, stream, faults>>

EMPTY_STATE == [ring |-> <<>>, card |-> "none", step |-> 0]

\* The timeout that gives the button back; the re-sync of click k is timer k.
BusyTimer == 0

\* The content of a decision_resolved envelope.
Resolved == 0

\* The calls of fetchState() that can be in flight: polls, the re-sync after a click and
\* the one that follows the host's answer.
Request == Slot \cup {"resync", "resolve"}

Idle == [at |-> "idle"]
Asked == [at |-> "server"]
Arriving(body) == [at |-> "client", body |-> body]

WebInit ==
    /\ srv = EMPTY_STATE
    /\ state = EMPTY_STATE
    /\ envs = <<>> /\ held = <<>>
    /\ floor = 0
    /\ window = FALSE /\ runBusy = FALSE /\ posting = FALSE
    /\ clicks = 0
    /\ timers = {}
    /\ fetches = [r \in Request |-> Idle]
    /\ filing = "idle"
    /\ stream = [status |-> "connecting", next |-> 1]
    /\ faults = 0

viewVars == <<state, envs, held, floor, window>>
clickVars == <<runBusy, clicks, posting, timers>>

-----------------------------------------------------------------------------
\* The service.

ServerStep(next) ==
    /\ srv' = next
    /\ UNCHANGED <<viewVars, clickVars, fetches, filing, stream, faults>>

\* The bounds: no more in the ring, with what a cycle has yet to emit and the host's answer,
\* than a fault may come to; and room for another cycle.
ShortRing == Len(srv.ring) + (IF srv.step = 0 THEN 0 ELSE Steps + 1 - srv.step) <= MaxRing + 1
MayStart == srv.step = 0 /\ Len(srv.ring) + Steps <= IF faults = 0 THEN MaxLongRing ELSE MaxRing

\* The scheduler starts a cycle.
CycleStarts == MayStart /\ ServerStep([srv EXCEPT !.step = 1])

\* A cycle emits its next envelope; with the last it has raised the card, once, and ends.
CycleEmits ==
    /\ srv.step > 0
    /\ ServerStep([
          ring |-> Append(srv.ring, srv.step),
          card |-> IF srv.step = Steps /\ srv.card = "none" THEN "pending" ELSE srv.card,
          step |-> IF srv.step = Steps THEN 0 ELSE srv.step + 1])

\* The process is replaced: its memory is new and its connections are gone.
ServerRestarts ==
    /\ srv' = EMPTY_STATE
    /\ faults' = faults + 1
    /\ stream' = [stream EXCEPT !.status = IF @ = "open" THEN "connecting" ELSE @]
    /\ UNCHANGED <<viewVars, clickVars, fetches, filing>>

-----------------------------------------------------------------------------
\* Polls.

\* The interval calls fetchState(), whether or not the last call has answered, and the
\* service answers; the answer is on its way.
Poll(s) ==
    /\ fetches[s] = Idle
    /\ fetches' = [fetches EXCEPT ![s] = Arriving(srv)]
    /\ UNCHANGED <<srv, viewVars, clickVars, filing, stream, faults>>

\* The service answers a fetch of the re-sync or of the host's answer.
AnswerFetch(r) ==
    /\ fetches[r] = Asked
    /\ fetches' = [fetches EXCEPT ![r] = Arriving(srv)]
    /\ UNCHANGED <<srv, viewVars, clickVars, filing, stream, faults>>

\* The request fails, or its answer is no JSON: fetchState() resolves to EMPTY_STATE.
FailFetch(r) ==
    /\ fetches[r] # Idle
    /\ fetches' = [fetches EXCEPT ![r] = Arriving(EMPTY_STATE)]
    /\ faults' = faults + 1
    /\ UNCHANGED <<srv, viewVars, clickVars, filing, stream>>

\* Variant: an answer that says less than the view is taken for a late one.
PollArrivesIfNewer(r) ==
    /\ r # "resolve" /\ fetches[r].at = "client"
    /\ state' = IF window \/ Len(fetches[r].body.ring) <= Len(state.ring) THEN state
                ELSE fetches[r].body
    /\ fetches' = [fetches EXCEPT ![r] = Idle]
    /\ UNCHANGED <<srv, envs, held, floor, window, clickVars, filing, stream, faults>>

\* An answer of a poll or of the re-sync is ignored in the window, else it is shown,
\* newer or older than what is shown.
PollArrives(r) ==
    /\ r # "resolve" /\ fetches[r].at = "client"
    /\ state' = IF window THEN state ELSE fetches[r].body
    /\ fetches' = [fetches EXCEPT ![r] = Idle]
    /\ UNCHANGED <<srv, envs, held, floor, window, clickVars, filing, stream, faults>>

-----------------------------------------------------------------------------
\* The stream.

SetOf(s) == {s[i] : i \in DOMAIN s}
Numbers(s) == {s[i].sequence : i \in DOMAIN s}
Contents(s) == {s[i].key : i \in DOMAIN s}
MaxOf(S) == CHOOSE n \in S : \A m \in S : m <= n

\* An envelope of the batch is fresh unless its number or its content is there already.
Fresh(kept, env) == env.sequence \notin Numbers(kept) /\ env.key \notin Contents(kept)

\* The newest MaxKept.
Newest(s) == IF Len(s) > MaxKept THEN SubSeq(s, Len(s) - MaxKept + 1, Len(s)) ELSE s

\* What is kept, and the envelopes of the batch that are fresh as they come.
Joined(kept, batch) ==
    LET upTo[n \in 0..Len(batch)] ==
            IF n = 0 THEN kept
            ELSE IF Fresh(upTo[n - 1], batch[n]) THEN Append(upTo[n - 1], batch[n]) ELSE upTo[n - 1]
    IN  upTo[Len(batch)]

\* Variant: what was held goes behind what was shown meanwhile.
AppendEnvsUnsorted(kept, batch) == Newest(Joined(kept, batch))

\* appendEnvs(): the fresh ones join, in the order of their numbers, and the oldest go.
AppendEnvs(kept, batch) ==
    CHOOSE next \in {IF all = kept THEN kept ELSE Newest(SortBySequence(all)) :
                       all \in {Joined(kept, batch)}} : TRUE

\* The source opens; a new connection is sent the whole ring.
StreamOpens ==
    /\ stream.status = "connecting"
    /\ stream' = [status |-> "open", next |-> 1]
    /\ UNCHANGED <<srv, viewVars, clickVars, fetches, filing, faults>>

\* onerror: the source tries again by itself, or gives up.
StreamBreaks ==
    /\ stream.status = "open"
    /\ \E s \in {"connecting", "closed"} : stream' = [stream EXCEPT !.status = s]
    /\ faults' = faults + 1
    /\ UNCHANGED <<srv, viewVars, clickVars, fetches, filing>>

\* onEnvelope: below the floor it is dropped, in the window it is held, else shown.
Deliver ==
    LET env == [sequence |-> stream.next, key |-> srv.ring[stream.next]] IN
    /\ stream.status = "open" /\ stream.next <= Len(srv.ring)
    /\ stream' = [stream EXCEPT !.next = @ + 1]
    /\ IF env.sequence <= floor THEN UNCHANGED <<envs, held>>
       ELSE IF window
       THEN /\ held' = IF env.sequence \in Numbers(held) THEN held ELSE Append(held, env)
            /\ UNCHANGED envs
       ELSE /\ envs' = AppendEnvs(envs, <<env>>)
            /\ UNCHANGED held
    /\ UNCHANGED <<srv, state, floor, window, clickVars, fetches, filing, faults>>

-----------------------------------------------------------------------------
\* "Run a cycle now".

\* The button's state: working.
Working == runBusy \/ state.step > 0

\* onRunNow() to its await.  The floor is the highest number this tab knows of.
RunNow ==
    /\ ~Working
    /\ floor' = MaxOf({0, Len(state.ring)} \cup Numbers(envs))
    /\ held' = <<>>
    /\ window' = TRUE
    /\ envs' = <<>>
    /\ state' = EMPTY_STATE
    /\ runBusy' = TRUE
    /\ posting' = TRUE
    /\ clicks' = clicks + 1
    /\ UNCHANGED <<srv, timers, fetches, filing, stream, faults>>

\* The POST reaches the service, which starts a cycle unless one runs, or it fails; either
\* way the two timeouts are set.
RunAnswered(started) ==
    /\ posting
    /\ posting' = FALSE
    /\ timers' = timers \cup {BusyTimer, clicks}
    /\ srv' = IF started /\ MayStart THEN [srv EXCEPT !.step = 1] ELSE srv
    /\ faults' = IF started THEN faults ELSE faults + 1
    /\ UNCHANGED <<viewVars, runBusy, clicks, fetches, filing, stream>>

\* 3000 ms after the answer.
BusyEnds ==
    /\ BusyTimer \in timers
    /\ runBusy' = FALSE
    /\ timers' = timers \ {BusyTimer}
    /\ UNCHANGED <<srv, viewVars, clicks, posting, fetches, filing, stream, faults>>

\* 3200 ms after the last click; the re-sync of an earlier click came before.
WindowEnds ==
    /\ window
    /\ \A k \in 1..(clicks - 1) : k \notin timers
    /\ window' = FALSE
    /\ UNCHANGED <<srv, state, envs, held, floor, clickVars, fetches, filing, stream, faults>>

\* Variant: the buffer is reset before it is appended.
ReleaseNothing(k) ==
    /\ k \in timers /\ BusyTimer \notin (IF k = clicks THEN timers ELSE {})
    /\ k = clicks => ~window
    /\ fetches["resync"] = Idle
    /\ timers' = timers \ {k}
    /\ held' = <<>>
    /\ fetches' = [fetches EXCEPT !["resync"] = Asked]
    /\ UNCHANGED <<srv, state, envs, floor, window, runBusy, clicks, posting, filing, stream,
                   faults>>

\* 3400 ms after the answer to click k, which is after its window: what was held is shown,
\* and the state is fetched.  After a second click it releases what that click holds.
Release(k) ==
    /\ k \in timers /\ BusyTimer \notin (IF k = clicks THEN timers ELSE {})
    /\ k = clicks => ~window
    /\ fetches["resync"] = Idle
    /\ timers' = timers \ {k}
    /\ envs' = AppendEnvs(envs, held)
    /\ held' = <<>>
    /\ fetches' = [fetches EXCEPT !["resync"] = Asked]
    /\ UNCHANGED <<srv, state, floor, window, runBusy, clicks, posting, filing, stream,
                   faults>>

-----------------------------------------------------------------------------
\* The host's answer to the card.

\* onResolve(), on a card shown as pending and not busy.
HostAnswers ==
    /\ state.card = "pending" /\ filing = "idle"
    /\ filing' = "posting"
    /\ UNCHANGED <<srv, viewVars, clickVars, fetches, stream, faults>>

\* The POST reaches the service, which accepts the first answer only and says so on the
\* stream; the state is fetched.
AnswerFiled ==
    /\ filing = "posting"
    /\ filing' = "fetching"
    /\ srv' = IF srv.card = "pending"
              THEN [srv EXCEPT !.card = "resolved", !.ring = Append(@, Resolved)] ELSE srv
    /\ fetches' = [fetches EXCEPT !["resolve"] = Asked]
    /\ UNCHANGED <<viewVars, clickVars, stream, faults>>

\* resolveDecision() resolves to null, the card stays open on the server, and the state is
\* fetched all the same.
AnswerLost ==
    /\ filing = "posting"
    /\ filing' = "fetching"
    /\ fetches' = [fetches EXCEPT !["resolve"] = Asked]
    /\ faults' = faults + 1
    /\ UNCHANGED <<srv, viewVars, clickVars, stream>>

\* setState(await fetchState()), which no window holds back, and busyId is cleared.
AnswerSettles ==
    /\ fetches["resolve"].at = "client"
    /\ state' = fetches["resolve"].body
    /\ filing' = "idle"
    /\ fetches' = [fetches EXCEPT !["resolve"] = Idle]
    /\ UNCHANGED <<srv, envs, held, floor, window, clickVars, stream, faults>>

-----------------------------------------------------------------------------

WebNext ==
    \/ CycleStarts \/ CycleEmits
    \/ \E s \in Slot : Poll(s)
    \/ \E r \in Request : AnswerFetch(r) \/ PollArrives(r)
    \/ StreamOpens \/ Deliver
    \/ clicks < MaxClicks /\ RunNow
    \/ RunAnswered(TRUE) \/ BusyEnds \/ WindowEnds
    \/ \E k \in 1..clicks : Release(k)
    \/ HostAnswers \/ AnswerFiled \/ AnswerSettles
    \/ faults < MaxFaults /\ ShortRing
       /\ \/ ServerRestarts \/ StreamBreaks \/ RunAnswered(FALSE) \/ AnswerLost
          \/ \E r \in Request : FailFetch(r)

\* The interval and the timeouts fire, requests are answered or fail, an open source
\* delivers and a broken one tries again, a cycle that runs goes on.  Clicks, restarts and
\* the scheduler come when they will.
WebFairness ==
    /\ WF_webVars(CycleEmits)
    /\ WF_webVars(StreamOpens \/ Deliver)
    /\ WF_webVars(RunAnswered(TRUE) \/ BusyEnds \/ WindowEnds \/ \E k \in 1..clicks : Release(k))
    /\ WF_webVars(AnswerFiled \/ AnswerFetch("resolve") \/ AnswerSettles)
    /\ \A s \in Slot : WF_webVars(Poll(s) \/ PollArrives(s))
    /\ WF_webVars(AnswerFetch("resync") \/ PollArrives("resync"))

WebSpec == WebInit /\ [][WebNext]_webVars /\ WebFairness

-----------------------------------------------------------------------------

WebEnvelope == [sequence : Nat \ {0}, key : 0..Steps]
AppState == [ring : Seq(0..Steps), card : {"none", "pending", "resolved"}, step : 0..Steps]

\* Every variable holds values of its shape.
WebTypeOK ==
    /\ srv \in AppState /\ state \in AppState
    /\ envs \in Seq(WebEnvelope) /\ held \in Seq(WebEnvelope)
    /\ floor \in Nat
    /\ window \in BOOLEAN /\ runBusy \in BOOLEAN /\ posting \in BOOLEAN
    /\ clicks \in Nat /\ timers \subseteq 0..clicks
    /\ \A r \in Request :
         fetches[r] \in {Idle, Asked} \cup [at : {"client"}, body : AppState]
    /\ filing \in {"idle", "posting", "fetching"}
    /\ stream \in [status : {"connecting", "open", "closed"}, next : Nat \ {0}]

\* The ring resent after a reconnect, a restarted numbering and a released buffer: what is
\* kept stays in order, at most MaxKept, and nothing is shown twice, by its number or by
\* its content.
EnvelopesOnce ==
    /\ Len(envs) <= MaxKept
    /\ \A i, j \in DOMAIN envs : i < j => /\ envs[i].sequence < envs[j].sequence
                                          /\ envs[i].key # envs[j].key

\* MaxKept newer envelopes push it out.
Overrun(n) == Cardinality({m \in Numbers(envs) : m > n}) >= MaxKept

\* What an envelope says is on the screen: itself, or one of the same number or content,
\* which the view takes for it.
Shown(env) == \E other \in SetOf(envs) : other.sequence = env.sequence \/ other.key = env.key

\* What the window holds back is let go in the end, and then each envelope is shown, or
\* the next cycle's of the same content is: unless newer ones push it out, or the host
\* clicked again.
HeldIsShown ==
    /\ held # <<>> ~> held = <<>>
    /\ [][\A env \in SetOf(held) :
              \/ env \in SetOf(held') \/ Shown(env)'
              \/ Overrun(env.sequence)' \/ clicks' > clicks]_webVars

\* Once the service is at rest the tab shows its state, whatever polls answered late,
\* failed or were ignored before.
CatchesUp == <>[](state = srv)
=============================================================================
