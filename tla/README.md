# StayQuiet in TLA+

StayQuiet watches the policies of a short-stay operator. When a policy changes, a
*cycle* finds the bookings it affects, lets an agent draft a reply for each, and either
files the result quietly or raises a *decision* that the host answers with one tap. This
directory holds TLA+ modules that model the program, TLC configurations that check them on
small instances, and theorems that TLAPS proves for every value of the constants.

All paths below are relative to the repository. A definition and the lines it
translates are paired in `PROJECT.json` under `map`.

## 1. Inventory

| Part | State it keeps | Operations | Talks to |
|---|---|---|---|
| **Decision store** `src/stayquiet/store.py` | `_runs`, `_run_order`, `_decisions`, `_decision_order`, in memory, under one `threading.Lock` | `create_run`, `finish_run`, `add_decision`, `resolve_decision`, lists | called by cycles and by the API |
| **Audit trail** `src/stayquiet/audit.py` | `_mirror` in memory under a lock; a JSON Lines file written outside it | `audit_append`, `audit_read` | called by cycles, by the agent's `audit_log` tool, by the API |
| **Envelope ring** `src/stayquiet/publish.py` | `_seq`, `_ring` (bounded), under a lock | `emit`, `envelopes`, `since` | called by cycles, tools, API; polled by SSE connections |
| **Cycle agent** `engine/agents/stayquiet_agent.py`, tool context `engine/tools/ctx.py` | locals of `run_cycle`; `ctx._trace`, `ctx._calls` (module variables, no lock) | `run_cycle`, `triage`, `run_agent` turns, tools | store, trail, ring, model client |
| **Service API** `src/stayquiet/api.py` | `_cycle_lock`; per SSE connection a cursor | `POST /api/runs`, `POST /api/decisions/{id}`, `GET /api/state`, `/events/stream`, `_scheduler` | starts cycle threads; reads and writes all of the above |
| **AgentCore entrypoint** `deploy/agentcore/main.py` | none | `invoke` | `run_cycle`, with no lock around it |
| **Model client** `src/stayquiet/model.py` | the metered wrapper and the cache, made once | `run_agent`, `record_golden`, `golden_keys` | resilience wrapper, cost meter, golden cache |
| **Resilience** `src/resilience/` (TypeScript; Python ports beside it) | a call's attempts, deadline, fallback chain; a wrapper's configuration; the golden cache on disk | `withResilience`, `withValidation`, `resolveConfig`; cache `get`, `put`, `delete`, `list` | wraps any external call |
| **Cost** `src/cost/` | usage records, budgets, fired warnings, a snapshot file | `append`, `check_budget`, `emit_warning`, `acknowledge_warning`, `reset`, `render_summary` | wraps model calls |
| **Transport** `src/platform/transport/` | a publisher's number and the envelopes it recorded; two hubs' connections; a hook's subscription, status and envelopes | `publish`, `close`, `collect`, `attach`; `useEventStream` with retry, fallback and `reconnect` | browser and Node side of a stream |
| **Web client** `src/stayquiet/web/` | the state shown, the envelopes kept and held back, the floor, the empty window, timeouts | polls, run request, answers, the stream's callbacks | the API |
| **Context fitting** `src/context/` | a conversation's buffer and its status | `append`, `fit`, `fitWithCompaction`, two strategies, adapters | model calls |
| **Synthetic data** `src/data/` | batches in files and in the golden cache | `generateRecords`, `generateDocuments` | a provider through the wrapper |
| **Ideation tools** `src/ideation/` | a deck folder, a question sheet with a log, a capture's files, a script | `deckgen`, `faqdef`, `demodrive`, `script` | a model through the wrapper; a browser; the file system |
| **Platform UI, provenance, scripts** | files | presentation; one-shot checks | the repository's files |

### What is hard here

* A cycle runs in a worker thread, the host's requests in the event loop. Each component
  has a lock of its own and there is no lock over a whole handler or a whole cycle, so a
  handler may see a cycle half done (`build_state` reads four components one after the
  other) and a cycle may see an answer land between two of its own steps.
* `start_cycle_bg` looks at `_cycle_lock` in the event loop and takes it later in a thread.
* The tool context is module state. It is right only because one cycle runs at a time,
  which the service ensures and the AgentCore entrypoint does not.
* The trail is written twice under different locking, and only one of the two outlives
  the process.
* The ring forgets; connections are behind it by one poll or by one batch.
* A cycle can fail at any booking, with cards raised and a run that says "running".
* A resilient call has up to five ways to end, in two copies of one algorithm (async and
  sync), and what fails on the way must neither be tried too often nor be skipped.
* The cache's two files per entry, and the cost store's snapshot, are written with no lock.
* Whether a crossing is new is kept in the cost store, by whoever looked last, and apart
  from it in each wrapper.
* `publish` writes to every connection in one turn and then waits for those whose buffer was
  full, while other calls, drains, disconnects and `close` come between.
* The browser's hook has one retry, a fallback fetch that may answer after the next
  subscription has begun, and an unmount at any moment.
* The web client polls without waiting for the last poll, is sent the whole ring again by
  every connection, and hides what arrives in a window after a click, with three timeouts
  that are set by two different events.
* A conversation is trimmed at every message, and the function that compacts it is the
  engine's and may answer anything.
* The tools write several files one after the other, are killed and run again over what the
  run before left, and rewrite what a model answered.

### What makes each part correct

* Store: an ask is pending at most once; an answer is final; a run lists what its cycle
  raised; the store is a *decision desk* (below).
* Trail: no deduplicated line twice in a mirror; an entry is on its way to the file in
  exactly one place; the mirror loses nothing while the process lives.
* Ring: it is the tail of what was emitted; a connection sends in order, once, and
  misses only what was evicted; in the end it sends what it can.
* Cycles: one at a time; the lock is released whichever way they end; runs end; tool
  calls and tool envelopes belong to the cycle that made them; a card has its reason in
  the trail; an answer is in the trail.
* Resilience: retries before the chain, the chain in its order, one repair per answer, no
  unchecked live value, no live call under the kill switch, and an end.
* Golden cache: no partial entry; a get is true of some moment of the call; an entry is
  deleted once; every entry is listed.
* Cost: a crossing is heard at most once by the listeners and known to every callback; the
  snapshot on disk is whole, and current.
* Replies of `/api/state`: each decision once, with its status, and with its trail line.
* Transport: a connection misses no number and the snapshot says no less than the stream; a
  hook waits for nothing that cannot come; a flush ends.
* Web client: nothing twice; what was held back is shown; in the end the view is the state.
* Context: the buffer fits or says why not; pinned messages stay; only the oldest go, and
  only if they must.
* Tools: what is on disk is of one run, is marked, names no figure that no source gives, and
  is what the result said.

## 2. Modules

| Module | Models |
|---|---|
| `DecisionDesk` | the abstract promise of the store to the host: cards are put, approved or edited once |
| `DecisionStore` | `store.py`, with its callers as "any number of cycles and a host"; refines `DecisionDesk` |
| `AuditTrail` | `audit.py`: mirror, file, the gap between them, failed writes, restarts |
| `EventRing` | `publish.py` and `_envelope_stream` of `api.py` |
| `StayQuiet` | composes the three with cycles, the tool context, the lock, the scheduler and the handlers |
| `Resilience` | calls of a wrapper of `wrapper.ts`, async or sync, with validation and repair |
| `ResilienceConfig` | how `config.ts` makes a wrapper's configuration, the backoff and the key `wrapper.ts` makes of it |
| `GoldenCache` | `cache/store.ts`, step by step on the file system, with several processes |
| `CostStore` | the warnings of `cost/store.py` and `meter.py`, with wrappers that share a store |
| `CostSnapshot` | the persistence of `cost/store.py`, by inode |
| `StreamHub` | `publisher.ts` with the SSE and the WebSocket hub |
| `EventStream` | `useEventStream.ts` over `subscriber.ts`, `fallback.ts` and the none adapter |
| `WebClient` | `App.tsx` over `api.ts`: one tab against a service that restarts |
| `ContextBuffer` | `src/context`: one conversation, its buffer and what a provider is sent of it |
| `SyntheticData` | `src/data`: generations one after another, their files and cache entries |
| `DeckFolder` | `deckgen populate` over one folder, again and again |
| `QaSheet` | `faqdef generate` and `rehearse` over one sheet |
| `DemoDrive` | one `demodrive capture`, await by await, with Ctrl+C |
| `PitchScript` | `script generate`: timing, draft, audits and the rewriting of the file |
| `Selection` | the filtering of a list, as the stores, the routes, the wrapper and the context buffer do it, and the order of envelopes in the hook and the tab |
| `Records_proofs` (`DecisionStore`, `AuditTrail`), `StayQuiet_proofs` | theorems about the service |
| `Resilience_proofs` (`Resilience`, `ResilienceConfig`), `ClientStores_proofs` (`GoldenCache`, `CostStore`, `CostSnapshot`), `Streams_proofs` (`EventRing`, `StreamHub`, `EventStream`), `WebClient_proofs` | theorems about the client side |
| `Tools_proofs` (`SyntheticData`, `DemoDrive`, `DeckFolder`, `QaSheet`, `PitchScript`, `ContextBuffer`) | theorems about the tools |
| `Selection_proofs` | lemmas about `Selection` |
| `MC*` | small instances |

**DecisionStore.** `runs[r]` and `decisions[i]` are `RunRecord` and `Decision`; the dictionaries
and order lists of the code are sequences in creation order, so an id (a fresh uuid in the
code) is an index. Each function runs under the module's `threading.Lock`, so each is one action.
`add_decision` is `RaiseAgain` or `RaiseNew`, as the dedupe scan finds a pending card or
not. `raised[r]` is the cycle's own list (`decisions` in `run_cycle`), which `finish_run`
writes over what `add_decision` gathered. Run counters, summaries and times are left out.

**AuditTrail.** `AuditAppend` is `audit_append` up to the release of the lock;
`WriteLine` or `WriteFails` is the rest of it. `AuditCrash` is a restart: the mirror is
lost, the file is not, and nothing reads it back. A line is an (action, booking,
detail) value, which is what the dedupe compares. The first lines of `audit_append`'s
docstring speak of the *newest* entry; the code scans the whole mirror, and so does
`InMirror`.

**EventRing.** `Emit` is `emit` with its trim. `Poll` copies a batch, `SendFrame` yields one frame
of it. Keepalives are left out.

**StayQuiet.** A thread's step is one call that takes a lock, with the thread-local work
up to it; `pc[w]` says where in `run_cycle` (or in `start_cycle_sync` around it) it is and
`cyc[w]` holds its locals.

| Code | Actions |
|---|---|
| `start_cycle_bg`, `_scheduler` | `PostRun`, `Tick` |
| `start_cycle_sync` | `Acquire`, `Release` |
| `invoke` (AgentCore) | `Invoke`, and `Release` as its return |
| `set_trace`, `create_run`, `cycle_started` | `Begin`, `OpenRun`, `EmitStarted` |
| `policy_fetch`, `policy_diff`, the policy line | `PolicyTool`, `AuditPolicy` |
| scan, `build_agent`, `drain_tool_calls` | `EmitScan`, `BuildAgent` |
| a booking: two turns with tools | `EmitTurnStarted`, `AgentTool`, `AgentLogs`, `TurnEnds`, `Drain` |
| a booking: verdict | `EmitTriage`, then `FileQuietly`, or `RaiseDecision` and `AuditEscalation` |
| `finish_run`, `cycle_done` | `FinishRun`, `EmitDone` |
| the `except` branch | `Fail`, `AuditFailure`, `FinishFailed` |
| the file half of `audit_append` | `AuditFile` |
| `POST /api/decisions/{id}` | `HostAnswers`, `AuditAnswer`, `EmitAnswer` |
| `GET /api/state` | `ReadPending`, `ReadResolved`, `ReadEvents`, `ReadTrail`, `Reply` |

Abstractions:

* Texts are model values; all that `triage` sees of a draft is whether it names an amount
  (`Money`), and all it sees of a booking is the kind it forces, if any (`Forced`).
* A model turn returns some text, live, from the cache or as the fallback draft, after
  calling up to `MaxToolCalls` tools one after the other. The three lock-sized steps at
  the start of a tool (note the call, read the trace, emit) are one action; what another
  thread could do in between is to replace the trace, which overlapping invocations do
  from the outside as well.
* The event loop runs one handler at a time; no handler the model has awaits between its
  first and last step. Answering a card that is already answered writes its line and its
  envelope again, as in the code.
* What the agent writes with `audit_log` is one kind of line, `Noted`, never deduplicated.
* The deployment is chosen at the start, out of `Deployments`. Under AgentCore there is no
  event loop (`loop` is absent), and any thread may be an invocation; they overlap. Its
  prompt mode, a turn outside any cycle, is left out.
* `made` and the `by` field of an envelope are history: who called, for the properties.

**Resilience.** `Call` begins `runAsync` or `runSync`. `TryPrimary`, `PrimaryAnswers` and
`PrimaryFails` are a round of the retry loop, `PassAwaitable` what a sync wrapper does with a
promise; `AnswerWillDo`, `AcceptAnswer`, `StartRepair`, `CheckFails`, `RepairSucceeds` and
`RejectAnswer` the hook `withValidation` installs; `SkipStep`, `TrySecondary`,
`SecondaryAnswers`, `SecondaryFails`, `LookUp` and `Degrade` the fallback chain. The
configuration is a constant of a behaviour, out of `Configs`; `FlipKillSwitch` is the
environment between two calls. The outcome of a callable is the environment's choice;
`Deadline` is the timer that wins the race against a late one. A sync call is late only when
it has returned. Left out: backoff delays, in which nothing happens;
`resilience_internal_error`, which no modelled step can reach; exceptions of the hook other
than a failed repair, which end an attempt just as `PrimaryFails` does.

**ResilienceConfig.** A pure part: `asked` is what a wrapper is made of, and `Effective` what comes
of it. A field is `Unset`, a value or `Bad`; `ResolvesByPrecedence` is the reference definition
("the first of environment, caller, file and default that has a say") the operators are
compared with, for every field, the order of the chain and the key included. A delay is capped
(`CappedDelay`) and then varied by up to a quarter (`Jittered`), so `BackoffDelay` is the
interval it lies in. With the jitter, which is on by default, a retry may wait up to a quarter
longer than `max_ms`, and less than the one before it; the property says what is left of the
cap and the growth: the interval ends at five quarters of the cap, and neither of its ends goes back.

**GoldenCache.** `Put`, `WriteTmp`, `Replace`, `PutFails`, `ReadIndex`, `WriteIndex` are `put`; `Get`,
`Exists`, `Read`, `Quarantine` are `get`; `Delete`, `Existed`, `Unlink`, `Unlist` are `delete`;
`Index` is what `list` shows. `DamageEntry` and `DamageIndex` are what a hand or a disk does to
the files. Metadata of entries, `has` and `clear` are left out. A call's own temporary file
has a name of its own, so it is a variable of the process.

The Python service uses ports of these two (`wrapper.py`, `cache/store.py`); the modules
translate the TypeScript, and nothing is claimed of the ports where they differ.

**CostStore.** `Append`, `CheckBudget`, `Warn`, `MeterSuccess` are `_meter_success` with the store's
`append`, `check_budget` and `emit_warning` inside, `MeterFailure` is `_meter_failure`. `used` is what
`_aggregate` would make of the records of a scope. The
merged configuration of a wrapper is the constant `Limits[w]`; it is read under a lock of
its own before the check, which would matter only if `set_budget_config` were called while
calls run. Units are tokens or requests; costs would be the same.

**CostSnapshot.** `AppendRecord` or `ResetRecords` and then `Take`, `Open`, `WritePart`, `WriteRest`,
`Rename` are a change and its `_persist`; `Restart` is the next process's `_load_persisted`. A
file keeps its writer when it is renamed, which is why there are inodes. No lock is held
meanwhile.

**StreamHub.** `Publish` is `publish` up to its first `await`, all writes included; what it waits
for is in `calls`, and `Drain` releases every call that waits for the connection. A write
that throws leaves its connection in the set until `Remove`, in a later turn. `Close` leaves
the hubs able to accept connections again, as the code does. The process has one transport,
chosen at the start; clients of the other hub get nothing.

**EventStream.** The hook's effect is `Mount`, `Unmount` and `ChangeOptions`; `Reconnect` is its
button. Fetches are in `fetches` with the subscription that asked, since a late answer is told
apart by the adapter (per subscription) and not by the hook's own fallback (per mount). An
envelope is its number; the server is external, answers any time, and may resend from the
start (the Python service) or go on (the Node hub).

**WebClient.** `Poll` and `PollArrives` are apart, so that answers overtake one another; so are a
click, its POST and its three timeouts. Time is the order it imposes: the window ends 3200 ms
after a click, the button comes back 3000 ms and the view is re-synced 3400 ms after the
POST is answered. An envelope is its number and its content, since the client drops
repetitions of either. The service is external here: a ring, one card, a cycle, restarts.

**ContextBuffer.** `said` is the conversation had nothing been evicted, for the properties; `buf` is
the buffer the caller keeps. `Fit` counts, resolves the configuration, rejects and lets a
strategy evict; `FitWithCompaction` is the three ways to try a compaction, whose answer is any of
`Compactions`: lists of messages, those of the conversation or new ones (`Summary`), none twice.
A message is its role, its length, its cached count, its pin; the count is the
heuristic of a quarter of the characters. The loop of a strategy from the newest message to
the oldest is `FittingSuffix`, the longest end that fits: the same, as no count is negative.

**SyntheticData.** `Generate`, `CallProvider`, `FallBack`, `Check`, `Repair`, `Mark`, `WriteFile` and
`Store` are one generation; the files and the cache stay for the next. The wrapper is its
retries and its cache lookup (`Resilience` has the rest). A schema may accept elements that are
no objects (`loose`); a batch says how many of its elements are objects, and `Mark` passes the
others through as `watermark.ts:28` does.

**DeckFolder.** A run reads its sources, has slots phrased, and then writes file after file
(`WriteFileAtomic`, `RemoveStale`), may fail and start again without sources (`RunFails`), or be
killed. The appendix may fail without anybody's notice (`SkipAppendix`). A run without a plan
writes the skeletons and removes nothing. A text is the set of its lines, a line a word with the
figures it names; a phrasing passes when its numbers occur anywhere in the section, as a part of
longer ones too (`NumbersFound`). The copy `--out x.md` makes of the deck is left out.

**QaSheet.** `StartGeneration`, `Retag`, `WriteJson`, `WriteMd` make the two files; a session is
`StartSession`, then `Type`, `SubmitLine` or `Expire`, and `JudgeAnswers` per question. The ids of
questions are numbers here, and of an answer the figures count that it names.

**DemoDrive.** Each await of `runCaptureCore` is an action (`StartFeeder` to `StopFeeder`);
`InterruptRun` and `HandlerEnds` are the SIGINT handler, which may come between any two and goes
on beside the core. The browser is external; a recording is whole once its context closed.

**PitchScript.** `Stub` and `Draft` are pure up to the one write, so they are one action each.
`Parsed` to `Windows` are the timing file, `DraftRows` and `BlankRows` the table with its audits,
`Enforced` the rewriting of visual cues, `Reconciled` the rule that keeps an unchanged file. Of a
spoken text the model keeps whether it begins as a TODO, the figures and the cue it names first,
and the figures and cues behind that cue: this is what `auditBusinessValueCell` and
`enforceVisuals` look at or pass over. The audit is by substring (`OccursIn`, with `PartOf` for the
figures that are a part of how another is written). A problem sentence taken from the plan has
neither figures that matter nor a cue. Left out are the rewriting of a live row that says
"static" or "title card" (`validateVisuals.ts:188`), which needs a row without the live label while
every live row is derived with it, and the failure to load
`contracts/script-timing.schema.json`. That schema is not in the repository at this commit;
`AgainstSchema` takes its bounds from the comment at `timing.ts:33` and the rest from what the
code goes on to rely on.

## 3. Runs

Components that share no state are checked in one run: its `part` picks one, which moves while
the others stay as they began, so that the states add up and do not multiply. Every run has
`CHECK_DEADLOCK FALSE`: the bounds on cycles, calls and envelopes make a finished instance
stop, and an idle service really may wait for ever.

| Run | Question | Instance and why it is enough |
|---|---|---|
| `stores` | | symmetry over bookings (and processes) and texts (and values) |
| - decisions | do any cycles and the host, in any order, ask once and implement the desk? | 2 runs overlapping, 3 decisions, 2 bookings, 1 kind, 2 texts: an ask is raised by both runs, answered, and raised again |
| - trail | what survives overlapping writers, failed writes and a restart? | 2 writers, 5 entries, 1 restart: both writers in the gap, at the restart too |
| - cache | what do two processes see of an entry, and what is left of it? | 4 calls on 1 key with 2 values, 1 damage, 1 failed call, 1 crash |
| - cost | who hears of a crossing? | 2 wrappers with 2 providers, 3 thresholds, 3 calls or failed attempts, summaries, 1 reset or acknowledgement |
| - snapshot | what does a restart give back? | 1 thread, 5 changes, 3 restarts, 2 failed writes |
| `service` | one cycle at a time, closed runs, recorded answers, consistent replies, the store used as specified | scheduler and 1 request, 2 cycles, 2 answers, polls; and, under AgentCore, 2 invocations at once; 1 booking that is quiet or held as the draft goes |
| `tool_turns` | the tool context and the reasons of cards | 2 cycles, 2 bookings, a tool per turn, a failed write, and failures of the scan, of building the agent, and of every booking at each turn and at its decision (`Raises`); `cost_snapshot` catches what goes wrong in it |
| `service_liveness` | do runs end and cycles keep coming? | 2 cycles, request, answers, failures, under `Fairness` |
| `resilience` | what does a call do, in which order, and does it end? whose value is a field of the configuration? | every wrapper, async and sync, out of 2 retry counts, 3 orders (usual, a step behind `none`, a step twice), 3 sets of enabled steps, key, secondary, schema and repair each way, the kill switch flipped between 2 calls; and raw configurations with one group of fields at a time given, missing, legal or not, in file, caller and environment |
| `streams` | | |
| - ring | what can a slow connection miss? | capacity 2, 5 envelopes: the ring is overrun twice, in the middle of a batch too |
| - hub | what do clients get, and does a flush end? | 2 clients of either hub, 2 calls of `publish` waiting at once, drains, broken writes, `close` |
| - hook | is what is shown sound, and waited for with a cause? | 3 envelopes, 4 subscriptions, 2 errors: the retry, the fallback, and late answers of both |
| `web` | is nothing shown twice, what was held shown, and the view in the end the state? | 2 envelopes a cycle, cycles that say the same again, 3 kept; a ring of 4 (two whole cycles) as long as nothing goes wrong, of 2 with a fault of any kind; 1 poll beside a re-sync and an answer, 1 click |
| `tools` | | |
| - context | does a conversation fit or say why, and lose only what it must? | 4 messages, both strategies, windows from nothing to all, compaction before, after, instead |
| - data | is what is handed out marked, and readable offline? | 3 generations out of requests that differ in shape, key, mark, switches; answers of objects, of none and of both |
| - deck | is the folder of one run? | 2 runs over sources with more, less and nothing in them, killed or failing at every file; phrasings with figures of the plan's, parts of them, and others |
| - faq | is a sheet sound, and a log a session's? | 2 generations cut at every step, 1 session |
| - drive | are the files what the result says? | scripts of one to three steps, every await failing, Ctrl+C at every await |
| - script | is a draft usable, on time and left alone? | 2 runs, the inputs edited in between; timing files legal and not, with fractions of minutes that round either way; answers with invented figures, parts of figures, TODOs and one or two cues |

Four runs expect a violation; each checks one sentence of the repository.

| Run | The sentence | What happens |
|---|---|---|
| `state_scope` | api.py:109 "Scope events to the latest cycle's trace" | the answer to an older card is the last envelope, and its cycle's trace is shown |
| `snapshot_shared` | cost/store.py:459 "Atomic snapshot write" | two threads share one temporary file, and one renames what the other has just emptied |
| `stale_chart` | populate.ts:11 "remove charts whose source figure disappeared" | a run whose plan has gone writes skeletons and removes nothing (`populate.ts:684`) |
| `swallowed_crossing` | cost/store.py:126 "callback listeners fire exactly once per threshold crossing" | a second check clears the edge the first has found, before it is passed on (`cost/store.py:213`) |

Some properties hold only with a condition that the repository's words do not have. The
condition says where the code does something else:

| Property | Condition | Without it |
|---|---|---|
| `OneCycleAtATime`, `ToolContextIsOwn` | the service | AgentCore invocations (`main.py:33`) are not serialised, and a tool call can go out under the other cycle's trace, against `ctx.py:4`, "this process runs one cycle at a time by design" |
| `NoRepeatInMirror` | the mirror, not the file | the dedupe looks at the mirror, which a restart empties, so the file gets its lines again (`audit.py:86`) |
| `LiveValuesChecked` | async wrappers | a sync wrapper returns the secondary's value unchecked (`wrapper.ts:416`) |
| `KillSwitchSparesProviders` | the switch as the wrapper found it | the configuration, switch included, is resolved once, when the wrapper is made (`config.ts:392`), so a flip between two calls is not seen (`wrapper.ts:204`) |
| `EveryCallReturns` | async, callables that answer with promises, no repair | the repair is awaited with no deadline (`wrapper.ts:300`); a callable that blocks is never given up |
| `RecordedStays` | calls take turns | a reader quarantines the good entry another process has put in the place of the corrupt one it read (`cache/store.ts:277`) |
| `CrossingsAreHeard` | nobody else checks in between, no reset, budgets that agree in the limit of a threshold | `check_budget` forgets the edges another thread's wrapper has found and not passed on (`cost/store.py:213`, run `swallowed_crossing`); `render_summary` calls it, too; after `acknowledge_warning` the wrapper's own set, which nothing clears, keeps the warning back (`meter.py:432`); a check with a higher limit takes the crossing from `fired`, the next one with the lower finds a fresh edge again, and its wrapper's own set keeps that one back |
| `SnapshotWhole`, `RestartKeepsRecords` | one thread persists | `snapshot_shared`; and of two threads the one with the older snapshot may rename last |
| `FlushedInTheEnd` | no client waited for is lost | a connection that is gone never drains, and the call waits for ever (`adapters/sse.ts:57`) |
| `HookIsSound` | of whichever subscription | the snapshot a lost subscription asked for arrives after a reconnect and is shown (`useEventStream.ts:57`) |
| `HeldIsShown` | one click; not overrun; shown itself, or stood for by one of the same number or content | a second click drops what the first held back (`App.tsx:178`); the release drops an envelope whose like the next cycle has shown meanwhile (`App.tsx:97`) |
| `CatchesUp` | the service comes to rest | an older answer may replace a newer one, until the next poll |
| `MarkedAndReadable` | the mark switched on; elements that are objects; open schemas | a schema may take numbers, and a number bears no mark (`watermark.ts:28`); a closed schema refuses the marked batch when it comes back from the cache |
| `CaptureIsWhole` | not interrupted; closing succeeds | Ctrl+C while the core is at work leaves what both of them wrote; a context that would not close leaves a partial recording |
| `FolderIsOfOneRun` | a run that came to its end; removals succeed | a killed run leaves a deck of two plans until the next |
| `FolderIsOfOneRun` | charts only of runs with a plan | run `stale_chart` |
| `SheetIsSound` | each file by itself | a generation cut between its two writes leaves a json of one and an md of the other (`faqdef/generate.ts:414`) |
| `DraftIsUsable` | unless the cell begins as a TODO; the first cue; four seconds | a model's line that begins as a TODO is not audited (`generate.ts:208`); nobody looks at a cue behind one that holds (`validateVisuals.ts:195`); a stated total is compared with the rounded sum (`timing.ts:270`) and the windows end at the sum itself |
| `LogTellsTheSession` | order and number of the lines | what was typed when the time ran out is lost; the log is written at one go, with no temporary file |

Seen while modelling, and no property's business: a request can be told `started` and its
thread then find the lock taken, since `start_cycle_bg` looks before the thread tries
(`api.py:97`); a quarantined entry stays in the manifest and `golden_keys` reports it; a file
that is not UTF-8 makes the Python `get` raise, which its wrapper contains; a wrapper keeps the kill
switch it found when it was made (`run_agent` makes one per turn, so the service obeys it
at the next turn); when a secondary fails after the primary's answer was rejected, the
result speaks of a timeout or failure of the primary; a sync wrapper drops the promise of a
secondary or a repair, and its later rejection is handled by nobody, against "Never throws
unhandled" (`wrapper.ts:9`); two captures begun in the same second share a folder; the
command line of `script` refuses `--full-draft`, which its help knows, so the draft is only
reached as a function; a rehearsal whose time is up submits a buffer nothing fills, so what was typed
is lost.

The repository also says a few things of itself that its code does not keep, which the models
follow and no property asserts:

| The sentence | What the code does |
|---|---|
| resilience-config.schema.json:77 "caller-supplied cache_key_explicit, hashed once for filename uniformity" | `resolveBaseKey` (`wrapper.ts:149`) returns it as it is, and the cache has no file for a key that is no hash |
| resilience/README.md:54 "Abort primary/secondary/repair call after N ms" | an async repair that never settles is awaited for ever (`wrapper.ts:300`) |
| wrapper.ts:48 "applied to successful primary/secondary results" | the sync chain returns the secondary's answer as it is (`wrapper.ts:418`) |
| resilience/README.md:61 "operator can flip mid-event", wrapper.ts:202 "refreshes kill-switch flag" | what is refreshed is a configuration resolved when the wrapper was made (`wrapper.ts:204`, `config.ts:392`) |
| types.ts:88 "every element satisfies element.synthetic === true" | elements that are no objects pass unmarked (`watermark.ts:28`) |
| useEventStream.ts:4 "a reconnect starts a FRESH subscription" | a late snapshot of the old one is still shown (`useEventStream.ts:57`) |
| extractBusinessValue.ts:14 "an invented claim can never ship" | a model's line that begins as a TODO is not audited (`generate.ts:208`), and a figure that is a part of a given one passes (`extractBusinessValue.ts:146`) |
| generate.ts:416 "no invented screen or static title card can ship" | the second cue of a row is not looked at (`validateVisuals.ts:195`) |
| validateVisuals.ts:161 "Live-row marker that must survive every rewrite" | a cue that does not hold is replaced with the rest of its row, marker and all (`validateVisuals.ts:203`) |
| timing.ts:57 "last end equals the total", timing.ts:322 "the last window always ends at the total" | it ends at the sum of the sections, which may be up to four seconds from a stated total (`timing.ts:270`) |

**Bounds.** `MaxRuns`, `MaxDecisions`, `MaxEntries`, `MaxCrashes`, `MaxEmits`, `MaxCycles`,
`MaxToolCalls`, `MaxAnswers`, `MaxDiskFailures` cap counters of the service; `StatePolled` turns
state polls on. Elsewhere `MaxCalls`, `MaxOps`, `MaxDamage`, `MaxFaults`, `MaxKills`, `MaxRecords`,
`MaxResets`, `MaxChanges`, `MaxRestarts`, `MaxBadWrites`, `MaxPublished`, `MaxSubs`, `MaxErrors`,
`MaxRing`, `MaxLongRing`, `MaxClicks`, `MaxSaid`, `MaxGenerated`, `MaxDeckRuns`, `MaxGenerations`, `MaxSessions` and
`MaxScriptRuns` do the same. `RING_CAPACITY` and `AUDIT_SHOWN` are the code's 2000 and 60, and
`MaxKept`, `MinEntries`, `MaxEntries` and the token counts are small as well, so that they are
reached. Two cycles suffice for what one leaves to the next (trace, tool calls, cards,
lines), and two runs of a tool for what one leaves in its folder; the store's own
properties, which could need more, are proved for any number.

**Fairness.** `CycleThread(w)` is weakly fair: a thread is scheduled, and a model turn
returns. The latter is an assumption about the external model client (which has timeouts
of its own): `_live_turn` is sync, and the sync wrapper looks at its deadline only when the
call has returned, so a call that hangs would keep the cycle lock. `HandlerStep` is
weakly fair: the event loop finishes a handler. `Tick` is strongly fair: the scheduler's
sleep ends again and again, and the loop comes to it between two requests, while the lock
may be taken in between. No request, answer or poll is owed. In `EventRing` an open
connection is polled and its frames are sent; the ring owes nothing. In `Resilience` the
wrapper goes on (`OwnStep`) and the event loop's timers expire (`Deadline`); that a callable
ever answers is not assumed. In `StreamHub` the handler of a failed write runs in a later turn,
and a client that stays connected reads; it need not stay. In `WebClient` intervals and
timeouts fire, requests end, an open source delivers and a broken one that tries again
opens, and a cycle goes on; clicks, answers and restarts are not owed.

**Mutants.** Definitions marked "Variant:" are plausible wrong versions of the definition
below them. Each property is violated when one of them takes its place
(`PROJECT.json`, `mutants`).

## 4. Proofs

`Records_proofs`, of `DecisionStore`, from `StoreDomains` only (bounds are naturals, `NoText` is no text):

* `StoreInv` is `StoreTypeOK /\ OnePendingPerAsk /\ AnswerCarriesText /\ RunAgreesWithCycle`. It is
  inductive as it stands, with one lemma per operation. `OnePendingPerAsk` needs the
  scan of `RaiseNew` to have found nothing; `RunAgreesWithCycle` needs that the cycle's
  list and the run's grow together, so that `FinishDone` overwrites one with the same.
* `AnswersAreFinal` is an action property from the same invariant.
* `StoreIsADesk`: every step maps to `Put`, `Approve`, `Edit` or a stutter. `Put` is enabled
  because of the scan; the identity of a card is new because ids are positions; an
  approved card carries its draft because of `AnswerCarriesText`.

`StayQuiet_proofs`, from `ServiceAssumption`, for any number of threads, bookings, tool calls,
answers and cycles. `StoreDomains` and the assumption of the trail are derived from it
(`StoreAssumed`, `TrailAssumed`). The lock and the tool context are the service's; all else holds
under AgentCore too, where cycles overlap. A deployment stays what it is (`NoLoopNoHandler`).

* `ServiceInv` says that in the service a thread is inside its cycle exactly when it holds the lock, with
  the type of `pc`, which the steps need to talk of other threads. `CycleStepInside`
  shows that every step of `run_cycle`, whatever the store, trail and ring do, leaves
  the lock and the set of threads inside alone; `AcquireStep` and `ReleaseStep` do the rest.
  Hence `OnlyOneCycle` and `NoTwoCycles`.
* `CycleInv` is what every place of `run_cycle` relies on. `PlaceInv`: there is a booking where
  one is worked on, a draft where one is judged, and a verdict other than "quiet" where an escalation is
  written. `CountInv`: the cycles that have begun are the runs there are and the threads at
  "open", so `create_run` stays within its bound. `RunInv`: a thread at work has a running run,
  no two threads the same, and a running run has a thread; without the second a cycle
  could close the run of another. `SlotInv`: there is an assignment of places
  among the impacts to the decisions such that two decisions of one run have different
  places and none is beyond the booking its cycle has got to. It is needed for nothing but
  the bound of `add_decision`: since a decision that is about to be raised has a place
  nobody has, there are fewer decisions than runs times impacts (`PairsBound`,
  `RoomForTheCard`). `LoopInv`: the handler of an answer holds a card that is answered.
* Hence every step is a step of `DecisionStore` or leaves it alone (`ThreadUsesStore`,
  `AnswerKeeps`): `StoreIsUsedAsSpecified`, and with `StoreIsADesk` `ServiceIsADesk`.
  `RunsAreWorkedOn` counts what `RunInv` says.
* The service touches its trail by `audit_append` of a line it knows, `WriteLine` or
  `WriteFails` (`TrailSteps`), each of which keeps `MirrorInv` and `AccountInv`: `ServiceTrailIsSound`.
* `EveryCardIsExplained`: a card appears in `add_decision` alone, its thread is then at
  "escalated", a place from which nothing raises, and leaves it by writing the line
  (`FromEscalated`); the mirror only grows.
* `EveryAnswerIsOnRecord`: one more card answered is one more in the handler's hands; its
  line is none that `audit_append` deduplicates, so a new entry takes it from there. A
  cycle answers no card and takes no line away.
* `ContextInv`: in the service the trace and the calls in ctx.py are those of the thread in its cycle,
  which is one by `ServiceInv`; what `emit` keeps was tagged from them. Hence
  `ContextIsOwn`.
* `StateInv` says what `build_state` has in hand after each of its reads. Between two of them
  cycles add pending cards at the end and answer none, so what the first read listed is
  what was pending among the first `known` cards and still is (`ThreadOnlyAdds`); the second
  read adds the others (`AllAreShown`), none twice since the two lists are of disjoint cards
  (`ShowsBoth`). That a trail shorter than `AUDIT_SHOWN` holds the line of every answer
  shown is `AnswersAreOnRecord`, with nothing in the handler's hands (`TrailIsShown`).
  Hence `StateRepliesAreConsistent`.

`Records_proofs`, of `AuditTrail`, from no assumption:

* `MirrorInv` is the type invariant, that what a thread has in hand was recorded, and
  `NoRepeatInMirror`, which needs the scan of the whole mirror in `audit_append`. A write, a
  failed write and another thread's write leave the mirror alone; a restart empties it.
* `AccountInv` says where an entry is: on disk, in a thread's hands or unwritten, no two of them,
  and in none twice. Recording puts it in a hand, writing or failing moves it from there, a
  restart moves all that is in flight. `EveryEntryHasItsPlace` counts it.
* `MirrorKeepsEntries` is an action property: between restarts the mirror only grows, also
  when the file does not.

`Resilience_proofs`, from `ResilienceAssumption` (configurations are configurations), for any
number of retries and any chain:

* `StageInv` counts: in the attempt loop the primary was called as often as `attempt` says and
  nothing of the chain was; in the chain the retries are used up or an answer was rejected
  before the first step. Hence `FallbackComesLast`.
* `ProviderIsLast` says that the last call before an answer is checked was a provider's, so a
  repair cannot follow a repair (`RepairsAreNotRepeated`). `SparedInv` says that under the kill
  switch a call never leaves the chain (`ForcedSparesProviders`). `LiveValuesChecked` is
  inductive as it stands.
* `AtInv` keeps the place in the chain within its length, which the types need
  (`WrapperKeepsTypes`).
* `ChainInv` says how far the chain was walked at each stage: up to the place before the one
  the wrapper stands at, what was tried is what is usable there (`Walked`); a step is left out
  only when it is not usable (`SkipWalks`) and a tried one is the last tried (`TryWalks`).
  When the result is a value of the chain, the walk ends with the step that gave it; when it is
  degraded, it ends with the chain. Hence `ChainIsWalked`.

`Resilience_proofs`, of `ResilienceConfig`, from `ConfigAssumption` (what stands for "not given" is no
value, an order is a list), for any inputs of a wrapper:

* The file is normalised, the caller's fields are laid over it, and the result is normalised
  again. A field or a nested record that was normalised is legal (`BackoffIsNormal`,
  `ChainIsNormal`, `ChainsAreNormal`), and a legal one stays as it is; so the second pass
  changes only what the caller gave, and a nested field is decided by the record it stands in
  (`ScalarsAreSaid`, `BackoffIsSaid`, `ChainIsSaid`, `OrderIsSaid`, `KeyIsSaid`). `Power` is a
  recursion on the exponent, and its steps (`PowerStep`) make the capped delays grow
  (`CappedDelayGrows`); the bounds of the jitter grow with them (`JitterGrows`, `DelayBounds`).
  Without jitter that is the delay itself; with jitter it may exceed the cap by a quarter and
  may be shorter than the one before, and the theorem says by how much. Hence
  `KnobsResolve`. There is no step to take: a wrapper looks at its inputs once.

`ClientStores_proofs`, of `GoldenCache`, from `CacheAssumption` (the marks for damaged and missing files are no
values), for any number of processes, keys, failures and crashes:

* `CallInv`: what is about to be renamed is a whole value. Hence `WritesAreAtomic`.
* `ReadInv`: while a get may still look at its file, what the file holds is among what the
  get has seen, because every change of a file is seen by the gets of its key; and a get that is about
  to quarantine has seen the file absent or damaged. Hence `GetsTellTheTruth`.
* `SoloInv`: as long as calls take turns one process is at work, and what it is about to
  quarantine does not count as recorded. Hence `RecordedEntriesStay`.
* `ListInv`: an entry is in the manifest, or its put is on the way to it, and what a call is
  about to write as manifest lists every entry. Hence `ListShowsEveryEntry`.

`ClientStores_proofs`, of `CostStore`, from `CostAssumption` for the types only:

* `EdgeInv` says that a fresh edge has not been heard of. `check_budget` starts the count of
  the edges it finds at zero and `emit_warning` takes the edge away with the first telling;
  whatever comes between can only take edges away. Hence `ListenersHearAtMostOnce`.
* `HearingInv` says, while budgets agree (`OneLimit`) and nothing was swallowed or reset, that what
  has fired is still crossed (totals only grow), that what a wrapper holds has fired, and that
  what has fired was heard of or is a fresh edge in the hands of a wrapper that has not told it. A
  check therefore takes nothing from `fired`, and a wrapper at rest has told all it
  holds. Hence `ListenersHearOfCrossings`.
* `CallbackInv` says that what a check found is either passed on or still to be passed on,
  and that a wrapper at rest has nothing left. Hence `CallbacksAreTold`.

`ClientStores_proofs`, of `CostSnapshot`, from `SnapshotAssumption` (a file system never runs out of
inodes: there is another), for one thread, and any number of changes, failed writes and
restarts. With two threads the first of these is false, as `snapshot_shared` shows; the
theorems say that it takes the second thread.

* `FilesInv`: the temporary file and the snapshot are never the same inode, and only the former is
  ever less than whole; what is about to be renamed is whole. Hence `SnapshotsAreWhole`.
* `SavedInv`: when the last persist did not fail, what is under the path is what is in memory, or
  it is behind by the change that is being persisted.
  Hence `RestartsKeepRecords`, an action property.

`Streams_proofs`, of `EventRing`, from `RingAssumption` (the capacity is a positive natural):

* `RingInv` says that the ring is the tail of what was emitted, numbered without a gap; that what a
  connection has sent rises up to its cursor and its batch goes on from there (`ConnOK`); and
  that an envelope of the ring it wants was sent, is in its batch, or is beyond both the
  cursor and the batch (`Served`). A poll takes all that is beyond (`SinceRises`), a frame
  moves the first of the batch to what was sent, `emit` drops from the front only. Hence
  `RingServesEveryConnection`.

`Streams_proofs`, of `StreamHub`, from `HubAssumption` (the bound is a natural, `NoTrace` is no trace):

* `HubInv` says that nothing is written to a connection before it is attached, and that
  recorded numbers are below the next one. An envelope reaches the snapshot and a
  connection in the same step, or the connection leaves its hub and never streams again.
  Hence `StreamsMatchSnapshots`.

`Streams_proofs`, of `EventStream`, from no assumption, for any number of subscriptions, errors and
envelopes:

* `HookInv`: the view is sound (`ViewOK`), and a mounted hook that says "connecting" has a live source
  or a fetch whose answer will be heard: one of the hook's own, or one of the none adapter that
  belongs to the current subscription. A fetch of an earlier subscription does not count, for its answer
  is dropped; this is what makes the invariant inductive over changed options and
  reconnects. Insertion keeps the rows in order (`InsertedRises`), and so does the loop of
  the none adapter (`ShownUpToIsSound`). Hence `HookAlwaysSound`.

`Selection_proofs`, from no assumption: `Selected` is a recursive function on the places of a
list. That a formula holds at every place follows from the well-foundedness of `<` on the
naturals, which the library states for relations: the set of places where it fails would
have a least one (`Counting`). So what `Selected` returns is proved for every list: its
elements, their order, and how it grows with the list (`SelectedFacts`, `SelectedGrows`,
`SelectedPrefix`). By the same argument a recursion on places has a value at each of them
(`RecursionExists`), insertion into rows in order keeps the order (`InsertedRises`), and
sorting by it returns what it was given, in order (`SortedRises`).

`WebClient_proofs`, from `WebAssumption` (the bounds are naturals; a cycle has a step, the tab keeps an envelope), for any number of cycles,
restarts, reconnects, clicks and timers:

* `Kept` says what `envs` is: envelopes in order, none twice, no more than the tab keeps. What
  `appendEnvs` joins to it differs in number and in content (`JoinedDiffer`), sorted it rises, and the
  newest of that still do (`NewestInOrder`): `AppendKeeps`, for any batch, thus also for
  the held buffer, of which nothing is known. `WebInv` adds the types this needs. Hence
  `EnvelopesShownOnce`.

`Tools_proofs`, of `SyntheticData`, from `DataAssumption` (requests are requests), for any number of
requests, retries and generations:

* `CacheInv` says that an entry was marked, has the shape its request asks for, and is under the
  key of that request, alone. `StageInv` says what a generation has in hand at each stage; a
  fallback value comes from the cache, so what the same request wrote passes the check
  (`OwnEntryFits`), and a batch whose elements cannot bear the mark is one its request allows. Hence
  `BatchesMarkedAndReadable`.

`Tools_proofs`, of `DemoDrive`, from `DriveAssumption` (a script has steps), for any scripts, options
and failures:

* `DriveInv` says at each await what has been started, which screenshots there are and what the
  sentinel says; `Told` is what a run that got to its `finally` has told. The SIGINT handler
  may write at any moment, so all of it but the recording and what is still running is
  said of a run that was not interrupted. Hence `CapturesAreWhole`.

`Tools_proofs`, of `DeckFolder`, from `DeckAssumption` (plans have the fields the program looks for; no
slot's text is the absence of a file, which TLC evaluates for the small instance), for any sources,
phrasings and number of runs:

* The steps of a run name each file at most once (`EachOnce`, from what `Selected` returns), so
  that what a step left is still there when the run is through (`Under`, `Through`):
  `DeckInv`. A run without a plan names fewer files, and its second attempt too; what it does
  not name stays from earlier runs, which is why the theorem says of it only what its slots and
  its diagram are. The rest of `FolderOfOneRun` follows from the texts of the steps: none is empty
  (`SlotsAreFilled`), the numbers of slot 06 occur in the plan's section
  (`NoFigureInvented`, by `NumbersFound`), and a chart's word is in slot 06 exactly if its file is
  emitted (`ChartsAreNamed`).

`Tools_proofs`, of `QaSheet`, from `QaAssumption` (answers that are none of the three failures have entries of the
schema's form; there is an axis), for any answers, any number of generations and sessions:

* `SheetUpTo(entries, n)` says that a sheet has its size, names known figures only, and has
  served its first `n` axes: each has its questions, or none can be spared. A turn of the loop
  takes a tag only from an axis that keeps `Floor` without it (`RetagServes`), and happens only while
  there is a donor, when every served axis has its questions; so an axis once served stays
  served (`TurnServes`). Hence `SheetsAreSound`.
* `SessionIs` says that a session has a line for each question before the current one. Hence
  `LogsTellTheSession`, an action property.

`Tools_proofs`, of `PitchScript`, from `ScriptAssumption` (a timing file and the catalog are lists; no
script is none of a row's cues), for any files, plans, answers and number of runs:

* A timing that loads has natural minutes (`TimingLoads`), so its boundaries are a running sum
  (`BoundariesAre`) and each window starts where the one before ended (`WindowsChain`), whichever is
  made live (`LiveKeepsChain`). A stated total is compared
  with the sum rounded to tenths of a minute, give or take a hundredth, so the last end is within four
  seconds of it. What the audit lets through occurs in the plan's texts or
  begins as a TODO (`AuditedCells`), and the first cue `Enforced` leaves in a row can be shown
  (`RowsHold`). Hence `DraftsAreUsable`.
* Each written time is a sum of minutes rounded by itself (`RoundedTime`), so it is within half a
  second of the sum, however many sections there are (`RoundedIsOnTime`): `TimesAreExact`.
* `ScriptInv` also says that the file is a text of the three fields, so that two texts that
  differ in nothing but their time are told apart by it alone: `RerunsKeepTheFile`. Hence
  `WritesExactly`, an action property.

`Tools_proofs`, of `ContextBuffer`, from `ContextAssumption` (counts, windows and knobs are natural
numbers or left out, as `resolveConfig` leaves them; a compaction answers lists without
repetitions), for any messages, configurations, answers and number of calls:

* `BufferInv` compares the buffer with all that was said. `Reduced` says that the pinned messages
  are the same, and that what is left of the others is their end, after a list of evicted ones
  whose last would not fit, or had `n` kept ones after it. With one more message that is still
  so (`ReducedGrows`), and a fit either evicts newer ones or leaves the buffer (`ReducedTwice`):
  this is why the invariant speaks of the newest evicted message, not of the last call.
  `FittingSuffixFits` says of a strategy that it keeps the longest end that fits; counts are
  sums (`CountOfBoth`, `CountOfParts`), by induction on lists (`ListByList`). `OneBudget` says that
  `fit` and the strategies, each with a calculation of its own, have the same budget.
* What an adapter sends is the image of a selection; selecting from an image is the image of
  the selection (`WireIsFaithful`). Hence `BuffersAreSound`.

Types: each module has a type invariant, in no run: a value of a wrong shape would break one of
the properties beside it. Those of `DecisionStore`, `AuditTrail`, `Resilience`, `GoldenCache`,
`CostStore` and `StreamHub` are theorems. So are properties that no run repeats, since each says less than
one that is run or was found to be settled by its proof: `AnswerCarriesText`,
`RunAgreesWithCycle`, `AnswerIsFinal`, `MirrorOutlivesTheDisk`, `OneRepairPerAnswer`,
`EntriesAreListed`, `ListenersHearOnce`, `CallbackKnows`.

Only model-checked: liveness, with the fairness of section 3, which is out of the prover's reach.
Every invariant and every action property of the runs that hold is stated by a theorem; the part of
`HeldIsShown` that speaks of steps belongs to a liveness property and stays with TLC.

## 5. Not modelled

* Platform UI, deployment commands, static files and read-only routes: no state of their
  own.
* Provenance tools: one-shot checks and reports, text processing with no state between
  steps. Scripts: calls of the golden cache's `put`.
* `stream_router.py`: a route with an idle limit, which no service mounts.
* Within the tools: argument parsing, prompts, the layout of texts, the reading of
  configuration files and the validate-only commands.
* Contracts and templates the code loads that are not in the repository at this commit: the
  schemas of the script's timing and of the data generator, the catalog of screens
  (`contracts/ui-screen-catalog.json`) and the skeletons of `templates/pitch-deck/`. The models take
  what the code goes on to rely on, and the comments that describe them; that loading them
  fails is not modelled.
* The Python ports of resilience and context under the model client: they are meant to be
  the TypeScript over again, and are not translated a second time.
* What the program loses at a restart besides the mirror (runs and open decisions are in
  memory only) is by design and promised nowhere; so is what a reader of the trail sees
  after one.

## 6. What could come next

1. `AgentTurn`: `model.py` over `Resilience`, `GoldenCache` and `CostStore`; abstract
   specification: one outcome per turn, tagged truthfully (live, cache, none).
2. The pure part of the policy tools (differences, affected bookings) against a reference
   definition.
