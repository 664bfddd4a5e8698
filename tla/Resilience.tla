------------------------------ MODULE Resilience ------------------------------
(***************************************************************************)
(* src/resilience/wrapper.ts: withResilience, withResilienceSync and       *)
(* withValidation.  A wrapper is created once, with a configuration it     *)
(* resolves at that time (ResilienceConfig); a call makes up to            *)
(* retries + 1 attempts on the primary callable, checks and perhaps        *)
(* repairs what it answers, and then walks the fallback chain.             *)
(*                                                                         *)
(* The callables and the golden cache are the environment.  An async       *)
(* wrapper races the promise of the primary or of the secondary against a  *)
(* timer (withTimeout); a callable that returns without a promise is       *)
(* looked at only when it has returned, and a repair has no deadline.  A   *)
(* sync wrapper can wait for no promise, so that its chain has no cache    *)
(* and no replay.  Backoff delays are left out here: nothing happens in    *)
(* them.  A call leaves nothing behind for the next but the configuration. *)
(***************************************************************************)
EXTENDS Integers, Sequences, FiniteSets, Selection

CONSTANTS
    Configs,        \* effective configurations, with what the deps supply
    MaxCalls        \* bound: calls of the wrapper

Fallback == {"secondary_provider", "cache", "replay"}

Config ==
    [mode : {"async", "sync"}, retries : Nat, order : Seq(Fallback \cup {"none"}),
     enabled : SUBSET Fallback, forced : BOOLEAN,
     key : BOOLEAN,         \* a base key can be derived
     primary : {"sync", "async"},           \* the callable: async returns a promise
     secondary : {"none", "sync", "async"}, \* deps.secondaryProvider
     schema : BOOLEAN,      \* wrapped by withValidation
     repair : {"none", "sync", "async"}]    \* deps.repairLlm

ASSUME ResilienceAssumption == Configs \subseteq Config /\ MaxCalls \in Nat

VARIABLES
    cfg,            \* the wrapper's configuration
    killSwitch,     \* RES_FORCED_DEGRADED of the environment
    forced,         \* forced_degraded as the wrapper resolved it
    pc,
    attempt,        \* the number of the attempt, from 0
    at,             \* the position in the fallback chain
    err,            \* lastError
    answer,         \* what a provider answered, when it is to be checked
    result,
    log,            \* history of the call: what it called, and the answers it rejected
    calls

vars == <<cfg, killSwitch, forced, pc, attempt, at, err, answer, result, log, calls>>

NoAnswer == [from |-> "none", valid |-> FALSE]

NoResult == [kind |-> "none"]

\* createConfigResolver: the environment is looked at when the wrapper is made.
Init ==
    /\ cfg \in Configs
    /\ killSwitch \in BOOLEAN
    /\ forced = (cfg.forced \/ killSwitch)
    /\ pc = "idle"
    /\ attempt = 0 /\ at = 1
    /\ err = "none" /\ answer = NoAnswer /\ result = NoResult
    /\ log = <<>> /\ calls = 0

fixed == <<cfg, killSwitch, forced, calls>>

\* The operator sets or clears the environment variable.
FlipKillSwitch ==
    /\ killSwitch' = ~killSwitch
    /\ UNCHANGED <<cfg, forced, pc, attempt, at, err, answer, result, log, calls>>

\* The wrapper is called.
Call ==
    /\ pc \in {"idle", "done"} /\ calls < MaxCalls
    /\ pc' = IF forced THEN "chain" ELSE "attempt"
    /\ err' = IF forced THEN "skipped" ELSE "none"
    /\ attempt' = 0 /\ at' = 1 /\ answer' = NoAnswer /\ result' = NoResult
    /\ log' = <<>> /\ calls' = calls + 1
    /\ UNCHANGED <<cfg, killSwitch, forced>>

Return(from, checked) ==
    /\ result' = [kind |-> "value", from |-> from, checked |-> checked]
    /\ pc' = "done"

-----------------------------------------------------------------------------
\* The attempts on the primary.

TryPrimary ==
    /\ pc = "attempt"
    /\ log' = Append(log, "primary")
    /\ pc' = "primary"
    /\ UNCHANGED <<fixed, attempt, at, err, answer, result>>

\* What it returns, or what its promise is fulfilled with.
PrimaryAnswers(valid) ==
    /\ pc = "primary" /\ ~ (cfg.mode = "sync" /\ cfg.primary = "async")
    /\ answer' = [from |-> "primary", valid |-> valid]
    /\ pc' = "check"
    /\ UNCHANGED <<fixed, attempt, at, err, result, log>>

\* It throws or it is late: the next attempt, or the chain after the last one.
PrimaryFails(e) ==
    /\ pc = "primary"
    /\ err' = e
    /\ attempt' = attempt + 1
    /\ pc' = IF attempt < cfg.retries THEN "attempt" ELSE "chain"
    /\ UNCHANGED <<fixed, at, answer, result, log>>

\* A sync wrapper hands a promise through as it is.
PassAwaitable ==
    /\ pc = "primary" /\ cfg.mode = "sync" /\ cfg.primary = "async"
    /\ Return("awaitable", FALSE)
    /\ UNCHANGED <<fixed, attempt, at, err, answer, log>>

-----------------------------------------------------------------------------
\* The validateResult hook, for an answer of the primary or of the secondary.

AnswerWillDo == ~cfg.schema \/ answer.valid

AcceptAnswer ==
    /\ pc = "check" /\ AnswerWillDo
    /\ Return(answer.from, answer.valid)
    /\ UNCHANGED <<fixed, attempt, at, err, answer, log>>

StartRepair ==
    /\ pc = "check" /\ ~AnswerWillDo /\ cfg.repair # "none"
    /\ log' = Append(log, "repair")
    /\ pc' = "repair"
    /\ UNCHANGED <<fixed, attempt, at, err, answer, result>>

\* Variant: a failed repair is a failed attempt like any other.
RejectAnswerAndRetry ==
    /\ err' = "invalid"
    /\ log' = Append(log, "rejected")
    /\ pc' = IF answer.from = "primary" /\ attempt < cfg.retries THEN "attempt" ELSE "chain"
    /\ attempt' = attempt + 1
    /\ at' = IF answer.from = "primary" THEN at ELSE at + 1
    /\ UNCHANGED <<fixed, answer, result>>

\* ValidationRepairFailed ends the stage: no further attempt, on with the chain.
RejectAnswer ==
    /\ err' = "invalid"
    /\ log' = Append(log, "rejected")
    /\ pc' = "chain"
    /\ at' = IF answer.from = "primary" THEN at ELSE at + 1
    /\ UNCHANGED <<fixed, attempt, answer, result>>

\* Variant: an answer nobody can repair is let through.
RejectOnlyRepaired ==
    \/ pc = "check" /\ ~AnswerWillDo /\ cfg.repair = "none"
       /\ Return(answer.from, FALSE) /\ UNCHANGED <<fixed, attempt, at, err, answer, log>>
    \/ pc = "repair" /\ RejectAnswer

\* No repairLlm, a repair that throws or answers badly, or one a sync wrapper would
\* have to await.
CheckFails ==
    /\ \/ pc = "check" /\ ~AnswerWillDo /\ cfg.repair = "none"
       \/ pc = "repair"
    /\ RejectAnswer

RepairSucceeds ==
    /\ pc = "repair" /\ ~ (cfg.mode = "sync" /\ cfg.repair = "async")
    /\ Return(answer.from, TRUE)
    /\ UNCHANGED <<fixed, attempt, at, err, answer, log>>

-----------------------------------------------------------------------------
\* The fallback chain: the order of the configuration, up to "none".

ChainIsOver == at \in DOMAIN cfg.order => cfg.order[at] = "none"

\* Variant: the kill switch spares the primary only.
UsableAlsoForced(s) ==
    /\ s \in cfg.enabled
    /\ s = "secondary_provider" => cfg.secondary # "none"
    /\ s \in {"cache", "replay"} => cfg.mode = "async" /\ cfg.key

\* A step that is enabled and has what it needs.
Usable(s) ==
    /\ s \in cfg.enabled
    /\ s = "secondary_provider" => cfg.secondary # "none" /\ ~forced
    /\ s \in {"cache", "replay"} => cfg.mode = "async" /\ cfg.key

InStep(s) == pc = "chain" /\ ~ChainIsOver /\ cfg.order[at] = s

SkipStep ==
    /\ \E s \in Fallback : InStep(s) /\ ~Usable(s)
    /\ at' = at + 1
    /\ UNCHANGED <<fixed, pc, attempt, err, answer, result, log>>

TrySecondary ==
    /\ InStep("secondary_provider") /\ Usable("secondary_provider")
    /\ log' = Append(log, "secondary_provider")
    /\ pc' = "secondary"
    /\ UNCHANGED <<fixed, attempt, at, err, answer, result>>

\* An async wrapper checks what the secondary answers; a sync one returns it.
SecondaryAnswers(valid) ==
    /\ pc = "secondary"
    /\ \/ /\ cfg.mode = "async"
          /\ answer' = [from |-> "secondary_provider", valid |-> valid]
          /\ pc' = "check"
          /\ UNCHANGED result
       \/ /\ cfg.mode = "sync" /\ cfg.secondary = "sync"
          /\ Return("secondary_provider", FALSE)
          /\ UNCHANGED answer
    /\ UNCHANGED <<fixed, attempt, at, err, log>>

\* It throws, is late, or answers with a promise a sync wrapper skips.  Only the async
\* wrapper remembers why.
SecondaryFails(e) ==
    /\ pc = "secondary"
    /\ err' = IF cfg.mode = "async" THEN e ELSE err
    /\ at' = at + 1
    /\ pc' = "chain"
    /\ UNCHANGED <<fixed, attempt, answer, result, log>>

\* Variant: a miss ends the chain.
LookUpOnce(s, hit) ==
    /\ InStep(s) /\ Usable(s)
    /\ log' = Append(log, s)
    /\ \/ hit /\ Return(s, FALSE) /\ UNCHANGED at
       \/ ~hit /\ at' = Len(cfg.order) + 1 /\ UNCHANGED <<pc, result>>
    /\ UNCHANGED <<fixed, attempt, err, answer>>

\* The golden cache, under the key or its replay form.
LookUp(s, hit) ==
    /\ InStep(s) /\ Usable(s)
    /\ log' = Append(log, s)
    /\ \/ hit /\ Return(s, FALSE) /\ UNCHANGED at
       \/ ~hit /\ at' = at + 1 /\ UNCHANGED <<pc, result>>
    /\ UNCHANGED <<fixed, attempt, err, answer>>

\* pickTerminalReason.
Reason ==
    IF err = "invalid" THEN "validation_repair_failed"
    ELSE IF forced THEN "forced_degraded"
    ELSE IF err = "timeout" THEN "primary_timeout" ELSE "primary_failed"

Degrade ==
    /\ pc = "chain" /\ ChainIsOver
    /\ result' = [kind |-> "degraded", reason |-> Reason]
    /\ pc' = "done"
    /\ UNCHANGED <<fixed, attempt, at, err, answer, log>>

-----------------------------------------------------------------------------

\* What the wrapper does by itself.
OwnStep ==
    \/ TryPrimary \/ AcceptAnswer \/ StartRepair
    \/ pc = "check" /\ CheckFails
    \/ SkipStep \/ TrySecondary \/ Degrade
    \/ \E s \in {"cache", "replay"}, hit \in BOOLEAN : LookUp(s, hit)

\* Variant: only the primary is raced against a timer.
DeadlineOfPrimary == cfg.mode = "async" /\ cfg.primary = "async" /\ PrimaryFails("timeout")

\* What the timer of withTimeout does.
Deadline ==
    /\ cfg.mode = "async"
    /\ \/ cfg.primary = "async" /\ PrimaryFails("timeout")
       \/ cfg.secondary = "async" /\ SecondaryFails("timeout")

\* What the callables do; one may throw a timeout error of its own, and a sync wrapper
\* takes an answer that comes too late for one.
Outcome ==
    \/ \E valid \in BOOLEAN : PrimaryAnswers(valid) \/ SecondaryAnswers(valid)
    \/ \E e \in {"error", "timeout"} : PrimaryFails(e) \/ SecondaryFails(e)
    \/ PassAwaitable
    \/ pc = "repair" /\ CheckFails
    \/ RepairSucceeds

Next == FlipKillSwitch \/ Call \/ OwnStep \/ Deadline \/ Outcome

\* The wrapper goes on and its timers expire; a callable may never return.
Fairness == WF_vars(OwnStep) /\ WF_vars(Deadline)

Spec == Init /\ [][Next]_vars /\ Fairness

-----------------------------------------------------------------------------

\* Every variable holds values of its shape.
TypeOK ==
    /\ cfg \in Configs
    /\ {killSwitch, forced} \subseteq BOOLEAN
    /\ pc \in {"idle", "attempt", "primary", "check", "repair", "chain", "secondary", "done"}
    /\ attempt \in 0 .. cfg.retries + 1 /\ at \in 1 .. Len(cfg.order) + 1
    /\ err \in {"none", "skipped", "error", "timeout", "invalid"}
    /\ answer \in [from : {"none", "primary", "secondary_provider"}, valid : BOOLEAN]
    /\ log \in Seq(Fallback \cup {"primary", "repair", "rejected"})
    /\ calls \in 0..MaxCalls

Called(what) == {n \in DOMAIN log : log[n] \in what}

\* A wrapper created under the kill switch calls no live provider and no repair, at any
\* step of its chain ("skip live providers, serve cache/replay or degrade").
KillSwitchSparesProviders ==
    forced => Called({"primary", "secondary_provider", "repair"}) = {}

\* The fallback chain, and the degraded result at its end, come only after every retry
\* was used up, or after an answer of the primary that could not be repaired; and then
\* the primary and its repair are not run again ("a failed repair is terminal for the
\* primary stage").
PrimaryBeforeFallback ==
    LET primaries == Called({"primary"})
        left == pc \in {"chain", "secondary"} \/ result.kind = "degraded"
        rejectedFirst ==
            \E n \in Called({"rejected"}) : \A m \in Called(Fallback) : n < m
    IN  /\ Cardinality(primaries) <= cfg.retries + 1
        /\ left /\ ~forced => Cardinality(primaries) = cfg.retries + 1 \/ rejectedFirst
        /\ \A n \in Called(Fallback \cup {"rejected"}), m \in primaries : m < n

\* One answer is repaired once: between two repairs another provider was called.
OneRepairPerAnswer ==
    \A m, n \in Called({"repair"}) : m < n =>
        \E k \in Called({"primary", "secondary_provider"}) : m < k /\ k < n

\* The steps of the chain the configuration makes usable, in its order, up to "none".
BeforeNone ==
    {n \in DOMAIN cfg.order : \A m \in 1..n : cfg.order[m] # "none"}

Expected ==
    Selected(SubSeq(cfg.order, 1, Cardinality(BeforeNone)), {s \in Fallback : Usable(s)})

Tried == Selected(log, Fallback)

\* The chain is walked in the order of the configuration, with no usable step left out
\* and none after "none", whatever fails on the way: a value of the chain comes from the
\* first step that had one, and a degraded result only when all were tried.
ChainAsConfigured ==
    /\ Len(Tried) <= Len(Expected) /\ Tried = SubSeq(Expected, 1, Len(Tried))
    /\ result.kind = "degraded" => Tried = Expected
    /\ result.kind = "value" /\ result.from \in Fallback => result.from = Tried[Len(Tried)]

\* A value an async wrapper with a schema takes from a live provider was checked against
\* it, as it was or as it was repaired ("enforce structured-output validation on its
\* result").
LiveValuesChecked ==
    /\ cfg.mode = "async" /\ cfg.schema
    /\ result.kind = "value" /\ result.from \in {"primary", "secondary_provider"}
    => result.checked

\* A call of an async wrapper whose callables all answer with promises, and that need not
\* repair, comes back with a value or a degraded result, also when none of them is ever
\* settled: withTimeout ends every wait.
Bounded ==
    cfg.mode = "async" /\ cfg.primary = "async" /\ cfg.secondary # "sync" /\ cfg.repair = "none"

EveryCallReturns == (Bounded /\ pc \notin {"idle", "done"}) ~> (pc = "done")
=============================================================================
