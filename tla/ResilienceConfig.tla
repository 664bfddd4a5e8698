--------------------------- MODULE ResilienceConfig ---------------------------
(***************************************************************************)
(* src/resilience/config.ts, and what wrapper.ts makes of the result: the  *)
(* configuration of a wrapper, from the defaults file, what the caller     *)
(* gives and the environment, and the key its fallback chain looks up.     *)
(*                                                                         *)
(* A field of a raw configuration is Unset, a value, or Bad: of a wrong    *)
(* type, or the undefined that stands for a key without a value.  A raw    *)
(* configuration itself may be Bad: no file, no JSON, no record.  Warnings *)
(* and unknown fields, which are ignored, are left out.                    *)
(***************************************************************************)
EXTENDS Integers, Sequences

CONSTANTS
    Unset, Bad,
    Inputs          \* what a wrapper is made of: [file, perCall, env, deps]

VARIABLE asked      \* its inputs, looked at once, when it is made

ConfigInit == asked \in Inputs

\* A wrapper does not look again.
ConfigSpec == ConfigInit /\ [][FALSE]_asked

Step == {"secondary_provider", "cache", "replay", "none"}

\* What normalizeConfig takes for a value of each field; a factor is whole here.
Timeouts == {n \in Int : 100 <= n /\ n <= 1800000}
Delays == {n \in Int : n >= 10}
Factors == {n \in Int : n >= 1}

Legal ==
    [timeout_ms |-> Timeouts, retries |-> 0 .. 5,
     policy |-> {"exponential", "linear", "fixed", "none"}, base_ms |-> Delays,
     factor |-> Factors, max_ms |-> Int, jitter |-> BOOLEAN,
     secondary_provider |-> BOOLEAN, cache |-> BOOLEAN, replay |-> BOOLEAN,
     cache_key_strategy |-> {"auto", "explicit"}, forced_degraded |-> BOOLEAN]

Backoffs ==
    [policy : Legal.policy, base_ms : Legal.base_ms, factor : Legal.factor,
     max_ms : Legal.max_ms, jitter : Legal.jitter]

Chains == [order : Seq(Step), secondary_provider : BOOLEAN, cache : BOOLEAN, replay : BOOLEAN]

IsList(order) == order \in Seq({order[n] : n \in DOMAIN order})

\* What is not given is no value, no file at all is a bad one, and an order in a file is a
\* list, of whatever names.
ASSUME ConfigAssumption ==
    /\ \A absent \in {Unset, Bad} : absent \notin Backoffs \cup Chains
    /\ \A in \in Inputs :
         /\ in.file # Unset
         /\ in.file # Bad /\ in.file.fallback_chain \notin {Unset, Bad} =>
                in.file.fallback_chain.order \in {Unset, Bad} \/ IsList(in.file.fallback_chain.order)

\* FALLBACK_DEFAULTS (defaults.ts); the key is "" when there is none.
FallbackDefaults ==
    [timeout_ms |-> 15000, retries |-> 2,
     backoff |-> [policy |-> "exponential", base_ms |-> 250, factor |-> 2, max_ms |-> 5000,
                  jitter |-> TRUE],
     fallback_chain |-> [order |-> <<"cache", "replay", "none">>, secondary_provider |-> FALSE,
                         cache |-> TRUE, replay |-> TRUE],
     cache_key_strategy |-> "auto", cache_key_explicit |-> "", forced_degraded |-> FALSE]

\* A value that is given and legal, or else the default of the field.
Field(raw, f, default) == IF raw[f] \in Legal[f] THEN raw[f] ELSE default

NormalizeBackoff(raw) ==
    LET d == FallbackDefaults.backoff
    IN  IF raw \in {Unset, Bad} THEN d ELSE [f \in DOMAIN d |-> Field(raw, f, d[f])]

\* The order is taken as a whole; of a step only whether it is enabled.
NormalizeChain(raw) ==
    LET d == FallbackDefaults.fallback_chain
    IN  IF raw \in {Unset, Bad} THEN d
        ELSE [f \in DOMAIN d |->
                IF f = "order"
                  THEN IF raw.order \notin {Unset, Bad}
                          /\ \A n \in DOMAIN raw.order : raw.order[n] \in Step
                         THEN raw.order ELSE d.order
                  ELSE IF raw[f] \in BOOLEAN THEN raw[f] ELSE d[f]]

\* Variant: the explicit strategy stands whether or not there is a key.
NormalizeKeyUnchecked(raw) ==
    [cache_key_strategy |-> Field(raw, "cache_key_strategy", FallbackDefaults.cache_key_strategy),
     cache_key_explicit |-> IF raw.cache_key_explicit \in {Unset, Bad} THEN "" ELSE raw.cache_key_explicit]

\* The explicit strategy needs a key, and gives way to auto without one.
NormalizeKey(raw) ==
    LET strategy == Field(raw, "cache_key_strategy", FallbackDefaults.cache_key_strategy)
        key == IF raw.cache_key_explicit \in {Unset, Bad} THEN "" ELSE raw.cache_key_explicit
    IN  [cache_key_strategy |-> IF key = "" THEN "auto" ELSE strategy, cache_key_explicit |-> key]

NormalizeConfig(raw) ==
    LET key == NormalizeKey(raw)
    IN  [timeout_ms |-> Field(raw, "timeout_ms", FallbackDefaults.timeout_ms),
         retries |-> Field(raw, "retries", FallbackDefaults.retries),
         backoff |-> NormalizeBackoff(raw.backoff),
         fallback_chain |-> NormalizeChain(raw.fallback_chain),
         cache_key_strategy |-> key.cache_key_strategy,
         cache_key_explicit |-> key.cache_key_explicit,
         forced_degraded |-> Field(raw, "forced_degraded", FallbackDefaults.forced_degraded)]

\* defaults.json, read once.
LoadGlobalDefaults(file) == IF file = Bad THEN FallbackDefaults ELSE NormalizeConfig(file)

\* The environment wins where it is legal; RES_FORCED_DEGRADED knows only "1".
ApplyEnvOverrides(c, env) ==
    [c EXCEPT !.forced_degraded = @ \/ env.forced = "1",
              !.timeout_ms = IF env.timeout_ms \in Legal.timeout_ms THEN env.timeout_ms ELSE @,
              !.retries = IF env.retries \in Legal.retries THEN env.retries ELSE @]

\* The caller's fields replace the globals', nested ones as a whole.
Merged(globals, perCall) ==
    IF perCall \in {Unset, Bad} THEN globals
    ELSE [f \in DOMAIN globals |-> IF perCall[f] = Unset THEN globals[f] ELSE perCall[f]]

ResolveConfig(file, perCall, env) ==
    ApplyEnvOverrides(NormalizeConfig(Merged(LoadGlobalDefaults(file), perCall)), env)

-----------------------------------------------------------------------------
\* wrapper.ts

\* factor to the power of n.
Power(factor, n) ==
    LET power[k \in 0..n] == IF k = 0 THEN 1 ELSE factor * power[k - 1]
    IN  power[n]

\* computeBackoffDelayMs up to its cap.
CappedDelay(backoff, attempt) ==
    LET raw == [exponential |-> backoff.base_ms * Power(backoff.factor, attempt - 1),
                linear |-> backoff.base_ms * attempt,
                fixed |-> backoff.base_ms,
                none |-> 0][backoff.policy]
    IN  IF raw <= backoff.max_ms THEN raw ELSE backoff.max_ms

\* applyJitter: any whole number around a delay, from three quarters to five, and not below
\* zero.
Jittered(ms) ==
    IF ms < 0 THEN [least |-> 0, most |-> 0]
    ELSE [least |-> (3 * ms + 2) \div 4, most |-> (5 * ms + 2) \div 4]

\* computeBackoffDelayMs: between what bounds the delay before a retry lies.
BackoffDelay(backoff, attempt) ==
    LET ms == CappedDelay(backoff, attempt)
    IN  IF backoff.policy = "none" THEN [least |-> 0, most |-> 0]
        ELSE IF backoff.jitter THEN Jittered(ms) ELSE [least |-> ms, most |-> ms]

\* A base key is a name, or the hash deriveKey makes of an input; the cache has files only
\* for hashes (KEY_RE).
NoEntry == [of |-> "", hashed |-> FALSE]
Hash(name) == [of |-> name, hashed |-> TRUE]

\* resolveBaseKey: the key of the deps or the explicit one, both as they are, one derived
\* from the input, or none.
BaseKey(c, deps) ==
    IF deps.cacheKey # "" THEN [of |-> deps.cacheKey, hashed |-> FALSE]
    ELSE IF c.cache_key_strategy = "explicit" THEN [of |-> c.cache_key_explicit, hashed |-> FALSE]
    ELSE IF deps.keyInput # "" THEN Hash(deps.keyInput)
    ELSE NoEntry

-----------------------------------------------------------------------------

Effective == ResolveConfig(asked.file, asked.perCall, asked.env)

\* The raw configuration that has the say over a field: the caller's if it gives one,
\* else the file.
CallerSays(f) == asked.perCall \notin {Bad, Unset} /\ asked.perCall[f] # Unset
Source(f) == IF CallerSays(f) THEN asked.perCall ELSE asked.file

\* What that is for a field, for one of a nested record, for the order of the chain and for
\* the explicit key.
By(raw, f, default) == IF raw \notin {Bad, Unset} THEN Field(raw, f, default) ELSE default
Said(f) == By(Source(f), f, FallbackDefaults[f])
Inner(g) == IF Source(g) \in {Bad, Unset} THEN Bad ELSE Source(g)[g]
Nested(g, f) == By(Inner(g), f, FallbackDefaults[g][f])
OrderSaid ==
    LET chain == Inner("fallback_chain")
    IN  IF /\ chain \notin {Bad, Unset}
           /\ chain.order \notin {Bad, Unset}
           /\ \A n \in DOMAIN chain.order : chain.order[n] \in Step
        THEN chain.order ELSE FallbackDefaults.fallback_chain.order
KeyIn(raw) ==
    IF raw \in {Bad, Unset} THEN ""
    ELSE IF raw.cache_key_explicit \in {Bad, Unset} THEN "" ELSE raw.cache_key_explicit
KeySaid == KeyIn(Source("cache_key_explicit"))

\* Environment, caller, file, checked-in default: every field is the value of the first of
\* them that gives one, a nested field comes from the one that gives its record, the order
\* of a chain as a whole, and an illegal value makes way for the checked-in default and never
\* for the next in line, unless it is the environment's.
FieldsByPrecedence ==
    LET got == Effective
    IN  /\ \A f \in {"timeout_ms", "retries"} :
             got[f] = IF asked.env[f] \in Legal[f] THEN asked.env[f] ELSE Said(f)
        /\ got.forced_degraded = (asked.env.forced = "1" \/ Said("forced_degraded"))
        /\ \A f \in DOMAIN FallbackDefaults.backoff : got.backoff[f] = Nested("backoff", f)
        /\ \A f \in DOMAIN FallbackDefaults.fallback_chain :
             got.fallback_chain[f] =
                IF f = "order" THEN OrderSaid ELSE Nested("fallback_chain", f)

\* The explicit strategy gives way to auto where there is no key: none from anyone, or, when
\* it is the file that asks for it, none in the file, whatever key the caller has.
KeyByPrecedence ==
    /\ Effective.cache_key_explicit = KeySaid
    /\ Effective.cache_key_strategy =
         IF KeySaid = "" \/ (~CallerSays("cache_key_strategy") /\ KeyIn(asked.file) = "")
         THEN "auto" ELSE Said("cache_key_strategy")

\* No delay is above its cap by more than the quarter of the jitter, nor by anything without
\* it; and from a retry to the next neither the least nor the most it may be shrinks, though
\* the jitter may make the later of two delays the shorter one.
DelaysKeepToTheirCap ==
    LET b == Effective.backoff
    IN  b.policy # "none" =>
          \A n \in 1 .. 5 :
             LET d == BackoffDelay(b, n)
                 before == BackoffDelay(b, n - 1)
             IN  /\ d.least <= d.most
                 /\ IF b.jitter
                    THEN 0 <= d.least /\ (d.most = 0 \/ 4 * d.most <= 5 * b.max_ms + 2)
                    ELSE d.most <= b.max_ms
                 /\ n > 1 => before.least <= d.least /\ before.most <= d.most

\* What a wrapper works with is what the documented precedence says, field by field, its key
\* and its delays (config.ts: resolveConfig(); wrapper.ts: computeBackoffDelayMs()).
ResolvesByPrecedence == FieldsByPrecedence /\ KeyByPrecedence /\ DelaysKeepToTheirCap
=============================================================================
