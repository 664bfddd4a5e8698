----------------------------- MODULE MCResilience -----------------------------
(***************************************************************************)
(* Small instances of Resilience and of ResilienceConfig, in one run: the  *)
(* calls of wrappers with chains in the usual order, in another with a     *)
(* step behind "none", and with a step twice; and the inputs wrappers are  *)
(* made of, a group of fields at a time, given, missing, legal or not.     *)
(***************************************************************************)
EXTENDS Resilience, ResilienceConfig

Orders == {<<"secondary_provider", "cache", "replay", "none">>,
           <<"replay", "secondary_provider", "none", "cache">>,
           <<"cache", "cache">>}

Kinds == {"none", "sync", "async"}

AllWrappers ==
    [mode : {"async", "sync"}, retries : {0, 2}, order : Orders,
     enabled : {Fallback, Fallback \ {"cache"}, {"cache"}}, forced : BOOLEAN,
     key : BOOLEAN, primary : {"sync", "async"}, secondary : Kinds, schema : BOOLEAN,
     repair : Kinds]

-----------------------------------------------------------------------------

NotGiven == [f \in DOMAIN FallbackDefaults |-> Unset]

Given(values) == {[f \in DOMAIN NotGiven |-> IF f \in DOMAIN v THEN v[f] ELSE Unset] : v \in values}

Scalars == Given([timeout_ms : {Unset, 50, 200}, retries : {Unset, Bad, 1, 6}])
Forced == Given([forced_degraded : {Unset, Bad, TRUE, FALSE}])
Key == Given([cache_key_strategy : {Unset, Bad, "auto", "explicit"},
              cache_key_explicit : {Unset, Bad, "", "quarterly-report"}])
Chain == Given([fallback_chain : {Unset, Bad} \cup
            [order : {Unset, Bad, <<>>, <<"replay", "none">>, <<"cache", "unknown">>},
             secondary_provider : {Unset, TRUE}, cache : {Bad, FALSE}, replay : {Unset}]])
Backoff == Given([backoff : {Unset, Bad} \cup
            [policy : {Bad, "linear", "none"}, base_ms : {5, 400}, factor : {0, 3},
             max_ms : {Unset, -1, 1000}, jitter : {Unset, FALSE}]])

NoEnv == [forced |-> Unset, timeout_ms |-> Unset, retries |-> Unset]
NumberEnv == [forced : {Unset}, timeout_ms : {Unset, 99, 300}, retries : {Unset, 4, 7}]
ForcedEnv == {[NoEnv EXCEPT !.forced = v] : v \in {Unset, "1", "true"}}
NoDeps == [cacheKey |-> "", keyInput |-> ""]

Made(raws, envs, deps) ==
    [file : raws \cup {Bad}, perCall : raws \cup {Bad, Unset}, env : envs, deps : deps]

MCInputs ==
    Made(Scalars, NumberEnv, {NoDeps}) \cup Made(Forced, ForcedEnv, {NoDeps})
    \cup Made(Key, {NoEnv}, [cacheKey : {"", "given"}, keyInput : {"", "prompt"}])
    \cup Made(Chain, {NoEnv}, {NoDeps}) \cup Made(Backoff, {NoEnv}, {NoDeps})

-----------------------------------------------------------------------------

VARIABLE part

NothingAsked == [file |-> Bad, perCall |-> Unset, env |-> NoEnv, deps |-> NoDeps]

\* The wrapper of the other part stands still.
OneWrapper ==
    {[mode |-> "async", retries |-> 0, order |-> <<"cache", "cache">>, enabled |-> {"cache"},
      forced |-> FALSE, key |-> TRUE, primary |-> "async", secondary |-> "none",
      schema |-> FALSE, repair |-> "none"]}

MCInit ==
    \/ part = "calls" /\ asked = NothingAsked /\ Init
    \/ part = "config" /\ cfg \in OneWrapper /\ killSwitch = FALSE /\ Init /\ ConfigInit

MCNext == part = "calls" /\ Next /\ UNCHANGED <<part, asked>>

MCSpec == MCInit /\ [][MCNext]_<<vars, asked, part>> /\ Fairness
=============================================================================
