---------------------------- MODULE ContextBuffer -----------------------------
(*****************************************************************************)
(* src/context: one conversation whose owner appends messages and keeps      *)
(* the buffer that append() or fitWithCompaction() gives back.  fit() counts *)
(* tokens, resolves the configuration, rejects what cannot fit and lets a    *)
(* strategy drop the oldest messages; the compaction function the engine     *)
(* registers is external and may answer anything.  Messages are objects:     *)
(* two entries are the same message when their ids are equal.                *)
(*****************************************************************************)
EXTENDS Integers, Sequences, FiniteSets, Selection

CONSTANTS
    Message,        \* [id, role, chars, cached, pinned, valid]: what callers append
    Summary,        \* other messages, that compaction functions write
    Compactions,    \* what a compaction function answers: sequences of messages, or NoCompaction
    NoCompaction,
    Configs,        \* configurations callers pass, with Omitted for a missing or bad knob
    Omitted,
    TokenizerProfiles,  \* tokenizer-profiles.json: [window, framing] per profile
    Generic,        \* the profile an unknown one falls back to
    RESERVED_OUTPUT, KEEP_LAST_N_DEFAULT, WARNING_AT, CRITICAL_AT, \* thresholds in percent
    MaxSaid         \* bound: messages appended

\* Every message there is, those that stay whatever happens, and the well-formed ones.
Entries == Message \cup Summary
PinnedEntries == {m \in Entries : m.pinned}
ValidEntries == {m \in Entries : m.valid}

\* The elements of a buffer; no message is in it twice.
ElementsOf(b) == {b[i] : i \in DOMAIN b}
Distinct(b) == \A i, j \in DOMAIN b : i # j => b[i] # b[j]

ASSUME ContextAssumption ==
    /\ Generic \in DOMAIN TokenizerProfiles
    /\ \A p \in DOMAIN TokenizerProfiles : /\ TokenizerProfiles[p].window \in Nat \ {0}
                                            /\ TokenizerProfiles[p].framing \in Nat
    /\ RESERVED_OUTPUT \in Nat /\ KEEP_LAST_N_DEFAULT \in Nat
    /\ \A m \in Entries : m.chars \in Nat /\ (m.cached \in Nat \/ m.cached = Omitted)
    /\ \A c \in Configs : /\ c.window \in Nat \ {0} \/ c.window = Omitted
                          /\ c.reserved \in Nat \/ c.reserved = Omitted
                          /\ c.n \in Nat \/ c.n = Omitted
    /\ \A a \in Compactions \ {NoCompaction} : a \in Seq(Entries) /\ Distinct(a)

VARIABLES
    config,         \* the configuration of the calls
    slot,           \* the registered compaction: when it is tried, or Omitted
    said,           \* what the conversation holds had nothing been evicted
    buf,            \* the buffer the caller keeps
    status          \* the BufferStatus of the last call

contextVars == <<config, slot, said, buf, status>>

-----------------------------------------------------------------------------
\* Counting and budgets.

Or(value, default) == IF value = Omitted THEN default ELSE value

\* resolveProfile().
Profile(name) == TokenizerProfiles[IF name \in DOMAIN TokenizerProfiles THEN name ELSE Generic]

Quarters(chars) == (chars + 3) \div 4

\* countMessage(): the cached count, or a quarter of the characters and the framing.
CountMessage(m, name) == Or(m.cached, Quarters(m.chars) + Profile(name).framing)

\* countBuffer().
CountBuffer(b, name) ==
    LET total[n \in 0..Len(b)] == IF n = 0 THEN 0 ELSE total[n - 1] + CountMessage(b[n], name)
    IN  total[Len(b)]

\* resolveConfig(): a knob that is missing or malformed takes its default.
Resolved(c) == [
    profile |-> Or(c.profile, Generic),
    window |-> c.window,
    reserved |-> Or(c.reserved, RESERVED_OUTPUT),
    strategy |-> Or(c.strategy, "sliding-window-pinned"),
    n |-> Or(c.n, KEEP_LAST_N_DEFAULT)]

\* budget(): what is left of a window for the input.
Budget(window, reserved) == IF reserved < window THEN window - reserved ELSE 0

\* calcBudget(): an override of the window beats the profile's.
InputBudget(c) ==
    LET r == Resolved(c)
        window == Or(r.window, Profile(r.profile).window)
    IN  Budget(IF window < 1 THEN 1 ELSE window, r.reserved)

\* resolveInputBudget(), which the strategies work with.
StrategyBudget(c) ==
    LET r == Resolved(c) IN Budget(Or(r.window, Profile(r.profile).window), r.reserved)

\* utilization >= percent; with no budget any token is infinitely many times over.
Reaches(total, budget, percent) ==
    IF budget > 0 THEN 100 * total >= percent * budget ELSE total > 0

\* classifyWarning().
Warning(total, budget) ==
    IF Reaches(total, budget, CRITICAL_AT) \/ total > budget THEN "exceeded"
    ELSE IF Reaches(total, budget, WARNING_AT) THEN "approaching" ELSE "none"

-----------------------------------------------------------------------------
\* Strategies.

Pinned(b) == Selected(b, PinnedEntries)
Evictable(b) == Selected(b, Entries \ PinnedEntries)

\* The last k, or all there are.
LastOf(b, k) == IF k < Len(b) THEN SubSeq(b, Len(b) - k + 1, Len(b)) ELSE b

\* Variant: a message too many is skipped, and older ones are tried.
FittingSuffixSkipping(b, room, name) ==
    LET kept[n \in 0..Len(b)] ==
            IF n = 0 THEN <<>>
            ELSE IF CountBuffer(kept[n - 1], name) + CountMessage(b[Len(b) + 1 - n], name) <= room
                 THEN <<b[Len(b) + 1 - n]>> \o kept[n - 1] ELSE kept[n - 1]
    IN  kept[Len(b)]

\* The loop from the newest to the oldest that stops at the first message too many: no
\* message counts less than zero, so this is the longest of the suffixes that fit.
FittingSuffix(b, room, name) ==
    LET fits(k) == CountBuffer(LastOf(b, k), name) <= room
    IN  LastOf(b, CHOOSE k \in 0..Len(b) : fits(k) /\ \A j \in k + 1 .. Len(b) : ~fits(j))

Ids(b) == {b[i].id : i \in DOMAIN b}

\* What a strategy keeps of the evictable messages.  keep-last-n takes the last n and,
\* when they are too many, the suffix of them that fits.
Kept(b, c) ==
    LET r == Resolved(c)
        room == StrategyBudget(c) - CountBuffer(Pinned(b), r.profile)
    IN IF r.strategy = "keep-last-n"
       THEN FittingSuffix(LastOf(Evictable(b), r.n), room, r.profile)
       ELSE FittingSuffix(Evictable(b), room, r.profile)

\* strategy.fit(): nothing is dropped from a buffer that fits.  Else the pinned and the
\* kept messages stay, in their old order.
StrategyFit(b, c) ==
    IF CountBuffer(b, Resolved(c).profile) <= StrategyBudget(c) THEN b
    ELSE Selected(b, PinnedEntries \cup ElementsOf(Kept(b, c)))

-----------------------------------------------------------------------------
\* fit().

Status(b, c, evicted) == [
    total |-> CountBuffer(b, Resolved(c).profile),
    budget |-> InputBudget(c),
    evicted |-> evicted,
    truncated |-> evicted > 0,
    rejected |-> FALSE,
    warning |-> Warning(CountBuffer(b, Resolved(c).profile), InputBudget(c))]

\* makeRejectedResult(): rejections never truncate.
Rejection(b, c, evicted) ==
    [buffer |-> b,
     status |-> [Status(b, c, evicted) EXCEPT
                    !.rejected = TRUE, !.warning = "exceeded", !.truncated = FALSE]]

\* fit(): invalid entries go; pinned messages that alone exceed the budget are all that is
\* returned, and a last message that does not fit beside them is not touched.
Fit(b, c) ==
    LET clean == Selected(b, ValidEntries)
        budget == InputBudget(c)
        name == Resolved(c).profile
        pinned == CountBuffer(Pinned(clean), name)
        invalid == Len(b) - Len(clean)
    IN IF clean = <<>> THEN [buffer |-> <<>>, status |-> Status(<<>>, c, invalid)]
       ELSE IF pinned > budget THEN Rejection(Pinned(clean), c, invalid)
       ELSE IF pinned + CountMessage(clean[Len(clean)], name) > budget
            THEN Rejection(clean, c, invalid)
       ELSE LET out == StrategyFit(clean, c)
            IN [buffer |-> out, status |-> Status(out, c, invalid + Len(clean) - Len(out))]

-----------------------------------------------------------------------------
\* fitWithCompaction().

Severity(s) == CASE s.warning = "none" -> 0 [] s.warning = "approaching" -> 1
                 [] s.warning = "exceeded" -> 2

\* Better than the mechanical result: it fits, and warns less or drops less.
Better(validated, mechanical) ==
    /\ ~validated.status.rejected /\ validated.status.total <= validated.status.budget
    /\ \/ Severity(validated.status) < Severity(mechanical.status)
       \/ validated.status.evicted < mechanical.status.evicted

\* before and instead: the fitted answer is taken unless rejected.  after: it is only asked
\* for when the mechanical pass dropped something or warns, and only taken when it is better.
FitWithCompaction(mechanical, validated, when) ==
    IF /\ validated # NoCompaction
       /\ IF when = "after"
          THEN /\ mechanical.status.truncated \/ mechanical.status.warning # "none"
               /\ Better(validated, mechanical)
          ELSE ~validated.status.rejected
    THEN validated ELSE mechanical

-----------------------------------------------------------------------------
\* Adapters: what a provider is sent, and what comes back from that form.

\* A message's text; two joined texts are one after the other.
Text(m) == IF m.chars = 0 THEN <<>> ELSE <<m.id>>

Entry(role, text) == [role |-> role, text |-> text]

SystemOf(b) == Selected(b, {m \in Entries : m.role = "system"})
Turns(b) == Selected(b, {m \in Entries : m.role # "system"})

Joined(texts) ==
    LET upTo[n \in 0..Len(texts)] == IF n = 0 THEN <<>> ELSE upTo[n - 1] \o texts[n]
    IN  upTo[Len(texts)]

\* The wire has no tool role.
WireRole(role) == IF role = "tool" THEN "assistant" ELSE role

\* openai-chat.
ViaOpenAI(b) == [i \in DOMAIN b |-> Entry(WireRole(b[i].role), Text(b[i]))]

\* generic: role and content as they are.
ViaGeneric(b) == [i \in DOMAIN b |-> Entry(b[i].role, Text(b[i]))]

\* anthropic-messages: the system messages are joined in a parameter beside the turns, and
\* come back first, as one, unless they say nothing.
ViaAnthropic(b) ==
    LET system == Joined([i \in DOMAIN SystemOf(b) |-> Text(SystemOf(b)[i])])
    IN  (IF system = <<>> THEN <<>> ELSE <<Entry("system", system)>>) \o ViaOpenAI(Turns(b))

-----------------------------------------------------------------------------
\* The conversation.

ContextInit ==
    /\ config \in Configs
    /\ slot = Omitted
    /\ said = <<>>
    /\ buf = <<>>
    /\ status = Status(<<>>, config, 0)

\* registerCompaction().
Register(when) ==
    /\ slot' = when
    /\ UNCHANGED <<config, said, buf, status>>

\* append().
AppendMessage(m) ==
    \E result \in {Fit(Append(buf, m), config)} :
        /\ said' = IF m.valid THEN Append(said, m) ELSE said
        /\ buf' = result.buffer
        /\ status' = result.status
        /\ UNCHANGED <<config, slot>>

\* fitWithCompaction() of the buffer and a new message.  A compaction that is taken is
\* what the conversation holds from then on.
AppendCompacting(m, answer) ==
    \E mechanical \in {Fit(Append(buf, m), config)},
       validated \in {IF answer = NoCompaction THEN NoCompaction ELSE Fit(answer, config)} :
    \E result \in {FitWithCompaction(mechanical, validated, slot)} :
        /\ slot # Omitted
        /\ said' = IF result = validated /\ result # mechanical
                   THEN Selected(answer, ValidEntries)
                   ELSE IF m.valid THEN Append(said, m) ELSE said
        /\ buf' = result.buffer
        /\ status' = result.status
        /\ UNCHANGED <<config, slot>>

\* Messages are new objects.
New(m) == m.id \notin Ids(said) \cup Ids(buf)

ContextNext ==
    \/ \E when \in {"before", "after", "instead", Omitted} : when # slot /\ Register(when)
    \/ Len(said) < MaxSaid
       /\ \E m \in Message : New(m) /\ (AppendMessage(m) \/ \E a \in Compactions : AppendCompacting(m, a))

ContextSpec == ContextInit /\ [][ContextNext]_contextVars

-----------------------------------------------------------------------------

\* Every variable holds values of its shape.
ContextTypeOK ==
    /\ config \in Configs
    /\ slot \in {"before", "after", "instead", Omitted}
    /\ \A i \in DOMAIN buf : buf[i].id \in Ids(said)
    /\ status.total \in Nat /\ status.budget \in Nat /\ status.evicted \in Nat

\* After any series of calls the buffer fits the budget or the status says it was
\* rejected, also when a compaction function answered something too long.
FitsOrSaysWhy ==
    /\ status.total = CountBuffer(buf, Resolved(config).profile)
    /\ status.rejected \/ status.total <= status.budget

\* What is pinned is never evicted, by any call of the series.
PinnedSurvive == Pinned(buf) = Pinned(said)

\* What is kept of the rest is what was said last, with no hole in it.
KeptIsRecent == Evictable(buf) = LastOf(Evictable(said), Len(Evictable(buf)))

\* Nothing is evicted without need: with the newest message that is missing the buffer
\* would not fit, or keep-last-n has its n.
EvictsOnlyWhatMustGo ==
    LET r == Resolved(config)
        missing == Selected(Evictable(said), Entries \ ElementsOf(buf))
    IN \/ missing = <<>> \/ status.rejected
       \/ CountBuffer(buf, r.profile) + CountMessage(missing[Len(missing)], r.profile)
             > status.budget
       \/ /\ r.strategy = "keep-last-n"
          /\ Len(Evictable(buf)) >= r.n

\* The turns on a wire, and what the system says there.
WireTurns(w) == Selected(w, {e \in ElementsOf(w) : e.role # "system"})
WireSystem(w) ==
    LET system == Selected(w, {e \in ElementsOf(w) : e.role = "system"})
    IN  Joined([i \in DOMAIN system |-> system[i].text])

\* Through every adapter the turns come back in order with their texts, a tool's as the
\* assistant's where the wire has no tool role, and no system text is lost.
WireKeepsTheTurns ==
    LET turns == WireTurns(ViaGeneric(buf))
        folded == [i \in DOMAIN turns |-> Entry(WireRole(turns[i].role), turns[i].text)]
    IN /\ WireTurns(ViaAnthropic(buf)) = folded /\ WireTurns(ViaOpenAI(buf)) = folded
       /\ WireSystem(ViaAnthropic(buf)) = WireSystem(ViaGeneric(buf))

\* All of that, after any series of calls and whatever a compaction function answers.
BufferIsSound ==
    FitsOrSaysWhy /\ PinnedSurvive /\ KeptIsRecent /\ EvictsOnlyWhatMustGo /\ WireKeepsTheTurns
=============================================================================
