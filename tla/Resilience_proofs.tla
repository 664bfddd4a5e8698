-------------------------- MODULE Resilience_proofs ---------------------------
(***************************************************************************)
(* Theorems about Resilience, for every configuration and any number of    *)
(* calls, and about ResilienceConfig, for every input of a wrapper.        *)
(***************************************************************************)
EXTENDS Resilience, ResilienceConfig, Selection_proofs, FiniteSetTheorems, TLAPS

Event == Fallback \cup {"primary", "repair", "rejected"}

\* What was called is recorded step by step.
LogType == log \in Seq(Event)

\* Under the kill switch the wrapper never leaves the chain, and there looks things up only.
SparedInv ==
    forced =>
        /\ pc \in {"idle", "chain", "done"}
        /\ \A n \in DOMAIN log : log[n] \in {"cache", "replay"}

-----------------------------------------------------------------------------

\* One more event at the end of the log.
LEMMA LogGrows ==
    ASSUME LogType, NEW e \in Event, log' = Append(log, e)
    PROVE  LogType'
BY DEF LogType

LEMMA LogTypeInductive == LogType /\ [Next]_vars => LogType'
<1> SUFFICES ASSUME LogType, [Next]_vars
             PROVE  LogType'
  OBVIOUS
<1>e. /\ "primary" \in Event /\ "repair" \in Event /\ "rejected" \in Event
      /\ "secondary_provider" \in Event /\ "cache" \in Event /\ "replay" \in Event
  BY DEF Event, Fallback
<1>1. ASSUME FlipKillSwitch
      PROVE  LogType'
  BY <1>1 DEF FlipKillSwitch, LogType
<1>2. ASSUME Call
      PROVE  LogType'
  BY <1>2 DEF Call, LogType
<1>3. ASSUME TryPrimary \/ StartRepair \/ TrySecondary
      PROVE  LogType'
  BY <1>3, <1>e, LogGrows DEF TryPrimary, StartRepair, TrySecondary
<1>4. ASSUME AcceptAnswer \/ SkipStep \/ Degrade \/ PassAwaitable \/ RepairSucceeds
      PROVE  LogType'
  BY <1>4 DEF AcceptAnswer, SkipStep, Degrade, PassAwaitable, RepairSucceeds, LogType
<1>5. ASSUME CheckFails
      PROVE  LogType'
  BY <1>5, <1>e, LogGrows DEF CheckFails, RejectAnswer
<1>6. ASSUME NEW s \in {"cache", "replay"}, NEW hit \in BOOLEAN, LookUp(s, hit)
      PROVE  LogType'
  BY <1>6, <1>e, LogGrows DEF LookUp
<1>7. ASSUME NEW valid \in BOOLEAN, PrimaryAnswers(valid) \/ SecondaryAnswers(valid)
      PROVE  LogType'
  BY <1>7 DEF PrimaryAnswers, SecondaryAnswers, LogType
<1>8. ASSUME NEW e, PrimaryFails(e) \/ SecondaryFails(e)
      PROVE  LogType'
  BY <1>8 DEF PrimaryFails, SecondaryFails, LogType
<1>9. CASE UNCHANGED vars
  BY <1>9 DEF vars, LogType
<1> QED
  BY <1>1, <1>2, <1>3, <1>4, <1>5, <1>6, <1>7, <1>8, <1>9 DEF Next, OwnStep, Deadline, Outcome

LEMMA SparedInvInductive == LogType /\ SparedInv /\ [Next]_vars => SparedInv'
<1> SUFFICES ASSUME LogType, SparedInv, [Next]_vars
             PROVE  SparedInv'
  OBVIOUS
<1>1. ASSUME FlipKillSwitch
      PROVE  SparedInv'
  BY <1>1 DEF FlipKillSwitch, SparedInv
<1>2. ASSUME Call
      PROVE  SparedInv'
  BY <1>2 DEF Call, SparedInv
<1>3. ASSUME TryPrimary \/ StartRepair \/ AcceptAnswer \/ PassAwaitable \/ RepairSucceeds
      PROVE  SparedInv'
  BY <1>3 DEF TryPrimary, StartRepair, AcceptAnswer, PassAwaitable, RepairSucceeds, SparedInv, fixed
<1>4. ASSUME TrySecondary
      PROVE  SparedInv'
  BY <1>4 DEF TrySecondary, Usable, SparedInv, fixed
<1>5. ASSUME CheckFails
      PROVE  SparedInv'
  BY <1>5 DEF CheckFails, RejectAnswer, SparedInv, fixed
<1>6. ASSUME NEW s \in {"cache", "replay"}, NEW hit \in BOOLEAN, LookUp(s, hit)
      PROVE  SparedInv'
  <2>1. /\ log' = Append(log, s) /\ UNCHANGED forced
        /\ pc = "chain" /\ pc' \in {"chain", "done"}
    BY <1>6 DEF LookUp, InStep, Return, fixed
  <2> QED
    BY <2>1 DEF SparedInv, LogType
<1>7. ASSUME SkipStep \/ Degrade
      PROVE  SparedInv'
  BY <1>7 DEF SkipStep, InStep, Degrade, SparedInv, fixed
<1>8. ASSUME NEW valid \in BOOLEAN, PrimaryAnswers(valid) \/ SecondaryAnswers(valid)
      PROVE  SparedInv'
  BY <1>8 DEF PrimaryAnswers, SecondaryAnswers, SparedInv, fixed
<1>9. ASSUME NEW e, PrimaryFails(e) \/ SecondaryFails(e)
      PROVE  SparedInv'
  BY <1>9 DEF PrimaryFails, SecondaryFails, SparedInv, fixed
<1>10. CASE UNCHANGED vars
  BY <1>10 DEF vars, SparedInv
<1> QED
  BY <1>1, <1>2, <1>3, <1>4, <1>5, <1>6, <1>7, <1>8, <1>9, <1>10
     DEF Next, OwnStep, Deadline, Outcome

\* forced_degraded, as the wrapper resolved it when it was made, keeps every call of it
\* away from the primary, the secondary and the repair, in any configuration.
THEOREM ForcedSparesProviders == Spec => []KillSwitchSparesProviders
<1>1. Init => LogType /\ SparedInv
  BY DEF Init, LogType, SparedInv
<1>2. LogType /\ SparedInv => KillSwitchSparesProviders
  BY DEF LogType, SparedInv, KillSwitchSparesProviders, Called
<1> QED
  BY <1>1, <1>2, LogTypeInductive, SparedInvInductive, PTL DEF Spec

-----------------------------------------------------------------------------

LEMMA LiveValuesInductive == LiveValuesChecked /\ [Next]_vars => LiveValuesChecked'
<1> SUFFICES ASSUME LiveValuesChecked, [Next]_vars
             PROVE  LiveValuesChecked'
  OBVIOUS
<1>1. ASSUME UNCHANGED <<cfg, result>>
      PROVE  LiveValuesChecked'
  BY <1>1 DEF LiveValuesChecked
<1>2. ASSUME Call
      PROVE  LiveValuesChecked'
  BY <1>2 DEF Call, NoResult, LiveValuesChecked
<1>3. ASSUME AcceptAnswer
      PROVE  LiveValuesChecked'
  BY <1>3 DEF AcceptAnswer, AnswerWillDo, Return, LiveValuesChecked, fixed
<1>4. ASSUME PassAwaitable
      PROVE  LiveValuesChecked'
  BY <1>4 DEF PassAwaitable, Return, LiveValuesChecked, fixed
<1>5. ASSUME RepairSucceeds
      PROVE  LiveValuesChecked'
  BY <1>5 DEF RepairSucceeds, Return, LiveValuesChecked, fixed
<1>6. ASSUME NEW s \in {"cache", "replay"}, NEW hit \in BOOLEAN, LookUp(s, hit)
      PROVE  LiveValuesChecked'
  BY <1>6 DEF LookUp, Return, LiveValuesChecked, fixed
<1>7. ASSUME Degrade
      PROVE  LiveValuesChecked'
  BY <1>7 DEF Degrade, LiveValuesChecked, fixed
<1>8. ASSUME NEW valid \in BOOLEAN, SecondaryAnswers(valid)
      PROVE  LiveValuesChecked'
  BY <1>8 DEF SecondaryAnswers, Return, LiveValuesChecked, fixed
<1>9. ASSUME \/ FlipKillSwitch \/ TryPrimary \/ StartRepair
             \/ CheckFails \/ SkipStep \/ TrySecondary
      PROVE  LiveValuesChecked'
  BY <1>1, <1>9 DEF FlipKillSwitch, TryPrimary, StartRepair, CheckFails, RejectAnswer,
                    SkipStep, TrySecondary, fixed
<1>10. ASSUME NEW e, NEW valid \in BOOLEAN,
              PrimaryFails(e) \/ SecondaryFails(e) \/ PrimaryAnswers(valid)
       PROVE  LiveValuesChecked'
  BY <1>1, <1>10 DEF PrimaryFails, SecondaryFails, PrimaryAnswers, fixed
<1>11. CASE UNCHANGED vars
  BY <1>1, <1>11 DEF vars
<1> QED
  BY <1>2, <1>3, <1>4, <1>5, <1>6, <1>7, <1>8, <1>9, <1>10, <1>11
     DEF Next, OwnStep, Deadline, Outcome

\* The validateResult hook of an async wrapper with a schema: whatever fails, is repaired
\* or is tried again, no value of a live provider comes back that was not checked.
THEOREM LiveValuesAreChecked == Spec => []LiveValuesChecked
<1>1. Init => LiveValuesChecked
  BY DEF Init, NoResult, LiveValuesChecked
<1> QED
  BY <1>1, LiveValuesInductive, PTL DEF Spec

-----------------------------------------------------------------------------

Provider == {"primary", "secondary_provider"}

\* While an answer is awaited or checked, its provider is the last that was called.
ProviderIsLast ==
    pc \in {"primary", "secondary", "check"} => Len(log) > 0 /\ log[Len(log)] \in Provider

\* A repair that follows a call of a provider is the only one between the two.
LEMMA RepairAfterProvider ==
    ASSUME LogType, OneRepairPerAnswer, Len(log) > 0, log[Len(log)] \in Provider,
           log' = Append(log, "repair")
    PROVE  OneRepairPerAnswer'
<1> SUFFICES ASSUME NEW m \in Called({"repair"})', NEW n \in Called({"repair"})', m < n
             PROVE  \E k \in Called(Provider)' : m < k /\ k < n
  BY DEF OneRepairPerAnswer, Provider
<1>1. /\ DOMAIN log' = 1 .. Len(log) + 1 /\ DOMAIN log = 1 .. Len(log) /\ Len(log) \in Nat
      /\ \A i \in DOMAIN log : log'[i] = log[i]
  BY DEF LogType
<1>2. /\ m \in DOMAIN log /\ n \in DOMAIN log' /\ log[m] = "repair"
  BY <1>1 DEF Called
<1>3. Called(Provider) \subseteq Called(Provider)'
  BY <1>1 DEF Called
<1>4. CASE n \in DOMAIN log
  <2>1. n \in Called({"repair"}) /\ m \in Called({"repair"})
    BY <1>1, <1>2, <1>4 DEF Called
  <2> QED
    BY <2>1, <1>3 DEF OneRepairPerAnswer, Provider
<1>5. CASE n \notin DOMAIN log
  <2>1. n = Len(log) + 1 /\ m # Len(log) /\ Len(log) \in Called(Provider)
    BY <1>1, <1>2, <1>5 DEF Called, Provider
  <2>2. m < Len(log) /\ Len(log) < n
    BY <1>1, <1>2, <2>1
  <2> QED
    BY <2>1, <2>2, <1>3
<1> QED
  BY <1>4, <1>5

\* Anything else that is called adds no repair.
LEMMA OtherThanRepair ==
    ASSUME LogType, OneRepairPerAnswer, NEW e \in Event \ {"repair"}, log' = Append(log, e)
    PROVE  OneRepairPerAnswer'
<1>1. /\ DOMAIN log' = 1 .. Len(log) + 1 /\ DOMAIN log = 1 .. Len(log) /\ Len(log) \in Nat
      /\ \A i \in DOMAIN log : log'[i] = log[i]
      /\ log'[Len(log) + 1] = e
  BY DEF LogType
<1>2. /\ Called({"repair"})' \subseteq Called({"repair"})
      /\ Called(Provider) \subseteq Called(Provider)'
  BY <1>1 DEF Called
<1> QED
  BY <1>2 DEF OneRepairPerAnswer, Provider

LEMMA RepairInvInductive ==
    LogType /\ ProviderIsLast /\ OneRepairPerAnswer /\ [Next]_vars
    => (ProviderIsLast /\ OneRepairPerAnswer)'
<1> SUFFICES ASSUME LogType, ProviderIsLast, OneRepairPerAnswer, [Next]_vars
             PROVE  (ProviderIsLast /\ OneRepairPerAnswer)'
  OBVIOUS
<1> DEFINE Goal == (ProviderIsLast /\ OneRepairPerAnswer)'
<1>a. ASSUME UNCHANGED log,
             pc' \in {"primary", "secondary", "check"} => pc \in {"primary", "secondary", "check"}
      PROVE  Goal
  BY <1>a DEF ProviderIsLast, OneRepairPerAnswer, Called
<1>e. /\ "primary" \in Event \ {"repair"} /\ "rejected" \in Event \ {"repair"}
      /\ "secondary_provider" \in Event \ {"repair"}
      /\ "cache" \in Event \ {"repair"} /\ "replay" \in Event \ {"repair"}
  BY DEF Event, Fallback
<1>1. ASSUME FlipKillSwitch
      PROVE  Goal
  BY <1>1, <1>a DEF FlipKillSwitch
<1>2. ASSUME Call
      PROVE  Goal
  BY <1>2 DEF Call, ProviderIsLast, OneRepairPerAnswer, Called
<1>3. ASSUME TryPrimary \/ TrySecondary
      PROVE  Goal
  <2>1. PICK e \in Provider : log' = Append(log, e)
    BY <1>3 DEF TryPrimary, TrySecondary, Provider
  <2>2. ProviderIsLast'
    BY <2>1 DEF ProviderIsLast, LogType
  <2> QED
    BY <1>e, <2>1, <2>2, OtherThanRepair DEF Provider
<1>4. ASSUME StartRepair
      PROVE  Goal
  BY <1>4, RepairAfterProvider DEF StartRepair, ProviderIsLast
<1>5. ASSUME AcceptAnswer \/ SkipStep \/ Degrade \/ PassAwaitable \/ RepairSucceeds
      PROVE  Goal
  BY <1>5, <1>a DEF AcceptAnswer, SkipStep, Degrade, PassAwaitable, RepairSucceeds, Return
<1>6. ASSUME CheckFails
      PROVE  Goal
  BY <1>6, <1>e, OtherThanRepair DEF CheckFails, RejectAnswer, ProviderIsLast
<1>7. ASSUME NEW s \in {"cache", "replay"}, NEW hit \in BOOLEAN, LookUp(s, hit)
      PROVE  Goal
  <2>1. log' = Append(log, s) /\ pc' \in {"chain", "done"}
    BY <1>7 DEF LookUp, InStep, Return
  <2> QED
    BY <1>e, <2>1, OtherThanRepair DEF ProviderIsLast
<1>8. ASSUME NEW valid \in BOOLEAN, PrimaryAnswers(valid) \/ SecondaryAnswers(valid)
      PROVE  Goal
  BY <1>8, <1>a DEF PrimaryAnswers, SecondaryAnswers, Return
<1>9. ASSUME NEW e, PrimaryFails(e) \/ SecondaryFails(e)
      PROVE  Goal
  BY <1>9, <1>a DEF PrimaryFails, SecondaryFails
<1>10. CASE UNCHANGED vars
  BY <1>10, <1>a DEF vars
<1> QED
  BY <1>1, <1>2, <1>3, <1>4, <1>5, <1>6, <1>7, <1>8, <1>9, <1>10
     DEF Next, OwnStep, Deadline, Outcome

\* "a failed repair is terminal for the primary stage": between two repairs of one call a
\* provider was called again, however many retries and fallbacks there are.
THEOREM RepairsAreNotRepeated == Spec => []OneRepairPerAnswer
<1>1. Init => LogType /\ ProviderIsLast /\ OneRepairPerAnswer
  BY DEF Init, LogType, ProviderIsLast, OneRepairPerAnswer, Called
<1> QED
  BY <1>1, LogTypeInductive, RepairInvInductive, PTL DEF Spec

-----------------------------------------------------------------------------

Primaries == Called({"primary"})

Later == Called(Fallback \cup {"rejected"})

\* The chain may be walked: the retries are used up, or an answer was rejected before it.
Exhausted ==
    ~forced =>
        \/ Cardinality(Primaries) = cfg.retries + 1
        \/ \E n \in Called({"rejected"}) : \A m \in Called(Fallback) : n < m

AnswerIsPrimary == pc \in {"check", "repair"} /\ answer.from = "primary"

StageInv ==
    /\ cfg.retries \in Nat /\ attempt \in Nat
    /\ Cardinality(Primaries) \in Nat /\ Cardinality(Primaries) <= cfg.retries + 1
    /\ \A n \in Later, m \in Primaries : m < n
    /\ pc = "attempt" =>
            attempt <= cfg.retries /\ Cardinality(Primaries) = attempt /\ Later = {}
    /\ pc = "primary" \/ AnswerIsPrimary =>
            attempt <= cfg.retries /\ Cardinality(Primaries) = attempt + 1 /\ Later = {}
    /\ pc # "done" => result = NoResult
    /\ pc \in {"chain", "secondary"} \/ (pc \in {"check", "repair"} /\ ~AnswerIsPrimary)
            \/ result.kind = "degraded" => Exhausted

\* What one more event of the log adds to what was called.
LEMMA CalledGrows ==
    ASSUME LogType, NEW e \in Event, log' = Append(log, e), NEW S
    PROVE  /\ Called(S)' = IF e \in S THEN Called(S) \cup {Len(log) + 1} ELSE Called(S)
           /\ Called(S) \subseteq 1 .. Len(log) /\ Len(log) \in Nat
<1>1. /\ DOMAIN log' = 1 .. Len(log) + 1 /\ DOMAIN log = 1 .. Len(log) /\ Len(log) \in Nat
      /\ \A i \in DOMAIN log : log'[i] = log[i]
      /\ log'[Len(log) + 1] = e
  BY DEF LogType
<1> QED
  BY <1>1 DEF Called

\* A call of the primary is counted.
LEMMA PrimaryCounts ==
    ASSUME LogType, log' = Append(log, "primary")
    PROVE  /\ Cardinality(Primaries)' = Cardinality(Primaries) + 1
           /\ Later' = Later
<1>1. "primary" \in Event /\ "primary" \notin Fallback \cup {"rejected"}
  BY DEF Event, Fallback
<1>2. /\ Primaries' = Primaries \cup {Len(log) + 1}
      /\ Primaries \subseteq 1 .. Len(log) /\ Len(log) \in Nat
  BY <1>1, CalledGrows DEF Primaries
<1>3. IsFiniteSet(Primaries)
  <2>1. IsFiniteSet(1 .. Len(log))
    BY <1>2, FS_Interval
  <2> QED
    BY <1>2, <2>1, FS_Subset
<1>4. Len(log) + 1 \notin Primaries
  BY <1>2
<1>5. Later' = Later
  BY <1>1, CalledGrows DEF Later
<1> QED
  BY <1>2, <1>3, <1>4, <1>5, FS_AddElement

\* Anything else comes after all calls of the primary.
LEMMA OthersComeAfter ==
    ASSUME LogType, NEW e \in Event \ {"primary"}, log' = Append(log, e)
    PROVE  /\ Primaries' = Primaries
           /\ (\A n \in Later, m \in Primaries : m < n)
                => (\A n \in Later, m \in Primaries : m < n)'
           /\ UNCHANGED <<forced, cfg>> /\ Exhausted => Exhausted'
<1>1. Primaries' = Primaries /\ Primaries \subseteq 1 .. Len(log) /\ Len(log) \in Nat
  BY CalledGrows DEF Primaries
<1>2. Later' \subseteq Later \cup {Len(log) + 1}
  BY CalledGrows DEF Later
<1>3. (\A n \in Later, m \in Primaries : m < n) => (\A n \in Later, m \in Primaries : m < n)'
  BY <1>1, <1>2
<1>4. /\ Called({"rejected"}) \subseteq Called({"rejected"})'
      /\ Called({"rejected"}) \subseteq 1 .. Len(log)
      /\ Called(Fallback)' \subseteq Called(Fallback) \cup {Len(log) + 1}
  BY CalledGrows
<1>5. ASSUME UNCHANGED <<forced, cfg>>, Exhausted
      PROVE  Exhausted'
  BY <1>1, <1>4, <1>5 DEF Exhausted
<1> QED
  BY <1>1, <1>3, <1>5

\* A step that calls nothing, from one place of the stage to another.
LEMMA StageAlone ==
    ASSUME UNCHANGED <<log, cfg, forced>>
    PROVE  /\ Cardinality(Primaries)' = Cardinality(Primaries) /\ Later' = Later
           /\ Primaries' = Primaries /\ Exhausted' = Exhausted
BY DEF Primaries, Later, Exhausted, Called

LEMMA StageInvInductive == LogType /\ StageInv /\ [Next]_vars => StageInv'
<1> SUFFICES ASSUME LogType, StageInv, [Next]_vars
             PROVE  StageInv'
  OBVIOUS
<1>e. /\ "repair" \in Event \ {"primary"} /\ "rejected" \in Event \ {"primary"}
      /\ "secondary_provider" \in Event \ {"primary"}
      /\ "cache" \in Event \ {"primary"} /\ "replay" \in Event \ {"primary"}
  BY DEF Event, Fallback
<1>1. ASSUME FlipKillSwitch
      PROVE  StageInv'
  BY <1>1, StageAlone DEF FlipKillSwitch, StageInv, AnswerIsPrimary
<1>2. ASSUME Call
      PROVE  StageInv'
  <2>1. \A S : Called(S)' = {}
    BY <1>2 DEF Call, Called
  <2>2. Cardinality(Primaries)' = 0 /\ Later' = {}
    BY <2>1, FS_EmptySet DEF Primaries, Later
  <2>3. forced => Exhausted'
    BY <1>2 DEF Call, Exhausted
  <2> QED
    BY <1>2, <2>2, <2>3 DEF Call, StageInv, AnswerIsPrimary, NoResult
<1>3. ASSUME TryPrimary
      PROVE  StageInv'
  BY <1>3, PrimaryCounts DEF TryPrimary, StageInv, AnswerIsPrimary, NoResult, fixed
<1>4. ASSUME TrySecondary
      PROVE  StageInv'
  BY <1>4, <1>e, OthersComeAfter DEF TrySecondary, InStep, StageInv, AnswerIsPrimary, fixed
<1>5. ASSUME StartRepair
      PROVE  StageInv'
  <2>1. Later' = Later
    BY <1>5, <1>e, CalledGrows DEF StartRepair, Later, Fallback
  <2> QED
    BY <1>5, <1>e, <2>1, OthersComeAfter DEF StartRepair, StageInv, AnswerIsPrimary, fixed
<1>6. ASSUME AcceptAnswer \/ PassAwaitable \/ RepairSucceeds
      PROVE  StageInv'
  BY <1>6, StageAlone
     DEF AcceptAnswer, PassAwaitable, RepairSucceeds, Return, StageInv, AnswerIsPrimary, fixed
<1>7. ASSUME CheckFails
      PROVE  StageInv'
  <2>1. CASE AnswerIsPrimary
    <3>1. Later = {} /\ Called({"rejected"})' = Called({"rejected"}) \cup {Len(log) + 1}
      BY <1>7, <1>e, <2>1, CalledGrows DEF CheckFails, RejectAnswer, StageInv
    <3>2. Called(Fallback)' = {}
      BY <1>7, <1>e, <3>1, CalledGrows DEF CheckFails, RejectAnswer, Later, Called, Fallback
    <3>3. Exhausted'
      BY <3>1, <3>2 DEF Exhausted
    <3> QED
      BY <1>7, <1>e, <3>3, OthersComeAfter
         DEF CheckFails, RejectAnswer, StageInv, AnswerIsPrimary, fixed
  <2>2. CASE ~AnswerIsPrimary
    BY <1>7, <1>e, <2>2, OthersComeAfter
       DEF CheckFails, RejectAnswer, StageInv, AnswerIsPrimary, fixed
  <2> QED
    BY <2>1, <2>2
<1>8. ASSUME NEW s \in {"cache", "replay"}, NEW hit \in BOOLEAN, LookUp(s, hit)
      PROVE  StageInv'
  <2>1. /\ log' = Append(log, s) /\ UNCHANGED <<forced, cfg, attempt, answer>>
        /\ pc = "chain" /\ (pc' = "done" \/ (pc' = "chain" /\ UNCHANGED result))
    BY <1>8 DEF LookUp, InStep, Return, fixed
  <2> QED
    BY <1>e, <2>1, OthersComeAfter DEF StageInv, AnswerIsPrimary
<1>9. ASSUME SkipStep \/ Degrade
      PROVE  StageInv'
  BY <1>9, StageAlone DEF SkipStep, Degrade, InStep, StageInv, AnswerIsPrimary, fixed
<1>10. ASSUME NEW valid \in BOOLEAN, PrimaryAnswers(valid)
       PROVE  StageInv'
  BY <1>10, StageAlone DEF PrimaryAnswers, StageInv, AnswerIsPrimary, fixed
<1>11. ASSUME NEW valid \in BOOLEAN, SecondaryAnswers(valid)
       PROVE  StageInv'
  BY <1>11, StageAlone DEF SecondaryAnswers, Return, StageInv, AnswerIsPrimary, fixed
<1>12. ASSUME NEW e, PrimaryFails(e)
       PROVE  StageInv'
  BY <1>12, StageAlone DEF PrimaryFails, StageInv, AnswerIsPrimary, Exhausted, fixed
<1>13. ASSUME NEW e, SecondaryFails(e)
       PROVE  StageInv'
  BY <1>13, StageAlone DEF SecondaryFails, StageInv, AnswerIsPrimary, fixed
<1>14. CASE UNCHANGED vars
  BY <1>14, StageAlone DEF vars, StageInv, AnswerIsPrimary
<1> QED
  BY <1>1, <1>2, <1>3, <1>4, <1>5, <1>6, <1>7, <1>8, <1>9, <1>10, <1>11, <1>12, <1>13, <1>14
     DEF Next, OwnStep, Deadline, Outcome

LEMMA StageStarts == Init => LogType /\ StageInv
<1> SUFFICES ASSUME Init
             PROVE  LogType /\ StageInv
  OBVIOUS
<1>1. \A S : Called(S) = {}
  BY DEF Init, Called
<1>2. Cardinality(Primaries) = 0 /\ Later = {}
  BY <1>1, FS_EmptySet DEF Primaries, Later
<1>3. cfg.retries \in Nat
  BY ResilienceAssumption DEF Init, Config
<1> QED
  BY <1>2, <1>3 DEF Init, LogType, StageInv, AnswerIsPrimary, NoResult

\* The chain comes after the last retry, or after an answer nobody could repair, and the
\* primary is not called once it has begun: for any number of retries and any chain.
THEOREM FallbackComesLast == Spec => []PrimaryBeforeFallback
<1>1. StageInv => PrimaryBeforeFallback
  BY DEF StageInv, PrimaryBeforeFallback, Primaries, Later, Exhausted
<1> QED
  BY <1>1, StageStarts, LogTypeInductive, StageInvInductive, PTL DEF Spec

-----------------------------------------------------------------------------

\* A place in the chain, and a step of it while the step is at work.
AtInv ==
    /\ cfg \in Configs
    /\ at \in 1 .. Len(cfg.order) + 1
    /\ pc = "secondary" \/ (pc \in {"check", "repair"} /\ ~AnswerIsPrimary)
        => at \in DOMAIN cfg.order

LocalTypes ==
    /\ pc \in {"idle", "attempt", "primary", "check", "repair", "chain", "secondary", "done"}
    /\ attempt \in 0 .. cfg.retries + 1
    /\ err \in {"none", "skipped", "error", "timeout", "invalid"}
    /\ answer \in [from : {"none", "primary", "secondary_provider"}, valid : BOOLEAN]
    /\ calls \in 0..MaxCalls

SwitchTypes == killSwitch \in BOOLEAN /\ forced \in BOOLEAN

LEMMA OrderIsSeq ==
    cfg \in Configs => Len(cfg.order) \in Nat /\ DOMAIN cfg.order = 1 .. Len(cfg.order)
BY ResilienceAssumption DEF Config

LEMMA AtInvInductive == AtInv /\ [Next]_vars => AtInv'
<1> SUFFICES ASSUME AtInv, [Next]_vars
             PROVE  AtInv'
  OBVIOUS
<1>o. Len(cfg.order) \in Nat /\ DOMAIN cfg.order = 1 .. Len(cfg.order)
  BY OrderIsSeq DEF AtInv
<1> USE <1>o DEF AtInv, AnswerIsPrimary, fixed
<1>1. ASSUME FlipKillSwitch \/ Call
      PROVE  AtInv'
  BY <1>1 DEF FlipKillSwitch, Call
<1>2. ASSUME TryPrimary \/ StartRepair \/ AcceptAnswer \/ PassAwaitable \/ RepairSucceeds
      PROVE  AtInv'
  BY <1>2 DEF TryPrimary, StartRepair, AcceptAnswer, PassAwaitable, RepairSucceeds, Return
<1>3. ASSUME TrySecondary \/ SkipStep \/ Degrade
      PROVE  AtInv'
  BY <1>3 DEF TrySecondary, SkipStep, Degrade, InStep, ChainIsOver
<1>4. ASSUME CheckFails
      PROVE  AtInv'
  BY <1>4 DEF CheckFails, RejectAnswer
<1>5. ASSUME NEW s \in {"cache", "replay"}, NEW hit \in BOOLEAN, LookUp(s, hit)
      PROVE  AtInv'
  BY <1>5 DEF LookUp, InStep, ChainIsOver, Return
<1>6. ASSUME NEW valid \in BOOLEAN, PrimaryAnswers(valid) \/ SecondaryAnswers(valid)
      PROVE  AtInv'
  BY <1>6 DEF PrimaryAnswers, SecondaryAnswers, Return
<1>7. ASSUME NEW e, PrimaryFails(e) \/ SecondaryFails(e)
      PROVE  AtInv'
  BY <1>7 DEF PrimaryFails, SecondaryFails
<1>8. CASE UNCHANGED vars
  BY <1>8 DEF vars
<1> QED
  BY <1>1, <1>2, <1>3, <1>4, <1>5, <1>6, <1>7, <1>8 DEF Next, OwnStep, Deadline, Outcome

LEMMA LocalTypesInductive == StageInv /\ LocalTypes /\ [Next]_vars => LocalTypes'
<1> SUFFICES ASSUME StageInv, LocalTypes, [Next]_vars
             PROVE  LocalTypes'
  OBVIOUS
<1>n. cfg.retries \in Nat /\ MaxCalls \in Nat
  BY ResilienceAssumption DEF StageInv
<1> USE <1>n DEF LocalTypes, fixed
<1>1. ASSUME FlipKillSwitch \/ Call
      PROVE  LocalTypes'
  <2>1. NoAnswer \in [from : {"none", "primary", "secondary_provider"}, valid : BOOLEAN]
    BY DEF NoAnswer
  <2>2. CASE FlipKillSwitch
    BY <2>2 DEF FlipKillSwitch
  <2>3. CASE Call
    <3>1. /\ pc' \in {"chain", "attempt"} /\ err' \in {"skipped", "none"}
          /\ attempt' = 0 /\ answer' = NoAnswer /\ cfg' = cfg
      BY <2>3 DEF Call
    <3>2. calls' \in 0..MaxCalls
      BY <2>3 DEF Call
    <3> QED
      BY <2>1, <3>1, <3>2
  <2> QED
    BY <1>1, <2>2, <2>3
<1>2. ASSUME TryPrimary \/ StartRepair \/ AcceptAnswer \/ PassAwaitable \/ RepairSucceeds
      PROVE  LocalTypes'
  BY <1>2 DEF TryPrimary, StartRepair, AcceptAnswer, PassAwaitable, RepairSucceeds, Return
<1>3. ASSUME TrySecondary \/ SkipStep \/ Degrade
      PROVE  LocalTypes'
  BY <1>3 DEF TrySecondary, SkipStep, Degrade
<1>4. ASSUME CheckFails
      PROVE  LocalTypes'
  BY <1>4 DEF CheckFails, RejectAnswer
<1>5. ASSUME NEW s \in {"cache", "replay"}, NEW hit \in BOOLEAN, LookUp(s, hit)
      PROVE  LocalTypes'
  BY <1>5 DEF LookUp, Return
<1>6. ASSUME NEW valid \in BOOLEAN, PrimaryAnswers(valid) \/ SecondaryAnswers(valid)
      PROVE  LocalTypes'
  BY <1>6 DEF PrimaryAnswers, SecondaryAnswers, Return
<1>7. ASSUME NEW e \in {"error", "timeout"}, PrimaryFails(e)
      PROVE  LocalTypes'
  BY <1>7 DEF PrimaryFails, StageInv
<1>8. ASSUME NEW e \in {"error", "timeout"}, SecondaryFails(e)
      PROVE  LocalTypes'
  BY <1>8 DEF SecondaryFails
<1>9. CASE UNCHANGED vars
  BY <1>9 DEF vars
<1> QED
  BY <1>1, <1>2, <1>3, <1>4, <1>5, <1>6, <1>7, <1>8, <1>9 DEF Next, OwnStep, Deadline, Outcome

LEMMA SwitchTypesInductive == SwitchTypes /\ [Next]_vars => SwitchTypes'
BY DEF SwitchTypes, Next, vars, fixed, OwnStep, Deadline, Outcome, FlipKillSwitch,
       Call, TryPrimary,
       AcceptAnswer, StartRepair, CheckFails, RejectAnswer, SkipStep, TrySecondary, Degrade, LookUp,
       PrimaryFails, SecondaryFails, PrimaryAnswers, SecondaryAnswers, PassAwaitable, RepairSucceeds

\* Every variable of the wrapper keeps its type; attempts stay within the retries, and the
\* place in the chain within its length.
THEOREM WrapperKeepsTypes == Spec => []TypeOK
<1>1. Init => LogType /\ StageInv /\ AtInv /\ LocalTypes /\ SwitchTypes
  <2> SUFFICES ASSUME Init
               PROVE  LogType /\ StageInv /\ AtInv /\ LocalTypes /\ SwitchTypes
    OBVIOUS
  <2>1. cfg \in Configs /\ cfg \in Config /\ MaxCalls \in Nat
    BY ResilienceAssumption DEF Init
  <2>2. LogType /\ StageInv
    BY StageStarts
  <2>3. AtInv
    BY <2>1, OrderIsSeq DEF Init, AtInv, AnswerIsPrimary
  <2>4. LocalTypes
    BY <2>1 DEF Init, LocalTypes, NoAnswer, Config
  <2>5. SwitchTypes
    BY <2>1 DEF Init, SwitchTypes, Config
  <2> QED
    BY <2>2, <2>3, <2>4, <2>5
<1>2. LogType /\ AtInv /\ LocalTypes /\ SwitchTypes => TypeOK
  BY DEF LogType, AtInv, LocalTypes, SwitchTypes, TypeOK, Event
<1> QED
  BY <1>1, <1>2, LogTypeInductive, StageInvInductive, AtInvInductive, LocalTypesInductive,
     SwitchTypesInductive, PTL DEF Spec

-----------------------------------------------------------------------------

\* The steps of the chain up to place n that the configuration makes usable.
UsableOf(n) == Selected(SubSeq(cfg.order, 1, n), {s \in Fallback : Usable(s)})

\* The steps before "none".
LastStep == Cardinality(BeforeNone)

\* The chain was walked up to place n, and nothing was left out.
Walked(n) == n \in 0..LastStep /\ Tried = UsableOf(n)

\* Where the call stands in the chain.
ChainInv ==
    /\ pc \in {"idle", "attempt", "primary", "check", "repair", "chain", "secondary", "done"}
    /\ pc \in {"idle", "attempt", "primary"} \/ AnswerIsPrimary => at = 1 /\ Walked(0)
    /\ pc = "chain" => Walked(at - 1)
    /\ pc = "secondary" \/ (pc \in {"check", "repair"} /\ ~AnswerIsPrimary) =>
            Walked(at) /\ Tried # <<>> /\ Tried[Len(Tried)] = "secondary_provider"
    /\ pc \in {"check", "repair"} => answer.from \in {"primary", "secondary_provider"}
    /\ pc = "done" => \E n \in 0..LastStep : Walked(n)
    /\ result.kind = "degraded" => Walked(LastStep)
    /\ result.kind = "value" /\ result.from \in Fallback =>
            Tried # <<>> /\ result.from = Tried[Len(Tried)]
    /\ pc # "done" => result = NoResult

\* "none" cuts the chain: the steps before it are the first ones.
LEMMA StepsBeforeNone ==
    ASSUME cfg \in Configs
    PROVE  LastStep \in 0 .. Len(cfg.order) /\ BeforeNone = 1..LastStep
<1> DEFINE o == cfg.order
           Upto(n) == {i \in 1..n : \A m \in 1..i : o[m] # "none"}
           A == {n \in Nat : \E k \in 0..n : Upto(n) = 1..k}
<1>1. 0 \in A
  <2>1. Upto(0) = 1..0
    OBVIOUS
  <2> QED
    BY <2>1
<1>2. ASSUME NEW n \in Nat, n \in A PROVE n + 1 \in A
  <2>1. PICK k \in 0..n : Upto(n) = 1..k
    BY <1>2
  <2>2. \A i \in 1..n : i \in Upto(n) <=> i \in Upto(n + 1)
    OBVIOUS
  <2>3. \A i \in Upto(n + 1) : i \in 1 .. n + 1 /\ \A m \in 1..i : m \in Upto(n + 1)
    OBVIOUS
  <2>4. CASE n + 1 \in Upto(n + 1)
    <3>1. \A m \in 1 .. n + 1 : m \in Upto(n + 1)
      BY <2>3, <2>4
    <3>2. Upto(n + 1) = 1 .. n + 1
      BY <2>3, <3>1
    <3> QED
      BY <3>2
  <2>5. CASE n + 1 \notin Upto(n + 1)
    <3>1. \A i \in Upto(n + 1) : i \in 1..n
      BY <2>3, <2>5
    <3>2. Upto(n + 1) = Upto(n)
      BY <2>2, <3>1
    <3>3. k \in 0 .. n + 1
      OBVIOUS
    <3> HIDE DEF Upto
    <3> QED
      BY <2>1, <3>2, <3>3
  <2> QED
    BY <2>4, <2>5
<1>3. Len(o) \in Nat /\ DOMAIN o = 1..Len(o)
  BY OrderIsSeq
<1>4. Len(o) \in A
  <2> HIDE DEF A
  <2> QED
    BY <1>1, <1>2, <1>3, Counting
<1>5. PICK k \in 0..Len(o) : BeforeNone = 1..k
  BY <1>3, <1>4 DEF BeforeNone
<1>6. Cardinality(1..k) = k
  BY <1>5, FS_Interval
<1> QED
  BY <1>5, <1>6 DEF LastStep

\* Before the first place there is nothing usable.
LEMMA NothingBefore == cfg \in Configs => UsableOf(0) = <<>>
<1> SUFFICES ASSUME cfg \in Configs PROVE UsableOf(0) = <<>>
  OBVIOUS
<1>1. cfg.order \in Seq(Fallback \cup {"none"})
  BY ResilienceAssumption DEF Config
<1>2. SubSeq(cfg.order, 1, 0) = <<>>
  BY <1>1
<1> QED
  BY <1>2, NothingSelected DEF UsableOf

\* Where nothing of the chain is tried, what was walked stays walked.
LEMMA WalkedStays ==
    ASSUME UNCHANGED <<cfg, forced>>, Tried' = Tried, NEW n
    PROVE  Walked(n)' = Walked(n) /\ LastStep' = LastStep
BY DEF Walked, LastStep, BeforeNone, UsableOf, Usable

\* What is no step of the chain is not among the steps tried.
LEMMA NotTried ==
    ASSUME LogType, NEW e \in {"primary", "repair", "rejected"}, log' = Append(log, e)
    PROVE  Tried' = Tried
<1>1. e \in Event /\ e \notin Fallback
  BY DEF Event, Fallback
<1>2. Selected(Append(log, e), Fallback) = Selected(log, Fallback)
  BY <1>1, SelectedGrows DEF LogType
<1> QED
  BY <1>2 DEF Tried

\* A call of a step of the chain is the last one tried.
LEMMA StepTried ==
    ASSUME LogType, NEW e \in Fallback, log' = Append(log, e)
    PROVE  Tried' = Append(Tried, e) /\ Tried \in Seq(Event)
<1>1. e \in Event
  BY DEF Event
<1>2. Selected(Append(log, e), Fallback) = Append(Selected(log, Fallback), e)
  BY <1>1, SelectedGrows DEF LogType
<1>3. Selected(log, Fallback) \in Seq(Event)
  BY SelectedFacts DEF LogType
<1> QED
  BY <1>2, <1>3 DEF Tried

\* The chain at the next step, usable or not.
LEMMA NextStep ==
    ASSUME AtInv, NEW s \in Fallback, InStep(s), Walked(at - 1)
    PROVE  /\ at \in 1..LastStep
           /\ UsableOf(at) = IF Usable(s) THEN Append(UsableOf(at - 1), s) ELSE UsableOf(at - 1)
<1>1. /\ cfg \in Configs /\ at \in Nat \ {0} /\ at \in DOMAIN cfg.order
      /\ cfg.order[at] = s /\ s # "none"
  BY DEF AtInv, InStep, ChainIsOver, Fallback
<1>2. PICK n \in Nat : n = at - 1 /\ at = n + 1
  BY <1>1
<1>3. cfg.order \in Seq(Fallback \cup {"none"}) /\ n + 1 <= Len(cfg.order)
  BY <1>1, <1>2, ResilienceAssumption DEF Config
<1>4. LastStep \in 0 .. Len(cfg.order) /\ BeforeNone = 1..LastStep /\ n \in 0..LastStep
  BY <1>1, <1>2, StepsBeforeNone DEF Walked
<1>5. at \in BeforeNone
  <2>1. \A m \in 1..n : m \in BeforeNone
    BY <1>4
  <2>2. \A m \in 1..n : cfg.order[m] # "none"
    BY <2>1 DEF BeforeNone
  <2>3. \A m \in 1..at : m = at \/ m \in 1..n
    BY <1>2
  <2> QED
    BY <1>1, <2>2, <2>3 DEF BeforeNone
<1>6. /\ SubSeq(cfg.order, 1, n) \in Seq(Fallback \cup {"none"})
      /\ SubSeq(cfg.order, 1, n + 1) = Append(SubSeq(cfg.order, 1, n), s)
  BY <1>1, <1>2, <1>3, OneMoreOf
<1>7. UsableOf(n + 1) = IF Usable(s) THEN Append(UsableOf(n), s) ELSE UsableOf(n)
  <2> DEFINE U == {u \in Fallback : Usable(u)}
  <2>1. s \in U <=> Usable(s)
    OBVIOUS
  <2>2. PICK q, S : q = SubSeq(cfg.order, 1, n) /\ S = U
    OBVIOUS
  <2>3. Selected(Append(q, s), S) = IF s \in S THEN Append(Selected(q, S), s) ELSE Selected(q, S)
    <3>1. PICK T : T = Fallback \cup {"none"}
      OBVIOUS
    <3>2. q \in Seq(T) /\ s \in T
      BY <1>6, <2>2, <3>1
    <3> QED
      BY <3>2, SelectedGrows
  <2>4. UsableOf(n + 1) = Selected(Append(q, s), S) /\ UsableOf(n) = Selected(q, S)
    BY <1>6, <2>2 DEF UsableOf
  <2> QED
    BY <2>1, <2>2, <2>3, <2>4
<1> QED
  BY <1>2, <1>4, <1>5, <1>7

\* A step left out because it is not usable is walked all the same.
LEMMA SkipWalks ==
    ASSUME AtInv, NEW s \in Fallback, InStep(s), ~Usable(s), Walked(at - 1)
    PROVE  Walked(at)
<1>1. Tried = UsableOf(at - 1)
  BY DEF Walked
<1> QED
  BY <1>1, NextStep DEF Walked

\* A usable step that is tried is walked, and is the last one tried.
LEMMA TryWalks ==
    ASSUME LogType, AtInv, NEW s \in Fallback, InStep(s), Usable(s), Walked(at - 1),
           log' = Append(log, s), UNCHANGED <<cfg, forced>>
    PROVE  \A n : n = at => Walked(n)' /\ Tried' # <<>> /\ Tried'[Len(Tried')] = s
<1> SUFFICES ASSUME NEW n, n = at
             PROVE  Walked(n)' /\ Tried' # <<>> /\ Tried'[Len(Tried')] = s
  OBVIOUS
<1>1. Tried' = Append(Tried, s) /\ Tried \in Seq(Event) /\ Tried = UsableOf(at - 1)
  BY StepTried DEF Walked
<1>2. n \in 1..LastStep /\ UsableOf(n) = Append(UsableOf(at - 1), s)
  BY NextStep
<1>3. UsableOf(n)' = UsableOf(n) /\ LastStep' = LastStep
  BY DEF UsableOf, Usable, LastStep, BeforeNone
<1>4. LastStep \in Nat
  BY StepsBeforeNone DEF AtInv
<1>5. Walked(n)'
  BY <1>1, <1>2, <1>3, <1>4 DEF Walked
<1> QED
  BY <1>1, <1>5

\* Behind the last step the chain is over.
LEMMA OverIsWalked ==
    ASSUME AtInv, ChainIsOver, Walked(at - 1)
    PROVE  at - 1 = LastStep
<1>1. /\ at \in 1 .. Len(cfg.order) + 1 /\ LastStep \in 0 .. Len(cfg.order)
      /\ BeforeNone = 1..LastStep /\ at - 1 \in 0..LastStep
      /\ Len(cfg.order) \in Nat /\ DOMAIN cfg.order = 1 .. Len(cfg.order)
  BY StepsBeforeNone, OrderIsSeq DEF AtInv, Walked
<1>2. at \notin BeforeNone
  BY <1>1 DEF ChainIsOver, BeforeNone
<1> QED
  BY <1>1, <1>2

\* Every action keeps the walk of the chain without gaps.
LEMMA ChainInvInductive ==
    LogType /\ AtInv /\ ChainInv /\ [Next]_vars => ChainInv'
<1> SUFFICES ASSUME LogType, AtInv, ChainInv, [Next]_vars
             PROVE  ChainInv'
  OBVIOUS
<1> DEFINE Same == UNCHANGED <<cfg, forced>>
<1>o. LastStep \in Nat
  BY StepsBeforeNone DEF AtInv
<1>r. NoResult.kind = "none"
  BY DEF NoResult
<1>a. ASSUME Same, UNCHANGED <<log, at, answer, result, pc>>
      PROVE  ChainInv'
  <2>1. Tried' = Tried
    BY <1>a DEF Tried
  <2> QED
    BY <1>a, <2>1, WalkedStays DEF ChainInv, AnswerIsPrimary
<1>1. ASSUME FlipKillSwitch
      PROVE  ChainInv'
  BY <1>1, <1>a DEF FlipKillSwitch
<1>2. ASSUME Call
      PROVE  ChainInv'
  <2>1. /\ Same /\ log' = <<>> /\ pc' \in {"chain", "attempt"} /\ at' = 1 /\ result' = NoResult
    BY <1>2 DEF Call
  <2>2. Tried' = <<>>
    BY <2>1, NothingSelected DEF Tried
  <2>3. UsableOf(0)' = <<>>
    <3>1. UsableOf(0)' = UsableOf(0)
      BY <2>1 DEF UsableOf, Usable
    <3> QED
      BY <3>1, NothingBefore DEF AtInv
  <2>4. LastStep' = LastStep
    BY <2>1 DEF LastStep, BeforeNone
  <2>5. Walked(0)'
    BY <1>o, <2>2, <2>3, <2>4 DEF Walked
  <2> QED
    BY <1>r, <2>1, <2>5 DEF ChainInv, AnswerIsPrimary
<1>3. ASSUME TryPrimary
      PROVE  ChainInv'
  <2>1. /\ Same /\ UNCHANGED <<at, result>> /\ log' = Append(log, "primary")
        /\ pc = "attempt" /\ pc' = "primary"
    BY <1>3 DEF TryPrimary, fixed
  <2>2. Tried' = Tried
    BY <2>1, NotTried
  <2> QED
    BY <1>r, <2>1, <2>2, WalkedStays DEF ChainInv, AnswerIsPrimary
<1>4. ASSUME StartRepair
      PROVE  ChainInv'
  <2>1. /\ Same /\ UNCHANGED <<at, result, answer>> /\ log' = Append(log, "repair")
        /\ pc = "check" /\ pc' = "repair"
    BY <1>4 DEF StartRepair, fixed
  <2>2. Tried' = Tried
    BY <2>1, NotTried
  <2> QED
    BY <1>r, <2>1, <2>2, WalkedStays DEF ChainInv, AnswerIsPrimary
<1>5. ASSUME AcceptAnswer \/ RepairSucceeds
      PROVE  ChainInv'
  <2>1. /\ Same /\ UNCHANGED <<log, at>> /\ pc \in {"check", "repair"} /\ pc' = "done"
        /\ result'.kind = "value" /\ result'.from = answer.from
    BY <1>5 DEF AcceptAnswer, RepairSucceeds, Return, fixed
  <2>2. Tried' = Tried
    BY <2>1 DEF Tried
  <2>3. \E n \in 0..LastStep : Walked(n)
    BY <1>o, <2>1 DEF ChainInv, Walked
  <2>4. result'.from \in Fallback => Tried # <<>> /\ result'.from = Tried[Len(Tried)]
    BY <2>1 DEF ChainInv, AnswerIsPrimary, Fallback
  <2> QED
    BY <2>1, <2>2, <2>3, <2>4, WalkedStays DEF ChainInv, AnswerIsPrimary
<1>6. ASSUME PassAwaitable
      PROVE  ChainInv'
  <2>1. /\ Same /\ UNCHANGED <<log, at>> /\ pc = "primary" /\ pc' = "done"
        /\ result'.kind = "value" /\ result'.from = "awaitable"
    BY <1>6 DEF PassAwaitable, Return, fixed
  <2>2. Tried' = Tried
    BY <2>1 DEF Tried
  <2>3. \E n \in 0..LastStep : Walked(n)
    BY <1>o, <2>1 DEF ChainInv
  <2> QED
    BY <2>1, <2>2, <2>3, WalkedStays DEF ChainInv, AnswerIsPrimary, Fallback
<1>7. ASSUME CheckFails
      PROVE  ChainInv'
  <2>1. /\ Same /\ UNCHANGED result /\ log' = Append(log, "rejected")
        /\ pc \in {"check", "repair"} /\ pc' = "chain"
        /\ at' = IF answer.from = "primary" THEN at ELSE at + 1
    BY <1>7 DEF CheckFails, RejectAnswer, fixed
  <2>2. Tried' = Tried
    BY <2>1, NotTried
  <2>3. at \in Nat
    BY DEF AtInv
  <2>4. Walked(at' - 1)
    BY <2>1, <2>3 DEF ChainInv, AnswerIsPrimary
  <2> QED
    BY <1>r, <2>1, <2>2, <2>4, WalkedStays DEF ChainInv, AnswerIsPrimary
<1>8. ASSUME SkipStep
      PROVE  ChainInv'
  <2>1. /\ Same /\ UNCHANGED <<log, result, pc>> /\ pc = "chain" /\ at' = at + 1 /\ at \in Nat
    BY <1>8 DEF SkipStep, InStep, AtInv, fixed
  <2>2. PICK s \in Fallback : InStep(s) /\ ~Usable(s)
    BY <1>8 DEF SkipStep
  <2>3. Walked(at)
    BY <2>1, <2>2, SkipWalks DEF ChainInv
  <2>4. Tried' = Tried
    BY <2>1 DEF Tried
  <2>5. Walked(at' - 1)
    BY <2>1, <2>3
  <2> QED
    BY <1>r, <2>1, <2>4, <2>5, WalkedStays DEF ChainInv, AnswerIsPrimary
<1>9. ASSUME TrySecondary
      PROVE  ChainInv'
  <2>1. /\ Same /\ UNCHANGED <<at, result>> /\ log' = Append(log, "secondary_provider")
        /\ pc = "chain" /\ pc' = "secondary"
        /\ InStep("secondary_provider") /\ Usable("secondary_provider")
        /\ "secondary_provider" \in Fallback
    BY <1>9 DEF TrySecondary, InStep, Fallback, fixed
  <2>2. PICK n : n = at
    OBVIOUS
  <2>3. Walked(n)' /\ Tried' # <<>> /\ Tried'[Len(Tried')] = "secondary_provider"
    BY <2>1, <2>2, TryWalks DEF ChainInv
  <2>4. Walked(at)'
    BY <2>1, <2>2, <2>3 DEF Walked, UsableOf
  <2> QED
    BY <1>r, <2>1, <2>3, <2>4 DEF ChainInv, AnswerIsPrimary
<1>10. ASSUME NEW s \in {"cache", "replay"}, NEW hit \in BOOLEAN, LookUp(s, hit)
       PROVE  ChainInv'
  <2>1. /\ Same /\ log' = Append(log, s) /\ pc = "chain" /\ InStep(s) /\ Usable(s)
        /\ s \in Fallback /\ at \in Nat
        /\ \/ /\ at' = at + 1 /\ UNCHANGED <<pc, result>>
           \/ /\ pc' = "done" /\ result'.kind = "value" /\ result'.from = s
    BY <1>10 DEF LookUp, InStep, Return, Fallback, AtInv, fixed
  <2>2. PICK n : n = at
    OBVIOUS
  <2>3. Walked(n)' /\ Tried' # <<>> /\ Tried'[Len(Tried')] = s
    BY <2>1, <2>2, TryWalks DEF ChainInv
  <2>4. \E k \in 0..LastStep' : Walked(k)'
    BY <2>3 DEF Walked
  <2>5. CASE at' = at + 1 /\ UNCHANGED <<pc, result>>
    <3>1. at' - 1 = n
      BY <2>1, <2>2, <2>5
    <3>2. Walked(at - 1)'
      BY <2>3, <3>1 DEF Walked, UsableOf
    <3> QED
      BY <1>r, <2>1, <2>5, <3>2 DEF ChainInv, AnswerIsPrimary
  <2>6. CASE pc' = "done" /\ result'.kind = "value" /\ result'.from = s
    BY <2>3, <2>4, <2>6 DEF ChainInv, AnswerIsPrimary
  <2> QED
    BY <2>1, <2>5, <2>6
<1>11. ASSUME Degrade
       PROVE  ChainInv'
  <2>1. /\ Same /\ UNCHANGED <<log, at>> /\ pc = "chain" /\ ChainIsOver
        /\ pc' = "done" /\ result'.kind = "degraded"
    BY <1>11 DEF Degrade, fixed
  <2>2. Tried' = Tried
    BY <2>1 DEF Tried
  <2>3. Walked(LastStep)
    BY <2>1, OverIsWalked DEF ChainInv
  <2>4. Walked(LastStep)' /\ LastStep' = LastStep
    BY <2>1, <2>2, <2>3, WalkedStays DEF Walked, UsableOf
  <2>5. \E n \in 0..LastStep' : Walked(n)'
    BY <2>1, <2>2, <2>3, <2>4, WalkedStays, <1>o
  <2> QED
    BY <2>1, <2>4, <2>5 DEF ChainInv, AnswerIsPrimary
<1>12. ASSUME NEW valid \in BOOLEAN, PrimaryAnswers(valid)
       PROVE  ChainInv'
  <2>1. /\ Same /\ UNCHANGED <<log, at, result>> /\ pc = "primary" /\ pc' = "check"
        /\ answer'.from = "primary"
    BY <1>12 DEF PrimaryAnswers, fixed
  <2>2. Tried' = Tried
    BY <2>1 DEF Tried
  <2> QED
    BY <1>r, <2>1, <2>2, WalkedStays DEF ChainInv, AnswerIsPrimary
<1>13. ASSUME NEW valid \in BOOLEAN, SecondaryAnswers(valid)
       PROVE  ChainInv'
  <2>1. /\ Same /\ UNCHANGED <<log, at>> /\ pc = "secondary"
        /\ \/ pc' = "check" /\ UNCHANGED result /\ answer'.from = "secondary_provider"
           \/ /\ pc' = "done" /\ result'.kind = "value" /\ result'.from = "secondary_provider"
    BY <1>13 DEF SecondaryAnswers, Return, fixed
  <2>2. Tried' = Tried
    BY <2>1 DEF Tried
  <2>3. Walked(at) /\ Tried # <<>> /\ Tried[Len(Tried)] = "secondary_provider"
    BY <2>1 DEF ChainInv
  <2>4. at \in 0..LastStep
    BY <2>3 DEF Walked
  <2>5. CASE pc' = "check" /\ UNCHANGED result /\ answer'.from = "secondary_provider"
    BY <1>r, <2>1, <2>2, <2>3, <2>5, WalkedStays DEF ChainInv, AnswerIsPrimary
  <2>6. CASE pc' = "done" /\ result'.kind = "value" /\ result'.from = "secondary_provider"
    BY <2>1, <2>2, <2>3, <2>4, <2>6, WalkedStays DEF ChainInv, AnswerIsPrimary
  <2> QED
    BY <2>1, <2>5, <2>6
<1>14. ASSUME NEW e, PrimaryFails(e)
       PROVE  ChainInv'
  <2>1. /\ Same /\ UNCHANGED <<log, at, result>> /\ pc = "primary" /\ pc' \in {"attempt", "chain"}
    BY <1>14 DEF PrimaryFails, fixed
  <2>2. Tried' = Tried
    BY <2>1 DEF Tried
  <2> QED
    BY <1>r, <2>1, <2>2, WalkedStays DEF ChainInv, AnswerIsPrimary
<1>15. ASSUME NEW e, SecondaryFails(e)
       PROVE  ChainInv'
  <2>1. /\ Same /\ UNCHANGED <<log, result>> /\ pc = "secondary" /\ pc' = "chain"
        /\ at' = at + 1 /\ at \in Nat
    BY <1>15 DEF SecondaryFails, AtInv, fixed
  <2>2. Tried' = Tried
    BY <2>1 DEF Tried
  <2>3. Walked(at' - 1)
    BY <2>1 DEF ChainInv
  <2> QED
    BY <1>r, <2>1, <2>2, <2>3, WalkedStays DEF ChainInv, AnswerIsPrimary
<1>16. CASE UNCHANGED vars
  BY <1>16, <1>a DEF vars
<1> QED
  BY <1>1, <1>2, <1>3, <1>4, <1>5, <1>6, <1>7, <1>8, <1>9, <1>10, <1>11, <1>12, <1>13, <1>14,
     <1>15, <1>16 DEF Next, OwnStep, Deadline, Outcome

\* A new wrapper has walked nothing.
LEMMA ChainInvInit == Init => AtInv /\ ChainInv
<1> SUFFICES ASSUME Init PROVE AtInv /\ ChainInv
  OBVIOUS
<1>1. AtInv
  BY OrderIsSeq DEF Init, AtInv, AnswerIsPrimary
<1>2. LastStep \in Nat
  BY <1>1, StepsBeforeNone DEF AtInv
<1>3. Tried = <<>> /\ UsableOf(0) = <<>>
  BY <1>1, NothingBefore, NothingSelected DEF Init, Tried, AtInv
<1>4. Walked(0)
  BY <1>2, <1>3 DEF Walked
<1> QED
  BY <1>1, <1>4 DEF Init, ChainInv, AnswerIsPrimary, NoResult

\* What was walked is the first part of what is to be walked.
LEMMA WalkedIsPrefix ==
    ASSUME AtInv, NEW n, Walked(n)
    PROVE  Len(Tried) <= Len(Expected) /\ Tried = SubSeq(Expected, 1, Len(Tried))
<1> DEFINE S == {s \in Fallback : Usable(s)}
           o == SubSeq(cfg.order, 1, LastStep)
<1>1. cfg.order \in Seq(Fallback \cup {"none"}) /\ LastStep \in 0..Len(cfg.order) /\ n \in 0..LastStep
  BY ResilienceAssumption, StepsBeforeNone DEF AtInv, Walked, Config
<1>2. /\ o \in Seq(Fallback \cup {"none"}) /\ Len(o) = LastStep
      /\ SubSeq(o, 1, n) = SubSeq(cfg.order, 1, n)
  BY <1>1
<1>3. Expected = Selected(o, S) /\ Tried = Selected(SubSeq(o, 1, n), S)
  BY <1>2 DEF Expected, LastStep, Walked, UsableOf
<1> HIDE DEF S, o
<1>4. PICK k \in 0..Len(Expected) : Len(Tried) = k /\ Tried = SubSeq(Expected, 1, k)
  BY <1>1, <1>2, <1>3, SelectedPrefix
<1>5. Expected \in Seq(Fallback \cup {"none"})
  BY <1>2, <1>3, SelectedFacts
<1> QED
  BY <1>4, <1>5

\* The chain of wrapper.ts is walked in the order of the configuration: whatever fails, is
\* missed or is rejected on the way, no usable step is left out, none behind "none" is
\* taken, a value comes from the step that was last, and a degraded result from none.
THEOREM ChainIsWalked == Spec => []ChainAsConfigured
<1>1. LogType /\ AtInv /\ ChainInv => ChainAsConfigured
  <2> SUFFICES ASSUME LogType, AtInv, ChainInv PROVE ChainAsConfigured
    OBVIOUS
  <2>1. \E n : Walked(n)
    BY DEF ChainInv
  <2>2. result.kind = "degraded" => Tried = Expected
    BY DEF ChainInv, Walked, UsableOf, Expected, LastStep
  <2>3. result.kind = "value" /\ result.from \in Fallback => result.from = Tried[Len(Tried)]
    BY DEF ChainInv
  <2> QED
    BY <2>1, <2>2, <2>3, WalkedIsPrefix DEF ChainAsConfigured
<1> QED
  BY <1>1, ChainInvInit, StageStarts, LogTypeInductive, AtInvInductive, ChainInvInductive, PTL
     DEF Spec

-----------------------------------------------------------------------------
(***************************************************************************)
(* ResilienceConfig.  The file is normalised before the caller's fields    *)
(* are laid over it and again after, so the proof rests on this: a field   *)
(* or a nested record that was normalised is legal, and a legal one stays  *)
(* as it is.  The delays grow because the powers of the factor do.         *)
(***************************************************************************)

LEMMA SeqOfMore ==
    ASSUME NEW S, NEW T, S \subseteq T, NEW s \in Seq(S)
    PROVE  s \in Seq(T)
OBVIOUS

LEMMA OrderIsSteps == <<"cache", "replay", "none">> \in Seq(Step)
BY DEF Step

\* Values that are legal, and the defaults among them.
LEMMA LegalIs ==
    /\ Legal.timeout_ms = Timeouts /\ Legal.retries = 0 .. 5
    /\ Legal.policy = {"exponential", "linear", "fixed", "none"} /\ Legal.base_ms = Delays
    /\ Legal.factor = Factors /\ Legal.max_ms = Int /\ Legal.jitter = BOOLEAN
    /\ Legal["secondary_provider"] = BOOLEAN /\ Legal["cache"] = BOOLEAN /\ Legal["replay"] = BOOLEAN
    /\ Legal.cache_key_strategy = {"auto", "explicit"} /\ Legal.forced_degraded = BOOLEAN
BY Zenon DEF Legal

LEMMA FlagsAre ==
    /\ Legal.jitter = BOOLEAN /\ Legal.forced_degraded = BOOLEAN
    /\ Legal["secondary_provider"] = BOOLEAN /\ Legal["cache"] = BOOLEAN /\ Legal["replay"] = BOOLEAN
BY Zenon DEF Legal

LEMMA BackoffValues ==
    /\ Legal.policy = {"exponential", "linear", "fixed", "none"} /\ Legal.base_ms = Delays
    /\ Legal.factor = Factors /\ Legal.max_ms = Int
BY Zenon DEF Legal

\* Durations are whole numbers.
LEMMA DelaysAre ==
    /\ \A x \in Delays : x \in Nat
    /\ \A x \in Factors : x \in Nat /\ x >= 1
BY SMT DEF Delays, Factors

LEMMA DefaultsAre ==
    /\ FallbackDefaults.timeout_ms \in Legal.timeout_ms
    /\ FallbackDefaults.retries \in Legal.retries
    /\ FallbackDefaults.forced_degraded = FALSE
    /\ FallbackDefaults.cache_key_strategy = "auto"
    /\ FallbackDefaults.cache_key_explicit = ""
<1>1. FallbackDefaults.timeout_ms = 15000 /\ FallbackDefaults.retries = 2
  BY SMT DEF FallbackDefaults
<1>2. FallbackDefaults.forced_degraded = FALSE
  BY SMT DEF FallbackDefaults
<1>3. FallbackDefaults.cache_key_strategy = "auto"
  BY SMT DEF FallbackDefaults
<1>4. FallbackDefaults.cache_key_explicit = ""
  BY SMT DEF FallbackDefaults
<1>5. FallbackDefaults.timeout_ms \in Timeouts /\ FallbackDefaults.retries \in 0..5
  BY <1>1, SMT DEF Timeouts
<1>6. Legal.timeout_ms = Timeouts /\ Legal.retries = 0..5
  BY LegalIs, Zenon
<1>7. FallbackDefaults.timeout_ms \in Legal.timeout_ms
  BY <1>5, <1>6, Zenon
<1>8. FallbackDefaults.retries \in Legal.retries
  BY <1>5, <1>6, Zenon
<1> QED
  BY <1>2, <1>3, <1>4, <1>7, <1>8, Zenon

LEMMA BackoffDefault ==
    /\ FallbackDefaults.backoff \in Backoffs
    /\ DOMAIN FallbackDefaults.backoff = {"policy", "base_ms", "factor", "max_ms", "jitter"}
    /\ \A f \in DOMAIN FallbackDefaults.backoff : FallbackDefaults.backoff[f] \in Legal[f]
<1>1. PICK d : d = FallbackDefaults.backoff
  OBVIOUS
<1>2. d = [policy |-> "exponential", base_ms |-> 250, factor |-> 2, max_ms |-> 5000, jitter |-> TRUE]
  BY <1>1, SMT DEF FallbackDefaults
<1>3. DOMAIN d = {"policy", "base_ms", "factor", "max_ms", "jitter"}
  BY <1>2, SMT
<1>4. 250 \in Delays /\ 5000 \in Int /\ 2 \in Factors
  BY SMT DEF Delays, Factors
<1>5. d.policy \in Legal.policy /\ d.base_ms \in Legal.base_ms /\ d.factor \in Legal.factor
      /\ d.max_ms \in Legal.max_ms /\ d.jitter \in Legal.jitter
  BY <1>2, <1>4, LegalIs, SMT
<1>6. d = [policy |-> d.policy, base_ms |-> d.base_ms, factor |-> d.factor, max_ms |-> d.max_ms, jitter |-> d.jitter]
  BY <1>2, SMT
<1>7. d \in Backoffs
  BY <1>5, <1>6, SMT DEF Backoffs
<1>8. \A f \in DOMAIN d : d[f] \in Legal[f]
  BY <1>3, <1>5, SMT
<1> QED
  BY <1>1, <1>3, <1>7, <1>8, Zenon

LEMMA ChainDefault ==
    /\ FallbackDefaults.fallback_chain \in Chains
    /\ DOMAIN FallbackDefaults.fallback_chain = {"order", "secondary_provider", "cache", "replay"}
<1>1. FallbackDefaults.fallback_chain = [order |-> <<"cache", "replay", "none">>, secondary_provider |-> FALSE,
                         cache |-> TRUE, replay |-> TRUE]
  BY SMT DEF FallbackDefaults
<1>2. DOMAIN FallbackDefaults.fallback_chain = {"order", "secondary_provider", "cache", "replay"}
  BY <1>1, SMT
<1>3. FallbackDefaults.fallback_chain \in Chains
  BY <1>1, OrderIsSteps, SMT DEF Chains
<1> QED
  BY <1>2, <1>3, SMT

\* Normalised once, a nested record has legal values throughout.
LEMMA BackoffIsNormal ==
    ASSUME NEW raw
    PROVE  /\ NormalizeBackoff(raw) \in Backoffs
           /\ DOMAIN NormalizeBackoff(raw) = DOMAIN FallbackDefaults.backoff
           /\ \A f \in DOMAIN FallbackDefaults.backoff :
                /\ NormalizeBackoff(raw)[f] \in Legal[f]
                /\ NormalizeBackoff(raw)[f] =
                     IF raw \in {Unset, Bad} THEN FallbackDefaults.backoff[f]
                     ELSE Field(raw, f, FallbackDefaults.backoff[f])
<1>1. PICK d : d = FallbackDefaults.backoff
  OBVIOUS
<1>2. d \in Backoffs /\ DOMAIN d = {"policy", "base_ms", "factor", "max_ms", "jitter"}
      /\ \A f \in DOMAIN d : d[f] \in Legal[f]
  BY <1>1, BackoffDefault, Zenon
<1>3. CASE raw \in {Unset, Bad}
  <2>1. NormalizeBackoff(raw) = d
    BY <1>1, <1>3, Zenon DEF NormalizeBackoff
  <2> QED
    BY <1>1, <1>2, <1>3, <2>1, Zenon
<1>4. CASE raw \notin {Unset, Bad}
  <2>1. PICK n : n = [f \in DOMAIN d |-> Field(raw, f, d[f])]
    OBVIOUS
  <2>2. NormalizeBackoff(raw) = n
    BY <1>1, <1>4, <2>1, Zenon DEF NormalizeBackoff
  <2>3. DOMAIN n = DOMAIN d /\ \A f \in DOMAIN d : n[f] = Field(raw, f, d[f])
    BY <2>1, SMT
  <2>4. \A f \in DOMAIN d : n[f] \in Legal[f]
    BY <1>2, <2>3, SMT DEF Field
  <2>5. n = [policy |-> n.policy, base_ms |-> n.base_ms, factor |-> n.factor, max_ms |-> n.max_ms,
             jitter |-> n.jitter]
    BY <1>2, <2>1, <2>3, SMT
  <2>6. n.policy \in Legal.policy /\ n.base_ms \in Legal.base_ms /\ n.factor \in Legal.factor
        /\ n.max_ms \in Legal.max_ms /\ n.jitter \in Legal.jitter
    BY <1>2, <2>4, SMT
  <2>7. n \in Backoffs
    BY <2>5, <2>6, SMT DEF Backoffs
  <2> QED
    BY <1>1, <1>4, <2>2, <2>3, <2>4, <2>7, Zenon
<1> QED
  BY <1>3, <1>4, Zenon

OrderOf(raw, d) ==
    IF raw.order \notin {Unset, Bad} /\ \A n \in DOMAIN raw.order : raw.order[n] \in Step
    THEN raw.order ELSE d.order

\* A normalised chain: the order as a whole, and every step enabled or not.
LEMMA ChainIsNormal ==
    ASSUME NEW raw
    PROVE  LET c == NormalizeChain(raw)
               d == FallbackDefaults.fallback_chain
           IN  /\ DOMAIN c = DOMAIN d
               /\ raw \in {Unset, Bad} => c = d
               /\ raw \notin {Unset, Bad} => c.order = OrderOf(raw, d)
               /\ \A f \in DOMAIN d \ {"order"} :
                    /\ c[f] \in BOOLEAN
                    /\ c[f] = IF raw \in {Unset, Bad} THEN d[f] ELSE Field(raw, f, d[f])
               /\ \A n \in DOMAIN c.order : c.order[n] \in Step
<1>1. PICK d : d = FallbackDefaults.fallback_chain
  OBVIOUS
<1>2. d \in Chains /\ DOMAIN d = {"order", "secondary_provider", "cache", "replay"}
  BY <1>1, ChainDefault, Zenon
<1>3. PICK c : c = NormalizeChain(raw)
  OBVIOUS
<1>4. \A f \in DOMAIN d \ {"order"} : d[f] \in BOOLEAN /\ Legal[f] = BOOLEAN
  <2>1. DOMAIN d \ {"order"} = {"secondary_provider", "cache", "replay"}
    BY <1>2, SMT
  <2>2. d.secondary_provider \in BOOLEAN /\ d.cache \in BOOLEAN /\ d.replay \in BOOLEAN
    BY <1>2, SMT DEF Chains
  <2> QED
    BY <2>1, <2>2, FlagsAre, Zenon
<1>5. \A n \in DOMAIN d.order : d.order[n] \in Step
  BY <1>2, SMT DEF Chains
<1>6. CASE raw \in {Unset, Bad}
  <2>1. c = d
    BY <1>1, <1>3, <1>6, Zenon DEF NormalizeChain
  <2> QED
    BY <1>1, <1>2, <1>3, <1>4, <1>5, <1>6, <2>1, Zenon
<1>7. CASE raw \notin {Unset, Bad}
  <2>1. c = [f \in DOMAIN d |-> IF f = "order" THEN OrderOf(raw, d)
                              ELSE IF raw[f] \in BOOLEAN THEN raw[f] ELSE d[f]]
    BY <1>1, <1>3, <1>7, Zenon DEF NormalizeChain, OrderOf
  <2>2. DOMAIN c = DOMAIN d /\ c.order = OrderOf(raw, d)
    BY <1>2, <2>1, SMT
  <2>3. ASSUME NEW f \in DOMAIN d \ {"order"}
        PROVE  c[f] = (IF raw[f] \in BOOLEAN THEN raw[f] ELSE d[f]) /\ c[f] \in BOOLEAN
    BY <1>4, <2>1, Zenon
  <2>4. ASSUME NEW f \in DOMAIN d \ {"order"} PROVE c[f] = Field(raw, f, d[f])
    BY <1>4, <2>3, Zenon DEF Field
  <2>5. \A n \in DOMAIN c.order : c.order[n] \in Step
    BY <1>5, <2>2, Zenon DEF OrderOf
  <2> QED
    BY <1>1, <1>3, <1>7, <2>2, <2>3, <2>4, <2>5, Zenon
<1> QED
  BY <1>6, <1>7, Zenon

\* A chain that was normalised is a chain, if its order is a list.
LEMMA ChainsAreNormal ==
    ASSUME NEW raw, raw \notin {Unset, Bad} => raw.order \in {Unset, Bad} \/ IsList(raw.order)
    PROVE  NormalizeChain(raw) \in Chains
<1>1. PICK d : d = FallbackDefaults.fallback_chain
  OBVIOUS
<1>2. d \in Chains /\ DOMAIN d = {"order", "secondary_provider", "cache", "replay"}
  BY <1>1, ChainDefault, Zenon
<1>3. CASE raw \in {Unset, Bad}
  <2>1. NormalizeChain(raw) = d
    BY <1>1, <1>3, Zenon DEF NormalizeChain
  <2> QED
    BY <1>2, <2>1, Zenon
<1>4. CASE raw \notin {Unset, Bad}
  <2>1. PICK c : c = NormalizeChain(raw)
    OBVIOUS
  <2>2. DOMAIN c = DOMAIN d /\ c.order = OrderOf(raw, d)
        /\ \A f \in DOMAIN d \ {"order"} : c[f] \in BOOLEAN
    BY <1>1, <1>4, <2>1, ChainIsNormal, Zenon
  <2>3. c.order \in Seq(Step)
    <3>1. d.order \in Seq(Step)
      BY <1>2, SMT DEF Chains
    <3>2. ASSUME raw.order \notin {Unset, Bad}, \A n \in DOMAIN raw.order : raw.order[n] \in Step
          PROVE  raw.order \in Seq(Step)
      <4>1. PICK o : o = raw.order
        OBVIOUS
      <4>2. o \in Seq({o[n] : n \in DOMAIN o}) /\ \A n \in DOMAIN o : o[n] \in Step
        BY <1>4, <3>2, <4>1, Zenon DEF IsList
      <4>3. {o[n] : n \in DOMAIN o} \subseteq Step
        BY <4>2, Zenon
      <4>4. o \in Seq(Step)
        BY <4>2, <4>3, SeqOfMore, Zenon
      <4> QED
        BY <4>1, <4>4, Zenon
    <3> QED
      BY <2>2, <3>1, <3>2, Zenon DEF OrderOf
  <2>4. c.secondary_provider \in BOOLEAN /\ c.cache \in BOOLEAN /\ c.replay \in BOOLEAN
    <3>1. {"secondary_provider", "cache", "replay"} \subseteq DOMAIN d \ {"order"}
      BY <1>2, SMT
    <3> QED
      BY <2>2, <3>1, Zenon
  <2>5. c = [order |-> c.order, secondary_provider |-> c.secondary_provider, cache |-> c.cache,
             replay |-> c.replay]
    <3>1. c = [f \in DOMAIN d |-> c[f]]
      <4>1. c = [f \in DOMAIN d |-> IF f = "order" THEN OrderOf(raw, d)
                                   ELSE IF raw[f] \in BOOLEAN THEN raw[f] ELSE d[f]]
        BY <1>1, <1>4, <2>1, Zenon DEF NormalizeChain, OrderOf
      <4>2. \A g : g = [f \in DOMAIN d |-> IF f = "order" THEN OrderOf(raw, d)
                                   ELSE IF raw[f] \in BOOLEAN THEN raw[f] ELSE d[f]]
                   => g = [f \in DOMAIN d |-> g[f]]
        OBVIOUS
      <4> QED
        BY <4>1, <4>2, Zenon
    <3> QED
      BY <1>2, <3>1, SMT
  <2>6. c \in Chains
    BY <2>3, <2>4, <2>5, SMT DEF Chains
  <2> QED
    BY <2>1, <2>6, Zenon
<1> QED
  BY <1>3, <1>4, Zenon

ConfigFields == {"timeout_ms", "retries", "backoff", "fallback_chain", "cache_key_strategy",
                 "cache_key_explicit", "forced_degraded"}

Scalars == {"timeout_ms", "retries", "forced_degraded"}

\* The fields of a normalised configuration, and those of the defaults.
LEMMA FieldsOfConfig ==
    ASSUME NEW raw
    PROVE  /\ DOMAIN NormalizeConfig(raw) = ConfigFields
           /\ \A f \in Scalars : NormalizeConfig(raw)[f] = Field(raw, f, FallbackDefaults[f])
           /\ NormalizeConfig(raw).backoff = NormalizeBackoff(raw.backoff)
           /\ NormalizeConfig(raw).fallback_chain = NormalizeChain(raw.fallback_chain)
           /\ NormalizeConfig(raw).cache_key_strategy = NormalizeKey(raw).cache_key_strategy
           /\ NormalizeConfig(raw).cache_key_explicit = NormalizeKey(raw).cache_key_explicit
<1>1. PICK c : c = NormalizeConfig(raw)
  OBVIOUS
<1>2. PICK a1, a2, a3, a4, a5, a6, a7 :
        /\ a1 = Field(raw, "timeout_ms", FallbackDefaults.timeout_ms)
        /\ a2 = Field(raw, "retries", FallbackDefaults.retries)
        /\ a3 = NormalizeBackoff(raw.backoff) /\ a4 = NormalizeChain(raw.fallback_chain)
        /\ a5 = NormalizeKey(raw).cache_key_strategy /\ a6 = NormalizeKey(raw).cache_key_explicit
        /\ a7 = Field(raw, "forced_degraded", FallbackDefaults.forced_degraded)
  OBVIOUS
<1>3. c = [timeout_ms |-> a1, retries |-> a2, backoff |-> a3, fallback_chain |-> a4,
           cache_key_strategy |-> a5, cache_key_explicit |-> a6, forced_degraded |-> a7]
  BY <1>1, <1>2, Zenon DEF NormalizeConfig
<1>4. /\ DOMAIN c = ConfigFields
      /\ c.timeout_ms = a1 /\ c.retries = a2 /\ c.backoff = a3 /\ c.fallback_chain = a4
      /\ c.cache_key_strategy = a5 /\ c.cache_key_explicit = a6 /\ c.forced_degraded = a7
  BY <1>3, SMT DEF ConfigFields
<1>5. \A f \in Scalars : c[f] = Field(raw, f, FallbackDefaults[f])
  BY <1>2, <1>4, Zenon DEF Scalars
<1> QED
  BY <1>1, <1>2, <1>4, <1>5, Zenon

\* What the file makes, and that with the caller's fields over it.
Globals == LoadGlobalDefaults(asked.file)
Joined == Merged(Globals, asked.perCall)

LEMMA DefaultFields ==
    /\ DOMAIN FallbackDefaults = ConfigFields
    /\ \A f \in Scalars : FallbackDefaults[f] \in Legal[f]
<1>1. DOMAIN FallbackDefaults = ConfigFields
  BY SMT DEF FallbackDefaults, ConfigFields
<1>2. FallbackDefaults.forced_degraded \in Legal.forced_degraded
  BY DefaultsAre, FlagsAre, Zenon
<1> QED
  BY <1>1, <1>2, DefaultsAre, Zenon DEF Scalars

LEMMA FieldIsLegal ==
    ASSUME NEW raw, NEW f, NEW default \in Legal[f]
    PROVE  Field(raw, f, default) \in Legal[f]
BY Zenon DEF Field

\* The caller's fields before the file's.
LEMMA JoinedFields ==
    ASSUME ConfigAssumption, asked \in Inputs
    PROVE  /\ DOMAIN Globals = ConfigFields
           /\ \A f \in ConfigFields :
                Joined[f] = IF CallerSays(f) THEN asked.perCall[f] ELSE Globals[f]
           /\ asked.file # Unset
<1>1. asked.file # Unset
  BY Zenon DEF ConfigAssumption
<1>2. DOMAIN Globals = ConfigFields
  BY FieldsOfConfig, DefaultFields, Zenon DEF Globals, LoadGlobalDefaults
<1>3. PICK g, p : g = Globals /\ p = asked.perCall
  OBVIOUS
<1>4. CASE p \in {Unset, Bad}
  <2>1. Joined = g
    BY <1>3, <1>4, Zenon DEF Joined, Merged
  <2>2. \A f : ~CallerSays(f)
    BY <1>3, <1>4, Zenon DEF CallerSays
  <2> QED
    BY <1>1, <1>2, <1>3, <2>1, <2>2, Zenon
<1>5. CASE p \notin {Unset, Bad}
  <2>1. Joined = [f \in DOMAIN g |-> IF p[f] = Unset THEN g[f] ELSE p[f]]
    BY <1>3, <1>5, Zenon DEF Joined, Merged
  <2>2. ASSUME NEW f \in ConfigFields
        PROVE  Joined[f] = IF CallerSays(f) THEN asked.perCall[f] ELSE Globals[f]
    <3>1. Joined[f] = IF p[f] = Unset THEN g[f] ELSE p[f]
      BY <1>2, <1>3, <2>1, Zenon
    <3>2. CallerSays(f) <=> p[f] # Unset
      BY <1>3, <1>5, Zenon DEF CallerSays
    <3> QED
      BY <1>3, <3>1, <3>2, Zenon
  <2> QED
    BY <1>1, <1>2, <2>2, Zenon
<1> QED
  BY <1>4, <1>5, Zenon

\* Normalised twice, a value stays what it was.
LEMMA ScalarsAreSaid ==
    ASSUME ConfigAssumption, asked \in Inputs, NEW f \in Scalars
    PROVE  Field(Joined, f, FallbackDefaults[f]) = Said(f) /\ Said(f) \in Legal[f]
<1>1. f \in ConfigFields /\ FallbackDefaults[f] \in Legal[f]
  BY DefaultFields, Zenon DEF Scalars, ConfigFields
<1>2. Said(f) \in Legal[f]
  BY <1>1, FieldIsLegal, Zenon DEF Said, By
<1>3. CASE CallerSays(f)
  <2>1. Joined[f] = asked.perCall[f] /\ Source(f) = asked.perCall
    BY <1>1, <1>3, JoinedFields, Zenon DEF Source, CallerSays
  <2>2. Said(f) = Field(asked.perCall, f, FallbackDefaults[f])
    BY <1>3, <2>1, Zenon DEF Said, By, CallerSays
  <2> QED
    BY <1>2, <2>1, <2>2, Zenon DEF Field
<1>4. CASE ~CallerSays(f)
  <2>1. Joined[f] = Globals[f] /\ Source(f) = asked.file /\ asked.file # Unset
    BY <1>1, <1>4, JoinedFields, Zenon DEF Source, CallerSays
  <2>2. Globals[f] = Said(f)
    BY <2>1, FieldsOfConfig, Zenon DEF Globals, LoadGlobalDefaults, Said, By
  <2> QED
    BY <1>2, <2>1, <2>2, Zenon DEF Field
<1> QED
  BY <1>3, <1>4, Zenon

\* A nested record that was normalised is taken as it is.
LEMMA BackoffIsSaid ==
    ASSUME ConfigAssumption, asked \in Inputs, NEW h \in DOMAIN FallbackDefaults.backoff
    PROVE  NormalizeBackoff(Joined.backoff)[h] = Nested("backoff", h)
<1>1. PICK d : d = FallbackDefaults.backoff[h]
  OBVIOUS
<1>2. "backoff" \in ConfigFields
  BY Zenon DEF ConfigFields
<1>3. CASE CallerSays("backoff")
  <2>1. Joined.backoff = asked.perCall.backoff /\ Source("backoff") = asked.perCall
        /\ asked.perCall # Bad
    BY <1>2, <1>3, JoinedFields, Zenon DEF Source, CallerSays
  <2>2. PICK r : r = asked.perCall.backoff
    OBVIOUS
  <2>3. NormalizeBackoff(r)[h] = IF r \in {Unset, Bad} THEN d ELSE Field(r, h, d)
    BY <1>1, BackoffIsNormal, Zenon
  <2>4. Nested("backoff", h) = By(r, h, d)
    BY <1>1, <1>3, <2>1, <2>2, Zenon DEF Nested, Inner, CallerSays
  <2> QED
    BY <2>1, <2>2, <2>3, <2>4, Zenon DEF By
<1>4. CASE ~CallerSays("backoff")
  <2>1. Joined.backoff = Globals.backoff /\ Source("backoff") = asked.file /\ asked.file # Unset
    BY <1>2, <1>4, JoinedFields, Zenon DEF Source, CallerSays
  <2>2. PICK g : g = Globals.backoff
    OBVIOUS
  <2>3. g \in Backoffs /\ g[h] \in Legal[h] /\ g[h] = Nested("backoff", h)
    <3>1. CASE asked.file = Bad
      <4>1. g = FallbackDefaults.backoff
        BY <2>2, <3>1, Zenon DEF Globals, LoadGlobalDefaults
      <4>2. Nested("backoff", h) = d
        BY <1>1, <2>1, <3>1, Zenon DEF Nested, Inner, By
      <4> QED
        BY <1>1, <4>1, <4>2, BackoffDefault, Zenon
    <3>2. CASE asked.file # Bad
      <4>1. PICK r : r = asked.file.backoff
        OBVIOUS
      <4>2. g = NormalizeBackoff(r)
        BY <2>2, <3>2, <4>1, FieldsOfConfig, Zenon DEF Globals, LoadGlobalDefaults
      <4>3. g \in Backoffs /\ g[h] \in Legal[h]
            /\ g[h] = IF r \in {Unset, Bad} THEN d ELSE Field(r, h, d)
        BY <1>1, <4>2, BackoffIsNormal, Zenon
      <4>4. Nested("backoff", h) = By(r, h, d)
        BY <1>1, <2>1, <3>2, <4>1, Zenon DEF Nested, Inner
      <4> QED
        BY <4>3, <4>4, Zenon DEF By
    <3> QED
      BY <3>1, <3>2, Zenon
  <2>4. g \notin {Unset, Bad}
    BY <2>3, Zenon DEF ConfigAssumption
  <2>5. NormalizeBackoff(g)[h] = Field(g, h, d)
    BY <1>1, <2>4, BackoffIsNormal, Zenon
  <2>6. Field(g, h, d) = g[h]
    BY <2>3, Zenon DEF Field
  <2> QED
    BY <2>1, <2>2, <2>3, <2>5, <2>6, Zenon
<1> QED
  BY <1>3, <1>4, Zenon

LEMMA ChainIsSaid ==
    ASSUME ConfigAssumption, asked \in Inputs, NEW h \in DOMAIN FallbackDefaults.fallback_chain \ {"order"}
    PROVE  NormalizeChain(Joined.fallback_chain)[h] = Nested("fallback_chain", h)
<1>1. PICK d : d = FallbackDefaults.fallback_chain[h]
  OBVIOUS
<1>2. "fallback_chain" \in ConfigFields
  BY Zenon DEF ConfigFields
<1>3. Legal[h] = BOOLEAN
  BY ChainDefault, LegalIs, Zenon
<1>4. CASE CallerSays("fallback_chain")
  <2>1. Joined.fallback_chain = asked.perCall.fallback_chain /\ Source("fallback_chain") = asked.perCall
        /\ asked.perCall # Bad
    BY <1>2, <1>4, JoinedFields, Zenon DEF Source, CallerSays
  <2>2. PICK r : r = asked.perCall.fallback_chain
    OBVIOUS
  <2>3. NormalizeChain(r)[h] = IF r \in {Unset, Bad} THEN d ELSE Field(r, h, d)
    BY <1>1, ChainIsNormal, Zenon
  <2>4. Nested("fallback_chain", h) = By(r, h, d)
    BY <1>1, <1>4, <2>1, <2>2, Zenon DEF Nested, Inner, CallerSays
  <2> QED
    BY <2>1, <2>2, <2>3, <2>4, Zenon DEF By
<1>5. CASE ~CallerSays("fallback_chain")
  <2>1. Joined.fallback_chain = Globals.fallback_chain /\ Source("fallback_chain") = asked.file /\ asked.file # Unset
    BY <1>2, <1>5, JoinedFields, Zenon DEF Source, CallerSays
  <2>2. PICK g : g = Globals.fallback_chain
    OBVIOUS
  <2>3. g \in Chains /\ g[h] \in BOOLEAN /\ g[h] = Nested("fallback_chain", h)
    <3>1. CASE asked.file = Bad
      <4>1. g = FallbackDefaults.fallback_chain
        BY <2>2, <3>1, Zenon DEF Globals, LoadGlobalDefaults
      <4>2. Nested("fallback_chain", h) = d
        BY <1>1, <2>1, <3>1, Zenon DEF Nested, Inner, By
      <4>3. d \in BOOLEAN
        <5>1. NormalizeChain(Bad) = FallbackDefaults.fallback_chain
          BY Zenon DEF NormalizeChain
        <5> QED
          BY <1>1, <5>1, ChainIsNormal, Zenon
      <4> QED
        BY <1>1, <4>1, <4>2, <4>3, ChainDefault, Zenon
    <3>2. CASE asked.file # Bad
      <4>1. PICK r : r = asked.file.fallback_chain
        OBVIOUS
      <4>2. g = NormalizeChain(r)
        BY <2>2, <3>2, <4>1, FieldsOfConfig, Zenon DEF Globals, LoadGlobalDefaults
      <4>3. g[h] \in BOOLEAN /\ g[h] = IF r \in {Unset, Bad} THEN d ELSE Field(r, h, d)
        BY <1>1, <4>2, ChainIsNormal, Zenon
      <4>4. Nested("fallback_chain", h) = By(r, h, d)
        BY <1>1, <2>1, <3>2, <4>1, Zenon DEF Nested, Inner
      <4>5. r \notin {Unset, Bad} => r.order \in {Unset, Bad} \/ IsList(r.order)
        BY <3>2, <4>1, Zenon DEF ConfigAssumption
      <4>6. g \in Chains
        BY <4>2, <4>5, ChainsAreNormal, Zenon
      <4> QED
        BY <4>3, <4>4, <4>6, Zenon DEF By
    <3> QED
      BY <3>1, <3>2, Zenon
  <2>4. g \notin {Unset, Bad}
    BY <2>3, Zenon DEF ConfigAssumption
  <2>5. NormalizeChain(g)[h] = Field(g, h, d)
    BY <1>1, <2>4, ChainIsNormal, Zenon
  <2>6. Field(g, h, d) = g[h]
    BY <1>3, <2>3, Zenon DEF Field
  <2> QED
    BY <2>1, <2>2, <2>3, <2>5, <2>6, Zenon
<1> QED
  BY <1>4, <1>5, Zenon

\* The order of a chain that was normalised is taken as it is, too.
LEMMA OrderIsSaid ==
    ASSUME ConfigAssumption, asked \in Inputs
    PROVE  NormalizeChain(Joined.fallback_chain).order = OrderSaid
<1>1. PICK d : d = FallbackDefaults.fallback_chain
  OBVIOUS
<1>2. "fallback_chain" \in ConfigFields
  BY Zenon DEF ConfigFields
<1>3. PICK chain : chain = Inner("fallback_chain")
  OBVIOUS
<1>4. OrderSaid = IF chain \in {Unset, Bad} THEN d.order ELSE OrderOf(chain, d)
  BY <1>1, <1>3, Zenon DEF OrderSaid, OrderOf
<1>5. CASE CallerSays("fallback_chain")
  <2>1. Joined.fallback_chain = asked.perCall.fallback_chain /\ chain = asked.perCall.fallback_chain
    BY <1>2, <1>3, <1>5, JoinedFields, Zenon DEF Source, CallerSays, Inner
  <2> QED
    BY <1>1, <1>4, <2>1, ChainIsNormal, Zenon
<1>6. CASE ~CallerSays("fallback_chain")
  <2>1. Joined.fallback_chain = Globals.fallback_chain /\ Source("fallback_chain") = asked.file /\ asked.file # Unset
    BY <1>2, <1>6, JoinedFields, Zenon DEF Source, CallerSays
  <2>2. PICK g : g = Globals.fallback_chain
    OBVIOUS
  <2>3. g \in Chains /\ g = NormalizeChain(chain)
    <3>1. CASE asked.file = Bad
      <4>1. chain = Bad /\ g = d
        BY <1>1, <1>3, <2>1, <2>2, <3>1, Zenon DEF Globals, LoadGlobalDefaults, Inner
      <4> QED
        BY <1>1, <4>1, ChainDefault, ChainIsNormal, Zenon
    <3>2. CASE asked.file # Bad
      <4>1. chain = asked.file.fallback_chain
        BY <1>3, <2>1, <3>2, Zenon DEF Inner
      <4>2. g = NormalizeChain(chain)
        BY <2>2, <3>2, <4>1, FieldsOfConfig, Zenon DEF Globals, LoadGlobalDefaults
      <4>3. chain \notin {Unset, Bad} => chain.order \in {Unset, Bad} \/ IsList(chain.order)
        BY <3>2, <4>1, Zenon DEF ConfigAssumption
      <4> QED
        BY <4>2, <4>3, ChainsAreNormal, Zenon
    <3> QED
      BY <3>1, <3>2, Zenon
  <2>4. g \notin {Unset, Bad}
    BY <2>3, Zenon DEF ConfigAssumption
  <2>5. NormalizeChain(g).order = OrderOf(g, d) /\ \A n \in DOMAIN g.order : g.order[n] \in Step
    BY <1>1, <2>3, <2>4, ChainIsNormal, Zenon
  <2>6. g.order = OrderSaid
    <3>1. CASE chain \in {Unset, Bad}
      BY <1>1, <1>4, <2>3, <3>1, ChainIsNormal, Zenon
    <3>2. CASE chain \notin {Unset, Bad}
      BY <1>1, <1>4, <2>3, <3>2, ChainIsNormal, Zenon
    <3> QED
      BY <3>1, <3>2
  <2>7. g.order \in {Unset, Bad} => g.order = d.order
    BY <1>4, <2>6, Zenon DEF OrderOf
  <2>8. OrderOf(g, d) = g.order
    BY <2>5, <2>7, Zenon DEF OrderOf
  <2> QED
    BY <2>1, <2>2, <2>5, <2>6, <2>8, Zenon
<1> QED
  BY <1>5, <1>6, Zenon

KeyOf(raw) == IF raw.cache_key_explicit \in {Unset, Bad} THEN "" ELSE raw.cache_key_explicit

\* The key of a configuration and its strategy, normalised.
LEMMA KeyIsNormal ==
    ASSUME NEW raw
    PROVE  /\ NormalizeKey(raw).cache_key_explicit = KeyOf(raw)
           /\ NormalizeKey(raw).cache_key_strategy =
                IF KeyOf(raw) = "" THEN "auto" ELSE Field(raw, "cache_key_strategy", "auto")
           /\ raw \notin {Unset, Bad} => KeyIn(raw) = KeyOf(raw)
<1>1. raw \notin {Unset, Bad} => KeyIn(raw) = KeyOf(raw)
  BY Zenon DEF KeyIn, KeyOf
<1>2. PICK k, s : /\ k = KeyOf(raw)
                  /\ s = IF k = "" THEN "auto" ELSE Field(raw, "cache_key_strategy", "auto")
  OBVIOUS
<1>3. FallbackDefaults.cache_key_strategy = "auto"
  BY DefaultsAre, Zenon
<1>4. NormalizeKey(raw) = [cache_key_strategy |-> s, cache_key_explicit |-> k]
  BY <1>2, <1>3, Zenon DEF NormalizeKey, KeyOf
<1>5. NormalizeKey(raw).cache_key_explicit = k /\ NormalizeKey(raw).cache_key_strategy = s
  <2>1. \A x, y : /\ [cache_key_strategy |-> x, cache_key_explicit |-> y].cache_key_explicit = y
                  /\ [cache_key_strategy |-> x, cache_key_explicit |-> y].cache_key_strategy = x
    BY SMT
  <2> QED
    BY <1>4, <2>1, Zenon
<1> QED
  BY <1>1, <1>2, <1>5, Zenon

\* The same of what the file makes.
LEMMA KeyOfGlobals ==
    ASSUME ConfigAssumption, asked \in Inputs
    PROVE  /\ Globals.cache_key_explicit = KeyIn(asked.file)
           /\ Globals.cache_key_strategy =
                IF KeyIn(asked.file) = "" THEN "auto"
                ELSE By(asked.file, "cache_key_strategy", "auto")
<1>1. asked.file # Unset
  BY Zenon DEF ConfigAssumption
<1>2. CASE asked.file = Bad
  <2>1. Globals = FallbackDefaults /\ KeyIn(asked.file) = ""
    BY <1>2, Zenon DEF Globals, LoadGlobalDefaults, KeyIn
  <2> QED
    BY <2>1, DefaultsAre, Zenon
<1>3. CASE asked.file # Bad
  <2>1. Globals = NormalizeConfig(asked.file) /\ asked.file \notin {Unset, Bad}
    BY <1>1, <1>3, Zenon DEF Globals, LoadGlobalDefaults
  <2>2. By(asked.file, "cache_key_strategy", "auto") = Field(asked.file, "cache_key_strategy", "auto")
    BY <2>1, Zenon DEF By
  <2> QED
    BY <2>1, <2>2, FieldsOfConfig, KeyIsNormal, Zenon
<1> QED
  BY <1>2, <1>3, Zenon

\* Normalised twice, the key is who has the say's, and the strategy auto where one is missing.
LEMMA KeyIsSaid ==
    ASSUME ConfigAssumption, asked \in Inputs
    PROVE  /\ NormalizeKey(Joined).cache_key_explicit = KeySaid
           /\ NormalizeKey(Joined).cache_key_strategy =
                IF KeySaid = "" \/ (~CallerSays("cache_key_strategy") /\ KeyIn(asked.file) = "")
                THEN "auto" ELSE Said("cache_key_strategy")
<1>1. "cache_key_strategy" \in ConfigFields /\ "cache_key_explicit" \in ConfigFields
  BY Zenon DEF ConfigFields
<1>2. PICK f : f = "cache_key_strategy"
  OBVIOUS
<1>3. FallbackDefaults[f] = "auto" /\ "auto" \in Legal[f]
  BY <1>2, DefaultsAre, LegalIs
<1>4. KeyOf(Joined) = KeySaid
  <2>1. CASE CallerSays("cache_key_explicit")
    <3>1. Joined.cache_key_explicit = asked.perCall.cache_key_explicit
          /\ KeySaid = KeyIn(asked.perCall) /\ asked.perCall \notin {Unset, Bad}
      BY <1>1, <2>1, JoinedFields, Zenon DEF KeySaid, Source, CallerSays
    <3> QED
      BY <3>1, KeyIsNormal, Zenon DEF KeyOf
  <2>2. CASE ~CallerSays("cache_key_explicit")
    <3>1. Joined.cache_key_explicit = KeyIn(asked.file) /\ KeySaid = KeyIn(asked.file)
      BY <1>1, <2>2, JoinedFields, KeyOfGlobals, Zenon DEF KeySaid, Source
    <3>2. KeyIn(asked.file) \in {Unset, Bad} => KeyIn(asked.file) = ""
      BY Zenon DEF KeyIn
    <3> QED
      BY <3>1, <3>2, Zenon DEF KeyOf
  <2> QED
    BY <2>1, <2>2
<1>5. Field(Joined, f, "auto") =
        IF ~CallerSays(f) /\ KeyIn(asked.file) = "" THEN "auto" ELSE Said(f)
  <2>1. CASE CallerSays(f)
    <3>1. Joined[f] = asked.perCall[f] /\ Said(f) = Field(asked.perCall, f, "auto")
      BY <1>1, <1>2, <1>3, <2>1, JoinedFields, Zenon DEF Said, By, Source, CallerSays
    <3> QED
      BY <2>1, <3>1, Zenon DEF Field
  <2>2. CASE ~CallerSays(f)
    <3>1. Said(f) = By(asked.file, f, "auto") /\ Joined[f] = Globals[f]
      BY <1>1, <1>2, <1>3, <2>2, JoinedFields, Zenon DEF Said, Source
    <3>2. Said(f) \in Legal[f]
      BY <1>3, <3>1, FieldIsLegal, Zenon DEF By
    <3>3. Joined[f] = IF KeyIn(asked.file) = "" THEN "auto" ELSE Said(f)
      BY <1>2, <3>1, KeyOfGlobals, Zenon
    <3> QED
      BY <1>3, <2>2, <3>2, <3>3, Zenon DEF Field
  <2> QED
    BY <2>1, <2>2
<1> QED
  BY <1>2, <1>4, <1>5, KeyIsNormal, Zenon

\* What the environment leaves alone, and what it replaces.
Overridden(e, c, fd, timeout, retries) ==
    /\ e.timeout_ms = timeout /\ e.retries = retries /\ e.forced_degraded = fd
    /\ e.backoff = c.backoff /\ e.fallback_chain = c.fallback_chain
    /\ e.cache_key_strategy = c.cache_key_strategy /\ e.cache_key_explicit = c.cache_key_explicit

LEMMA EnvironmentWins ==
    ASSUME NEW c, DOMAIN c = ConfigFields, NEW env
    PROVE  Overridden(ApplyEnvOverrides(c, env), c, c.forced_degraded \/ env.forced = "1",
                      IF env.timeout_ms \in Legal.timeout_ms THEN env.timeout_ms ELSE c.timeout_ms,
                      IF env.retries \in Legal.retries THEN env.retries ELSE c.retries)
<1>1. \A x, y, z : Overridden([c EXCEPT !.forced_degraded = x, !.timeout_ms = y, !.retries = z], c, x, y, z)
  BY SMT DEF ConfigFields, Overridden
<1> QED
  BY <1>1, Zenon DEF ApplyEnvOverrides

\* Powers of a natural number.
IsPower(factor, n, p) == p = [k \in 0..n |-> IF k = 0 THEN 1 ELSE factor * p[k - 1]]

LEMMA PowerIsNat ==
    ASSUME NEW factor \in Nat, NEW n \in Nat, NEW p, IsPower(factor, n, p)
    PROVE  \A k \in 0..n : p[k] \in Nat
<1> DEFINE A == {k \in Nat : k <= n => p[k] \in Nat}
<1>1. \A k \in 0..n : p[k] = IF k = 0 THEN 1 ELSE factor * p[k - 1]
  BY DEF IsPower
<1>2. 0 \in A
  BY <1>1
<1>3. ASSUME NEW k \in Nat, k \in A PROVE k + 1 \in A
  <2> SUFFICES ASSUME k + 1 <= n PROVE p[k + 1] \in Nat
    OBVIOUS
  <2>1. k + 1 \in 0..n /\ k + 1 # 0 /\ (k + 1) - 1 = k /\ p[k] \in Nat
    BY <1>3
  <2>2. p[k + 1] = factor * p[k]
    BY <1>1, <2>1
  <2> QED
    BY <2>1, <2>2
<1> HIDE DEF A
<1>4. A = Nat
  BY <1>2, <1>3, Counting DEF A
<1> QED
  BY <1>4 DEF A

\* Two such functions agree where both are defined.
LEMMA PowersAgree ==
    ASSUME NEW factor \in Nat, NEW n \in Nat, NEW p, NEW q, IsPower(factor, n, p), IsPower(factor, n + 1, q)
    PROVE  \A k \in 0..n : p[k] = q[k]
<1> DEFINE A == {k \in Nat : k <= n => p[k] = q[k]}
<1>1. \A k \in 0..n : /\ p[k] = IF k = 0 THEN 1 ELSE factor * p[k - 1]
                      /\ q[k] = IF k = 0 THEN 1 ELSE factor * q[k - 1]
  BY DEF IsPower
<1>2. 0 \in A
  BY <1>1
<1>3. ASSUME NEW k \in Nat, k \in A PROVE k + 1 \in A
  <2> SUFFICES ASSUME k + 1 <= n PROVE p[k + 1] = q[k + 1]
    OBVIOUS
  <2>1. k + 1 \in 0..n /\ k + 1 # 0 /\ (k + 1) - 1 = k /\ p[k] = q[k]
    BY <1>3
  <2> QED
    BY <1>1, <2>1
<1> HIDE DEF A
<1>4. A = Nat
  BY <1>2, <1>3, Counting DEF A
<1> QED
  BY <1>4 DEF A

LEMMA PowersAre ==
    ASSUME NEW factor \in Nat, NEW n \in Nat
    PROVE  \E p : IsPower(factor, n, p) /\ Power(factor, n) = p[n] /\ \A k \in 0..n : p[k] \in Nat
<1> DEFINE G == [k \in 1..n |-> [x \in Nat |-> factor * x]]
<1>1. \A k \in 1..n, x \in Nat : G[k][x] = factor * x /\ G[k][x] \in Nat
  OBVIOUS
<1> HIDE DEF G
<1>2. IsRule(G, n, Nat)
  BY <1>1 DEF IsRule
<1>3. PICK f : Computes(G, n, Nat, 1, f)
  BY <1>2, RecursionExists, 1 \in Nat
<1>4. f \in [0..n -> Nat] /\ f[0] = 1 /\ \A k \in 1..n : f[k] = G[k][f[k - 1]]
  BY <1>3 DEF Computes
<1>5. \A k \in 0..n : f[k] = IF k = 0 THEN 1 ELSE factor * f[k - 1]
  <2> SUFFICES ASSUME NEW k \in 0..n, k # 0 PROVE f[k] = factor * f[k - 1]
    BY <1>4
  <2>1. k \in 1..n /\ k - 1 \in 0..n /\ f[k - 1] \in Nat
    BY <1>4
  <2> QED
    BY <1>1, <1>4, <2>1
<1>6. IsPower(factor, n, f)
  BY <1>4, <1>5 DEF IsPower
<1> DEFINE p == CHOOSE h : IsPower(factor, n, h)
<1>7. IsPower(factor, n, p)
  BY <1>6
<1>8. Power(factor, n) = p[n]
  BY DEF Power, IsPower
<1> HIDE DEF p
<1>9. \A k \in 0..n : p[k] \in Nat
  BY <1>7, PowerIsNat
<1> QED
  BY <1>7, <1>8, <1>9

LEMMA PowerStep ==
    ASSUME NEW factor \in Nat, NEW n \in Nat
    PROVE  /\ Power(factor, n) \in Nat
           /\ Power(factor, n + 1) = factor * Power(factor, n)
<1>1. PICK p : IsPower(factor, n, p) /\ Power(factor, n) = p[n] /\ \A k \in 0..n : p[k] \in Nat
  BY PowersAre
<1>2. n + 1 \in Nat
  OBVIOUS
<1>3. PICK q : IsPower(factor, n + 1, q) /\ Power(factor, n + 1) = q[n + 1]
  BY <1>2, PowersAre
<1>4. q[n + 1] = factor * q[n]
  <2>1. n + 1 \in 0..(n + 1) /\ n + 1 # 0 /\ (n + 1) - 1 = n
    OBVIOUS
  <2> QED
    BY <1>3, <2>1 DEF IsPower
<1>5. p[n] = q[n]
  BY <1>1, <1>3, PowersAgree
<1> QED
  BY <1>1, <1>3, <1>4, <1>5

LEMMA TimesGrows ==
    ASSUME NEW a \in Nat, NEW b \in Nat, b >= 1
    PROVE  b * a >= a /\ b * a \in Nat
<1>1. PICK c \in Nat : b = c + 1
  BY b - 1 \in Nat
<1>2. b * a = c * a + a /\ c * a >= 0
  BY <1>1
<1> QED
  BY <1>1, <1>2

\* The delay before it is cut off at the cap.
RawDelay(b, n) ==
    IF b.policy = "exponential" THEN b.base_ms * Power(b.factor, n - 1)
    ELSE IF b.policy = "linear" THEN b.base_ms * n ELSE b.base_ms

\* Up to its cap a delay does not shrink.
LEMMA CappedDelayGrows ==
    ASSUME NEW b \in Backoffs, b.policy # "none", NEW n \in Nat \ {0}
    PROVE  /\ CappedDelay(b, n) \in Int /\ CappedDelay(b, n + 1) \in Int /\ b.max_ms \in Int
           /\ CappedDelay(b, n) <= b.max_ms
           /\ CappedDelay(b, n) <= CappedDelay(b, n + 1)
<1>1. b.policy \in {"exponential", "linear", "fixed"} /\ b.base_ms \in Nat
      /\ b.factor \in Nat /\ b.factor >= 1 /\ b.max_ms \in Int
  <2>1. b.policy \in Legal.policy /\ b.base_ms \in Legal.base_ms /\ b.factor \in Legal.factor
        /\ b.max_ms \in Legal.max_ms
    BY SMT DEF Backoffs
  <2>2. b.policy \in {"exponential", "linear", "fixed", "none"}
    BY <2>1, BackoffValues, Zenon
  <2>3. b.base_ms \in Delays /\ b.factor \in Factors /\ b.max_ms \in Int
    BY <2>1, BackoffValues, Zenon
  <2>4. b.base_ms \in Nat /\ b.factor \in Nat /\ b.factor >= 1 /\ b.max_ms \in Int
    BY <2>3, DelaysAre, Zenon
  <2> QED
    BY <2>2, <2>4, Zenon
<1>2. \A m \in Nat \ {0} :
        CappedDelay(b, m) = IF RawDelay(b, m) <= b.max_ms THEN RawDelay(b, m) ELSE b.max_ms
  <2> TAKE m \in Nat \ {0}
  <2>1. PICK e : e = b.base_ms * Power(b.factor, m - 1)
    OBVIOUS
  <2>2. PICK l : l = b.base_ms * m
    OBVIOUS
  <2>3. [exponential |-> e, linear |-> l, fixed |-> b.base_ms, none |-> 0][b.policy] = RawDelay(b, m)
    BY <1>1, <2>1, <2>2, SMT DEF RawDelay
  <2> QED
    BY <2>1, <2>2, <2>3, Zenon DEF CappedDelay
<1>3. \A m \in Nat : /\ Power(b.factor, m) \in Nat
                    /\ Power(b.factor, m + 1) = b.factor * Power(b.factor, m)
  BY <1>1, PowerStep
<1>4. RawDelay(b, n) \in Int /\ RawDelay(b, n + 1) \in Int /\ RawDelay(b, n) <= RawDelay(b, n + 1)
  <2>1. CASE b.policy = "exponential"
    <3>1. n - 1 \in Nat /\ (n - 1) + 1 = n /\ (n + 1) - 1 = n
      OBVIOUS
    <3>2. PICK p \in Nat : p = Power(b.factor, n - 1) /\ Power(b.factor, n) = b.factor * p
      BY <1>3, <3>1
    <3>3. RawDelay(b, n) = b.base_ms * p /\ RawDelay(b, n + 1) = b.base_ms * (b.factor * p)
      BY <2>1, <3>1, <3>2 DEF RawDelay
    <3>4. b.base_ms * p \in Nat
      BY <1>1, <3>2
    <3>5. b.base_ms * (b.factor * p) = b.factor * (b.base_ms * p)
      BY <1>1, <3>2
    <3> QED
      BY <1>1, <3>3, <3>4, <3>5, TimesGrows
  <2>2. CASE b.policy # "exponential"
    <3>1. b.base_ms * n \in Nat /\ b.base_ms * (n + 1) = b.base_ms * n + b.base_ms
      BY <1>1
    <3> QED
      BY <1>1, <2>2, <3>1 DEF RawDelay
  <2> QED
    BY <2>1, <2>2
<1>5. n + 1 \in Nat \ {0}
  OBVIOUS
<1> QED
  BY <1>1, <1>2, <1>4, <1>5

\* The jitter's bounds grow with the delay, and stay within a quarter of it.
LEMMA JitterGrows ==
    ASSUME NEW m \in Int, NEW k \in Int, m <= k
    PROVE  /\ 0 <= Jittered(m).least /\ Jittered(m).least <= Jittered(m).most
           /\ Jittered(m).most = 0 \/ 4 * Jittered(m).most <= 5 * m + 2
           /\ Jittered(m).least <= Jittered(k).least /\ Jittered(m).most <= Jittered(k).most
BY DEF Jittered

\* The bounds of the delays before two retries on end.
LEMMA DelayBounds ==
    ASSUME NEW b \in Backoffs, b.policy # "none", NEW n \in Nat \ {0}
    PROVE  /\ BackoffDelay(b, n).least <= BackoffDelay(b, n).most
           /\ IF b.jitter
              THEN /\ 0 <= BackoffDelay(b, n).least
                   /\ BackoffDelay(b, n).most = 0 \/ 4 * BackoffDelay(b, n).most <= 5 * b.max_ms + 2
              ELSE BackoffDelay(b, n).most <= b.max_ms
           /\ BackoffDelay(b, n).least <= BackoffDelay(b, n + 1).least
           /\ BackoffDelay(b, n).most <= BackoffDelay(b, n + 1).most
<1>1. PICK m, k, max \in Int : /\ m = CappedDelay(b, n) /\ k = CappedDelay(b, n + 1) /\ max = b.max_ms
                               /\ m <= max /\ m <= k
  BY CappedDelayGrows, Zenon
<1>2. CASE b.jitter
  <2>1. BackoffDelay(b, n) = Jittered(m) /\ BackoffDelay(b, n + 1) = Jittered(k)
    BY <1>1, <1>2, Zenon DEF BackoffDelay
  <2>2. PICK d : d = Jittered(m)
    OBVIOUS
  <2>3. 0 <= d.least /\ d.least <= d.most /\ (d.most = 0 \/ 4 * d.most <= 5 * max + 2)
    BY <1>1, <2>2 DEF Jittered
  <2> QED
    BY <1>1, <1>2, <2>1, <2>2, <2>3, JitterGrows, Zenon
<1>3. CASE ~b.jitter
  <2>1. BackoffDelay(b, n) = [least |-> m, most |-> m] /\ BackoffDelay(b, n + 1) = [least |-> k, most |-> k]
    BY <1>1, <1>3, Zenon DEF BackoffDelay
  <2>2. BackoffDelay(b, n).least = m /\ BackoffDelay(b, n).most = m
        /\ BackoffDelay(b, n + 1).least = k /\ BackoffDelay(b, n + 1).most = k
    BY <2>1, SMT
  <2>3. m <= m
    OBVIOUS
  <2> QED
    BY <1>1, <1>3, <2>2, <2>3, Zenon
<1> QED
  BY <1>2, <1>3, Zenon

\* The parts of the configuration in effect.
LEMMA EffectiveParts ==
    ASSUME ConfigAssumption, asked \in Inputs
    PROVE  /\ \A f \in {"timeout_ms", "retries"} :
                Effective[f] = IF asked.env[f] \in Legal[f] THEN asked.env[f] ELSE Said(f)
           /\ Effective.forced_degraded = (Said("forced_degraded") \/ asked.env.forced = "1")
           /\ Effective.backoff = NormalizeBackoff(Joined.backoff)
           /\ Effective.fallback_chain = NormalizeChain(Joined.fallback_chain)
           /\ Effective.cache_key_strategy = NormalizeKey(Joined).cache_key_strategy
           /\ Effective.cache_key_explicit = NormalizeKey(Joined).cache_key_explicit
<1>1. PICK c : c = NormalizeConfig(Joined)
  OBVIOUS
<1>2. Effective = ApplyEnvOverrides(c, asked.env)
  BY <1>1, Zenon DEF Effective, ResolveConfig, Joined, Globals
<1>3. DOMAIN c = ConfigFields
  BY <1>1, FieldsOfConfig, Zenon
<1>4. \A f \in Scalars : c[f] = Said(f)
  <2> TAKE f \in Scalars
  <2>1. c[f] = Field(Joined, f, FallbackDefaults[f])
    BY <1>1, FieldsOfConfig, Zenon
  <2> QED
    BY <2>1, ScalarsAreSaid, Zenon
<1>5. c.timeout_ms = Said("timeout_ms") /\ c.retries = Said("retries")
      /\ c.forced_degraded = Said("forced_degraded")
  BY <1>4, Zenon DEF Scalars
<1>6. Overridden(Effective, c, c.forced_degraded \/ asked.env.forced = "1",
                 IF asked.env.timeout_ms \in Legal.timeout_ms THEN asked.env.timeout_ms ELSE c.timeout_ms,
                 IF asked.env.retries \in Legal.retries THEN asked.env.retries ELSE c.retries)
  BY <1>2, <1>3, EnvironmentWins, Zenon
<1>7. Effective.timeout_ms = IF asked.env.timeout_ms \in Legal.timeout_ms THEN asked.env.timeout_ms
                             ELSE Said("timeout_ms")
  BY <1>5, <1>6, Zenon DEF Overridden
<1>8. Effective.retries = IF asked.env.retries \in Legal.retries THEN asked.env.retries ELSE Said("retries")
  BY <1>5, <1>6, Zenon DEF Overridden
<1>9. Effective.forced_degraded = (Said("forced_degraded") \/ asked.env.forced = "1")
  BY <1>5, <1>6, Zenon DEF Overridden
<1>10. /\ Effective.backoff = c.backoff /\ Effective.fallback_chain = c.fallback_chain
       /\ Effective.cache_key_strategy = c.cache_key_strategy
       /\ Effective.cache_key_explicit = c.cache_key_explicit
  BY <1>6, Zenon DEF Overridden
<1>11. /\ c.backoff = NormalizeBackoff(Joined.backoff)
       /\ c.fallback_chain = NormalizeChain(Joined.fallback_chain)
       /\ c.cache_key_strategy = NormalizeKey(Joined).cache_key_strategy
       /\ c.cache_key_explicit = NormalizeKey(Joined).cache_key_explicit
  BY <1>1, FieldsOfConfig, Zenon
<1> QED
  BY <1>7, <1>8, <1>9, <1>10, <1>11, Zenon

LEMMA Resolved ==
    ASSUME asked \in Inputs
    PROVE  ResolvesByPrecedence
<1>0. ConfigAssumption
  BY ConfigAssumption
<1>1. PICK got : got = Effective
  OBVIOUS
<1>2. PICK b, c : b = NormalizeBackoff(Joined.backoff) /\ c = NormalizeChain(Joined.fallback_chain)
  OBVIOUS
<1>3. got.backoff = b /\ got.fallback_chain = c
  BY <1>0, <1>1, <1>2, EffectiveParts, Zenon
<1>4. \A f \in {"timeout_ms", "retries"} :
        got[f] = IF asked.env[f] \in Legal[f] THEN asked.env[f] ELSE Said(f)
  BY <1>0, <1>1, EffectiveParts, Zenon
<1>5. got.forced_degraded = (asked.env.forced = "1" \/ Said("forced_degraded"))
  <2>1. \A x, y : (x \/ y) = (y \/ x)
    BY SMT
  <2> QED
    BY <1>0, <1>1, <2>1, EffectiveParts, Zenon
<1>6. \A f \in DOMAIN FallbackDefaults.backoff : b[f] = Nested("backoff", f)
  BY <1>0, <1>2, BackoffIsSaid, Zenon
<1>7. \A f \in DOMAIN FallbackDefaults.fallback_chain :
        c[f] = IF f = "order" THEN OrderSaid ELSE Nested("fallback_chain", f)
  BY <1>0, <1>2, ChainIsSaid, OrderIsSaid, Zenon
<1>8. FieldsByPrecedence
  BY <1>1, <1>3, <1>4, <1>5, <1>6, <1>7, Zenon DEF FieldsByPrecedence
<1>9. KeyByPrecedence
  BY <1>0, EffectiveParts, KeyIsSaid, Zenon DEF KeyByPrecedence
<1>10. DelaysKeepToTheirCap
  <2> SUFFICES ASSUME b.policy # "none", NEW n \in 1 .. 5
               PROVE  /\ BackoffDelay(b, n).least <= BackoffDelay(b, n).most
                      /\ IF b.jitter
                         THEN /\ 0 <= BackoffDelay(b, n).least
                              /\ \/ BackoffDelay(b, n).most = 0
                                 \/ 4 * BackoffDelay(b, n).most <= 5 * b.max_ms + 2
                         ELSE BackoffDelay(b, n).most <= b.max_ms
                      /\ n > 1 => /\ BackoffDelay(b, n - 1).least <= BackoffDelay(b, n).least
                                  /\ BackoffDelay(b, n - 1).most <= BackoffDelay(b, n).most
    BY <1>1, <1>3, Zenon DEF DelaysKeepToTheirCap
  <2>1. b \in Backoffs
    BY <1>2, BackoffIsNormal, Zenon
  <2>2. n \in Nat \ {0}
    OBVIOUS
  <2>3. ASSUME n > 1
        PROVE  /\ BackoffDelay(b, n - 1).least <= BackoffDelay(b, n).least
               /\ BackoffDelay(b, n - 1).most <= BackoffDelay(b, n).most
    <3>1. PICK m \in Nat \ {0} : m = n - 1 /\ m + 1 = n
      BY <2>3
    <3> QED
      BY <2>1, <3>1, DelayBounds, Zenon
  <2> QED
    BY <2>1, <2>2, <2>3, DelayBounds, Zenon
<1> QED
  BY <1>8, <1>9, <1>10, Zenon DEF ResolvesByPrecedence

\* Whatever the defaults file, the caller and the environment hold, the configuration of a
\* wrapper is resolved field by field as its documentation says, with the checked-in default
\* for what is illegal, a key where one is needed, and delays that keep to their cap but for the
\* jitter (config.ts: resolveConfig(); wrapper.ts: computeBackoffDelayMs()).
THEOREM KnobsResolve == ConfigSpec => []ResolvesByPrecedence
<1>1. ConfigInit => asked \in Inputs
  BY DEF ConfigInit
<1>2. asked \in Inputs /\ [FALSE]_asked => (asked \in Inputs)'
  OBVIOUS
<1>3. asked \in Inputs => ResolvesByPrecedence
  BY Resolved
<1> QED
  BY <1>1, <1>2, <1>3, PTL DEF ConfigSpec
=============================================================================
