------------------------------- MODULE QaSheet --------------------------------
(***************************************************************************)
(* src/ideation/faqdef: the sheet of judge questions in docs/qa.  generate *)
(* makes it of a model's answer, in two files one after the other, or      *)
(* leaves a checklist; rehearse asks some of its questions, each under a   *)
(* countdown, and lets a judge score the answers.  An entry is             *)
(* [id, tags, figures, grounding]; what counts of an answer is the figures *)
(* it names.                                                               *)
(***************************************************************************)
EXTENDS Selection, FiniteSets

CONSTANTS
    Answers,        \* what the model answers: sequences of entries, or one of the next three
    Unavailable,    \* the wrapper degraded
    NoQuestions,    \* no JSON, or no questions in it
    Malformed,      \* entries without the fields the program reads, or against the schema
    Tag, Figure,    \* what a question may be tagged with, and an answer name
    AXES,           \* the tags that are judging axes, in order
    Known,          \* figures the plan, the manifest or the disclosure names
    MinEntries, MaxEntries, Floor, \* 5, 30 and 2
    None,
    MaxGenerations, MaxSessions \* bounds: commands started

Axis == {AXES[i] : i \in DOMAIN AXES}

\* A question with its answer.
SheetEntry == [id : Nat, tags : Seq(Tag), figures : SUBSET Figure,
               grounding : {"grounded", "partial", "not_stated"}]

ASSUME QaAssumption ==
    /\ \A a \in Answers \ {Unavailable, NoQuestions, Malformed} : a \in Seq(SheetEntry)
    /\ AXES \in Seq(Tag) /\ AXES # <<>>
    /\ MinEntries \in Nat /\ MaxEntries \in Nat /\ MinEntries <= MaxEntries /\ Floor \in Nat

VARIABLES
    json, md, checklist,    \* the files: a sequence of entries, or None
    gen,                    \* the generation under way: its entries, the axis it looks at
    session,                \* the rehearsal under way: its questions, the current one ...
    log,                    \* rehearsal.log
    submitted,              \* history: what was typed and what was submitted, last
    generations, sessions

qaVars == <<json, md, checklist, gen, session, log, submitted, generations, sessions>>

QaInit ==
    /\ json = None /\ md = None /\ checklist = FALSE
    /\ gen = None
    /\ session = None
    /\ log = None
    /\ submitted = [typed |-> FALSE, answer |-> FALSE]
    /\ generations = 0 /\ sessions = 0

-----------------------------------------------------------------------------
\* generateFaqdefSheet()

Placeholder(n) ==
    [id |-> n, tags |-> <<AXES[1]>>, figures |-> {}, grounding |-> "not_stated"]

\* At most MaxEntries; fewer than MinEntries are filled up with placeholders.
Clamped(entries) ==
    LET head == SubSeq(entries, 1, IF Len(entries) > MaxEntries THEN MaxEntries ELSE Len(entries))
        size == IF Len(head) < MinEntries THEN MinEntries ELSE Len(head)
    IN [i \in 1..size |-> IF i <= Len(head) THEN head[i] ELSE Placeholder(i)]

\* Variant: the answer is marked and kept.
GroundedInPlace(entry) ==
    IF entry.figures \subseteq Known THEN entry ELSE [entry EXCEPT !.grounding = "partial"]

\* validateGrounding(): an answer with a figure no source names is replaced.
Grounded(entry) ==
    IF entry.figures \subseteq Known THEN entry
    ELSE [entry EXCEPT !.figures = {}, !.grounding = "not_stated"]

\* The command reads its inputs, asks the model and works on its answer.
StartGeneration(answer) ==
    /\ gen = None
    /\ generations' = generations + 1
    /\ CASE answer \in {Unavailable, NoQuestions} -> checklist' = TRUE /\ UNCHANGED gen
         [] answer = Malformed -> UNCHANGED <<checklist, gen>>
         [] OTHER ->
              /\ gen' = [entries |-> [i \in DOMAIN Clamped(answer) |-> Grounded(Clamped(answer)[i])],
                         axis |-> 1, given |-> answer, phase |-> "cover"]
              /\ UNCHANGED checklist
    /\ UNCHANGED <<json, md, session, log, submitted, sessions>>

Tags(entry) == {entry.tags[i] : i \in DOMAIN entry.tags}

Has(entry, tag) == tag \in Tags(entry)

CountOf(entries, tag) == Cardinality({i \in DOMAIN entries : Has(entries[i], tag)})

\* An axis that has more than it needs.
Spare(entries, tag) == tag \in Axis /\ CountOf(entries, tag) > Floor

\* A question with a sponsor's tag and a tag of an axis that can spare it.
IsDonor(entries, i) ==
    /\ ~(Tags(entries[i]) \subseteq Axis)
    /\ \E tag \in Tags(entries[i]) : Spare(entries, tag)

\* Its first such tag gives way to the axis.
Retagged(entry, entries, axis) ==
    LET first == CHOOSE t \in DOMAIN entry.tags :
                   /\ Spare(entries, entry.tags[t])
                   /\ \A u \in 1..(t - 1) : ~Spare(entries, entry.tags[u])
    IN [entry EXCEPT !.tags = Append(Selected(@, Tags(entry) \ {entry.tags[first]}), axis)]

\* enforceAxisCoverage(), one turn of its loop: the first donor gives to an axis below the
\* floor, for as long as there is one.
Retag ==
    /\ gen # None /\ gen.phase = "cover"
    /\ LET axis == AXES[gen.axis]
           donors == {i \in DOMAIN gen.entries : IsDonor(gen.entries, i)}
       IN IF CountOf(gen.entries, axis) < Floor /\ donors # {}
          THEN LET i == CHOOSE d \in donors : \A e \in donors : d <= e
               IN gen' = [gen EXCEPT !.entries[i] = Retagged(@, gen.entries, axis)]
          ELSE gen' = IF gen.axis < Len(AXES) THEN [gen EXCEPT !.axis = @ + 1]
                      ELSE [gen EXCEPT !.phase = "json"]
    /\ UNCHANGED <<json, md, checklist, session, log, submitted, generations, sessions>>

\* The sheet passed its validation: first the machine's file ...
WriteJson ==
    /\ gen # None /\ gen.phase = "json"
    /\ json' = gen.entries
    /\ gen' = [gen EXCEPT !.phase = "md"]
    /\ UNCHANGED <<md, checklist, session, log, submitted, generations, sessions>>

\* ... then the human's.
WriteMd ==
    /\ gen # None /\ gen.phase = "md"
    /\ md' = gen.entries
    /\ gen' = None
    /\ UNCHANGED <<json, checklist, session, log, submitted, generations, sessions>>

\* A write fails, or the process is killed.
GenerationCut ==
    /\ gen # None
    /\ gen' = None
    /\ UNCHANGED <<json, md, checklist, session, log, submitted, generations, sessions>>

-----------------------------------------------------------------------------
\* runRehearsal()

\* sampleQuestions(): `count` of those the axes let through, sorted by id; which ones is
\* drawn.
Samples(entries, count, axes) ==
    LET pool == {i \in DOMAIN entries : axes = {} \/ \E a \in axes : Has(entries[i], a)}
        size == IF count < Cardinality(pool) THEN count ELSE Cardinality(pool)
    IN {drawn \in [1..size -> pool] :
          \A j, k \in 1..size : j < k =>
            drawn[j] # drawn[k] /\ entries[drawn[j]].id <= entries[drawn[k]].id}

\* A session over one of the two files; without a question for the axes it ends at once.
StartSession(file, count, axes, logging) ==
    /\ session = None /\ file # None
    /\ sessions' = sessions + 1
    /\ \E picked \in Samples(file, count, axes) :
         session' = IF picked = <<>> THEN None
                    ELSE [ids |-> [k \in DOMAIN picked |-> file[picked[k]].id], logging |-> logging,
                          at |-> 1, typed |-> FALSE, asked |-> TRUE, lines |-> <<>>]
    /\ UNCHANGED <<json, md, checklist, gen, log, submitted, generations>>

\* The participant types before the budget is over.
Type ==
    /\ session # None /\ session.asked /\ ~session.typed
    /\ session' = [session EXCEPT !.typed = TRUE]
    /\ UNCHANGED <<json, md, checklist, gen, log, submitted, generations, sessions>>

\* finish(): the first of the line and the timer settles the question.
Settle(answer) ==
    /\ session' = [session EXCEPT !.asked = FALSE]
    /\ submitted' = [typed |-> session.typed, answer |-> answer]
    /\ UNCHANGED <<json, md, checklist, gen, log, generations, sessions>>

\* Enter.
SubmitLine == session # None /\ session.asked /\ Settle(session.typed)

\* The timer submits `buffer`, which nothing ever fills.
Expire == session # None /\ session.asked /\ Settle(FALSE)

\* Ctrl+C at a question ends the process.
Interrupt ==
    /\ session # None /\ session.asked
    /\ session' = None
    /\ UNCHANGED <<json, md, checklist, gen, log, submitted, generations, sessions>>

\* Variant: the log is written question by question.
JudgedLogging(line) ==
    LET lines == Append(session.lines, [id |-> session.ids[session.at], score |-> line])
        over == session.at = Len(session.ids)
    IN /\ session' = IF over THEN None
                     ELSE [session EXCEPT !.lines = lines, !.at = @ + 1, !.asked = TRUE, !.typed = FALSE]
       /\ log' = lines

\* The judge's feedback, with or without a score, and the next question, or the end with
\* the log if one was asked for.
Judged(line) ==
    LET lines == Append(session.lines, [id |-> session.ids[session.at], score |-> line])
        over == session.at = Len(session.ids)
    IN /\ session' = IF over THEN None
                     ELSE [session EXCEPT !.lines = lines, !.at = @ + 1, !.asked = TRUE, !.typed = FALSE]
       /\ \/ log' = IF over /\ session.logging THEN lines ELSE log
          \/ over /\ log' = log     \* writing it fails: best effort

\* The wrapped call answers, or degrades and ends the session.
JudgeAnswers ==
    /\ session # None /\ ~session.asked
    /\ \/ \E line \in {"score", "none"} : Judged(line)
       \/ session' = None /\ UNCHANGED log
    /\ UNCHANGED <<json, md, checklist, gen, submitted, generations, sessions>>

QaNext ==
    \/ generations < MaxGenerations /\ \E a \in Answers : StartGeneration(a)
    \/ Retag \/ WriteJson \/ WriteMd \/ GenerationCut
    \/ sessions < MaxSessions
       /\ \E file \in {json, md}, axes \in {{}, {AXES[2]}}, count \in 1..2, logging \in BOOLEAN :
            StartSession(file, count, axes, logging)
    \/ Type \/ SubmitLine \/ Expire \/ Interrupt \/ JudgeAnswers

QaSpec == QaInit /\ [][QaNext]_qaVars

-----------------------------------------------------------------------------

\* A sheet on disk, in either form, after any number of generations that succeeded, failed
\* or were cut: it has its size, no answer names a figure no source names, and an axis is
\* below its floor only if no question with a sponsor's tag could be spared.
SheetIsSound ==
    \A sheet \in {json, md} : sheet # None =>
        /\ Len(sheet) \in MinEntries..MaxEntries
        /\ \A i \in DOMAIN sheet : sheet[i].figures \subseteq Known
        /\ \A a \in Axis : CountOf(sheet, a) < Floor => \A i \in DOMAIN sheet : ~IsDonor(sheet, i)

\* "persists NOTHING unless --log is passed": the log changes only when a session that was
\* to be logged came to its end, and then has a line for each of its questions, in order.
LogTellsTheSession ==
    [][log' # log =>
         /\ session # None /\ session.logging /\ session' = None
         /\ [k \in DOMAIN log' |-> log'[k].id] = session.ids]_qaVars
=============================================================================
