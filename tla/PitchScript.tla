----------------------------- MODULE PitchScript ------------------------------
(****************************************************************************)
(* src/ideation/script: script.md, the timed script of the pitch video.     *)
(* The timing comes from a file in a subset of YAML, the spoken text from a *)
(* model or, without one, from the plan, and what is shown from the         *)
(* assembly manifest.  The default command writes a stub with the times     *)
(* only; generateScript() writes the draft.  The inputs may be edited       *)
(* between runs.  Minutes are in hundredths, times in seconds, and of a     *)
(* spoken text the figures and the cues it has are kept: what stands before *)
(* its first cue, and what stands behind it.                                *)
(****************************************************************************)
EXTENDS Selection

CONSTANTS
    TimingFiles,    \* sequences of lines, see Parsed
    Plans,          \* [tam, revenue, ai]: the figures in the fields of Business Value, or Undefined
    PartOf,         \* pairs of figures, the first a part of how the second is written: 2B of 12B
    Manifests,      \* whether the manifest is there and includes the UI
    Profiles,       \* the event's limit of minutes, or Undefined
    Screens,        \* the catalog: a sequence of screen ids
    Drafts,         \* what the model answers: sequences of [id, says], see Says
    Degraded,       \* or the call fails
    Undefined, NoScript,
    MaxScriptRuns   \* bound: runs of the tool

ASSUME ScriptAssumption ==
    /\ \A lines \in TimingFiles : Len(lines) \in Nat /\ DOMAIN lines = 1..Len(lines)
    /\ Manifests \subseteq BOOLEAN
    /\ Len(Screens) \in Nat /\ DOMAIN Screens = 1..Len(Screens)
    /\ NoScript \notin [mark : BOOLEAN, screen : {Screens[k] : k \in DOMAIN Screens} \cup {"TODO", Undefined}]

VARIABLES
    inputs,     \* [timing, plan, ui, profile]
    file,       \* script.md: [kind, at, body], or NoScript
    scriptRuns  \* history, and the clock

scriptVars == <<inputs, file, scriptRuns>>

Inputs == [timing : TimingFiles, plan : Plans, ui : Manifests, profile : Profiles]

ScriptInit == inputs \in Inputs /\ file = NoScript /\ scriptRuns = 0

-----------------------------------------------------------------------------
\* The timing file.  A line is a pair "key: value", a list header "key:", an item in flow
\* style "- { ... }", the first line of one in block style "- key: value", a further,
\* indented line of it, or anything else.

ItemLine == {"flow", "block"}

LastPlace(S) == CHOOSE k \in S : \A j \in S : j <= k

\* The lines up to k that begin an item.
Begun(lines, k) == {j \in 1..k : lines[j].is \in ItemLine}

\* parseTimingYaml() throws: at a line it cannot read, an item before any list, or an
\* indented line that continues no item in block style.
Unreadable(lines) ==
    \E k \in DOMAIN lines :
        \/ lines[k].is = "junk"
        \/ lines[k].is \in ItemLine /\ \A j \in 1..k : lines[j].is # "list"
        \/ lines[k].is = "more" /\ (Begun(lines, k) = {} \/ lines[LastPlace(Begun(lines, k))].is = "flow")

\* materializeItem(): of the item that begins at a line, the last value of every key.
ItemAt(lines, start) ==
    LET own == {k \in DOMAIN lines : /\ lines[k].is \in ItemLine \cup {"more"}
                                    /\ start \in Begun(lines, k) /\ start = LastPlace(Begun(lines, k))}
    IN  [key \in UNION {DOMAIN lines[k].pairs : k \in own} |->
           lines[LastPlace({k \in own : key \in DOMAIN lines[k].pairs})].pairs[key]]

\* parseTimingYaml(): a key given again counts as given last; every item goes under the
\* last list key.
Parsed(lines) ==
    LET starts == Selected([k \in DOMAIN lines |-> k], {k \in DOMAIN lines : lines[k].is \in ItemLine})
        totals == {k \in DOMAIN lines : lines[k].is = "pair" /\ lines[k].key = "total_minutes"}
        lists == {k \in DOMAIN lines : lines[k].is = "list"}
    IN  [total |-> IF totals = {} THEN Undefined ELSE lines[LastPlace(totals)].value,
         list |-> IF lists = {} THEN Undefined ELSE lines[LastPlace(lists)].key,
         items |-> [i \in 1..Len(starts) |-> ItemAt(lines, starts[i])]]

Fields == {"id", "minutes"}

\* What the schema asks of the document: sections, each with an id and 0.1 to 10 minutes,
\* and a total that is a number if it is there.
AgainstSchema(doc) ==
    \/ doc.list # "sections" \/ Len(doc.items) = 0
    \/ \E i \in DOMAIN doc.items :
         ~(Fields \subseteq DOMAIN doc.items[i]) \/ doc.items[i].minutes \notin 10..1000
    \/ doc.total \notin Int \cup {Undefined}

\* round1(), of hundredths.
Round1(minutes) == ((minutes + 5) \div 10) * 10

\* The minutes at the end of each section, and at the beginning.
Boundaries(sections) ==
    LET upTo[i \in 0..Len(sections)] == IF i = 0 THEN 0 ELSE upTo[i - 1] + sections[i].minutes
    IN  upTo

SumOf(sections) == Boundaries(sections)[Len(sections)]

Section(pairs) ==
    [id |-> pairs.id, minutes |-> pairs.minutes, live |-> "live" \in DOMAIN pairs /\ pairs.live = TRUE]

\* loadTiming(), validateTiming(): a stated total is the sum, or nothing is generated.
Timing(lines) ==
    LET doc == Parsed(lines)
        sections == [i \in DOMAIN doc.items |-> Section(doc.items[i])]
    IN IF Unreadable(lines) \/ AgainstSchema(doc) THEN NoScript
       ELSE IF doc.total # Undefined /\ Round1(SumOf(sections)) - doc.total \notin -1..1 THEN NoScript
       ELSE [total |-> doc.total, sections |-> sections]

\* formatMMSS(minutes * 60), as seconds.
Seconds(minutes) == (minutes * 6 + 5) \div 10

\* Variant: the length of each section is rounded, and they are added.
WindowsDrifting(sections) ==
    LET end[i \in 0..Len(sections)] ==
          IF i = 0 THEN 0 ELSE end[i - 1] + Seconds(sections[i].minutes)
    IN [i \in DOMAIN sections |->
          [id |-> sections[i].id, live |-> sections[i].live, start |-> end[i - 1], end |-> end[i]]]

\* computeWindows(): each boundary is rounded by itself.
Windows(sections) ==
    LET boundary == Boundaries(sections)
    IN [i \in DOMAIN sections |->
          [id |-> sections[i].id, live |-> sections[i].live,
           start |-> Seconds(boundary[i - 1]), end |-> Seconds(boundary[i])]]

\* resolveTotalMinutes() and where it comes from.
Total(timing, profile) ==
    IF timing.total # Undefined THEN timing.total ELSE IF profile # Undefined THEN profile ELSE 300

Source(timing, profile) ==
    IF timing.total # Undefined THEN "timing" ELSE IF profile # Undefined THEN "profile" ELSE "fallback"

-----------------------------------------------------------------------------
\* The rows of the draft.

IsValue(id) == id = "business-value"

Nothing == [figures |-> {}, cues |-> {}]

\* A text: whether it begins as a TODO, the figures before its first cue, that cue, and what
\* stands behind it.
Says(todo, figures, cue, behind) == [todo |-> todo, figures |-> figures, cue |-> cue, behind |-> behind]
TodoCell == Says(TRUE, {}, Undefined, Nothing)

Named(cell) == cell.figures \cup cell.behind.figures

FieldFigures(field) == IF field = Undefined THEN {} ELSE field

FirstPlace(S) == CHOOSE k \in S : \A j \in S : k <= j

\* parseSpokenDraft(): the first line for an id counts.
Spoken(draft, id) ==
    LET lines == {k \in DOMAIN draft : draft[k].id = id}
    IN IF lines = {} THEN NoScript ELSE draft[FirstPlace(lines)].says

\* fallbackSpoken(): of the plan's fields, or a TODO.
Fallback(window, plan) ==
    IF IsValue(window.id)
    THEN LET fields == {plan.tam, plan.revenue, plan.ai} \ {Undefined}
         IN IF fields = {} THEN TodoCell ELSE Says(FALSE, UNION fields, Undefined, Nothing)
    ELSE IF window.live \/ window.id = "problem" THEN Says(FALSE, {}, Undefined, Nothing) ELSE TodoCell

\* A figure occurs in a text as one of its figures or as a part of one.
OccursIn(figure, figures) == \E f \in figures : figure = f \/ <<figure, f>> \in PartOf

\* auditSpokenBusinessValue(): the figures that occur neither in the market's field nor in
\* the revenue's.
Invented(figures, plan) ==
    {f \in figures : ~OccursIn(f, FieldFigures(plan.tam)) /\ ~OccursIn(f, FieldFigures(plan.revenue))}

\* Variant: what the plan says needs no audit.
AuditedModelOnly(cell, window, plan) ==
    IF IsValue(window.id) /\ ~cell.todo /\ plan.ai = Undefined /\ Invented(Named(cell), plan) # {}
    THEN TodoCell ELSE cell

\* auditBusinessValueCell(): an invented figure makes the cell a TODO; a cell that begins as
\* one is not looked at, whoever wrote it.
Audited(cell, window, plan) ==
    IF IsValue(window.id) /\ ~cell.todo /\ Invented(Named(cell), plan) # {}
    THEN TodoCell ELSE cell

\* deriveVisualCue(): the mark of the live row, and a screen or a TODO.
Visual(window, i, ui) ==
    [mark |-> window.live,
     screen |-> IF ~ui THEN "TODO"
                ELSE IF window.live THEN Undefined
                ELSE IF Screens = <<>> THEN "TODO" ELSE Screens[((i - 1) % Len(Screens)) + 1]]

\* validateVisualCue()
CueHolds(cue, ui) == cue = "TODO" \/ (ui /\ \E k \in DOMAIN Screens : Screens[k] = cue)

\* enforceVisuals(), a row: its first cue is looked at, and one that does not hold is
\* replaced to the end of the line, with whatever stood behind it.  The cues behind one that
\* holds are not looked at.
Enforced(row, ui) ==
    IF row.spoken.cue # Undefined
    THEN IF CueHolds(row.spoken.cue, ui) THEN row
         ELSE [row EXCEPT !.spoken = Says(row.spoken.todo, row.spoken.figures, "TODO", Nothing),
                          !.visual = NoScript]
    ELSE IF row.visual.screen = Undefined \/ CueHolds(row.visual.screen, ui) THEN row
    ELSE [row EXCEPT !.visual.screen = "TODO"]

\* generateScript(): without a live section the first that is not the problem is made one.
WithLive(windows) ==
    LET others == {i \in DOMAIN windows : windows[i].id # "problem"}
        pick == IF others = {} THEN Len(windows) ELSE FirstPlace(others)
    IN IF \E i \in DOMAIN windows : windows[i].live THEN windows ELSE [windows EXCEPT ![pick].live = TRUE]

Row(window, i, cell, ui) ==
    Enforced([start |-> window.start, end |-> window.end, id |-> window.id,
              spoken |-> cell, visual |-> Visual(window, i, ui)], ui)

\* The draft of a model's answer ...
DraftRows(in, windows, draft) ==
    [i \in DOMAIN windows |->
       LET said == Spoken(draft, windows[i].id)
           cell == IF said = NoScript THEN Fallback(windows[i], in.plan) ELSE said
       IN Row(windows[i], i, Audited(cell, windows[i], in.plan), in.ui)]

\* ... and blankTemplate(), which computes the windows again.
BlankRows(in, timing) ==
    LET windows == Windows(timing.sections)
    IN [i \in DOMAIN windows |-> Row(windows[i], i, TodoCell, in.ui)]

Body(in, timing, rows) ==
    [rows |-> rows, total |-> Total(timing, in.profile), source |-> Source(timing, in.profile),
     plan |-> in.plan, ui |-> in.ui]

-----------------------------------------------------------------------------
\* Writing.

\* Variant: the time of the run is written.
ReconciledNever(text, previous) == text

\* reconcileGeneratedAt(): a text that differs in its time only keeps the old one.
Reconciled(text, previous) ==
    IF previous # NoScript /\ [previous EXCEPT !.at = 0] = [text EXCEPT !.at = 0] THEN previous ELSE text

\* writeFileDiffAware(): all or nothing, by way of a temporary file.
WriteScript(text) == file' \in {file, Reconciled(text, file)}

EditInputs ==
    /\ inputs' \in Inputs
    /\ UNCHANGED <<file, scriptRuns>>

\* renderScriptStub(): the times, and where they come from.
StubText(timing, profile) ==
    [windows |-> Windows(timing.sections), total |-> Total(timing, profile),
     source |-> Source(timing, profile)]

\* script generate: the stub, unless the timing does not load.
Stub ==
    /\ scriptRuns' = scriptRuns + 1
    /\ LET timing == Timing(inputs.timing)
       IN IF timing = NoScript THEN UNCHANGED file
          ELSE WriteScript([kind |-> "stub", at |-> scriptRuns + 1,
                          body |-> StubText(timing, inputs.profile)])
    /\ UNCHANGED inputs

\* generateScript(): the draft, or the blank template.
Draft(answer) ==
    /\ scriptRuns' = scriptRuns + 1
    /\ LET timing == Timing(inputs.timing)
           windows == WithLive(Windows(timing.sections))
           rows == IF answer = Degraded THEN BlankRows(inputs, timing) ELSE DraftRows(inputs, windows, answer)
       IN IF timing = NoScript THEN UNCHANGED file
          ELSE WriteScript([kind |-> IF answer = Degraded THEN "blank" ELSE "draft", at |-> scriptRuns + 1,
                      body |-> Body(inputs, timing, rows)])
    /\ UNCHANGED inputs

ScriptNext ==
    \/ EditInputs
    \/ scriptRuns < MaxScriptRuns /\ (Stub \/ \E answer \in Drafts \cup {Degraded} : Draft(answer))

ScriptSpec == ScriptInit /\ [][ScriptNext]_scriptVars

-----------------------------------------------------------------------------

IsDraft == file # NoScript /\ file.kind \in {"draft", "blank"}

\* Whatever the model said, the rows of a draft follow on one another from 0 without a gap,
\* and the last ends within four seconds of a stated total: the sum is compared with it
\* rounded to a tenth of a minute.  Every figure of business value occurs in what the plan
\* gives for it, unless the cell begins as a TODO; what is shown and the first cue a text has
\* are of a screen that can be shown, and what is shown is lost only to such a cue.
DraftIsUsable ==
    IsDraft =>
        LET rows == file.body.rows
            value == FieldFigures(file.body.plan.tam) \cup FieldFigures(file.body.plan.revenue)
        IN /\ \A i \in DOMAIN rows :
                /\ rows[i].start = IF i = 1 THEN 0 ELSE rows[i - 1].end
                /\ IsValue(rows[i].id) =>
                       rows[i].spoken.todo \/ \A f \in Named(rows[i].spoken) : OccursIn(f, value)
                /\ rows[i].spoken.cue # Undefined => CueHolds(rows[i].spoken.cue, file.body.ui)
                /\ rows[i].visual # NoScript /\ rows[i].visual.screen # Undefined =>
                       CueHolds(rows[i].visual.screen, file.body.ui)
                /\ rows[i].visual = NoScript => rows[i].spoken.cue = "TODO"
           /\ file.body.source = "timing" => rows[Len(rows)].end - Seconds(file.body.total) \in -4..4

\* The times that are written are off by no more than half a second, however many sections
\* come before: in tenths of a second, against the sum of their minutes (computeWindows()).
TimesDoNotDrift ==
    [][file' # file =>
         LET at == Boundaries(Timing(inputs.timing).sections)
             rows == IF file'.kind = "stub" THEN file'.body.windows ELSE file'.body.rows
         IN \A i \in DOMAIN rows : 10 * rows[i].end - 6 * at[i] \in -5..5]_scriptVars

\* Written again from the same inputs and the same answer, the file stays as it is, its
\* time included.
RerunKeepsTheFile ==
    [][file # NoScript /\ file' # file => file'.kind # file.kind \/ file'.body # file.body]_scriptVars

\* What is written says the times the sections have, to the second, and a run that has
\* nothing else to say writes nothing.
WritesAreExact == TimesDoNotDrift /\ RerunKeepsTheFile
=============================================================================
