------------------------------ MODULE DeckFolder ------------------------------
(****************************************************************************)
(* src/ideation/deckgen: the folder that deckgen populate keeps.  A run     *)
(* reads its sources, has four slots phrased, and then writes or skips one  *)
(* file after the other; it may fail or be killed between any two of them,  *)
(* and it is run again and again over the same folder as the plan changes.  *)
(* A file's text is the set of its lines; a line is a word and the names it *)
(* carries.  A source is a record of what the plan, the manifest and        *)
(* disclosure.md say.                                                       *)
(****************************************************************************)
EXTENDS Selection

CONSTANTS
    Sources,        \* [readable, heads, title, evidence, persona, ask, fields, numbers, manifest,
                    \*  disclosure]; numbers: what occurs in the text of the business value,
                    \* alone or inside of a longer number
    Phrasings,      \* per phrasable slot Off, Failed or the figures of its bullets
    Off, Failed,
    Missing,        \* no figure, no text, no file
    Catalog,        \* component-catalog.json: [depends, subs] per component
    MaxDeckRuns     \* bound: runs of the command

Heading == {"Executive Pitch", "Problem Framing", "AI Solution", "Why Now", "Target Persona",
            "Business Value", "Architecture", "Suggested Module Emphasis"}

Slots == <<"01", "02", "03", "04", "05", "06", "07", "08">>
Artifacts == <<"diagram", "tam", "revenue">>
Derived == {"diagram", "tam", "revenue"}
Files == {"01", "02", "03", "04", "05", "06", "07", "08", "deck", "appendix"} \cup Derived

VARIABLES
    folder,         \* what each file holds
    job,            \* the run under way, or Missing: its sources, its phrasing, whether it
                    \* is the second attempt, its steps to come and the files it changed
    last,           \* the last run or attempt, once it came to its end: sources, phrasing,
                    \* changed files
    deckRuns        \* runs started so far

deckVars == <<folder, job, last, deckRuns>>

-----------------------------------------------------------------------------
\* What a run makes of its sources.

Word(w) == <<w, {}>>
Todo == Word("todo")

\* assessPlan().
PlanMode(s) ==
    IF ~s.readable THEN "missing"
    ELSE IF s.heads \cap Heading = {} THEN "empty"
    ELSE IF Heading \subseteq s.heads THEN "full" ELSE "partial"

\* extractBusinessValueFigures(), extractBusinessValueFields(): only of the section.
ValueField(s, f) == IF "Business Value" \in s.heads THEN s.fields[f] ELSE Missing

\* phrasedFiguresGroundedInExcerpt(): a number is looked for anywhere in the excerpt, and
\* one that is a part of another is found.
NumbersFound(s) == IF "Business Value" \in s.heads THEN s.numbers ELSE {}

\* The first of the ids that a manifest includes, or Missing.
FirstOf(ids, m) ==
    IF \E i \in DOMAIN ids : ids[i] \in m
    THEN ids[CHOOSE i \in DOMAIN ids : ids[i] \in m /\ \A j \in 1..(i - 1) : ids[j] \notin m]
    ELSE Missing

\* generateDiagram(): none of an invalid manifest or one the catalog does not know; a node
\* per component, an edge per dependency, and one for the envelopes.
Diagram(m) ==
    IF m = Missing \/ ~(m \subseteq DOMAIN Catalog) THEN Missing
    ELSE [nodes |-> m,
          edges |-> {e \in m \X m : e[1] # e[2] /\ e[1] \in Catalog[e[2]].depends},
          envelope |-> <<FirstOf(<<"resilience", "context", "platform/ui">>, m),
                         FirstOf(<<"platform/transport", "platform">>, m)>>]

\* assembledUiScreenNames(), null unless a component brings the user interface.
HasScreens(m) ==
    /\ m # Missing
    /\ \/ "platform/ui" \in m
       \/ /\ "platform" \in m \cap DOMAIN Catalog
          /\ "platform/ui" \in Catalog["platform"].subs

\* llmFallbackLines(): the TODO, and the excerpt if there is one.
FallbackLines(excerpt) == IF excerpt THEN {Todo, Word("excerpt")} ELSE {Todo}

Bullets(answer) == {<<"bullets", answer>>}

LinesIf(condition, word) == IF condition THEN {Word(word)} ELSE {}

TitleSlot(s, answer) ==
    CASE answer = Failed -> FallbackLines(s.title \/ "Executive Pitch" \in s.heads)
      [] answer \notin {Off, Failed} -> Bullets(answer)
      [] OTHER -> IF s.title \/ "Executive Pitch" \in s.heads THEN {Word("title")} ELSE {Todo}

\* The evidence stays whatever the phrasing says.
ProblemSlot(s, answer) ==
    IF "Problem Framing" \notin s.heads THEN {Todo}
    ELSE IF answer = Failed THEN FallbackLines(TRUE)
    ELSE (IF answer = Off THEN {Word("framing")} ELSE Bullets(answer)) \cup LinesIf(s.evidence, "evidence")

UserSlot(s, answer) ==
    LET label == "Target Persona" \in s.heads \/ ValueField(s, "specific_user") # Missing \/ s.persona
    IN CASE answer = Failed -> FallbackLines({"Target Persona", "Why Now"} \cap s.heads # {})
         [] answer \notin {Off, Failed} -> Bullets(answer)
         [] OTHER -> IF label THEN {Word("user")} \cup LinesIf("Why Now" \in s.heads, "why now")
                     ELSE {Todo}

DemoSlot(s) == {Word("live demo"), Todo} \cup LinesIf(HasScreens(s.manifest), "screens")

ArchitectureSlot(s) ==
    LET diagram == Diagram(s.manifest)
    IN {IF "Architecture" \in s.heads THEN Word("architecture") ELSE Todo}
       \cup LinesIf("Suggested Module Emphasis" \in s.heads, "emphasis")
       \cup {IF diagram = Missing THEN Todo ELSE <<"diagram", diagram.nodes>>}

Charts(s) ==
    {f \in {"tam", "revenue"} :
        ValueField(s, IF f = "tam" THEN "tam_figure" ELSE "revenue_model") # Missing}

\* A phrasing is taken only if its numbers are all found in the section; else the fields
\* go in as they are.
ValueSlot(s, answer) ==
    IF answer = Failed /\ "Business Value" \notin s.heads THEN {Todo}
    ELSE (IF answer \notin {Off, Failed} /\ answer \subseteq NumbersFound(s) THEN Bullets(answer)
          ELSE {IF ValueField(s, f) = Missing THEN Todo ELSE <<f, {s.fields[f]}>>
                  : f \in DOMAIN s.fields}) \cup {Word(c) : c \in Charts(s)}

AskSlot(s) == IF s.ask THEN {Word("ask")} ELSE {Todo}

\* renderDisclosureFile(): the bytes between the markers, or the placeholder as it was.
DisclosureSlot(s) == IF s.disclosure = Missing THEN {Word("placeholder")} ELSE {Word(s.disclosure)}

Skeleton(slot) == {<<"skeleton", {slot}>>}

IsSkeleton(s) == PlanMode(s) \in {"missing", "empty"}

\* The text of each slot file.
SlotText(s, ph, slot) ==
    IF IsSkeleton(s) THEN Skeleton(slot)
    ELSE CASE slot = "01" -> TitleSlot(s, ph["01"])
           [] slot = "02" -> ProblemSlot(s, ph["02"])
           [] slot = "03" -> UserSlot(s, ph["03"])
           [] slot = "04" -> DemoSlot(s)
           [] slot = "05" -> ArchitectureSlot(s)
           [] slot = "06" -> ValueSlot(s, ph["06"])
           [] slot = "07" -> AskSlot(s)
           [] slot = "08" -> DisclosureSlot(s)

\* concatDeck().
Deck(s, ph) == [i \in DOMAIN Slots |-> SlotText(s, ph, Slots[i])]

DerivedText(s, file) ==
    CASE file = "diagram" -> Diagram(s.manifest)
      [] file = "tam" -> ValueField(s, "tam_figure")
      [] file = "revenue" -> ValueField(s, "revenue_model")

\* The artifacts a run writes: without a plan the charts are left out.
Emitted(s) ==
    {f \in Derived : DerivedText(s, f) # Missing /\ (IsSkeleton(s) => f = "diagram")}

WriteStep(file, text) == [op |-> "write", file |-> file, text |-> text]
RemoveStep(file) == [op |-> "remove", file |-> file, text |-> Missing]

\* populateDeck() and populateSkeletonOnly(): the files in the order they are written.
\* Only the former removes what it did not write.
StepsOf(s, ph) ==
    LET derived == Selected(Artifacts, Emitted(s))
        stale == IF IsSkeleton(s) THEN <<>>
                 ELSE Selected(Artifacts, Derived \ Emitted(s))
    IN [i \in DOMAIN Slots |-> WriteStep(Slots[i], SlotText(s, ph, Slots[i]))]
       \o [i \in DOMAIN derived |-> WriteStep(derived[i], DerivedText(s, derived[i]))]
       \o [i \in DOMAIN stale |-> RemoveStep(stale[i])]
       \o <<WriteStep("deck", Deck(s, ph)), WriteStep("appendix", {Word("appendix")})>>

-----------------------------------------------------------------------------

DeckInit ==
    /\ folder = [f \in Files |-> Missing]
    /\ job = Missing
    /\ last = Missing
    /\ deckRuns = 0

Job(s, ph, again) ==
    [src |-> s, ph |-> ph, again |-> again, steps |-> StepsOf(s, ph), wrote |-> {}]

\* runPopulate(): the sources are read and the slots phrased before anything is written.
StartRun(s, ph) ==
    /\ job = Missing
    /\ job' = Job(s, ph, FALSE)
    /\ last' = Missing
    /\ deckRuns' = deckRuns + 1
    /\ UNCHANGED folder

\* Variant: a file that is there is taken for the one to be written.
WriteFileIfMissing ==
    /\ job # Missing /\ job.steps # <<>> /\ Head(job.steps).op = "write"
    /\ LET step == Head(job.steps)
           skip == folder[step.file] # Missing
       IN /\ folder' = IF skip THEN folder ELSE [folder EXCEPT ![step.file] = step.text]
          /\ job' = [job EXCEPT !.steps = Tail(@),
                                !.wrote = IF skip THEN @ ELSE @ \cup {step.file}]
    /\ UNCHANGED <<last, deckRuns>>

\* The appendix is optional: whatever goes wrong with it is ignored.
SkipAppendix ==
    /\ job # Missing /\ job.steps # <<>> /\ Head(job.steps).file = "appendix"
    /\ job' = [job EXCEPT !.steps = Tail(@)]
    /\ UNCHANGED <<folder, last, deckRuns>>

\* writeFileAtomic(): through a temporary file and a rename, unless the bytes are the same.
WriteFileAtomic ==
    /\ job # Missing /\ job.steps # <<>> /\ Head(job.steps).op = "write"
    /\ LET step == Head(job.steps)
           skip == folder[step.file] = step.text
       IN /\ folder' = [folder EXCEPT ![step.file] = step.text]
          /\ job' = [job EXCEPT !.steps = Tail(@),
                                !.wrote = IF skip THEN @ ELSE @ \cup {step.file}]
    /\ UNCHANGED <<last, deckRuns>>

\* An artifact without a source, if it is there; a removal that fails is a warning.
RemoveStale ==
    /\ job # Missing /\ job.steps # <<>> /\ Head(job.steps).op = "remove"
    /\ LET file == Head(job.steps).file
       IN \/ /\ folder' = [folder EXCEPT ![file] = Missing]
             /\ job' = [job EXCEPT !.steps = Tail(@),
                                   !.wrote = IF folder[file] = Missing THEN @ ELSE @ \cup {file}]
          \/ /\ folder[file] # Missing
             /\ job' = [job EXCEPT !.steps = Tail(@), !.wrote = @ \cup {"stuck"}]
             /\ UNCHANGED folder
    /\ UNCHANGED <<last, deckRuns>>

FinishRun ==
    /\ job # Missing /\ job.steps = <<>>
    /\ last' = [src |-> job.src, ph |-> job.ph, wrote |-> job.wrote]
    /\ job' = Missing
    /\ UNCHANGED <<folder, deckRuns>>

NoSources == [
    readable |-> FALSE, heads |-> {}, title |-> FALSE, evidence |-> FALSE, persona |-> FALSE,
    ask |-> FALSE, fields |-> [f \in {"specific_user", "tam_figure", "revenue_model", "why_ai"} |-> Missing],
    numbers |-> {}, manifest |-> Missing, disclosure |-> Missing]

AllOff == [slot \in {"01", "02", "03", "06"} |-> Off]

\* A write throws: the command starts once more, without sources.
RunFails ==
    /\ job # Missing /\ job.steps # <<>>
    /\ Head(job.steps).op = "write" /\ Head(job.steps).file # "appendix"
    /\ job' = IF job.again THEN Missing ELSE Job(NoSources, AllOff, TRUE)
    /\ last' = Missing
    /\ UNCHANGED <<folder, deckRuns>>

\* The process is killed.
RunKilled ==
    /\ job # Missing
    /\ job' = Missing
    /\ last' = Missing
    /\ UNCHANGED <<folder, deckRuns>>

DeckNext ==
    \/ deckRuns < MaxDeckRuns /\ \E s \in Sources, ph \in Phrasings : StartRun(s, ph)
    \/ WriteFileAtomic
    \/ SkipAppendix
    \/ RemoveStale
    \/ FinishRun
    \/ RunFails
    \/ RunKilled

DeckSpec == DeckInit /\ [][DeckNext]_deckVars

AnySources == Sources \cup {NoSources}
AnyPhrasings == Phrasings \cup {AllOff}

ASSUME DeckAssumption ==
    /\ \A s \in Sources : /\ DOMAIN s.fields = DOMAIN NoSources.fields
                          /\ \A f \in DOMAIN s.fields : s.fields[f] \in s.numbers \cup {Missing}
    /\ \A s \in AnySources, ph \in AnyPhrasings, i \in DOMAIN Slots :
           SlotText(s, ph, Slots[i]) # Missing      \* no file is not a text

-----------------------------------------------------------------------------

Ended == last # Missing

\* Whatever the runs before it wrote, removed or left half done, a run that came to its
\* end, the attempt without sources included, leaves a deck that is its slots and slots
\* that are its own.  With a plan, each number of the business value is to be found in the
\* plan's, a chart is there exactly if a slot shows it, and a diagram only if a slot shows
\* what it draws; without one, every slot is the skeleton's and shows none, and a diagram of
\* the manifest is up to date.
FolderIsOfOneRun ==
    Ended =>
        /\ folder["deck"] = [i \in DOMAIN Slots |-> folder[Slots[i]]]
        /\ \A i \in DOMAIN Slots : folder[Slots[i]] # Missing /\ folder[Slots[i]] # {}
        /\ IF IsSkeleton(last.src)
           THEN /\ \A i \in DOMAIN Slots : folder[Slots[i]] = Skeleton(Slots[i])
                /\ Diagram(last.src.manifest) \in {Missing, folder["diagram"]}
           ELSE /\ \A line \in folder["06"] : line[2] \subseteq NumbersFound(last.src)
                /\ "stuck" \notin last.wrote =>
                    /\ \A c \in {"tam", "revenue"} :
                         folder[c] # Missing <=> Word(c) \in folder["06"]
                    /\ folder["diagram"] # Missing =>
                         <<"diagram", folder["diagram"].nodes>> \in folder["05"]

\* What populate.ts says of a run over an earlier one: it removes the charts "whose source
\* figure disappeared".
ChartsHaveTheirFigure ==
    Ended /\ "stuck" \notin last.wrote =>
        \A c \in {"tam", "revenue"} : folder[c] # Missing => DerivedText(last.src, c) # Missing
=============================================================================
