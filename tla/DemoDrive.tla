------------------------------ MODULE DemoDrive -------------------------------
(***************************************************************************)
(* src/ideation/demodrive: one capture of the demo.  A feeder replays      *)
(* events to the UI, a browser runs the steps of a script and records a    *)
(* video, and whatever happens the files left behind have to tell what     *)
(* became of it.  Every await of the driver is a step, and Ctrl+C may come *)
(* before any of them.  The browser and the recording are Playwright's: a  *)
(* recording is whole once its context, or the browser, has closed.        *)
(***************************************************************************)
EXTENDS Integers, Sequences

CONSTANTS
    Scripts,        \* [valid, kind, mock, key, steps], steps a sequence of sequences of actions
    Options,        \* [kind, key]: the command's flags
    Golden,         \* keys the golden cache can serve
    Unnamed, NoneYet

ASSUME DriveAssumption ==
    \A s \in Scripts : /\ s.valid \in BOOLEAN
                       /\ s.steps \in Seq(Seq([do : STRING, selector : BOOLEAN]))

VARIABLES
    phase,          \* where runCaptureCore stands
    script, opts,   \* what it was started with
    at,             \* the step and the action under way
    fed,            \* what the feeder has to replay
    up,             \* feeder, browser, context, whether `context` is set, the recording
    files,          \* boundary and intra-step screenshots, the error sentinel, video.webm
    handler,        \* the SIGINT handler: "off", "armed", "closing", "over"
    interrupted, broken, \* its flag; history: which close failed
    result, exit    \* what the core returned; the process was ended by the handler

driveVars == <<phase, script, opts, at, fed, up, files, handler, interrupted, broken, result, exit>>

NoFiles == [shots |-> {}, intra |-> {}, sentinel |-> NoneYet, video |-> FALSE]
AllDown == [feeder |-> FALSE, browser |-> FALSE, context |-> FALSE, held |-> FALSE, recording |-> "none"]

DriveInit ==
    /\ phase = "idle" /\ script = NoneYet /\ opts = NoneYet
    /\ at = [step |-> 1, action |-> 1]
    /\ fed = "nothing" /\ up = AllDown /\ files = NoFiles
    /\ handler = "off" /\ interrupted = FALSE /\ broken = {}
    /\ result = NoneYet /\ exit = FALSE

-----------------------------------------------------------------------------

\* runCapture(), createRunLayout(): a script that cannot be read, or not in its schema,
\* ends the command; otherwise the run gets its folders and the handler is installed.
StartCapture(s, o) ==
    /\ phase = "idle"
    /\ script' = s /\ opts' = o
    /\ IF s.valid
       THEN phase' = "feeder" /\ handler' = "armed" /\ UNCHANGED result
       ELSE phase' = "returned" /\ result' = [name |-> "ValidationError", step |-> 0] /\ UNCHANGED handler
    /\ UNCHANGED <<at, fed, up, files, interrupted, broken, exit>>

\* An error outside the steps: the result names it, and the finally takes its turn.
Fails(name) == result' = [name |-> name, step |-> 0] /\ phase' = "closeContext"

\* The steps are through, or interrupted: the run is a good one.
Succeeds == result' = [name |-> "ok", step |-> 0] /\ phase' = "closeContext"

\* resolveDataSource(): a flag before the script's own, and mock before nothing.
Kind == IF opts.kind # Unnamed THEN opts.kind ELSE IF script.kind # Unnamed THEN script.kind ELSE "mock"
Key == IF opts.key # Unnamed THEN opts.key ELSE script.key

\* startFeeder(): the port is bound, and the mock script or the golden entry replayed;
\* without a key, or an entry under it, there is nothing to replay.
StartFeeder ==
    /\ phase = "feeder"
    /\ \/ /\ ~(Kind = "mock" /\ ~script.mock)
          /\ up' = [up EXCEPT !.feeder = TRUE]
          /\ fed' = IF Kind = "mock" THEN "mock" ELSE IF Key \in Golden THEN "entry" ELSE "nothing"
          /\ phase' = "launch" /\ UNCHANGED result
       \/ Fails("Error") /\ UNCHANGED <<up, fed>>
    /\ UNCHANGED <<script, opts, at, files, handler, interrupted, broken, exit>>

Launch ==
    /\ phase = "launch"
    /\ \/ up' = [up EXCEPT !.browser = TRUE] /\ phase' = "newContext" /\ UNCHANGED result
       \/ Fails("Error") /\ UNCHANGED up
    /\ UNCHANGED <<script, opts, at, fed, files, handler, interrupted, broken, exit>>

\* The context records from its start.
NewContext ==
    /\ phase = "newContext"
    /\ \/ /\ up' = [up EXCEPT !.context = TRUE, !.held = TRUE, !.recording = "running"]
          /\ phase' = "preflight" /\ UNCHANGED result
       \/ Fails("Error") /\ UNCHANGED up
    /\ UNCHANGED <<script, opts, at, fed, files, handler, interrupted, broken, exit>>

\* The egress guard, the init scripts and the page, and the first visit of the UI; then the
\* first step, if there is one.
Preflight ==
    /\ phase = "preflight"
    /\ \/ up.context /\ script.steps # <<>> /\ phase' = "step" /\ UNCHANGED result
       \/ up.context /\ script.steps = <<>> /\ Succeeds
       \/ Fails("Error")
       \/ Fails("PreflightFailed")
    /\ UNCHANGED <<script, opts, at, fed, up, files, handler, interrupted, broken, exit>>

Actions == script.steps[at.step]

\* executeStep(): one action.  What needs a selector and has none fails, as does anything
\* on a closed context.
Act ==
    /\ phase = "step" /\ at.action <= Len(Actions)
    /\ LET a == Actions[at.action]
       IN \/ /\ up.context
             /\ a.do \in {"click", "fill", "wait_for"} => a.selector
             /\ at' = [at EXCEPT !.action = @ + 1]
             /\ files' = IF a.do = "screenshot"
                         THEN [files EXCEPT !.intra = @ \cup {<<at.step, at.action>>}] ELSE files
             /\ UNCHANGED phase
          \/ phase' = "stepFails" /\ UNCHANGED <<at, files>>
    /\ UNCHANGED <<script, opts, fed, up, handler, interrupted, broken, result, exit>>

\* Variant: a boundary screenshot that fails does not fail the step.
BoundaryForgiving ==
    /\ phase = "step" /\ at.action > Len(Actions)
    /\ \E taken \in {up.context, FALSE} :
         files' = IF taken THEN [files EXCEPT !.shots = @ \cup {at.step}] ELSE files
    /\ IF at.step = Len(script.steps) \/ interrupted
       THEN Succeeds /\ UNCHANGED at
       ELSE at' = [step |-> at.step + 1, action |-> 1] /\ UNCHANGED <<phase, result>>
    /\ UNCHANGED <<script, opts, fed, up, handler, interrupted, broken, exit>>

\* finishStepBoundary(), and the next step, or the end.
Boundary ==
    /\ phase = "step" /\ at.action > Len(Actions)
    /\ \/ /\ up.context
          /\ files' = [files EXCEPT !.shots = @ \cup {at.step}]
          /\ IF at.step = Len(script.steps) \/ interrupted
             THEN Succeeds /\ UNCHANGED at
             ELSE at' = [step |-> at.step + 1, action |-> 1] /\ UNCHANGED <<phase, result>>
       \/ phase' = "stepFails" /\ UNCHANGED <<at, files, result>>
    /\ UNCHANGED <<script, opts, fed, up, handler, interrupted, broken, exit>>

\* context.close(): the recording is whole when it returns, except that a second close
\* returns at once, and that it may fail.
ContextCloses ==
    \/ up' = [up EXCEPT !.context = FALSE, !.held = FALSE, !.recording = "whole"] /\ UNCHANGED broken
    \/ handler = "closing" /\ up' = [up EXCEPT !.held = FALSE] /\ UNCHANGED broken
    \/ up' = [up EXCEPT !.held = FALSE] /\ broken' = broken \cup {"context"}

\* The catch around a step: the context first, then the sentinel, then the error.
StepFails ==
    /\ phase = "stepFails"
    /\ ContextCloses
    /\ \/ /\ files' = [files EXCEPT !.sentinel = [step |-> at.step, interrupted |-> FALSE]]
          /\ result' = [name |-> "StepFailed", step |-> at.step]
       \/ result' = [name |-> "Error", step |-> at.step] /\ UNCHANGED files    \* it cannot be written
    /\ phase' = "closeContext"
    /\ UNCHANGED <<script, opts, at, fed, handler, interrupted, exit>>

\* The finally, as far as the context ...
CloseContext ==
    /\ phase = "closeContext" /\ phase' = "closeBrowser"
    /\ IF up.held THEN ContextCloses ELSE UNCHANGED <<up, broken>>
    /\ UNCHANGED <<script, opts, at, fed, files, handler, interrupted, result, exit>>

\* finalizeRunVideo(): the newest recording of the run gets its final name, if it can.
FinalizeRunVideo == files' \in {files, [files EXCEPT !.video = up.recording # "none"]}

\* ... the browser, which closes what contexts it has, and the naming of the recording,
\* which follows without an await ...
CloseBrowser ==
    /\ phase = "closeBrowser" /\ phase' = "stopFeeder"
    /\ \/ /\ up' = [up EXCEPT !.browser = FALSE, !.context = FALSE,
                              !.recording = IF @ = "none" THEN @ ELSE "whole"]
          /\ UNCHANGED broken
       \/ up.browser /\ broken' = broken \cup {"browser"} /\ UNCHANGED up
    /\ FinalizeRunVideo
    /\ UNCHANGED <<script, opts, at, fed, handler, interrupted, result, exit>>

\* ... and the feeder.
StopFeeder ==
    /\ phase = "stopFeeder" /\ phase' = "returned"
    /\ up' = [up EXCEPT !.feeder = FALSE]
    /\ UNCHANGED <<script, opts, at, fed, files, handler, interrupted, broken, result, exit>>

-----------------------------------------------------------------------------
\* installSigintHandler()

HandlerWrites == files' = [files EXCEPT !.sentinel = [step |-> 0, interrupted |-> TRUE]]

\* Ctrl+C: with a context it is closed first, without one the process ends here.
InterruptRun ==
    /\ handler = "armed" /\ phase # "returned"
    /\ interrupted' = TRUE
    /\ IF up.held THEN handler' = "closing" /\ UNCHANGED <<files, exit>>
                  ELSE handler' = "over" /\ exit' = TRUE /\ (HandlerWrites \/ UNCHANGED files)
    /\ UNCHANGED <<phase, script, opts, at, fed, up, broken, result>>

\* The context closed, or would not, or was being closed: the sentinel and the end.
HandlerEnds ==
    /\ handler = "closing" /\ handler' = "over" /\ exit' = TRUE
    /\ up' \in {up, [up EXCEPT !.context = FALSE, !.recording = "whole"]}
    /\ HandlerWrites \/ UNCHANGED files
    /\ UNCHANGED <<phase, script, opts, at, fed, interrupted, broken, result>>

DriveNext ==
    /\ ~exit
    /\ \/ \E s \in Scripts, o \in Options : StartCapture(s, o)
       \/ StartFeeder \/ Launch \/ NewContext \/ Preflight
       \/ Act \/ Boundary \/ StepFails \/ CloseContext \/ CloseBrowser \/ StopFeeder
       \/ InterruptRun \/ HandlerEnds

\* captureScript(), runDemodriveCli(): what the command ends with.
ExitCode == IF exit THEN 130 ELSE IF result.name = "ok" THEN 0 ELSE 1

DriveSpec == DriveInit /\ [][DriveNext]_driveVars

-----------------------------------------------------------------------------

\* "close the context FIRST so recordVideo finalizes atomically (never partial/corrupt)":
\* a sentinel of a failed step is found beside a whole recording, and so is a recording
\* under its final name, interrupted or not, as long as closing did not fail.
RecordingIsWhole ==
    /\ files.sentinel # NoneYet /\ ~interrupted /\ "context" \notin broken => up.recording = "whole"
    /\ files.video /\ "browser" \notin broken => up.recording = "whole"

\* A capture that came to its end left what its result says: every screenshot, or those
\* of the steps before the one that failed and a sentinel that names it, or none; and
\* nothing is left running.
OutcomeMatchesFiles ==
    phase = "returned" =>
        /\ ExitCode = 0 /\ ~interrupted =>
               files.shots = DOMAIN script.steps /\ files.sentinel = NoneYet
        /\ result.step # 0 => files.shots = 1..(result.step - 1)
        /\ result.name = "StepFailed" /\ ~interrupted =>
               files.sentinel = [step |-> result.step, interrupted |-> FALSE]
        /\ ExitCode # 0 /\ result.step = 0 /\ ~interrupted =>
               files.shots = {} /\ files.sentinel = NoneYet
        /\ ~up.feeder /\ ~up.held /\ (up.browser => "browser" \in broken)

\* A capture is one thing: its files are whole and are those its result speaks of.
CaptureIsWhole == RecordingIsWhole /\ OutcomeMatchesFiles
=============================================================================
