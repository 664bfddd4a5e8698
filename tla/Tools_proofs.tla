----------------------------- MODULE Tools_proofs -----------------------------
(***************************************************************************)
(* Theorems about the tools around the service: the synthetic data, the    *)
(* demo drive, the deck's folder, the sheet of questions, the pitch script *)
(* and the context buffer.  All but the last keep files or a cache that    *)
(* several runs of a command share, and each proof says what a run leaves  *)
(* there, whatever ended it; the last says what a buffer keeps of what was *)
(* put into it, whatever was evicted or summarised on the way.             *)
(***************************************************************************)
EXTENDS SyntheticData, DemoDrive, DeckFolder, QaSheet, PitchScript, ContextBuffer,
        Selection_proofs,
        FiniteSetTheorems, SequenceTheorems, TLAPS

-----------------------------------------------------------------------------
(***************************************************************************)
(* SyntheticData, for any requests, retries and number of generations.     *)
(* What is cached was marked and fits the request that wrote it, under the *)
(* key the same request looks up while the provider is down.               *)
(***************************************************************************)


Batch == [is : {"records", "documents", "junk"}, size : Int, objects : {"all", "some", "none"},
          synthetic : BOOLEAN, header : BOOLEAN]

\* What Check asks for besides what a closed schema makes of the mark.
Shaped(b, r) ==
    /\ b \in Batch
    /\ IF r.kind = "records" THEN b.is = "records" /\ b.size = Count(r) ELSE b.is = "documents"
    /\ (r.kind = "records" /\ r.loose) \/ b.objects = "all"

\* A batch that may be handed out, and what asked for it.
Good(b, r) == r \in Request /\ Shaped(b, r) /\ Marking(b, r)

CacheInv ==
    /\ \A e \in cache : Good(e.batch, e.by) /\ e.by.cached /\ e.key = CacheKey(e.by)
    /\ \A e, f \in cache : e.key = f.key => e = f
    /\ \A f \in batchFiles : Good(f.batch, f.by)

\* What a generation holds at each of its stages.
StageInv ==
    /\ stage \in {"idle", "provider", "check", "repair", "mark", "write", "store"}
    /\ stage # "idle" => req \in Request /\ returned = NoBatch
    /\ stage \in {"provider", "check", "repair"} => repairs = 0
    /\ repairs \in {0, 1} /\ (repairs = 1 => raw.live)
    /\ stage = "check" =>
         /\ raw.value \in Batch
         /\ \/ raw.live /\ ~req.forced
            \/ ~raw.live /\ req.cached /\ \E e \in Stored(CacheKey(req)) : raw.value = e.batch
    /\ stage = "repair" => raw.live /\ ~req.forced
    /\ stage = "mark" => Shaped(batch, req)
    /\ stage \in {"write", "store"} => Good(batch, req)

DataInv == CacheInv /\ StageInv /\ MarkedAndReadable

-----------------------------------------------------------------------------

\* A request with the kill switch is one for the same batch under the same key.
LEMMA ForcedAsksForTheSame ==
    ASSUME NEW r \in Request
    PROVE  LET s == [r EXCEPT !.forced = FALSE]
           IN  /\ CacheKey(s) = CacheKey(r) /\ Count(s) = Count(r)
               /\ s.kind = r.kind /\ s.cached = r.cached /\ s.closed = r.closed
               /\ s.loose = r.loose
BY DEF Request, CacheKey, Count

\* Whatever a provider answers is a batch.
LEMMA RepliesAreBatches ==
    ASSUME req \in Request, NEW a \in Replies
    PROVE  a \in Batch
<1>1. req.count \in Nat
  BY DEF Request
<1>2. Count(req) \in Int
  BY <1>1 DEF Count, MaxCount
<1>3. {1, Count(req)} \subseteq Int
  BY <1>2
<1>4. PICK i \in {"records", "documents", "junk"}, n \in {1, Count(req)},
           o \in {"all", "some", "none"}, m \in {FALSE}, h \in {FALSE} :
         a = [is |-> i, size |-> n, objects |-> o, synthetic |-> m, header |-> h]
  BY DEF Replies
<1> QED
  BY <1>3, <1>4 DEF Batch

\* A generation is under way and the stores stay as they are: the properties are kept.
LEMMA NothingReturned ==
    ASSUME DataInv, StageInv', UNCHANGED <<cache, batchFiles>>, returned' = NoBatch
    PROVE  DataInv'
<1>1. CacheInv'
  BY DEF DataInv, CacheInv
<1>2. MarkedAndReadable'
  BY DEF DataInv, CacheInv, StageInv, Good, MarkedAndReadable, BatchesAreMarked, ReadableOffline
<1> QED
  BY <1>1, <1>2 DEF DataInv

\* A generation ends degraded for a reason that has nothing to do with what is cached, or
\* was not asked under the kill switch.
LEMMA DegradedKeeps ==
    ASSUME DataInv, StageInv', UNCHANGED <<cache, batchFiles>>, NEW reason,
           Returns(DegradedResult(reason)),
           \/ reason \notin {"fallback", "validation_repair_failed"}
           \/ ~req'.forced
           \/ ~\E e \in cache : e.by = [req' EXCEPT !.forced = FALSE] /\ ~req'.closed
    PROVE  DataInv'
<1>1. CacheInv'
  BY DEF DataInv, CacheInv
<1>2. returned'.ok = FALSE /\ returned'.reason = reason
  BY DEF Returns, DegradedResult
<1>3. BatchesAreMarked'
  BY <1>2 DEF DataInv, CacheInv, Good, BatchesAreMarked
<1>4. ReadableOffline'
  BY <1>2 DEF StageInv, ReadableOffline
<1> QED
  BY <1>1, <1>3, <1>4 DEF DataInv, MarkedAndReadable

LEMMA GenerateKeeps ==
    ASSUME DataInv, NEW r \in Requests, Generate(r)
    PROVE  DataInv'
<1>1. /\ r \in Request /\ req' = r /\ repairs' = 0
      /\ UNCHANGED <<cache, batchFiles>>
  BY DataAssumption DEF Generate
<1>2. CASE Returns(DegradedResult("resilience_internal_error"))
  <2>1. StageInv'
    BY <1>1, <1>2 DEF StageInv, Returns
  <2> QED
    BY <1>1, <1>2, <2>1, DegradedKeeps
<1>3. CASE Returns(DegradedResult("invalid_input"))
  <2>1. StageInv'
    BY <1>1, <1>3 DEF StageInv, Returns
  <2> QED
    BY <1>1, <1>3, <2>1, DegradedKeeps
<1>4. CASE stage' = "provider" /\ returned' = NoBatch
  <2>1. StageInv'
    BY <1>1, <1>4 DEF StageInv
  <2> QED
    BY <1>1, <1>4, <2>1, NothingReturned
<1> QED
  BY <1>2, <1>3, <1>4 DEF Generate

LEMMA CallProviderKeeps ==
    ASSUME DataInv, CallProvider
    PROVE  DataInv'
<1>1. /\ req \in Request /\ returned = NoBatch /\ repairs = 0 /\ ~req.forced
      /\ UNCHANGED <<req, repairs, returned, cache, batchFiles>>
  BY DEF CallProvider, DataInv, StageInv
<1>2. CASE \E a \in Replies : raw' = [live |-> TRUE, value |-> a] /\ stage' = "check"
  <2>1. \A a \in Replies : a \in Batch
    BY <1>1, RepliesAreBatches
  <2>2. StageInv'
    BY <1>1, <1>2, <2>1 DEF StageInv
  <2> QED
    BY <1>1, <2>2, NothingReturned
<1>3. CASE UNCHANGED <<raw, stage>>
  <2>1. StageInv'
    BY <1>1, <1>3 DEF StageInv, DataInv, CallProvider
  <2> QED
    BY <1>1, <2>1, NothingReturned
<1> QED
  BY <1>2, <1>3 DEF CallProvider

LEMMA FallBackKeeps ==
    ASSUME DataInv, FallBack
    PROVE  DataInv'
<1>1. /\ req \in Request /\ returned = NoBatch /\ repairs = 0
      /\ UNCHANGED <<req, repairs, cache, batchFiles>>
  BY DEF FallBack, DataInv, StageInv
<1>2. CASE /\ req.cached /\ stage' = "check" /\ UNCHANGED returned
           /\ \E e \in Stored(CacheKey(req)) : raw' = [live |-> FALSE, value |-> e.batch]
  <2>1. PICK e \in Stored(CacheKey(req)) : raw' = [live |-> FALSE, value |-> e.batch]
    BY <1>2
  <2>2. e \in cache /\ e.batch \in Batch
    BY <2>1 DEF Stored, DataInv, CacheInv, Good, Shaped
  <2>3. (\E f \in Stored(CacheKey(req)) : raw.value = f.batch)'
    BY <1>1, <2>1 DEF Stored, CacheKey
  <2>4. StageInv'
    BY <1>1, <1>2, <2>1, <2>2, <2>3 DEF StageInv
  <2> QED
    BY <1>1, <1>2, <2>4, NothingReturned
<1>3. CASE /\ ~req.cached \/ Stored(CacheKey(req)) = {}
           /\ Returns(DegradedResult("fallback")) /\ UNCHANGED raw
  <2>1. StageInv'
    BY <1>1, <1>3 DEF StageInv, Returns
  <2>2. ~\E e \in cache : e.by = [req EXCEPT !.forced = FALSE]
    <3> SUFFICES ASSUME NEW e \in cache, e.by = [req EXCEPT !.forced = FALSE]
                 PROVE  FALSE
      OBVIOUS
    <3>1. e.by.cached /\ e.key = CacheKey(e.by)
      BY DEF DataInv, CacheInv
    <3>2. req.cached /\ e.key = CacheKey(req)
      BY <1>1, <3>1, ForcedAsksForTheSame
    <3> QED
      BY <1>3, <3>2 DEF Stored
  <2> QED
    BY <1>1, <1>3, <2>1, <2>2, DegradedKeeps
<1> QED
  BY <1>2, <1>3 DEF FallBack

\* What the same request wrote passes the check, unless its schema forbids the mark.
LEMMA OwnEntryFits ==
    ASSUME DataInv, req \in Request, ~raw.live, stage = "check", req.kind = "records",
           NEW e \in cache, e.by = [req EXCEPT !.forced = FALSE], ~req.closed
    PROVE  Fits(raw.value)
<1>1. PICK f \in Stored(CacheKey(req)) : raw.value = f.batch
  BY DEF DataInv, StageInv
<1>2. e.key = CacheKey(req)
  BY ForcedAsksForTheSame DEF DataInv, CacheInv
<1>3. f = e
  BY <1>1, <1>2 DEF Stored, DataInv, CacheInv
<1>4. Shaped(e.batch, e.by)
  BY DEF DataInv, CacheInv, Good
<1>5. /\ e.batch.is = "records" /\ e.batch.size = Count(req)
      /\ req.loose \/ e.batch.objects = "all"
  BY <1>4, ForcedAsksForTheSame DEF Shaped
<1> QED
  BY <1>1, <1>3, <1>5 DEF Fits

LEMMA CheckKeeps ==
    ASSUME DataInv, Check
    PROVE  DataInv'
<1>1. /\ req \in Request /\ returned = NoBatch /\ repairs = 0 /\ raw.value \in Batch
      /\ stage = "check"
      /\ UNCHANGED <<req, raw, repairs, cache, batchFiles>>
  BY DEF Check, DataInv, StageInv
<1>2. CASE Fits(raw.value)
  <2>1. batch' = raw.value /\ stage' = "mark" /\ returned' = NoBatch
    BY <1>1, <1>2 DEF Check
  <2>2. Shaped(batch', req)
    BY <1>1, <1>2, <2>1 DEF Fits, Shaped
  <2>3. StageInv'
    BY <1>1, <2>1, <2>2 DEF StageInv, Shaped, Count
  <2> QED
    BY <1>1, <2>1, <2>3, NothingReturned
<1>3. CASE ~Fits(raw.value) /\ req.kind # "records"
  <2>1. Returns(DegradedResult("document_structural_check_failed"))
    BY <1>3 DEF Check
  <2>2. StageInv'
    BY <1>1, <2>1 DEF StageInv, Returns
  <2> QED
    BY <1>1, <2>1, <2>2, DegradedKeeps
<1>4. CASE ~Fits(raw.value) /\ req.kind = "records" /\ raw.live
  <2>1. stage' = "repair" /\ returned' = NoBatch
    BY <1>1, <1>4 DEF Check
  <2>2. ~req.forced /\ repairs \in {0, 1}
    BY <1>1, <1>4 DEF DataInv, StageInv
  <2>3. StageInv'
    BY <1>1, <1>4, <2>1, <2>2 DEF StageInv
  <2> QED
    BY <1>1, <2>1, <2>3, NothingReturned
<1>5. CASE ~Fits(raw.value) /\ req.kind = "records" /\ ~raw.live
  <2>1. Returns(DegradedResult("validation_repair_failed"))
    BY <1>5 DEF Check
  <2>2. StageInv'
    BY <1>1, <2>1 DEF StageInv, Returns
  <2>3. ~\E e \in cache : e.by = [req EXCEPT !.forced = FALSE] /\ ~req.closed
    BY <1>1, <1>5, OwnEntryFits
  <2> QED
    BY <1>1, <2>1, <2>2, <2>3, DegradedKeeps
<1> QED
  BY <1>2, <1>3, <1>4, <1>5

LEMMA RepairKeeps ==
    ASSUME DataInv, Repair
    PROVE  DataInv'
<1>1. /\ req \in Request /\ returned = NoBatch /\ repairs' = 1 /\ raw.live
      /\ UNCHANGED <<req, raw, cache, batchFiles>>
  BY DEF Repair, DataInv, StageInv
<1>2. CASE \E a \in {x \in Replies : Fits(x)} : batch' = a /\ stage' = "mark" /\ UNCHANGED returned
  <2>1. PICK a \in Replies : Fits(a) /\ batch' = a
    BY <1>2
  <2>2. a \in Batch
    BY <1>1, <2>1, RepliesAreBatches
  <2>3. Shaped(batch', req)
    BY <2>1, <2>2 DEF Fits, Shaped
  <2>4. StageInv'
    BY <1>1, <1>2, <2>3 DEF StageInv, Shaped, Count
  <2> QED
    BY <1>1, <1>2, <2>4, NothingReturned
<1>3. CASE Returns(DegradedResult("validation_repair_failed")) /\ UNCHANGED batch
  <2>1. StageInv'
    BY <1>1, <1>3 DEF StageInv, Returns
  <2>2. ~req.forced
    BY DEF DataInv, StageInv, Repair
  <2> QED
    BY <1>1, <1>3, <2>1, <2>2, DegradedKeeps
<1> QED
  BY <1>2, <1>3 DEF Repair

\* Marking touches nothing the check looked at, and only the two switches leave it out.
LEMMA MarkKeeps ==
    ASSUME DataInv, Mark
    PROVE  DataInv'
<1>1. /\ req \in Request /\ returned = NoBatch /\ Shaped(batch, req) /\ stage' = "write"
      /\ UNCHANGED <<req, raw, repairs, returned, cache, batchFiles>>
  BY DEF Mark, DataInv, StageInv
<1>2. batch \in Batch
  BY <1>1 DEF Shaped
<1>3. Shaped(Normalized, req)
  BY <1>1, <1>2 DEF Shaped, Normalized, Batch
<1>4. CASE Marks
  <2>1. batch' = [Normalized EXCEPT !.synthetic = batch.objects # "none", !.header = req.kind # "records"]
    BY <1>4 DEF Mark
  <2>2. batch' \in Batch /\ batch'.is = Normalized.is /\ batch'.size = Normalized.size
    BY <1>3, <2>1 DEF Shaped, Batch
  <2>3. /\ batch'.synthetic = (batch.objects # "none") /\ batch'.header = (req.kind # "records")
        /\ batch'.objects = Normalized.objects
    BY <1>3, <2>1 DEF Shaped, Batch
  <2>4. Normalized.objects = batch.objects
    BY <1>2 DEF Normalized, Batch
  <2>5. Shaped(batch', req)
    BY <1>3, <2>2, <2>3 DEF Shaped
  <2>6. Marking(batch', req)
    BY <1>3, <2>2, <2>3, <2>4, <2>5 DEF Marking, Marked, Shaped, Batch
  <2>7. Good(batch', req)
    BY <1>1, <2>5, <2>6 DEF Good
  <2>8. StageInv'
    BY <1>1, <2>7 DEF StageInv, DataInv, Good, Shaped, Marking, Marked, SwitchedOff, Count
  <2> QED
    BY <1>1, <2>8, NothingReturned
<1>5. CASE ~Marks
  <2>1. batch' = Normalized
    BY <1>5 DEF Mark
  <2>2. SwitchedOff(req)
    BY <1>1, <1>5 DEF Marks, SwitchedOff, Request
  <2>3. Good(batch', req)
    BY <1>1, <1>3, <2>1, <2>2 DEF Good, Marking
  <2>4. StageInv'
    BY <1>1, <2>3 DEF StageInv, DataInv, Good, Shaped, Marking, Marked, SwitchedOff, Count
  <2> QED
    BY <1>1, <2>4, NothingReturned
<1> QED
  BY <1>4, <1>5

LEMMA WriteFileKeeps ==
    ASSUME DataInv, WriteFile
    PROVE  DataInv'
<1>1. /\ req \in Request /\ returned = NoBatch /\ Good(batch, req) /\ stage' = "store"
      /\ UNCHANGED <<req, raw, batch, repairs, returned, cache>>
  BY DEF WriteFile, DataInv, StageInv
<1>2. \A f \in batchFiles' : f \in batchFiles \/ (f.batch = batch /\ f.by = req)
  BY DEF WriteFile
<1>3. \A f \in batchFiles' : Good(f.batch, f.by)
  BY <1>1, <1>2 DEF DataInv, CacheInv
<1>4. CacheInv'
  BY <1>1, <1>3 DEF DataInv, CacheInv, Good, Shaped, Marking, Marked, SwitchedOff, Count, CacheKey
<1>5. StageInv'
  BY <1>1 DEF StageInv, DataInv
<1>6. BatchesAreMarked'
  BY <1>1, <1>3 DEF BatchesAreMarked, Good
<1>7. ReadableOffline'
  BY <1>1, <1>5 DEF StageInv, ReadableOffline
<1> QED
  BY <1>4, <1>5, <1>6, <1>7 DEF DataInv, MarkedAndReadable

\* The new entry replaces what was stored under its key.
LEMMA StoreKeeps ==
    ASSUME DataInv, Store
    PROVE  DataInv'
<1>1. /\ req \in Request /\ Good(batch, req) /\ stage' = "idle"
      /\ returned' = [ok |-> TRUE, reason |-> NoBatch, batch |-> batch]
      /\ UNCHANGED <<req, raw, batch, repairs, batchFiles>>
  BY DEF Store, Returns, DataInv, StageInv
<1> DEFINE new == [key |-> CacheKey(req), batch |-> batch, by |-> req]
<1>2. \/ cache' = cache
      \/ req.cached /\ cache' = (cache \ Stored(CacheKey(req))) \cup {new}
  BY DEF Store, WriterKey
<1>3. CacheInv'
  <2>1. CASE cache' = cache
    BY <1>1, <2>1 DEF DataInv, CacheInv
  <2>2. CASE req.cached /\ cache' = (cache \ Stored(CacheKey(req))) \cup {new}
    <3>1. \A e \in cache' : Good(e.batch, e.by) /\ e.by.cached /\ e.key = CacheKey(e.by)
      BY <1>1, <2>2 DEF DataInv, CacheInv
    <3>2. \A e \in cache' : e = new \/ (e \in cache /\ e.key # CacheKey(req))
      BY <2>2 DEF Stored
    <3>3. new.key = CacheKey(req)
      OBVIOUS
    <3>4. \A e, f \in cache' : e.key = f.key => e = f
      BY <3>2, <3>3 DEF DataInv, CacheInv
    <3> QED
      BY <1>1, <3>1, <3>4 DEF DataInv, CacheInv
  <2> QED
    BY <1>2, <2>1, <2>2
<1>4. StageInv'
  BY <1>1 DEF StageInv, DataInv
<1>5. BatchesAreMarked'
  BY <1>1 DEF DataInv, CacheInv, BatchesAreMarked, Good
<1>6. ReadableOffline'
  BY <1>1, <1>4 DEF StageInv, ReadableOffline
<1> QED
  BY <1>3, <1>4, <1>5, <1>6 DEF DataInv, MarkedAndReadable

LEMMA DataInvInductive ==
    ASSUME DataInv, [DataNext]_dataVars
    PROVE  DataInv'
<1>1. CASE UNCHANGED dataVars
  BY <1>1 DEF dataVars, DataInv, CacheInv, StageInv, MarkedAndReadable, BatchesAreMarked, ReadableOffline,
              Stored
<1>2. CASE \E r \in Requests : Generate(r)
  BY <1>2, GenerateKeeps
<1> QED
  BY <1>1, <1>2, CallProviderKeeps, FallBackKeeps, CheckKeeps, RepairKeeps, MarkKeeps, WriteFileKeeps,
     StoreKeeps DEF DataNext

\* What leaves the generator or lands in a file bears the mark on every element that can
\* bear one, and on every element where the request takes objects only, unless both
\* switches say so; and who asks again while the provider is down is given what was written
\* (watermark.ts, generate.ts, writer.ts), whatever is asked for and however often.
THEOREM BatchesMarkedAndReadable == DataSpec => []MarkedAndReadable
<1>1. DataInit => DataInv
  BY DEF DataInit, DataInv, CacheInv, StageInv, MarkedAndReadable, BatchesAreMarked, ReadableOffline
<1>2. DataInv /\ [DataNext]_dataVars => DataInv'
  BY DataInvInductive
<1>3. DataInv => MarkedAndReadable
  BY DEF DataInv
<1> QED
  BY <1>1, <1>2, <1>3, PTL DEF DataSpec

-----------------------------------------------------------------------------
(***************************************************************************)
(* DemoDrive.                                                              *)
(***************************************************************************)

Before == {"idle", "feeder", "launch", "newContext", "preflight"}

FilesType == [shots : SUBSET (Nat \ {0}), intra : SUBSET (Nat \X Nat),
              sentinel : [step : Nat, interrupted : BOOLEAN] \cup {NoneYet}, video : BOOLEAN]

UpType == [feeder : BOOLEAN, browser : BOOLEAN, context : BOOLEAN, held : BOOLEAN,
           recording : {"none", "running", "whole"}]

\* The shapes the updates rely on, and where a capture is.
DriveTypes ==
    /\ phase \in Before \cup {"step", "stepFails", "closeContext", "closeBrowser", "stopFeeder",
                              "returned"}
    /\ files \in FilesType /\ up \in UpType
    /\ at \in [step : Nat \ {0}, action : Nat \ {0}]
    /\ phase \notin {"idle", "returned"} => script \in Scripts /\ script.valid
    /\ phase = "step" => at.step <= Len(script.steps)
    /\ exit \/ handler = "closing" => interrupted

\* What the result says and what the files are.
Told ==
    /\ result.name = "ok" /\ ~interrupted =>
           files.shots = DOMAIN script.steps /\ files.sentinel = NoneYet
    /\ result.name = "ok" => result.step = 0
    /\ result.step # 0 => files.shots = 1..(result.step - 1)
    /\ result.name = "StepFailed" /\ ~interrupted =>
           files.sentinel = [step |-> result.step, interrupted |-> FALSE]
    /\ result.name # "ok" /\ result.step = 0 /\ ~interrupted =>
           files.shots = {} /\ files.sentinel = NoneYet

\* The screenshots are those of the steps done; the sentinel comes with the result; and
\* from the finally on what was said stands, while one thing after the other goes down.
DriveInv ==
    /\ DriveTypes
    /\ RecordingIsWhole
    /\ phase \in Before => files.shots = {} /\ at.step = 1
    /\ phase \in Before \cup {"step", "stepFails"} => (~interrupted => files.sentinel = NoneYet)
    /\ phase \in {"step", "stepFails"} => files.shots = 1..(at.step - 1)
    /\ phase \in {"closeContext", "closeBrowser", "stopFeeder", "returned"} => Told
    /\ phase \notin {"stopFeeder", "returned"} => ~files.video
    /\ phase \in (Before \ {"preflight"}) \cup {"closeBrowser", "stopFeeder", "returned"} => ~up.held
    /\ phase \in {"idle", "stopFeeder", "returned"} => (up.browser => "browser" \in broken)
    /\ phase \in {"idle", "returned"} => ~up.feeder

-----------------------------------------------------------------------------

\* A script that is run is a sequence of steps.
LEMMA StepsAreSeq ==
    ASSUME script \in Scripts
    PROVE  /\ script.steps \in Seq(Seq([do : STRING, selector : BOOLEAN]))
           /\ DOMAIN script.steps = 1..Len(script.steps) /\ Len(script.steps) \in Nat
           /\ script.steps = <<>> <=> Len(script.steps) = 0
BY DriveAssumption

\* What keeps a state sound that has the files, the place and the result of a sound one.
Same == UNCHANGED <<script, at, files, handler, interrupted, broken, exit>>

\* An error before the first step.
LEMMA EarlyFailure ==
    ASSUME DriveInv, phase \in Before \ {"idle"}, NEW name \in {"Error", "PreflightFailed"},
           Fails(name), Same, up' = up
    PROVE  DriveInv'
<1>1. phase' = "closeContext" /\ result' = [name |-> name, step |-> 0]
  BY DEF Fails
<1>2. DriveTypes' /\ RecordingIsWhole'
  BY <1>1 DEF Same, DriveInv, DriveTypes, RecordingIsWhole, Before
<1>3. Told'
  BY <1>1 DEF Same, DriveInv, Told
<1> QED
  BY <1>1, <1>2, <1>3 DEF Same, DriveInv, Before

\* A step on before the first step of the script, while nothing is written.
LEMMA EarlyStep ==
    ASSUME DriveInv, phase \in Before \ {"idle"}, phase' \in Before \ {"idle"}, Same,
           up' \in UpType, ~up'.held \/ phase' = "preflight"
    PROVE  DriveInv'
<1>1. ~files.video /\ (~interrupted => files.sentinel = NoneYet)
  BY DEF DriveInv, Before
<1>2. DriveTypes'
  BY DEF Same, DriveInv, DriveTypes, Before
<1>3. RecordingIsWhole'
  BY <1>1 DEF Same, RecordingIsWhole
<1> QED
  BY <1>1, <1>2, <1>3 DEF Same, DriveInv, Before

\* What comes before the first step.
LEMMA StartKeeps ==
    ASSUME DriveInv, StartFeeder \/ Launch \/ NewContext \/ Preflight
    PROVE  DriveInv'
<1>1. CASE StartFeeder
  <2>1. CASE Fails("Error") /\ UNCHANGED <<up, fed>>
    BY <1>1, <2>1, EarlyFailure DEF StartFeeder, Before, Same
  <2>2. CASE up' = [up EXCEPT !.feeder = TRUE] /\ phase' = "launch"
    BY <1>1, <2>2, EarlyStep DEF StartFeeder, Before, Same, DriveInv, DriveTypes, UpType
  <2> QED
    BY <1>1, <2>1, <2>2 DEF StartFeeder
<1>2. CASE Launch
  <2>1. CASE Fails("Error") /\ UNCHANGED up
    BY <1>2, <2>1, EarlyFailure DEF Launch, Before, Same
  <2>2. CASE up' = [up EXCEPT !.browser = TRUE] /\ phase' = "newContext"
    BY <1>2, <2>2, EarlyStep DEF Launch, Before, Same, DriveInv, DriveTypes, UpType
  <2> QED
    BY <1>2, <2>1, <2>2 DEF Launch
<1>3. CASE NewContext
  <2>1. CASE Fails("Error") /\ UNCHANGED up
    BY <1>3, <2>1, EarlyFailure DEF NewContext, Before, Same
  <2>2. CASE /\ up' = [up EXCEPT !.context = TRUE, !.held = TRUE, !.recording = "running"]
             /\ phase' = "preflight"
    BY <1>3, <2>2, EarlyStep DEF NewContext, Before, Same, DriveInv, DriveTypes, UpType
  <2> QED
    BY <1>3, <2>1, <2>2 DEF NewContext
<1>4. CASE Preflight
  <2>1. script \in Scripts /\ phase = "preflight"
    BY <1>4 DEF Preflight, DriveInv, DriveTypes
  <2>2. CASE Fails("Error") \/ Fails("PreflightFailed")
    BY <1>4, <2>2, EarlyFailure DEF Preflight, Before, Same
  <2>3. CASE script.steps # <<>> /\ phase' = "step" /\ UNCHANGED result
    <3>1. Len(script.steps) >= 1 /\ at.step = 1
      BY <2>1, <2>3, StepsAreSeq DEF DriveInv, Before
    <3>2. DriveTypes' /\ RecordingIsWhole'
      BY <1>4, <2>1, <2>3, <3>1 DEF Preflight, DriveInv, DriveTypes, RecordingIsWhole, Before
    <3>3. files.shots = 1..(at.step - 1)
      BY <2>1, <3>1 DEF DriveInv, Before
    <3> QED
      BY <1>4, <2>1, <2>3, <3>2, <3>3 DEF Preflight, DriveInv, Before
  <2>4. CASE script.steps = <<>> /\ Succeeds
    <3>1. DOMAIN script.steps = {} /\ files.shots = {}
      BY <2>1, <2>4, StepsAreSeq DEF DriveInv, Before
    <3>2. phase' = "closeContext" /\ result' = [name |-> "ok", step |-> 0]
      BY <2>4 DEF Succeeds
    <3>3. DriveTypes' /\ RecordingIsWhole'
      BY <1>4, <2>1, <3>2 DEF Preflight, DriveInv, DriveTypes, RecordingIsWhole, Before
    <3>4. Told'
      BY <1>4, <2>1, <3>1, <3>2 DEF Preflight, DriveInv, Told, Before
    <3> QED
      BY <1>4, <2>1, <3>2, <3>3, <3>4 DEF Preflight, DriveInv, Before
  <2> QED
    BY <1>4, <2>2, <2>3, <2>4 DEF Preflight
<1> QED
  BY <1>1, <1>2, <1>3, <1>4

\* The command's start.
LEMMA StartCaptureKeeps ==
    ASSUME DriveInv, NEW s \in Scripts, NEW o \in Options, StartCapture(s, o)
    PROVE  DriveInv'
<1>1. phase = "idle" /\ script' = s /\ s.valid \in BOOLEAN
  BY DriveAssumption DEF StartCapture
<1>2. files.shots = {} /\ at.step = 1 /\ ~files.video /\ (~interrupted => files.sentinel = NoneYet)
  BY <1>1 DEF DriveInv, Before
<1>3. UNCHANGED <<at, fed, up, files, interrupted, broken, exit>>
  BY DEF StartCapture
<1>4. CASE s.valid
  <2>1. phase' = "feeder" /\ handler' = "armed"
    BY <1>4 DEF StartCapture
  <2>2. DriveTypes' /\ RecordingIsWhole'
    BY <1>1, <1>2, <1>3, <1>4, <2>1 DEF DriveInv, DriveTypes, RecordingIsWhole, Before
  <2> QED
    BY <1>1, <1>2, <1>3, <2>1, <2>2 DEF DriveInv, Before
<1>5. CASE ~s.valid
  <2>1. phase' = "returned" /\ result' = [name |-> "ValidationError", step |-> 0] /\ handler' = handler
    BY <1>5 DEF StartCapture
  <2>2. DriveTypes' /\ RecordingIsWhole'
    BY <1>1, <1>2, <1>3, <2>1 DEF DriveInv, DriveTypes, RecordingIsWhole, Before
  <2>3. Told'
    BY <1>2, <1>3, <2>1 DEF Told
  <2> QED
    BY <1>1, <1>2, <1>3, <2>1, <2>2, <2>3 DEF DriveInv, Before
<1> QED
  BY <1>1, <1>4, <1>5

\* An action of a step.
LEMMA ActKeeps ==
    ASSUME DriveInv, Act
    PROVE  DriveInv'
<1>1. phase = "step" /\ at \in [step : Nat \ {0}, action : Nat \ {0}] /\ files \in FilesType
  BY DEF Act, DriveInv, DriveTypes
<1>2. UNCHANGED <<script, up, handler, interrupted, broken, result, exit>>
  BY DEF Act
<1>3. PICK to \in {"step", "stepFails"} : phase' = to
  BY <1>1 DEF Act
<1>4. at' \in [step : Nat \ {0}, action : Nat \ {0}] /\ at'.step = at.step
  BY <1>1 DEF Act
<1>5. /\ files' \in FilesType /\ files'.shots = files.shots
      /\ files'.sentinel = files.sentinel /\ files'.video = files.video
  BY <1>1 DEF Act, FilesType
<1>6. DriveTypes'
  BY <1>1, <1>2, <1>3, <1>4, <1>5 DEF DriveInv, DriveTypes, Before
<1>7. RecordingIsWhole'
  BY <1>2, <1>5 DEF DriveInv, RecordingIsWhole
<1> QED
  BY <1>1, <1>2, <1>3, <1>4, <1>5, <1>6, <1>7 DEF DriveInv, Before

\* The screenshot at the end of a step.
LEMMA BoundaryKeeps ==
    ASSUME DriveInv, Boundary
    PROVE  DriveInv'
<1>1. /\ phase = "step" /\ at \in [step : Nat \ {0}, action : Nat \ {0}] /\ files \in FilesType
      /\ script \in Scripts /\ at.step <= Len(script.steps) /\ files.shots = 1..(at.step - 1)
      /\ ~files.video /\ (~interrupted => files.sentinel = NoneYet)
  BY DEF Boundary, DriveInv, DriveTypes, Before
<1>2. UNCHANGED <<script, up, handler, interrupted, broken, exit>>
  BY DEF Boundary
<1>3. CASE phase' = "stepFails" /\ UNCHANGED <<at, files, result>>
  <2>1. DriveTypes' /\ RecordingIsWhole'
    BY <1>1, <1>2, <1>3 DEF DriveInv, DriveTypes, RecordingIsWhole, Before
  <2> QED
    BY <1>1, <1>2, <1>3, <2>1 DEF DriveInv, Before
<1>4. CASE files' = [files EXCEPT !.shots = @ \cup {at.step}]
  <2>1. /\ files' \in FilesType /\ files'.shots = 1..at.step
        /\ files'.sentinel = files.sentinel /\ files'.video = files.video
    <3>1. files.shots \cup {at.step} = 1..at.step
      BY <1>1
    <3> QED
      BY <1>1, <1>4, <3>1 DEF FilesType
  <2>2. RecordingIsWhole'
    BY <1>2, <2>1 DEF DriveInv, RecordingIsWhole
  <2>3. CASE (at.step = Len(script.steps) \/ interrupted) /\ Succeeds /\ UNCHANGED at
    <3>1. phase' = "closeContext" /\ result' = [name |-> "ok", step |-> 0]
      BY <2>3 DEF Succeeds
    <3>2. DriveTypes'
      BY <1>1, <1>2, <2>1, <2>3, <3>1 DEF DriveInv, DriveTypes, Before
    <3>3. ~interrupted => files'.shots = DOMAIN script.steps
      BY <1>1, <2>1, <2>3, StepsAreSeq
    <3>4. Told'
      BY <1>1, <1>2, <2>1, <3>1, <3>3 DEF Told
    <3> QED
      BY <1>1, <1>2, <2>1, <2>2, <3>1, <3>2, <3>4 DEF DriveInv, Before
  <2>4. CASE /\ ~(at.step = Len(script.steps) \/ interrupted)
             /\ at' = [step |-> at.step + 1, action |-> 1] /\ UNCHANGED <<phase, result>>
    <3>1. at'.step = at.step + 1 /\ files'.shots = 1..(at'.step - 1)
      <4>1. at'.step = at.step + 1 /\ at.step \in Nat
        BY <1>1, <2>4
      <4> QED
        BY <2>1, <4>1
    <3>3. at.step + 1 <= Len(script.steps)
      BY <1>1, <2>4, StepsAreSeq
    <3>2. DriveTypes'
      BY <1>1, <1>2, <2>1, <2>4, <3>1, <3>3 DEF DriveInv, DriveTypes, Before
    <3> QED
      BY <1>1, <1>2, <2>1, <2>2, <2>4, <3>1, <3>2, <3>3 DEF DriveInv, Before
  <2> QED
    <3>1. files' # files
      BY <1>1, <2>1
    <3> QED
      BY <1>4, <2>3, <2>4, <3>1 DEF Boundary
<1> QED
  BY <1>3, <1>4 DEF Boundary

\* What closing the context makes of the recording and the rest.
LEMMA ContextClosed ==
    ASSUME up \in UpType, ContextCloses
    PROVE  /\ up' \in UpType /\ ~up'.held
           /\ up'.browser = up.browser /\ up'.feeder = up.feeder
           /\ broken \subseteq broken'
           /\ "browser" \in broken' <=> "browser" \in broken
           /\ up.recording = "whole" => up'.recording = "whole"
           /\ up'.recording = "whole" \/ handler = "closing" \/ "context" \in broken'
<1>1. CASE up' = [up EXCEPT !.context = FALSE, !.held = FALSE, !.recording = "whole"] /\ UNCHANGED broken
  BY <1>1 DEF UpType
<1>2. CASE handler = "closing" /\ up' = [up EXCEPT !.held = FALSE] /\ UNCHANGED broken
  BY <1>2 DEF UpType
<1>3. CASE up' = [up EXCEPT !.held = FALSE] /\ broken' = broken \cup {"context"}
  BY <1>3 DEF UpType
<1> QED
  BY <1>1, <1>2, <1>3 DEF ContextCloses

\* A step that failed: its context closes, and its sentinel is written.
LEMMA StepFailsKeeps ==
    ASSUME DriveInv, StepFails
    PROVE  DriveInv'
<1>1. /\ phase = "stepFails" /\ phase' = "closeContext"
      /\ UNCHANGED <<script, opts, at, fed, handler, interrupted, exit>>
      /\ ContextCloses
  BY DEF StepFails
<1>2. /\ up \in UpType /\ files \in FilesType /\ at \in [step : Nat \ {0}, action : Nat \ {0}]
      /\ files.shots = 1..(at.step - 1) /\ ~files.video
      /\ handler = "closing" => interrupted
      /\ ~interrupted => files.sentinel = NoneYet
  BY <1>1 DEF DriveInv, DriveTypes, Before
<1>3. up' \in UpType /\ (up'.recording = "whole" \/ interrupted \/ "context" \in broken')
  BY <1>1, <1>2, ContextClosed
<1>4. PICK name \in {"StepFailed", "Error"} : result' = [name |-> name, step |-> at.step]
  BY DEF StepFails
<1>5. /\ files' \in FilesType /\ files'.shots = files.shots /\ files'.video = files.video
      /\ result'.name = "StepFailed" => files'.sentinel = [step |-> at.step, interrupted |-> FALSE]
  <2>1. CASE /\ files' = [files EXCEPT !.sentinel = [step |-> at.step, interrupted |-> FALSE]]
             /\ result' = [name |-> "StepFailed", step |-> at.step]
    BY <1>2, <2>1 DEF FilesType
  <2>2. CASE result' = [name |-> "Error", step |-> at.step] /\ UNCHANGED files
    BY <1>2, <2>2
  <2> QED
    BY <2>1, <2>2 DEF StepFails
<1>6. DriveTypes'
  BY <1>1, <1>2, <1>3, <1>5 DEF DriveInv, DriveTypes, Before
<1>7. RecordingIsWhole'
  BY <1>1, <1>2, <1>3, <1>5 DEF RecordingIsWhole
<1>8. Told'
  BY <1>1, <1>2, <1>4, <1>5 DEF Told
<1> QED
  BY <1>1, <1>2, <1>5, <1>6, <1>7, <1>8 DEF DriveInv, Before

\* The first thing of the finally.
LEMMA CloseContextKeeps ==
    ASSUME DriveInv, CloseContext
    PROVE  DriveInv'
<1>1. /\ phase = "closeContext" /\ phase' = "closeBrowser"
      /\ UNCHANGED <<script, opts, at, fed, files, handler, interrupted, result, exit>>
  BY DEF CloseContext
<1>2. up \in UpType /\ ~files.video /\ Told /\ (handler = "closing" => interrupted)
  BY <1>1 DEF DriveInv, DriveTypes
<1>3. /\ up' \in UpType /\ ~up'.held
      /\ up.recording = "whole" => up'.recording = "whole"
      /\ broken \subseteq broken'
  BY <1>2, ContextClosed DEF CloseContext
<1>4. DriveTypes' /\ Told'
  BY <1>1, <1>2, <1>3 DEF DriveInv, DriveTypes, Told, Before
<1>5. RecordingIsWhole'
  BY <1>1, <1>2, <1>3 DEF DriveInv, RecordingIsWhole
<1> QED
  BY <1>1, <1>2, <1>3, <1>4, <1>5 DEF DriveInv, Before

\* The browser, and the recording's final name.
LEMMA CloseBrowserKeeps ==
    ASSUME DriveInv, CloseBrowser
    PROVE  DriveInv'
<1>1. /\ phase = "closeBrowser" /\ phase' = "stopFeeder"
      /\ UNCHANGED <<script, opts, at, fed, handler, interrupted, result, exit>>
      /\ FinalizeRunVideo
  BY DEF CloseBrowser
<1>2. up \in UpType /\ files \in FilesType /\ Told /\ ~files.video /\ ~up.held
  BY <1>1 DEF DriveInv, DriveTypes
<1>3. /\ files' \in FilesType /\ files'.shots = files.shots /\ files'.sentinel = files.sentinel
      /\ files'.video => up.recording # "none"
  BY <1>1, <1>2 DEF FinalizeRunVideo, FilesType
<1>4. /\ up' \in UpType /\ ~up'.held /\ (up'.browser => "browser" \in broken')
      /\ up.recording = "whole" => up'.recording = "whole"
      /\ up.recording # "none" /\ "browser" \notin broken' => up'.recording = "whole"
      /\ "context" \in broken => "context" \in broken'
  <2>1. CASE /\ up' = [up EXCEPT !.browser = FALSE, !.context = FALSE,
                                 !.recording = IF @ = "none" THEN @ ELSE "whole"]
             /\ UNCHANGED broken
    BY <1>2, <2>1 DEF UpType
  <2>2. CASE up.browser /\ broken' = broken \cup {"browser"} /\ UNCHANGED up
    BY <1>2, <2>2
  <2> QED
    BY <2>1, <2>2 DEF CloseBrowser
<1>5. DriveTypes' /\ Told'
  BY <1>1, <1>2, <1>3, <1>4 DEF DriveInv, DriveTypes, Told, Before
<1>6. RecordingIsWhole'
  BY <1>1, <1>3, <1>4 DEF DriveInv, RecordingIsWhole
<1> QED
  BY <1>1, <1>3, <1>4, <1>5, <1>6 DEF DriveInv, Before

\* The feeder, which is the last.
LEMMA StopFeederKeeps ==
    ASSUME DriveInv, StopFeeder
    PROVE  DriveInv'
<1>1. /\ phase = "stopFeeder" /\ phase' = "returned"
      /\ UNCHANGED <<script, opts, at, fed, files, handler, interrupted, broken, result, exit>>
  BY DEF StopFeeder
<1>2. /\ up' \in UpType /\ ~up'.feeder /\ up'.held = up.held /\ up'.browser = up.browser
      /\ up'.recording = up.recording
  BY DEF StopFeeder, DriveInv, DriveTypes, UpType
<1>3. DriveTypes' /\ Told'
  BY <1>1, <1>2 DEF DriveInv, DriveTypes, Told, Before
<1>4. RecordingIsWhole'
  BY <1>1, <1>2 DEF DriveInv, RecordingIsWhole
<1> QED
  BY <1>1, <1>2, <1>3, <1>4 DEF DriveInv, Before

\* What the handler may write leaves everything but the sentinel.
LEMMA HandlerWritten ==
    ASSUME files \in FilesType, HandlerWrites \/ UNCHANGED files
    PROVE  files' \in FilesType /\ files'.shots = files.shots /\ files'.video = files.video
<1>1. CASE files' = [files EXCEPT !.sentinel = [step |-> 0, interrupted |-> TRUE]]
  BY <1>1 DEF FilesType
<1>2. CASE UNCHANGED files
  BY <1>2
<1> QED
  BY <1>1, <1>2 DEF HandlerWrites

\* Ctrl+C.
LEMMA InterruptRunKeeps ==
    ASSUME DriveInv, InterruptRun
    PROVE  DriveInv'
<1>1. /\ interrupted' /\ phase # "returned"
      /\ UNCHANGED <<phase, script, opts, at, fed, up, broken, result>>
  BY DEF InterruptRun
<1>2. files \in FilesType /\ (HandlerWrites \/ UNCHANGED files)
  BY DEF InterruptRun, DriveInv, DriveTypes
<1>3. files' \in FilesType /\ files'.shots = files.shots /\ files'.video = files.video
  BY <1>2, HandlerWritten
<1>4. DriveTypes'
  BY <1>1, <1>3 DEF DriveInv, DriveTypes
<1>5. RecordingIsWhole'
  BY <1>1, <1>3 DEF DriveInv, RecordingIsWhole
<1>6. Told => Told'
  BY <1>1, <1>3 DEF Told
<1> QED
  BY <1>1, <1>3, <1>4, <1>5, <1>6 DEF DriveInv

\* The end of what Ctrl+C began.
LEMMA HandlerEndsKeeps ==
    ASSUME DriveInv, HandlerEnds
    PROVE  DriveInv'
<1>1. /\ interrupted /\ interrupted'
      /\ UNCHANGED <<phase, script, opts, at, fed, interrupted, broken, result>>
  BY DEF HandlerEnds, DriveInv, DriveTypes
<1>2. files \in FilesType /\ up \in UpType
  BY DEF DriveInv, DriveTypes
<1>3. files' \in FilesType /\ files'.shots = files.shots /\ files'.video = files.video
  BY <1>2, HandlerWritten DEF HandlerEnds
<1>4. /\ up' \in UpType /\ up'.held = up.held /\ up'.browser = up.browser /\ up'.feeder = up.feeder
      /\ up.recording = "whole" => up'.recording = "whole"
  BY <1>2 DEF HandlerEnds, UpType
<1>5. DriveTypes'
  BY <1>1, <1>3, <1>4 DEF DriveInv, DriveTypes
<1>6. RecordingIsWhole'
  BY <1>1, <1>3, <1>4 DEF DriveInv, RecordingIsWhole
<1>7. Told => Told'
  BY <1>1, <1>3 DEF Told
<1> QED
  BY <1>1, <1>3, <1>4, <1>5, <1>6, <1>7 DEF DriveInv

\* CaptureIsWhole for any scripts and options: a recording that has its final name, or
\* stands beside a sentinel, is whole, and a capture that returned left the screenshots
\* and the sentinel its result speaks of, with nothing running.
THEOREM CapturesAreWhole == DriveSpec => []CaptureIsWhole
<1>1. DriveInit => DriveInv
  <2> SUFFICES ASSUME DriveInit
               PROVE  DriveInv
    OBVIOUS
  <2>1. files \in FilesType /\ up \in UpType
    BY DEF DriveInit, NoFiles, AllDown, FilesType, UpType
  <2>2. DriveTypes
    BY <2>1 DEF DriveInit, DriveTypes, Before
  <2> QED
    BY <2>2 DEF DriveInit, DriveInv, RecordingIsWhole, NoFiles, AllDown, Before
<1>2. DriveInv /\ [DriveNext]_driveVars => DriveInv'
  <2> SUFFICES ASSUME DriveInv, [DriveNext]_driveVars
               PROVE  DriveInv'
    OBVIOUS
  <2>1. CASE UNCHANGED driveVars
    BY <2>1 DEF driveVars, DriveInv, DriveTypes, RecordingIsWhole, Told
  <2> QED
    BY <2>1, StartCaptureKeeps, StartKeeps, ActKeeps, BoundaryKeeps, StepFailsKeeps, CloseContextKeeps,
       CloseBrowserKeeps, StopFeederKeeps, InterruptRunKeeps, HandlerEndsKeeps DEF DriveNext
<1>3. DriveInv => CaptureIsWhole
  <2> SUFFICES ASSUME DriveInv
               PROVE  RecordingIsWhole /\ OutcomeMatchesFiles
    BY DEF CaptureIsWhole
  <2>1. ASSUME phase = "returned"
        PROVE  /\ Told /\ ~up.feeder /\ ~up.held /\ (up.browser => "browser" \in broken)
               /\ exit => interrupted
    BY <2>1 DEF DriveInv, DriveTypes
  <2>2. ~exit => (ExitCode = 0 <=> result.name = "ok")
    BY DEF ExitCode
  <2> QED
    BY <2>1, <2>2 DEF DriveInv, Told, OutcomeMatchesFiles
<1> QED
  BY <1>1, <1>2, <1>3, PTL DEF DriveSpec

-----------------------------------------------------------------------------
(***************************************************************************)
(* DeckFolder.                                                             *)
(***************************************************************************)

\* What the steps of a run are made of.
Texts(s, ph) ==
    {SlotText(s, ph, Slots[i]) : i \in 1..8} \cup {DerivedText(s, f) : f \in Derived}
    \cup {Missing, Deck(s, ph), {Word("appendix")}}

StepType(s, ph) == [op : {"write", "remove"}, file : Files, text : Texts(s, ph)]

\* No file is in p twice.
EachOnce(p) == \A i, j \in 1..Len(p) : p[i].file = p[j].file => i = j

Of(p) == {p[i] : i \in 1..Len(p)}

\* Two parts of a run that have no file in common.
LEMMA JoinedOnce ==
    ASSUME NEW T, NEW p \in Seq(T), NEW q \in Seq(T), EachOnce(p), EachOnce(q),
           \A x \in Of(p), y \in Of(q) : x.file # y.file
    PROVE  p \o q \in Seq(T) /\ EachOnce(p \o q) /\ Of(p \o q) = Of(p) \cup Of(q)
<1>1. PICK r : r = p \o q
  OBVIOUS
<1>2. PICK m \in Nat, n \in Nat : m = Len(p) /\ n = Len(q)
  OBVIOUS
<1>3. /\ r \in Seq(T) /\ Len(r) = m + n
      /\ \A i \in 1..m : r[i] = p[i]
      /\ \A i \in 1..n : r[m + i] = q[i]
  BY <1>1, <1>2
<1>4. \A i \in 1..(m + n) : i \in 1..m \/ (i - m \in 1..n /\ i = m + (i - m))
  BY <1>2
<1>5. Of(r) = Of(p) \cup Of(q)
  <2>1. ASSUME NEW x \in Of(r) PROVE x \in Of(p) \cup Of(q)
    <3>1. PICK i \in 1..(m + n) : x = r[i]
      BY <1>3 DEF Of
    <3>2. CASE i \in 1..m
      BY <1>2, <1>3, <3>1, <3>2 DEF Of
    <3>3. CASE i - m \in 1..n /\ i = m + (i - m)
      BY <1>2, <1>3, <3>1, <3>3 DEF Of
    <3> QED
      BY <1>4, <3>2, <3>3
  <2>2. ASSUME NEW x \in Of(p) PROVE x \in Of(r)
    BY <1>2, <1>3 DEF Of
  <2>3. ASSUME NEW x \in Of(q) PROVE x \in Of(r)
    <3>1. PICK i \in 1..n : x = q[i]
      BY <1>2 DEF Of
    <3>2. m + i \in 1..Len(r) /\ r[m + i] = x
      BY <1>2, <1>3, <3>1
    <3> QED
      BY <3>2 DEF Of
  <2> QED
    BY <2>1, <2>2, <2>3
<1>6. EachOnce(r)
  <2> SUFFICES ASSUME NEW i \in 1..(m + n), NEW j \in 1..(m + n), r[i].file = r[j].file
               PROVE  i = j
    BY <1>3 DEF EachOnce
  <2>1. CASE i \in 1..m /\ j \in 1..m
    BY <1>2, <1>3, <2>1 DEF EachOnce
  <2>2. ASSUME NEW k \in 1..n, i = m + k
        PROVE  r[i] = q[k] /\ r[i] \in Of(q)
    BY <1>2, <1>3, <2>2 DEF Of
  <2>3. ASSUME NEW k \in 1..n, j = m + k
        PROVE  r[j] = q[k] /\ r[j] \in Of(q)
    BY <1>2, <1>3, <2>3 DEF Of
  <2>4. /\ i \in 1..m => r[i] \in Of(p)
        /\ j \in 1..m => r[j] \in Of(p)
    BY <1>2, <1>3 DEF Of
  <2>5. CASE i - m \in 1..n /\ j - m \in 1..n
    <3>1. PICK k \in 1..n, l \in 1..n : i = m + k /\ j = m + l
      BY <2>5
    <3>2. q[k].file = q[l].file
      BY <2>2, <2>3, <3>1
    <3>3. k = l
      BY <1>2, <3>2 DEF EachOnce
    <3> QED
      BY <3>1, <3>3
  <2> QED
    BY <1>4, <2>1, <2>2, <2>3, <2>4, <2>5
<1> QED
  BY <1>1, <1>3, <1>5, <1>6

\* Four parts of a run.
LEMMA FourJoinedOnce ==
    ASSUME NEW T, NEW a \in Seq(T), NEW b \in Seq(T), NEW c \in Seq(T), NEW d \in Seq(T),
           EachOnce(a), EachOnce(b), EachOnce(c), EachOnce(d),
           \A x \in Of(a), y \in Of(b) : x.file # y.file,
           \A x \in Of(a) \cup Of(b), y \in Of(c) : x.file # y.file,
           \A x \in Of(a) \cup Of(b) \cup Of(c), y \in Of(d) : x.file # y.file
    PROVE  /\ ((a \o b) \o c) \o d \in Seq(T) /\ EachOnce(((a \o b) \o c) \o d)
           /\ Of(((a \o b) \o c) \o d) = Of(a) \cup Of(b) \cup Of(c) \cup Of(d)
<1>1. a \o b \in Seq(T) /\ EachOnce(a \o b) /\ Of(a \o b) = Of(a) \cup Of(b)
  BY JoinedOnce
<1>2. PICK ab : ab = a \o b
  OBVIOUS
<1>3. ab \in Seq(T) /\ EachOnce(ab) /\ \A x \in Of(ab), y \in Of(c) : x.file # y.file
  BY <1>1, <1>2
<1>4. ab \o c \in Seq(T) /\ EachOnce(ab \o c) /\ Of(ab \o c) = Of(ab) \cup Of(c)
  BY <1>3, JoinedOnce
<1>5. PICK abc : abc = ab \o c
  OBVIOUS
<1>6. abc \in Seq(T) /\ EachOnce(abc) /\ \A x \in Of(abc), y \in Of(d) : x.file # y.file
  BY <1>1, <1>2, <1>4, <1>5
<1>7. abc \o d \in Seq(T) /\ EachOnce(abc \o d) /\ Of(abc \o d) = Of(abc) \cup Of(d)
  BY <1>6, JoinedOnce
<1> QED
  BY <1>1, <1>2, <1>4, <1>5, <1>7

\* The artifacts of one kind, in their order.
LEMMA OfArtifacts ==
    ASSUME NEW S \in SUBSET Derived
    PROVE  /\ Selected(Artifacts, S) \in Seq(Derived)
           /\ \A i, j \in 1..Len(Selected(Artifacts, S)) :
                Selected(Artifacts, S)[i] = Selected(Artifacts, S)[j] => i = j
           /\ {Selected(Artifacts, S)[i] : i \in 1..Len(Selected(Artifacts, S))} = S
<1>1. /\ Artifacts \in Seq(Derived) /\ Len(Artifacts) = 3
      /\ Artifacts[1] = "diagram" /\ Artifacts[2] = "tam" /\ Artifacts[3] = "revenue"
  BY DEF Artifacts, Derived
<1>2. PICK q : q = Selected(Artifacts, S)
  OBVIOUS
<1>3. PICK pos : q \in Seq(Derived) /\ PicksUpTo(Artifacts, S, 3, q, pos)
  BY <1>1, <1>2, SelectedFacts
<1>4. \A k, l \in 1..3 : Artifacts[k] = Artifacts[l] => k = l
  BY <1>1
<1>5. ASSUME NEW i \in 1..Len(q), NEW j \in 1..Len(q), q[i] = q[j]
      PROVE  i = j
  <2>1. pos[i] = pos[j] /\ pos[i] \in 1..3
    BY <1>3, <1>4, <1>5 DEF PicksUpTo
  <2>2. Len(q) \in Nat
    BY <1>3
  <2>3. ~(i < j) /\ ~(j < i)
    BY <1>3, <2>1 DEF PicksUpTo
  <2> QED
    BY <2>2, <2>3
<1>6. ASSUME NEW f \in S PROVE \E i \in 1..Len(q) : q[i] = f
  <2>1. PICK k \in 1..3 : Artifacts[k] = f
    BY <1>1 DEF Derived
  <2> QED
    BY <1>3, <2>1 DEF PicksUpTo
<1>7. \A i \in 1..Len(q) : q[i] \in S
  BY <1>3 DEF PicksUpTo
<1> QED
  BY <1>2, <1>3, <1>5, <1>6, <1>7

\* The steps of a run: the slots, the artifacts it has, those it has not, and the deck
\* with its appendix; each file once.
LEMMA StepsAre ==
    ASSUME NEW s, NEW ph
    PROVE  /\ StepsOf(s, ph) \in Seq(StepType(s, ph)) /\ EachOnce(StepsOf(s, ph))
           /\ Of(StepsOf(s, ph)) =
                {WriteStep(Slots[i], SlotText(s, ph, Slots[i])) : i \in 1..8}
                \cup {WriteStep(f, DerivedText(s, f)) : f \in Emitted(s)}
                \cup {RemoveStep(f) : f \in IF IsSkeleton(s) THEN {} ELSE Derived \ Emitted(s)}
                \cup {WriteStep("deck", Deck(s, ph)), WriteStep("appendix", {Word("appendix")})}
<1> DEFINE T == StepType(s, ph)
           S == IF IsSkeleton(s) THEN {} ELSE Derived \ Emitted(s)
           a == [i \in DOMAIN Slots |-> WriteStep(Slots[i], SlotText(s, ph, Slots[i]))]
           derived == Selected(Artifacts, Emitted(s))
           b == [i \in DOMAIN derived |-> WriteStep(derived[i], DerivedText(s, derived[i]))]
           stale == IF IsSkeleton(s) THEN <<>> ELSE Selected(Artifacts, Derived \ Emitted(s))
           c == [i \in DOMAIN stale |-> RemoveStep(stale[i])]
           d == <<WriteStep("deck", Deck(s, ph)), WriteStep("appendix", {Word("appendix")})>>
<1>1. StepsOf(s, ph) = ((a \o b) \o c) \o d
  BY DEF StepsOf
<1>2. /\ a \in Seq(T) /\ EachOnce(a)
      /\ Of(a) = {WriteStep(Slots[i], SlotText(s, ph, Slots[i])) : i \in 1..8}
  <2>1. DOMAIN Slots = 1..8 /\ \A i \in 1..8 : Slots[i] \in Files
    BY DEF Slots, Files
  <2>2. \A i, j \in 1..8 : Slots[i] = Slots[j] => i = j
    BY DEF Slots
  <2>3. \A i \in 1..8 : WriteStep(Slots[i], SlotText(s, ph, Slots[i])) \in T
    BY <2>1 DEF WriteStep, StepType, Texts
  <2>4. a \in Seq(T) /\ Len(a) = 8
    BY <2>1, <2>3
  <2>5. EachOnce(a)
    BY <2>1, <2>2, <2>4 DEF EachOnce, WriteStep
  <2>6. Of(a) = {WriteStep(Slots[i], SlotText(s, ph, Slots[i])) : i \in 1..8}
    BY <2>1, <2>4 DEF Of
  <2> QED
    BY <2>4, <2>5, <2>6
<1>3. Emitted(s) \subseteq Derived /\ S \subseteq Derived
  BY DEF Emitted
<1>4. b \in Seq(T) /\ EachOnce(b) /\ Of(b) = {WriteStep(f, DerivedText(s, f)) : f \in Emitted(s)}
  <2> HIDE DEF derived
  <2>1. /\ derived \in Seq(Derived)
        /\ \A i, j \in 1..Len(derived) : derived[i] = derived[j] => i = j
        /\ {derived[i] : i \in 1..Len(derived)} = Emitted(s)
    BY <1>3, OfArtifacts DEF derived
  <2>2. \A f \in Derived : WriteStep(f, DerivedText(s, f)) \in T
    BY DEF WriteStep, StepType, Texts, Derived, Files
  <2>3. b \in Seq(T) /\ Len(b) = Len(derived)
    BY <2>1, <2>2
  <2>4. EachOnce(b)
    BY <2>1, <2>3 DEF EachOnce, WriteStep
  <2>5. Of(b) = {WriteStep(f, DerivedText(s, f)) : f \in Emitted(s)}
    <3>1. Of(b) = {WriteStep(derived[i], DerivedText(s, derived[i])) : i \in 1..Len(derived)}
      BY <2>1, <2>3 DEF Of
    <3> QED
      BY <2>1, <3>1
  <2> QED
    BY <2>3, <2>4, <2>5
<1>5. c \in Seq(T) /\ EachOnce(c) /\ Of(c) = {RemoveStep(f) : f \in S}
  <2> HIDE DEF stale, S
  <2>1. /\ stale \in Seq(Derived)
        /\ \A i, j \in 1..Len(stale) : stale[i] = stale[j] => i = j
        /\ {stale[i] : i \in 1..Len(stale)} = S
    <3>1. CASE IsSkeleton(s)
      BY <3>1 DEF stale, S
    <3>2. CASE ~IsSkeleton(s)
      <4>1. stale = Selected(Artifacts, S) /\ S \in SUBSET Derived
        BY <1>3, <3>2 DEF stale, S
      <4> QED
        BY <4>1, OfArtifacts
    <3> QED
      BY <3>1, <3>2
  <2>2. \A f \in Derived : RemoveStep(f) \in T
    BY DEF RemoveStep, StepType, Texts, Derived, Files
  <2>3. c \in Seq(T) /\ Len(c) = Len(stale)
    BY <2>1, <2>2
  <2>4. EachOnce(c)
    BY <2>1, <2>3 DEF EachOnce, RemoveStep
  <2>5. Of(c) = {RemoveStep(f) : f \in S}
    <3>1. Of(c) = {RemoveStep(stale[i]) : i \in 1..Len(stale)}
      BY <2>1, <2>3 DEF Of
    <3> QED
      BY <2>1, <3>1
  <2> QED
    BY <2>3, <2>4, <2>5
<1>6. /\ d \in Seq(T) /\ EachOnce(d)
      /\ Of(d) = {WriteStep("deck", Deck(s, ph)), WriteStep("appendix", {Word("appendix")})}
  <2>1. WriteStep("deck", Deck(s, ph)) \in T /\ WriteStep("appendix", {Word("appendix")}) \in T
    BY DEF WriteStep, StepType, Texts, Files
  <2>2. d \in Seq(T) /\ Len(d) = 2 /\ d[1] = WriteStep("deck", Deck(s, ph))
        /\ d[2] = WriteStep("appendix", {Word("appendix")})
    BY <2>1
  <2>3. EachOnce(d)
    BY <2>2 DEF EachOnce, WriteStep
  <2>4. Of(d) = {d[1], d[2]}
    BY <2>2 DEF Of
  <2> QED
    BY <2>2, <2>3, <2>4
<1>7. /\ \A x \in Of(a) : x.file \in Files \ (Derived \cup {"deck", "appendix"})
      /\ \A x \in Of(b) : x.file \in Emitted(s)
      /\ \A x \in Of(c) : x.file \in Derived \ Emitted(s)
      /\ \A x \in Of(d) : x.file \in {"deck", "appendix"}
  <2>1. \A i \in 1..8 : Slots[i] \in Files \ (Derived \cup {"deck", "appendix"})
    BY DEF Slots, Files, Derived
  <2>2. \A x \in Of(a) : x.file \in Files \ (Derived \cup {"deck", "appendix"})
    BY <1>2, <2>1 DEF WriteStep
  <2>3. \A x \in Of(b) : x.file \in Emitted(s)
    <3>1. \A f \in Emitted(s) : WriteStep(f, DerivedText(s, f)).file = f
      BY DEF WriteStep
    <3>2. Of(b) = {WriteStep(f, DerivedText(s, f)) : f \in Emitted(s)}
      BY <1>4
    <3> HIDE DEF b
    <3> QED
      BY <3>1, <3>2
  <2>4. \A x \in Of(c) : x.file \in Derived \ Emitted(s)
    <3>1. \A f \in S : RemoveStep(f).file = f
      BY DEF RemoveStep
    <3>2. S \subseteq Derived \ Emitted(s)
      OBVIOUS
    <3> HIDE DEF S
    <3> QED
      BY <1>5, <3>1, <3>2
  <2>5. \A x \in Of(d) : x.file \in {"deck", "appendix"}
    BY <1>6 DEF WriteStep
  <2> QED
    BY <2>2, <2>3, <2>4, <2>5
<1> HIDE DEF a, b, c, d, T, S
<1>8. "deck" \notin Derived /\ "appendix" \notin Derived
  BY DEF Derived
<1>9. /\ \A x \in Of(a), y \in Of(b) : x.file # y.file
      /\ \A x \in Of(a) \cup Of(b), y \in Of(c) : x.file # y.file
      /\ \A x \in Of(a) \cup Of(b) \cup Of(c), y \in Of(d) : x.file # y.file
  BY <1>3, <1>7, <1>8
<1>10. a \in Seq(T) /\ b \in Seq(T) /\ c \in Seq(T) /\ d \in Seq(T)
  BY <1>2, <1>4, <1>5, <1>6
<1>11. EachOnce(a) /\ EachOnce(b) /\ EachOnce(c) /\ EachOnce(d)
  BY <1>2, <1>4, <1>5, <1>6
<1>12. PICK all : all = ((a \o b) \o c) \o d
  OBVIOUS
<1>13. all \in Seq(T) /\ EachOnce(all) /\ Of(all) = Of(a) \cup Of(b) \cup Of(c) \cup Of(d)
  BY <1>9, <1>10, <1>11, <1>12, FourJoinedOnce
<1>14. StepsOf(s, ph) = all
  BY <1>1, <1>12
<1> QED
  BY <1>2, <1>4, <1>5, <1>6, <1>13, <1>14 DEF T, S

-----------------------------------------------------------------------------

\* A step that was taken is still to be seen in the folder, but for the appendix.
Seen(x, wrote) ==
    folder[x.file] = x.text \/ (x.op = "remove" /\ "stuck" \in wrote) \/ x.file = "appendix"

\* A run under way took its first n steps and has the others to come.
Under(s, ph, again, n, wrote) ==
    /\ s \in AnySources /\ ph \in AnyPhrasings /\ again \in BOOLEAN
    /\ n \in Nat /\ n <= Len(StepsOf(s, ph))
    /\ job = [src |-> s, ph |-> ph, again |-> again,
              steps |-> SubSeq(StepsOf(s, ph), n + 1, Len(StepsOf(s, ph))), wrote |-> wrote]
    /\ \A i \in 1..n : Seen(StepsOf(s, ph)[i], wrote)

Through(s, ph, wrote) ==
    /\ s \in AnySources /\ ph \in AnyPhrasings
    /\ last = [src |-> s, ph |-> ph, wrote |-> wrote]
    /\ \A i \in 1..Len(StepsOf(s, ph)) : Seen(StepsOf(s, ph)[i], wrote)

\* Every step that a run took is still to be seen while it takes the others, and all of
\* them when it is over, until the next one starts.
DeckInv ==
    /\ folder = [f \in Files |-> folder[f]]
    /\ job # Missing =>
         /\ last = Missing
         /\ \E s, ph, again, n, wrote : Under(s, ph, again, n, wrote)
    /\ last # Missing =>
         \E s, ph, wrote : Through(s, ph, wrote)

\* What is left of a sequence of steps.
LEMMA Remaining ==
    ASSUME NEW T, NEW p \in Seq(T), NEW n \in Nat, n <= Len(p)
    PROVE  /\ SubSeq(p, n + 1, Len(p)) = <<>> => n = Len(p)
           /\ SubSeq(p, n + 1, Len(p)) # <<>> =>
                /\ n + 1 <= Len(p)
                /\ Head(SubSeq(p, n + 1, Len(p))) = p[n + 1]
                /\ Tail(SubSeq(p, n + 1, Len(p))) = SubSeq(p, (n + 1) + 1, Len(p))
<1>1. PICK m \in Nat : m = Len(p)
  OBVIOUS
<1>2. CASE n = m
  BY <1>1, <1>2
<1>3. CASE n < m
  <2>1. PICK q : q = SubSeq(p, n + 1, m)
    OBVIOUS
  <2>2. q \in Seq(T) /\ Len(q) = m - n /\ \A i \in 1..(m - n) : q[i] = p[n + i]
    BY <1>1, <1>3, <2>1
  <2>3. q # <<>> /\ Head(q) = p[n + 1]
    BY <1>1, <1>3, <2>2
  <2>4. Tail(q) = SubSeq(p, (n + 1) + 1, m)
    <3>1. PICK r : r = SubSeq(p, (n + 1) + 1, m)
      OBVIOUS
    <3>2. r = [i \in 1..(m - n - 1) |-> p[n + 1 + i]]
      BY <1>1, <1>3, <3>1
    <3>3. Tail(q) = [i \in 1..(m - n - 1) |-> q[i + 1]]
      <4>1. PICK w : w = Tail(q)
        OBVIOUS
      <4>2. w \in Seq(T) /\ Len(w) = m - n - 1 /\ \A i \in 1..Len(w) : w[i] = q[i + 1]
        BY <1>1, <1>3, <2>2, <2>3, <4>1, HeadTailProperties
      <4>3. w = [i \in 1..Len(w) |-> w[i]]
        BY <4>2
      <4> QED
        BY <4>1, <4>2, <4>3
    <3>4. ASSUME NEW i \in 1..(m - n - 1) PROVE q[i + 1] = p[n + 1 + i]
      <4>1. PICK j \in 1..(m - n) : j = i + 1
        BY <1>3
      <4>2. q[j] = p[n + j] /\ n + j = n + 1 + i
        BY <2>2, <4>1
      <4> QED
        BY <4>1, <4>2
    <3> QED
      BY <2>2, <3>1, <3>2, <3>3, <3>4
  <2> QED
    BY <1>1, <1>3, <2>1, <2>3, <2>4
<1> QED
  BY <1>1, <1>2, <1>3

\* One more step: what was seen of the others is not touched.
LEMMA OneMoreSeen ==
    ASSUME NEW s \in AnySources, NEW ph \in AnyPhrasings, NEW again \in BOOLEAN, NEW n \in Nat,
           NEW wrote, NEW more,
           DeckInv, Under(s, ph, again, n, wrote), job.steps # <<>>, last = Missing, last' = last,
           job' = [job EXCEPT !.steps = Tail(@), !.wrote = more],
           wrote \subseteq more,
           LET x == Head(job.steps)
           IN \/ folder' = [folder EXCEPT ![x.file] = x.text]
              \/ folder' = folder /\ x.op = "remove" /\ "stuck" \in more
              \/ folder' = folder /\ x.file = "appendix"
    PROVE  Under(s, ph, again, n + 1, more)'
<1>1. PICK p : p = StepsOf(s, ph)
  OBVIOUS
<1>2. p \in Seq(StepType(s, ph)) /\ EachOnce(p) /\ Len(p) \in Nat
  BY <1>1, StepsAre
<1>3. /\ n <= Len(p) /\ \A i \in 1..n : Seen(p[i], wrote)
      /\ job = [src |-> s, ph |-> ph, again |-> again, steps |-> SubSeq(p, n + 1, Len(p)),
                wrote |-> wrote]
  BY <1>1 DEF Under
<1>4. SubSeq(p, n + 1, Len(p)) # <<>>
  BY <1>3
<1>5. /\ n + 1 <= Len(p) /\ Head(SubSeq(p, n + 1, Len(p))) = p[n + 1]
      /\ Tail(SubSeq(p, n + 1, Len(p))) = SubSeq(p, (n + 1) + 1, Len(p))
  BY <1>2, <1>3, <1>4, Remaining
<1>6. job' = [src |-> s, ph |-> ph, again |-> again, steps |-> SubSeq(p, (n + 1) + 1, Len(p)),
              wrote |-> more]
  BY <1>3, <1>5
<1>7. PICK x : x = p[n + 1]
  OBVIOUS
<1>8. x \in StepType(s, ph) /\ x.file \in Files
  <2>1. x \in StepType(s, ph)
    BY <1>2, <1>5, <1>7
  <2> QED
    BY <2>1 DEF StepType
<1>9. \/ folder' = [folder EXCEPT ![x.file] = x.text]
      \/ folder' = folder /\ x.op = "remove" /\ "stuck" \in more
      \/ folder' = folder /\ x.file = "appendix"
  BY <1>3, <1>5, <1>7
<1>10. folder = [f \in Files |-> folder[f]]
  BY DEF DeckInv
<1>11. Seen(x, more)'
  BY <1>8, <1>9, <1>10 DEF Seen
<1>12. ASSUME NEW i \in 1..n PROVE Seen(p[i], more)'
  <2>1. p[i] \in StepType(s, ph) /\ p[i].file \in Files /\ p[i].file # x.file
    <3>1. i \in 1..Len(p) /\ n + 1 \in 1..Len(p) /\ i # n + 1
      <4>1. n + 1 <= Len(p) /\ Len(p) \in Nat
        BY <1>2, <1>5
      <4> QED
        BY <4>1
    <3>2. p[i] \in StepType(s, ph)
      BY <1>2, <3>1
    <3> QED
      BY <1>2, <1>7, <3>1, <3>2 DEF StepType, EachOnce
  <2>2. folder'[p[i].file] = folder[p[i].file]
    BY <1>8, <1>9, <1>10, <2>1
  <2>3. Seen(p[i], wrote)
    BY <1>3
  <2> QED
    BY <2>2, <2>3 DEF Seen
<1>13. \A i \in 1..(n + 1) : Seen(p[i], more)'
  BY <1>7, <1>11, <1>12
<1>14. n + 1 \in Nat
  OBVIOUS
<1> QED
  BY <1>1, <1>5, <1>6, <1>13, <1>14 DEF Under

\* Each step of the command keeps what was seen.
LEMMA DeckInvInductive ==
    ASSUME DeckInv, [DeckNext]_deckVars
    PROVE  DeckInv'
<1>1. CASE UNCHANGED deckVars
  <2>1. folder' = folder /\ job' = job /\ last' = last
    BY <1>1 DEF deckVars
  <2>2. \A s, ph, again, n, wrote : Under(s, ph, again, n, wrote) => Under(s, ph, again, n, wrote)'
    BY <2>1 DEF Under, Seen
  <2>3. \A s, ph, wrote : Through(s, ph, wrote) => Through(s, ph, wrote)'
    BY <2>1, Zenon DEF Through, Seen
  <2> QED
    BY <2>1, <2>2, <2>3, Zenon DEF DeckInv
<1>2. ASSUME NEW s \in AnySources, NEW ph \in AnyPhrasings, NEW again \in BOOLEAN,
             job' = Job(s, ph, again), last' = Missing, folder' = folder
      PROVE  DeckInv'
  <2>1. PICK p : p = StepsOf(s, ph) /\ p \in Seq(StepType(s, ph)) /\ Len(p) \in Nat
    BY StepsAre
  <2>2. SubSeq(p, 0 + 1, Len(p)) = p
    BY <2>1
  <2>3. Under(s, ph, again, 0, {})'
    <3>1. job' = [src |-> s, ph |-> ph, again |-> again, steps |-> SubSeq(p, 0 + 1, Len(p)), wrote |-> {}]
      BY <1>2, <2>1, <2>2 DEF Job
    <3>2. 1..0 = {} /\ 0 <= Len(p)
      BY <2>1
    <3> QED
      BY <2>1, <3>1, <3>2 DEF Under
  <2> QED
    BY <1>2, <2>3 DEF DeckInv
<1>3. ASSUME job' = Missing, last' = Missing, folder' = folder
      PROVE  DeckInv'
  BY <1>3 DEF DeckInv
<1>4. ASSUME NEW s \in Sources, NEW ph \in Phrasings, StartRun(s, ph)
      PROVE  DeckInv'
  BY <1>2, <1>4 DEF StartRun, AnySources, AnyPhrasings
<1>5. CASE RunFails
  BY <1>2, <1>3, <1>5 DEF RunFails, AnySources, AnyPhrasings
<1>6. CASE RunKilled
  BY <1>3, <1>6 DEF RunKilled
<1>7. CASE WriteFileAtomic \/ RemoveStale \/ SkipAppendix
  <2>1. job # Missing /\ job.steps # <<>> /\ last' = last
    BY <1>7 DEF WriteFileAtomic, RemoveStale, SkipAppendix
  <2>2. PICK s, ph, again, n, wrote :
           Under(s, ph, again, n, wrote) /\ last = Missing
    BY <2>1 DEF DeckInv
  <2>0. s \in AnySources /\ ph \in AnyPhrasings /\ again \in BOOLEAN /\ n \in Nat
    BY <2>2 DEF Under
  <2>3. PICK x : x = Head(job.steps) /\ (x.op = "remove" => x.text = Missing)
    <3>1. PICK p : p = StepsOf(s, ph) /\ p \in Seq(StepType(s, ph)) /\ Len(p) \in Nat
      BY StepsAre
    <3>2. job.steps = SubSeq(p, n + 1, Len(p)) /\ n <= Len(p)
      BY <2>2, <3>1 DEF Under
    <3>3. Head(job.steps) = p[n + 1] /\ n + 1 <= Len(p)
      BY <2>0, <2>1, <3>1, <3>2, Remaining
    <3>4. p[n + 1] \in Of(p)
      BY <2>0, <3>1, <3>3 DEF Of
    <3>5. \A x \in Of(p) : x.op = "remove" => x.text = Missing
      BY <3>1, StepsAre DEF WriteStep, RemoveStep
    <3> QED
      BY <3>3, <3>4, <3>5
  <2>4. \E more : /\ job' = [job EXCEPT !.steps = Tail(@), !.wrote = more]
                  /\ wrote \subseteq more
                  /\ \/ folder' = [folder EXCEPT ![x.file] = x.text]
                     \/ folder' = folder /\ x.op = "remove" /\ "stuck" \in more
                     \/ folder' = folder /\ x.file = "appendix"
    <3>1. job.wrote = wrote /\ job = [job EXCEPT !.wrote = @]
      BY <2>2 DEF Under
    <3>2. CASE WriteFileAtomic
      <4>1. /\ folder' = [folder EXCEPT ![x.file] = x.text]
            /\ job' = [job EXCEPT !.steps = Tail(@),
                                   !.wrote = IF folder[x.file] = x.text THEN @ ELSE @ \cup {x.file}]
        BY <2>3, <3>2 DEF WriteFileAtomic
      <4>2. CASE folder[x.file] = x.text
        BY <3>1, <4>1, <4>2
      <4>3. CASE folder[x.file] # x.text
        <5>1. job' = [job EXCEPT !.steps = Tail(@), !.wrote = wrote \cup {x.file}]
          BY <3>1, <4>1, <4>3
        <5> QED
          BY <4>1, <5>1
      <4> QED
        BY <4>2, <4>3
    <3>3. CASE RemoveStale
      <4>1. x.op = "remove" /\ x.text = Missing
        BY <2>3, <3>3 DEF RemoveStale
      <4>2. CASE /\ folder' = [folder EXCEPT ![x.file] = Missing]
                 /\ job' = [job EXCEPT !.steps = Tail(@),
                              !.wrote = IF folder[x.file] = Missing THEN @ ELSE @ \cup {x.file}]
        <5>1. CASE folder[x.file] = Missing
          BY <3>1, <4>1, <4>2, <5>1
        <5>2. CASE folder[x.file] # Missing
          <6>1. job' = [job EXCEPT !.steps = Tail(@), !.wrote = wrote \cup {x.file}]
            BY <3>1, <4>2, <5>2
          <6> QED
            BY <4>1, <4>2, <6>1
        <5> QED
          BY <5>1, <5>2
      <4>3. CASE /\ job' = [job EXCEPT !.steps = Tail(@), !.wrote = @ \cup {"stuck"}]
                 /\ folder' = folder
        <5>1. job' = [job EXCEPT !.steps = Tail(@), !.wrote = wrote \cup {"stuck"}]
          BY <3>1, <4>3
        <5> QED
          BY <4>1, <4>3, <5>1
      <4> QED
        BY <2>3, <3>3, <4>2, <4>3 DEF RemoveStale
    <3>4. CASE SkipAppendix
      <4>1. folder' = folder /\ x.file = "appendix" /\ job' = [job EXCEPT !.steps = Tail(@)]
        BY <2>3, <3>4 DEF SkipAppendix
      <4>2. job.wrote = wrote
        BY <3>1
      <4>3. job' = [job EXCEPT !.steps = Tail(@), !.wrote = wrote]
        BY <4>1, <4>2, Zenon
      <4> QED
        BY <4>1, <4>3
    <3> QED
      BY <1>7, <3>2, <3>3, <3>4
  <2>5. PICK more : /\ job' = [job EXCEPT !.steps = Tail(@), !.wrote = more]
                    /\ wrote \subseteq more
                    /\ \/ folder' = [folder EXCEPT ![x.file] = x.text]
                       \/ folder' = folder /\ x.op = "remove" /\ "stuck" \in more
                       \/ folder' = folder /\ x.file = "appendix"
    BY <2>4
  <2>6. Under(s, ph, again, n + 1, more)'
    BY <2>0, <2>1, <2>2, <2>3, <2>5, OneMoreSeen
  <2>7. folder' = [f \in Files |-> folder'[f]]
    BY <2>5 DEF DeckInv
  <2>8. last' = Missing
    BY <2>1, <2>2
  <2> QED
    BY <2>6, <2>7, <2>8 DEF DeckInv
<1>8. CASE FinishRun
  <2>1. PICK s, ph, again, n, wrote :
           Under(s, ph, again, n, wrote)
    BY <1>8 DEF FinishRun, DeckInv
  <2>2. PICK p : p = StepsOf(s, ph) /\ p \in Seq(StepType(s, ph)) /\ Len(p) \in Nat
    BY StepsAre
  <2>3. /\ job = [src |-> s, ph |-> ph, again |-> again, steps |-> SubSeq(p, n + 1, Len(p)),
                  wrote |-> wrote]
        /\ n \in Nat /\ n <= Len(p) /\ \A i \in 1..n : Seen(p[i], wrote)
        /\ s \in AnySources /\ ph \in AnyPhrasings
    BY <2>1, <2>2 DEF Under
  <2>4. n = Len(p)
    BY <1>8, <2>2, <2>3, Remaining DEF FinishRun
  <2>5. folder' = folder /\ job' = Missing
    BY <1>8 DEF FinishRun
  <2>6. last' = [src |-> s, ph |-> ph, wrote |-> wrote]
    BY <1>8, <2>3 DEF FinishRun
  <2>7. last' # Missing => Through(s, ph, wrote)'
    BY <2>2, <2>3, <2>4, <2>5, <2>6 DEF Through, Seen
  <2> QED
    BY <2>5, <2>7 DEF DeckInv
<1> QED
  BY <1>1, <1>4, <1>5, <1>6, <1>7, <1>8 DEF DeckNext

\* What a step of a run that is through left.
LEMMA ThroughSeen ==
    ASSUME NEW s, NEW ph, NEW wrote, Through(s, ph, wrote)
    PROVE  \A x \in Of(StepsOf(s, ph)) : Seen(x, wrote)
BY DEF Through, Of

\* A file that was written holds its text; one that was removed is gone, unless it could
\* not be.
LEMMA SeenIsThere ==
    ASSUME NEW f, NEW text, NEW wrote, f # "appendix", Seen(WriteStep(f, text), wrote)
    PROVE  folder[f] = text
BY DEF Seen, WriteStep

LEMMA SeenIsGone ==
    ASSUME NEW f, NEW wrote, f # "appendix", "stuck" \notin wrote, Seen(RemoveStep(f), wrote)
    PROVE  folder[f] = Missing
BY DEF Seen, RemoveStep

\* Each number of the business value is found in the section.
LEMMA NoFigureInvented ==
    ASSUME NEW s \in AnySources, NEW answer, NEW line \in ValueSlot(s, answer)
    PROVE  line[2] \subseteq NumbersFound(s)
<1>1. Todo[2] = {} /\ \A c : Word(c)[2] = {}
  BY DEF Todo, Word
<1>2. CASE line = Todo \/ \E c \in Charts(s) : line = Word(c)
  BY <1>1, <1>2
<1>3. CASE answer \subseteq NumbersFound(s) /\ line = <<"bullets", answer>>
  BY <1>3
<1>4. CASE \E f \in DOMAIN s.fields : ValueField(s, f) # Missing /\ line = <<f, {s.fields[f]}>>
  <2>1. PICK f \in DOMAIN s.fields : ValueField(s, f) # Missing /\ line = <<f, {s.fields[f]}>>
    BY <1>4
  <2>2. "Business Value" \in s.heads /\ s.fields[f] # Missing
    BY <2>1 DEF ValueField
  <2>3. s \in Sources
    <3>1. NoSources.heads = {}
      BY DEF NoSources
    <3>2. s # NoSources
      BY <2>2, <3>1
    <3> QED
      BY <3>2, Zenon DEF AnySources
  <2>4. s.fields[f] \in s.numbers
    BY <2>1, <2>2, <2>3, DeckAssumption
  <2>5. line[2] = {s.fields[f]}
    BY <2>1
  <2>6. NumbersFound(s) = s.numbers
    BY <2>2 DEF NumbersFound
  <2> QED
    BY <2>4, <2>5, <2>6
<1> QED
  <2>1. CASE answer = Failed /\ "Business Value" \notin s.heads
    BY <1>2, <2>1 DEF ValueSlot
  <2>2. CASE ~(answer = Failed /\ "Business Value" \notin s.heads)
    <3>1. PICK fields : fields = {IF ValueField(s, f) = Missing THEN Todo ELSE <<f, {s.fields[f]}>>
                                    : f \in DOMAIN s.fields}
      OBVIOUS
    <3>2. PICK words : words = {Word(c) : c \in Charts(s)}
      OBVIOUS
    <3>3. ValueSlot(s, answer) = (IF answer \notin {Off, Failed} /\ answer \subseteq NumbersFound(s)
                                  THEN Bullets(answer) ELSE fields) \cup words
      BY <2>2, <3>1, <3>2, Zenon DEF ValueSlot
    <3>4. CASE line \in words
      BY <1>2, <3>2, <3>4
    <3>5. CASE line \in fields
      BY <1>2, <1>4, <3>1, <3>5
    <3>6. CASE answer \subseteq NumbersFound(s) /\ line \in Bullets(answer)
      BY <1>3, <3>6 DEF Bullets
    <3> QED
      BY <3>3, <3>4, <3>5, <3>6
  <2> QED
    BY <2>1, <2>2

\* A chart is named exactly if there are figures for it.
LEMMA ChartsAreNamed ==
    ASSUME NEW s, NEW answer, NEW c \in {"tam", "revenue"}
    PROVE  Word(c) \in ValueSlot(s, answer) <=> DerivedText(s, c) # Missing
<1>1. c \in Charts(s) <=> DerivedText(s, c) # Missing
  BY DEF Charts, DerivedText
<1>2. Word(c) # Todo /\ \A f, v : Word(c) # <<f, {v}>> /\ \A a : Word(c) # <<"bullets", a>>
  BY DEF Word, Todo
<1>3. \A d \in {"tam", "revenue"} : Word(c) = Word(d) <=> c = d
  BY DEF Word
<1>4. CASE answer = Failed /\ "Business Value" \notin s.heads
  BY <1>2, <1>4 DEF ValueSlot, DerivedText, ValueField
<1>5. CASE ~(answer = Failed /\ "Business Value" \notin s.heads)
  <2> DEFINE A == {IF ValueField(s, f) = Missing THEN Todo ELSE <<f, {s.fields[f]}>> : f \in DOMAIN s.fields}
             B == IF answer \notin {Off, Failed} /\ answer \subseteq NumbersFound(s) THEN Bullets(answer) ELSE A
             C == {Word(d) : d \in Charts(s)}
  <2>1. ValueSlot(s, answer) = B \cup C
    BY <1>5, Zenon DEF ValueSlot
  <2>2. Word(c) \notin A
    BY <1>2
  <2>3. Word(c) \notin Bullets(answer)
    BY <1>2 DEF Bullets
  <2>4. Word(c) \in C <=> c \in Charts(s)
    BY <1>3 DEF Charts
  <2> QED
    BY <1>1, <2>1, <2>2, <2>3, <2>4
<1> QED
  BY <1>4, <1>5

\* Every slot has a text.
LEMMA SlotsAreFilled ==
    ASSUME NEW s \in AnySources, NEW ph, NEW number \in {"01", "02", "03", "04", "05", "06", "07", "08"}
    PROVE  SlotText(s, ph, number) # {}
<1>1. DOMAIN s.fields # {}
  BY DeckAssumption DEF AnySources, NoSources
<1>2. \A answer : TitleSlot(s, answer) # {}
  BY DEF TitleSlot, FallbackLines, Bullets
<1>3. \A answer : ProblemSlot(s, answer) # {}
  BY DEF ProblemSlot, FallbackLines, Bullets
<1>4. \A answer : UserSlot(s, answer) # {}
  BY DEF UserSlot, FallbackLines, Bullets
<1>5. DemoSlot(s) # {} /\ ArchitectureSlot(s) # {} /\ AskSlot(s) # {} /\ DisclosureSlot(s) # {}
  BY DEF DemoSlot, ArchitectureSlot, AskSlot, DisclosureSlot
<1>6. \A answer : ValueSlot(s, answer) # {}
  BY <1>1 DEF ValueSlot, Bullets
<1>7. Skeleton(number) # {}
  BY DEF Skeleton
<1> QED
  BY <1>2, <1>3, <1>4, <1>5, <1>6, <1>7 DEF SlotText

\* FolderIsOfOneRun for any plans, manifests and phrasings, and for any number of runs that
\* fail, are killed or come to their end: the deck is its slots, each of which has a text;
\* with a plan the numbers of the business value are found in the plan's, a chart is there
\* exactly if a slot shows it, and a diagram only if a slot shows what it draws; without one,
\* in the second attempt too, every slot is the skeleton's and the diagram the manifest's.
THEOREM FolderOfOneRun == DeckSpec => []FolderIsOfOneRun
<1>1. DeckInit => DeckInv
  BY DEF DeckInit, DeckInv
<1>2. DeckInv => FolderIsOfOneRun
  <2> SUFFICES ASSUME DeckInv, last # Missing
               PROVE  FolderIsOfOneRun
    BY DEF FolderIsOfOneRun, Ended
  <2>0. PICK s, ph, wrote : Through(s, ph, wrote)
    BY DEF DeckInv
  <2>1. Through(s, ph, wrote) /\ s \in AnySources /\ ph \in AnyPhrasings
    BY <2>0 DEF Through
  <2>8. DOMAIN Slots = 1..8 /\ \A i \in 1..8 : Slots[i] \in {"01", "02", "03", "04", "05", "06", "07", "08"}
    BY DEF Slots
  <2>2. \A x \in Of(StepsOf(s, ph)) : Seen(x, wrote)
    BY <2>1, ThroughSeen
  <2>3. \A i \in 1..8 : folder[Slots[i]] = SlotText(s, ph, Slots[i])
    <3>1. \A i \in 1..8 : Seen(WriteStep(Slots[i], SlotText(s, ph, Slots[i])), wrote)
      BY <2>2, StepsAre
    <3> QED
      BY <2>8, <3>1, SeenIsThere
  <2>4. folder["deck"] = Deck(s, ph)
    <3>1. Seen(WriteStep("deck", Deck(s, ph)), wrote)
      BY <2>2, StepsAre
    <3> QED
      BY <3>1, SeenIsThere
  <2>5. \A f \in Emitted(s) : folder[f] = DerivedText(s, f)
    <3>1. \A f \in Emitted(s) : Seen(WriteStep(f, DerivedText(s, f)), wrote)
      BY <2>2, StepsAre
    <3> QED
      BY <3>1, SeenIsThere DEF Emitted, Derived
  <2>6. ~IsSkeleton(s) /\ "stuck" \notin wrote => \A f \in Derived \ Emitted(s) : folder[f] = Missing
    <3>1. ~IsSkeleton(s) => \A f \in Derived \ Emitted(s) : Seen(RemoveStep(f), wrote)
      BY <2>2, StepsAre
    <3> QED
      BY <3>1, SeenIsGone DEF Derived
  <2>7. last.src = s /\ last.wrote = wrote
    BY <2>1 DEF Through
  <2>9. folder["deck"] = [i \in DOMAIN Slots |-> folder[Slots[i]]]
    BY <2>3, <2>4, <2>8 DEF Deck
  <2>10. \A i \in DOMAIN Slots : folder[Slots[i]] # Missing /\ folder[Slots[i]] # {}
    BY <2>1, <2>3, <2>8, SlotsAreFilled, DeckAssumption
  <2>11. ASSUME ~IsSkeleton(s)
         PROVE  folder["05"] = ArchitectureSlot(s) /\ folder["06"] = ValueSlot(s, ph["06"])
    <3>1. Slots[5] = "05" /\ Slots[6] = "06"
      BY DEF Slots
    <3>2. folder["05"] = SlotText(s, ph, "05") /\ folder["06"] = SlotText(s, ph, "06")
      BY <2>3, <3>1
    <3> QED
      BY <2>11, <3>2 DEF SlotText
  <2>12. ~IsSkeleton(s) => \A line \in folder["06"] : line[2] \subseteq NumbersFound(s)
    BY <2>1, <2>11, NoFigureInvented
  <2>13. ASSUME ~IsSkeleton(s), "stuck" \notin wrote, NEW f \in Derived
         PROVE  folder[f] = DerivedText(s, f)
    BY <2>5, <2>6, <2>13 DEF Emitted
  <2>14. ASSUME ~IsSkeleton(s), "stuck" \notin wrote, NEW c \in {"tam", "revenue"}
         PROVE  folder[c] # Missing <=> Word(c) \in folder["06"]
    BY <2>11, <2>13, <2>14, ChartsAreNamed DEF Derived
  <2>15. ASSUME ~IsSkeleton(s), "stuck" \notin wrote, folder["diagram"] # Missing
         PROVE  <<"diagram", folder["diagram"].nodes>> \in folder["05"]
    <3>1. folder["diagram"] = Diagram(s.manifest)
      BY <2>13, <2>15 DEF Derived, DerivedText
    <3> QED
      BY <2>11, <2>15, <3>1 DEF ArchitectureSlot
  <2>16. ASSUME IsSkeleton(s)
         PROVE  \A i \in DOMAIN Slots : folder[Slots[i]] = Skeleton(Slots[i])
    BY <2>3, <2>8, <2>16 DEF SlotText
  <2>17. Diagram(s.manifest) \in {Missing, folder["diagram"]}
    BY <2>5 DEF Emitted, Derived, DerivedText
  <2>18. CASE IsSkeleton(s)
    BY <2>7, <2>9, <2>10, <2>16, <2>17, <2>18 DEF FolderIsOfOneRun
  <2>19. CASE ~IsSkeleton(s)
    <3>1. "stuck" \notin wrote =>
            /\ \A c \in {"tam", "revenue"} : folder[c] # Missing <=> Word(c) \in folder["06"]
            /\ folder["diagram"] # Missing => <<"diagram", folder["diagram"].nodes>> \in folder["05"]
      BY <2>14, <2>15, <2>19
    <3> QED
      BY <2>7, <2>9, <2>10, <2>12, <2>19, <3>1 DEF FolderIsOfOneRun
  <2> QED
    BY <2>18, <2>19
<1> QED
  BY <1>1, <1>2, DeckInvInductive, PTL DEF DeckSpec

-----------------------------------------------------------------------------
(***************************************************************************)
(* QaSheet.                                                                *)
(***************************************************************************)

\* An axis has its questions, or none can be spared for it.
Served(entries, axis) ==
    CountOf(entries, axis) >= Floor \/ \A i \in DOMAIN entries : ~IsDonor(entries, i)

\* What no turn of the loop changes: the sheet's size and the figures.
Grounding(entries) ==
    /\ entries \in Seq(SheetEntry) /\ Len(entries) \in MinEntries..MaxEntries
    /\ \A i \in DOMAIN entries : entries[i].figures \subseteq Known

\* A sheet whose first n axes are served.
SheetUpTo(entries, n) == Grounding(entries) /\ \A k \in 1..n : Served(entries, AXES[k])

\* The generation under way has served the axes before the one it looks at, and all of
\* them once it writes.
GenIs(entries, axis, given, step) ==
    /\ entries \in Seq(SheetEntry) /\ axis \in 1..Len(AXES) /\ step \in {"cover", "json", "md"}
    /\ gen = [entries |-> entries, axis |-> axis, given |-> given, phase |-> step]
    /\ SheetUpTo(entries, IF step = "cover" THEN axis - 1 ELSE Len(AXES))

LogLine == [id : Nat, score : {"score", "none"}]

\* The rehearsal under way has a line for each question before the current one.
SessionIs(ids, pos, lines, typed, asked, logging) ==
    /\ ids \in Seq(Nat) /\ pos \in DOMAIN ids /\ lines \in Seq(LogLine) /\ DOMAIN lines = 1..(pos - 1)
    /\ session = [ids |-> ids, logging |-> logging, at |-> pos, typed |-> typed, asked |-> asked,
                  lines |-> lines]
    /\ \A k \in 1..(pos - 1) : lines[k].id = ids[k]

QaInv ==
    /\ \A sheet \in {json, md} : sheet # None => SheetUpTo(sheet, Len(AXES))
    /\ gen # None =>
         \E entries, axis, given, step : GenIs(entries, axis, given, step)
    /\ session # None =>
         \E ids, pos, lines, typed, asked, logging : SessionIs(ids, pos, lines, typed, asked, logging)

-----------------------------------------------------------------------------

\* A set of numbers that is not empty has a least one.
LEMMA Least ==
    ASSUME NEW S \in SUBSET Nat, S # {}
    PROVE  \E m \in S : \A k \in S : m <= k
<1>1. PICK m \in S : \A k \in S : ~(<<k, m>> \in OpToRel(<, Nat))
  BY NatLessThanWellFounded, WFMin
<1>2. ASSUME NEW k \in S, k < m PROVE FALSE
  BY <1>1, <1>2 DEF OpToRel
<1> QED
  BY <1>2

\* The axes, and what they are taken from.
LEMMA AxesFacts ==
    /\ Len(AXES) \in Nat \ {0} /\ Axis \subseteq Tag
    /\ \A k \in 1..Len(AXES) : AXES[k] \in Axis
    /\ \A axis \in Axis : \E k \in 1..Len(AXES) : AXES[k] = axis
BY QaAssumption DEF Axis

\* Questions with a tag are counted.
LEMMA Countable ==
    ASSUME NEW entries \in Seq(SheetEntry), NEW tag
    PROVE  /\ IsFiniteSet({i \in DOMAIN entries : Has(entries[i], tag)})
           /\ CountOf(entries, tag) \in Nat
<1>1. DOMAIN entries = 1..Len(entries) /\ Len(entries) \in Nat
  OBVIOUS
<1>2. IsFiniteSet(DOMAIN entries)
  BY <1>1, FS_Interval
<1>3. {i \in DOMAIN entries : Has(entries[i], tag)} \in SUBSET DOMAIN entries
  OBVIOUS
<1>4. IsFiniteSet({i \in DOMAIN entries : Has(entries[i], tag)})
  BY <1>2, <1>3, FS_Subset
<1> QED
  BY <1>4, FS_CardinalityType DEF CountOf

\* The tag a donor gives up, and what it is left with.
LEMMA RetaggedFacts ==
    ASSUME NEW entries \in Seq(SheetEntry), NEW i \in DOMAIN entries, IsDonor(entries, i), NEW axis \in Tag
    PROVE  /\ Retagged(entries[i], entries, axis) \in SheetEntry
           /\ Retagged(entries[i], entries, axis).figures = entries[i].figures
           /\ \E tag : /\ Spare(entries, tag)
                       /\ (Tags(entries[i]) \ {tag}) \cup {axis}
                             \subseteq Tags(Retagged(entries[i], entries, axis))
<1>1. PICK e : e = entries[i] /\ e \in SheetEntry
  OBVIOUS
<1>2. PICK s : s = e.tags /\ s \in Seq(Tag)
  BY <1>1 DEF SheetEntry
<1> DEFINE S == {t \in DOMAIN s : Spare(entries, s[t])}
           IsFirst(t) == Spare(entries, s[t]) /\ \A u \in 1..(t - 1) : ~Spare(entries, s[u])
<1>3. \E t \in DOMAIN s : IsFirst(t)
  <2>1. S \in SUBSET Nat /\ S # {} /\ DOMAIN s = 1..Len(s) /\ Len(s) \in Nat
    BY <1>1, <1>2 DEF IsDonor, Tags
  <2>2. PICK m \in S : \A k \in S : m <= k
    BY <2>1, Least
  <2>3. \A u \in 1..(m - 1) : u \in DOMAIN s /\ ~(m <= u)
    BY <2>1
  <2> QED
    BY <2>2, <2>3
<1> DEFINE first == CHOOSE t \in DOMAIN s : IsFirst(t)
<1>4. first \in DOMAIN s /\ Spare(entries, s[first])
  BY <1>3
<1>5. PICK x : x = s[first]
  OBVIOUS
<1>6. Retagged(e, entries, axis) = [e EXCEPT !.tags = Append(Selected(s, Tags(e) \ {x}), axis)]
  BY <1>2, <1>5 DEF Retagged
<1>7. Tags(e) = {s[k] : k \in 1..Len(s)} /\ Tags(e) \subseteq Tag
  BY <1>2 DEF Tags
<1>8. PICK q, pos : /\ q = Selected(s, Tags(e) \ {x}) /\ q \in Seq(Tag)
                    /\ PicksUpTo(s, Tags(e) \ {x}, Len(s), q, pos)
  BY <1>2, SelectedFacts
<1>9. PICK r : r = Append(q, axis)
  OBVIOUS
<1>10. PICK n \in Nat : n = Len(q)
  BY <1>8
<1>11. r \in Seq(Tag) /\ Len(r) = n + 1 /\ r[n + 1] = axis /\ \A k \in 1..n : r[k] = q[k]
  <2>1. q \in Seq(Tag)
    BY <1>8
  <2> QED
    BY <1>9, <1>10, <2>1, AppendProperties
<1>12. PICK f : f = Retagged(e, entries, axis)
  OBVIOUS
<1>13. f = [e EXCEPT !.tags = r]
  BY <1>6, <1>8, <1>9, <1>12
<1>14. f \in SheetEntry /\ f.figures = e.figures /\ f.tags = r
  BY <1>1, <1>11, <1>13 DEF SheetEntry
<1>15. Tags(f) = {r[k] : k \in 1..(n + 1)}
  BY <1>11, <1>14 DEF Tags
<1>16. axis \in Tags(f)
  BY <1>11, <1>15, n + 1 \in 1..(n + 1)
<1>17. ASSUME NEW tag \in Tags(e) \ {x} PROVE tag \in Tags(f)
  <2>1. PICK k \in 1..Len(s) : s[k] = tag
    BY <1>7
  <2>2. PICK j \in 1..n : q[j] = tag
    <3>1. s[k] \in Tags(e) \ {x}
      BY <2>1
    <3>2. PICK j \in 1..Len(q) : pos[j] = k
      BY <1>8, <3>1 DEF PicksUpTo
    <3>3. q[j] = s[pos[j]]
      BY <1>8 DEF PicksUpTo
    <3> QED
      BY <1>10, <2>1, <3>2, <3>3
  <2>3. j \in 1..(n + 1) /\ r[j] = tag
    BY <1>11, <2>2
  <2> QED
    BY <1>15, <2>3
<1>18. Spare(entries, x)
  BY <1>4, <1>5
<1> HIDE DEF first
<1> QED
  BY <1>1, <1>12, <1>14, <1>16, <1>17, <1>18

\* A donor takes nothing that was needed.
LEMMA RetagServes ==
    ASSUME NEW entries \in Seq(SheetEntry), NEW i \in DOMAIN entries, IsDonor(entries, i), NEW axis \in Tag,
           NEW a, CountOf(entries, a) >= Floor, NEW f, f = Retagged(entries[i], entries, axis)
    PROVE  CountOf([entries EXCEPT ![i] = f], a) >= Floor
<1> DEFINE other == [entries EXCEPT ![i] = f]
           A == {k \in DOMAIN entries : Has(entries[k], a)}
           B == {k \in DOMAIN other : Has(other[k], a)}
<1>1. f \in SheetEntry
  BY RetaggedFacts
<1>2. PICK tag : Spare(entries, tag) /\ Tags(entries[i]) \ {tag} \subseteq Tags(f)
  BY RetaggedFacts
<1>3. DOMAIN other = DOMAIN entries /\ other[i] = f
      /\ \A k \in DOMAIN entries : k # i => other[k] = entries[k]
  OBVIOUS
<1>4. other \in Seq(SheetEntry)
  BY <1>1
<1>5. IsFiniteSet(A) /\ Cardinality(A) \in Nat /\ Cardinality(A) >= Floor
  BY Countable DEF CountOf
<1>6. IsFiniteSet(B) /\ Cardinality(B) \in Nat
  BY <1>4, Countable DEF CountOf
<1>7. CASE a = tag
  <2>1. A \ {i} \subseteq B
    BY <1>3
  <2>2. Cardinality(A) > Floor
    BY <1>2, <1>7 DEF Spare, CountOf
  <2>3. IsFiniteSet(A \ {i}) /\ Cardinality(A \ {i}) >= Cardinality(A) - 1 /\ Cardinality(A \ {i}) \in Nat
    <3> HIDE DEF A
    <3>1. /\ IsFiniteSet(A \ {i})
          /\ Cardinality(A \ {i}) = IF i \in A THEN Cardinality(A) - 1 ELSE Cardinality(A)
      BY <1>5, FS_RemoveElement
    <3>2. Cardinality(A \ {i}) \in Nat
      BY <3>1, FS_CardinalityType
    <3> QED
      BY <1>5, <3>1, <3>2
  <2>4. Cardinality(A \ {i}) <= Cardinality(B)
    BY <1>6, <2>1, FS_Subset
  <2>5. Cardinality(B) >= Floor
    BY <1>5, <1>6, <2>2, <2>3, <2>4, QaAssumption
  <2> QED
    BY <2>5 DEF CountOf
<1>8. CASE a # tag
  <2>1. A \subseteq B
    BY <1>2, <1>3, <1>8 DEF Has
  <2>2. Cardinality(A) <= Cardinality(B)
    BY <1>6, <2>1, FS_Subset
  <2>3. Cardinality(B) >= Floor
    BY <1>5, <1>6, <2>2, QaAssumption
  <2> QED
    BY <2>3 DEF CountOf
<1> QED
  BY <1>7, <1>8


\* A sheet whose first axes are served, and a turn of the loop.
LEMMA TurnServes ==
    ASSUME NEW entries \in Seq(SheetEntry), NEW i \in DOMAIN entries, IsDonor(entries, i), NEW axis \in Tag,
           NEW n \in Nat, n <= Len(AXES), SheetUpTo(entries, n)
    PROVE  SheetUpTo([entries EXCEPT ![i] = Retagged(@, entries, axis)], n)
<1>1. PICK f : f = Retagged(entries[i], entries, axis)
  OBVIOUS
<1>2. f \in SheetEntry /\ f.figures = entries[i].figures
  BY <1>1, RetaggedFacts
<1>3. PICK other : other = [entries EXCEPT ![i] = f]
  OBVIOUS
<1>4. /\ other \in Seq(SheetEntry) /\ Len(other) = Len(entries)
      /\ \A k \in DOMAIN other : other[k].figures = entries[k].figures
  BY <1>2, <1>3
<1>5. Grounding(other)
  BY <1>4 DEF SheetUpTo, Grounding
<1>6. \A k \in 1..n : CountOf(entries, AXES[k]) >= Floor
  BY DEF SheetUpTo, Served
<1>7. \A k \in 1..n : CountOf(other, AXES[k]) >= Floor
  BY <1>1, <1>3, <1>6, RetagServes
<1> QED
  BY <1>1, <1>3, <1>5, <1>7 DEF SheetUpTo, Served

\* What the model answered, cut to size and grounded.
LEMMA SheetOfAnswer ==
    ASSUME NEW answer \in Seq(SheetEntry)
    PROVE  Grounding([i \in DOMAIN Clamped(answer) |-> Grounded(Clamped(answer)[i])])
<1>1. PICK m \in Nat : m = Len(answer)
  OBVIOUS
<1>2. PICK n \in Nat : n = IF m > MaxEntries THEN MaxEntries ELSE m
  BY <1>1, QaAssumption
<1>3. PICK head : head = SubSeq(answer, 1, n)
  OBVIOUS
<1>4. head \in Seq(SheetEntry) /\ Len(head) = n /\ n <= MaxEntries
  BY <1>1, <1>2, <1>3, QaAssumption
<1>5. PICK size \in Nat : size = IF n < MinEntries THEN MinEntries ELSE n
  BY QaAssumption
<1>6. size \in MinEntries..MaxEntries
  BY <1>4, <1>5, QaAssumption
<1>7. PICK c : c = [i \in 1..size |-> IF i <= n THEN head[i] ELSE Placeholder(i)]
  OBVIOUS
<1>8. Clamped(answer) = c
  BY <1>1, <1>2, <1>3, <1>4, <1>5, <1>7 DEF Clamped
<1>9. ASSUME NEW i \in 1..size PROVE c[i] \in SheetEntry
  <2>1. Placeholder(i) \in SheetEntry
    <3>1. AXES[1] \in Tag
      BY AxesFacts, 1 \in 1..Len(AXES)
    <3>2. PICK tags \in Seq(Tag) : tags = <<AXES[1]>>
      <4>1. PICK first \in Tag : first = AXES[1]
        BY <3>1
      <4>2. <<first>> \in Seq(Tag)
        OBVIOUS
      <4> QED
        BY <4>1, <4>2
    <3>3. i \in Nat
      BY <1>5
    <3>4. PICK figures \in SUBSET Figure : figures = {}
      OBVIOUS
    <3>5. Placeholder(i) = [id |-> i, tags |-> tags, figures |-> figures, grounding |-> "not_stated"]
      BY <3>2, <3>4 DEF Placeholder
    <3> QED
      BY <3>2, <3>3, <3>4, <3>5 DEF SheetEntry
  <2>2. i <= n => head[i] \in SheetEntry
    BY <1>4
  <2> QED
    BY <1>7, <2>1, <2>2
<1>10. \A i \in 1..size : Grounded(c[i]) \in SheetEntry /\ Grounded(c[i]).figures \subseteq Known
  <2> SUFFICES ASSUME NEW i \in 1..size
               PROVE  Grounded(c[i]) \in SheetEntry /\ Grounded(c[i]).figures \subseteq Known
    OBVIOUS
  <2>1. PICK e \in SheetEntry : e = c[i]
    BY <1>9
  <2>2. CASE e.figures \subseteq Known
    BY <2>1, <2>2 DEF Grounded
  <2>3. CASE ~(e.figures \subseteq Known)
    <3>1. PICK id \in Nat, tags \in Seq(Tag), figures \in SUBSET Figure,
               grounding \in {"grounded", "partial", "not_stated"} :
             e = [id |-> id, tags |-> tags, figures |-> figures, grounding |-> grounding]
      BY DEF SheetEntry
    <3>2. PICK nothing \in SUBSET Figure : nothing = {}
      OBVIOUS
    <3>3. Grounded(e) = [id |-> id, tags |-> tags, figures |-> nothing, grounding |-> "not_stated"]
      BY <2>3, <3>1, <3>2 DEF Grounded
    <3> QED
      BY <2>1, <3>2, <3>3 DEF SheetEntry
  <2> QED
    BY <2>2, <2>3
<1>11. PICK g : g = [i \in DOMAIN c |-> Grounded(c[i])]
  OBVIOUS
<1>12. g \in Seq(SheetEntry) /\ Len(g) = size /\ \A i \in DOMAIN g : g[i].figures \subseteq Known
  BY <1>7, <1>10, <1>11
<1> QED
  BY <1>6, <1>8, <1>11, <1>12 DEF Grounding

\* A rehearsal that starts.
LEMMA SampleFacts ==
    ASSUME NEW from \in Seq(SheetEntry), NEW count \in Nat, NEW axes, NEW picked \in Samples(from, count, axes),
           picked # <<>>
    PROVE  /\ [k \in DOMAIN picked |-> from[picked[k]].id] \in Seq(Nat)
           /\ 1 \in DOMAIN picked
<1> DEFINE pool == {i \in DOMAIN from : axes = {} \/ \E a \in axes : Has(from[i], a)}
           size == IF count < Cardinality(pool) THEN count ELSE Cardinality(pool)
<1>1. DOMAIN from = 1..Len(from) /\ Len(from) \in Nat
  OBVIOUS
<1>2. Cardinality(pool) \in Nat
  <2>1. IsFiniteSet(DOMAIN from) /\ pool \in SUBSET DOMAIN from
    BY <1>1, FS_Interval
  <2> HIDE DEF pool
  <2> QED
    BY <2>1, FS_Subset, FS_CardinalityType
<1>3. size \in Nat
  BY <1>2
<1>4. picked \in [1..size -> pool]
  BY DEF Samples
<1> HIDE DEF size
<1>5. \A k \in 1..size : from[picked[k]].id \in Nat
  <2> SUFFICES ASSUME NEW k \in 1..size PROVE from[picked[k]].id \in Nat
    OBVIOUS
  <2>1. picked[k] \in DOMAIN from
    BY <1>4
  <2>2. from[picked[k]] \in SheetEntry
    BY <2>1
  <2> QED
    BY <2>2 DEF SheetEntry
<1>6. size # 0
  <2> SUFFICES ASSUME size = 0 PROVE FALSE
    OBVIOUS
  <2>1. picked = [k \in 1..0 |-> picked[k]]
    BY <1>4
  <2> QED
    BY <2>1
<1> QED
  BY <1>3, <1>4, <1>5, <1>6


-----------------------------------------------------------------------------

\* A generation that starts, and one turn of its loop.
LEMMA GenerationKeeps ==
    ASSUME QaInv, (\E answer \in Answers : StartGeneration(answer)) \/ Retag
    PROVE  QaInv'
<1>1. UNCHANGED <<json, md, session>>
  BY DEF StartGeneration, Retag
<1> SUFFICES (gen # None => \E entries, axis, given, step : GenIs(entries, axis, given, step))'
  BY <1>1 DEF QaInv, SessionIs
<1>2. UNCHANGED gen => (gen # None => \E entries, axis, given, step : GenIs(entries, axis, given, step))'
  BY DEF QaInv, GenIs
<1>3. ASSUME NEW answer \in Answers, StartGeneration(answer)
      PROVE  (gen # None => \E entries, axis, given, step : GenIs(entries, axis, given, step))'
  <2>1. CASE answer \in {Unavailable, NoQuestions, Malformed}
    <3>1. UNCHANGED gen
      BY <1>3, <2>1 DEF StartGeneration
    <3> QED
      BY <1>2, <3>1
  <2>2. CASE answer \notin {Unavailable, NoQuestions, Malformed}
    <3>1. PICK es : es = [i \in DOMAIN Clamped(answer) |-> Grounded(Clamped(answer)[i])]
      OBVIOUS
    <3>2. gen' = [entries |-> es, axis |-> 1, given |-> answer, phase |-> "cover"]
      BY <1>3, <2>2, <3>1 DEF StartGeneration
    <3>3. answer \in Seq(SheetEntry)
      BY <2>2, QaAssumption
    <3>4. Grounding(es)
      BY <3>1, <3>3, SheetOfAnswer
    <3>5. SheetUpTo(es, 1 - 1)
      BY <3>4 DEF SheetUpTo
    <3>6. GenIs(es, 1, answer, "cover")'
      BY <3>2, <3>4, <3>5, AxesFacts DEF GenIs, Grounding
    <3>7. 1 \in 1..Len(AXES) /\ es \in Seq(SheetEntry)
      BY <3>4, AxesFacts DEF Grounding
    <3> QED
      BY <3>6, <3>7
  <2> QED
    BY <2>1, <2>2
<1>4. CASE Retag
  <2>1. PICK es, ax, given, step : GenIs(es, ax, given, step)
    BY <1>4 DEF Retag, QaInv
  <2>2. gen = [entries |-> es, axis |-> ax, given |-> given, phase |-> "cover"] /\ SheetUpTo(es, ax - 1)
    BY <1>4, <2>1 DEF Retag, GenIs
  <2>0. es \in Seq(SheetEntry) /\ ax \in 1..Len(AXES) /\ Len(AXES) \in Nat
    BY <2>1, AxesFacts DEF GenIs
  <2> DEFINE donors == {i \in DOMAIN es : IsDonor(es, i)}
  <2>3. CASE CountOf(es, AXES[ax]) < Floor /\ donors # {}
    <3> DEFINE i == CHOOSE d \in donors : \A e \in donors : d <= e
    <3>1. gen' = [gen EXCEPT !.entries[i] = Retagged(@, es, AXES[ax])]
      <4>1. gen.entries = es /\ gen.axis = ax
        BY <2>2
      <4> QED
        BY <1>4, <2>3, <4>1 DEF Retag
    <3>2. donors \in SUBSET Nat
      BY <2>0
    <3>3. i \in donors
      BY <2>3, <3>2, Least
    <3> HIDE DEF i
    <3>4. PICK other : other = [es EXCEPT ![i] = Retagged(@, es, AXES[ax])]
      OBVIOUS
    <3>5. gen' = [entries |-> other, axis |-> ax, given |-> given, phase |-> "cover"]
      BY <2>2, <3>1, <3>4
    <3>6. AXES[ax] \in Tag /\ ax - 1 \in Nat /\ ax - 1 <= Len(AXES)
      BY <2>0, AxesFacts
    <3>7. SheetUpTo(other, ax - 1)
      BY <2>0, <2>2, <3>3, <3>4, <3>6, TurnServes
    <3>8. GenIs(other, ax, given, "cover")'
      BY <2>0, <3>5, <3>7 DEF GenIs, SheetUpTo, Grounding
    <3> QED
      BY <3>8
  <2>4. CASE ~(CountOf(es, AXES[ax]) < Floor /\ donors # {})
    <3>1. gen' = IF ax < Len(AXES) THEN [gen EXCEPT !.axis = ax + 1] ELSE [gen EXCEPT !.phase = "json"]
      BY <1>4, <2>2, <2>4 DEF Retag
    <3>2. Served(es, AXES[ax])
      <4>1. CountOf(es, AXES[ax]) \in Nat
        BY <2>0, Countable
      <4>2. donors = {} => \A i \in DOMAIN es : ~IsDonor(es, i)
        OBVIOUS
      <4> QED
        BY <2>4, <4>1, <4>2, QaAssumption DEF Served
    <3>3. SheetUpTo(es, ax)
      BY <2>0, <2>2, <3>2 DEF SheetUpTo
    <3>4. CASE ax < Len(AXES)
      <4>1. gen' = [entries |-> es, axis |-> ax + 1, given |-> given, phase |-> "cover"]
        BY <2>2, <3>1, <3>4
      <4>2. GenIs(es, ax + 1, given, "cover")' /\ ax + 1 \in 1..Len(AXES)
        BY <2>0, <3>3, <3>4, <4>1 DEF GenIs
      <4> QED
        BY <4>2
    <3>5. CASE ax = Len(AXES)
      <4>1. gen' = [entries |-> es, axis |-> ax, given |-> given, phase |-> "json"]
        BY <2>0, <2>2, <3>1, <3>5
      <4>2. GenIs(es, ax, given, "json")'
        BY <2>0, <3>3, <3>5, <4>1 DEF GenIs
      <4> QED
        BY <4>2
    <3> QED
      BY <2>0, <3>4, <3>5
  <2> QED
    BY <2>3, <2>4
<1> QED
  BY <1>3, <1>4

\* The two files are the sheet whose axes are all served.
LEMMA FilesKeep ==
    ASSUME QaInv, WriteJson \/ WriteMd \/ GenerationCut
    PROVE  QaInv'
<1>1. UNCHANGED session
  BY DEF WriteJson, WriteMd, GenerationCut
<1>2. PICK es, ax, given, step : GenIs(es, ax, given, step)
  BY DEF WriteJson, WriteMd, GenerationCut, QaInv
<1>3. gen = [entries |-> es, axis |-> ax, given |-> given, phase |-> step]
      /\ (step # "cover" => SheetUpTo(es, Len(AXES)))
  BY <1>2 DEF GenIs
<1>4. \A sheet \in {json, md}' : sheet # None => SheetUpTo(sheet, Len(AXES))
  BY <1>3 DEF WriteJson, WriteMd, GenerationCut, QaInv
<1>5. gen' = None \/ (gen' = [entries |-> es, axis |-> ax, given |-> given, phase |-> "md"]
                      /\ SheetUpTo(es, Len(AXES)) /\ ax \in 1..Len(AXES))
  BY <1>2, <1>3 DEF WriteJson, WriteMd, GenerationCut, GenIs
<1>6. gen' = None \/ GenIs(es, ax, given, "md")'
  BY <1>5 DEF GenIs, SheetUpTo, Grounding
<1> QED
  BY <1>1, <1>4, <1>6 DEF QaInv, SessionIs

\* A rehearsal touches neither the sheet nor the generation.
LEMMA SessionOnly ==
    ASSUME QaInv, UNCHANGED <<json, md, gen>>,
           session' = None \/
             \E ids, pos, lines, typed, asked, logging : SessionIs(ids, pos, lines, typed, asked, logging)'
    PROVE  QaInv'
BY DEF QaInv, GenIs

\* The lines there are, and one more.
LEMMA LineCount ==
    ASSUME NEW ids, NEW pos, NEW lines, NEW typed, NEW asked, NEW logging,
           SessionIs(ids, pos, lines, typed, asked, logging)
    PROVE  Len(lines) = pos - 1 /\ lines \in Seq(LogLine) /\ pos \in Nat \ {0}
<1>1. ids \in Seq(Nat) /\ pos \in DOMAIN ids /\ lines \in Seq(LogLine) /\ DOMAIN lines = 1..(pos - 1)
  BY DEF SessionIs
<1>2. pos \in Nat \ {0}
  BY <1>1
<1>3. PICK n \in Nat : n = Len(lines) /\ DOMAIN lines = 1..n
  BY <1>1
<1>4. n = pos - 1
  BY <1>1, <1>2, <1>3
<1> QED
  BY <1>1, <1>2, <1>3, <1>4

LEMMA AddedLine ==
    ASSUME NEW lines \in Seq(LogLine), NEW pos \in Nat \ {0}, Len(lines) = pos - 1, NEW line \in LogLine
    PROVE  /\ Append(lines, line) \in Seq(LogLine) /\ Len(Append(lines, line)) = pos
           /\ \A k \in 1..(pos - 1) : Append(lines, line)[k] = lines[k]
           /\ Append(lines, line)[pos] = line
OBVIOUS

\* The steps of a rehearsal.
LEMMA RehearsalKeeps ==
    ASSUME QaInv,
           \/ \E from \in {json, md}, axes \in {{}, {AXES[2]}}, count \in 1..2, logging \in BOOLEAN :
                StartSession(from, count, axes, logging)
           \/ Type \/ SubmitLine \/ Expire \/ Interrupt \/ JudgeAnswers
    PROVE  QaInv'
<1>0. UNCHANGED <<json, md, gen>>
  BY DEF StartSession, Type, SubmitLine, Expire, Settle, Interrupt, JudgeAnswers
<1>1. ASSUME NEW from \in {json, md}, NEW axes, NEW count \in 1..2, NEW logging,
             StartSession(from, count, axes, logging)
      PROVE  QaInv'
  <2>1. from \in Seq(SheetEntry)
    BY <1>1 DEF StartSession, QaInv, SheetUpTo, Grounding
  <2>2. PICK picked \in Samples(from, count, axes) :
           session' = IF picked = <<>> THEN None
                      ELSE [ids |-> [k \in DOMAIN picked |-> from[picked[k]].id], logging |-> logging,
                            at |-> 1, typed |-> FALSE, asked |-> TRUE, lines |-> <<>>]
    BY <1>1 DEF StartSession
  <2>3. CASE picked = <<>>
    BY <1>0, <2>2, <2>3, SessionOnly
  <2>4. CASE picked # <<>>
    <3>1. PICK ids : ids = [k \in DOMAIN picked |-> from[picked[k]].id]
      OBVIOUS
    <3>2. ids \in Seq(Nat) /\ 1 \in DOMAIN ids
      BY <2>1, <2>4, <3>1, SampleFacts
    <3>3. SessionIs(ids, 1, <<>>, FALSE, TRUE, logging)'
      BY <2>2, <2>4, <3>1, <3>2 DEF SessionIs
    <3> QED
      BY <1>0, <3>2, <3>3, SessionOnly
  <2> QED
    BY <2>3, <2>4
<1>2. CASE Interrupt
  BY <1>0, <1>2, SessionOnly DEF Interrupt
<1>3. CASE Type \/ SubmitLine \/ Expire \/ JudgeAnswers
  <2>1. PICK ids, pos, lines, typed, asked, logging : SessionIs(ids, pos, lines, typed, asked, logging)
    BY <1>3 DEF Type, SubmitLine, Expire, JudgeAnswers, QaInv
  <2>2. CASE Type
    <3>1. SessionIs(ids, pos, lines, TRUE, asked, logging)'
      BY <2>1, <2>2 DEF Type, SessionIs
    <3> QED
      BY <1>0, <3>1, SessionOnly
  <2>3. CASE SubmitLine \/ Expire
    <3>1. SessionIs(ids, pos, lines, typed, FALSE, logging)'
      BY <2>1, <2>3 DEF SubmitLine, Expire, Settle, SessionIs
    <3> QED
      BY <1>0, <3>1, SessionOnly
  <2>4. CASE JudgeAnswers
    <3>1. CASE session' = None
      BY <1>0, <3>1, SessionOnly
    <3>2. ASSUME NEW line \in {"score", "none"}, Judged(line), session' # None
          PROVE  QaInv'
      <4>1. PICK more : more = Append(lines, [id |-> ids[pos], score |-> line])
        OBVIOUS
      <4>2. pos # Len(ids) /\ session' = [session EXCEPT !.lines = more, !.at = pos + 1, !.asked = TRUE,
                                                        !.typed = FALSE]
        BY <2>1, <3>2, <4>1 DEF Judged, SessionIs
      <4>3. [id |-> ids[pos], score |-> line] \in LogLine
        <5>1. ids[pos] \in Nat
          BY <2>1 DEF SessionIs
        <5> QED
          BY <3>2, <5>1 DEF LogLine
      <4>4. Len(lines) = pos - 1 /\ lines \in Seq(LogLine) /\ pos \in Nat \ {0}
        BY <2>1, LineCount
      <4>5. /\ more \in Seq(LogLine) /\ Len(more) = pos
            /\ \A k \in 1..(pos - 1) : more[k] = lines[k]
            /\ more[pos] = [id |-> ids[pos], score |-> line]
        BY <4>1, <4>3, <4>4, AddedLine
      <4>6. pos + 1 \in DOMAIN ids
        BY <2>1, <4>2 DEF SessionIs
      <4>7. DOMAIN more = 1..((pos + 1) - 1) /\ \A k \in 1..((pos + 1) - 1) : more[k].id = ids[k]
        <5>1. (pos + 1) - 1 = pos /\ DOMAIN more = 1..pos
          BY <4>4, <4>5
        <5>2. ASSUME NEW k \in 1..pos PROVE more[k].id = ids[k]
          <6>1. CASE k = pos
            BY <4>5, <6>1
          <6>2. CASE k # pos
            <7>1. k \in 1..(pos - 1)
              BY <4>4, <6>2
            <7> QED
              BY <2>1, <4>5, <7>1 DEF SessionIs
          <6> QED
            BY <6>1, <6>2
        <5> QED
          BY <5>1, <5>2
      <4>8. SessionIs(ids, pos + 1, more, FALSE, TRUE, logging)'
        <5>1. session' = [ids |-> ids, logging |-> logging, at |-> pos + 1, typed |-> FALSE, asked |-> TRUE,
                          lines |-> more]
          BY <2>1, <4>2 DEF SessionIs
        <5>2. ids \in Seq(Nat)
          BY <2>1 DEF SessionIs
        <5> QED
          BY <4>5, <4>6, <4>7, <5>1, <5>2 DEF SessionIs
      <4> QED
        BY <1>0, <4>5, <4>8, SessionOnly
    <3> QED
      BY <2>4, <3>1, <3>2 DEF JudgeAnswers
  <2> QED
    BY <1>3, <2>2, <2>3, <2>4
<1> QED
  BY <1>1, <1>2, <1>3

LEMMA QaInvInductive ==
    ASSUME QaInv, [QaNext]_qaVars
    PROVE  QaInv'
<1>1. CASE UNCHANGED qaVars
  BY <1>1 DEF qaVars, QaInv, GenIs, SessionIs
<1> QED
  BY <1>1, GenerationKeeps, FilesKeep, RehearsalKeeps DEF QaNext

LEMMA QaInvHolds == QaSpec => []QaInv
<1>1. QaInit => QaInv
  BY DEF QaInit, QaInv
<1> QED
  BY <1>1, QaInvInductive, PTL DEF QaSpec

\* SheetIsSound for any answers of the model and any number of generations: a sheet on disk
\* has its size, names no figure of nobody's, and is short of an axis only if no question
\* can be spared.
THEOREM SheetsAreSound == QaSpec => []SheetIsSound
<1>1. QaInv => SheetIsSound
  <2> SUFFICES ASSUME QaInv, NEW sheet \in {json, md}, sheet # None, NEW a \in Axis
               PROVE  /\ Len(sheet) \in MinEntries..MaxEntries
                      /\ \A i \in DOMAIN sheet : sheet[i].figures \subseteq Known
                      /\ CountOf(sheet, a) < Floor => \A i \in DOMAIN sheet : ~IsDonor(sheet, i)
    BY AxesFacts DEF SheetIsSound
  <2>1. SheetUpTo(sheet, Len(AXES)) /\ sheet \in Seq(SheetEntry)
    BY DEF QaInv, SheetUpTo, Grounding
  <2>2. Served(sheet, a)
    BY <2>1, AxesFacts DEF SheetUpTo
  <2>3. CountOf(sheet, a) \in Nat
    BY <2>1, Countable
  <2> QED
    BY <2>1, <2>2, <2>3, QaAssumption DEF SheetUpTo, Grounding, Served
<1> QED
  BY <1>1, QaInvHolds, PTL

\* LogTellsTheSession for any sheet and any number of rehearsals: the log is the one of a
\* session that was to be logged and came to its end, question by question.
THEOREM LogsTellTheSession == QaSpec => LogTellsTheSession
<1>1. ASSUME QaInv, [QaNext]_qaVars, log' # log
      PROVE  /\ session # None /\ session.logging /\ session' = None
             /\ [k \in DOMAIN log' |-> log'[k].id] = session.ids
  <2>1. PICK line \in {"score", "none"} : session # None /\ Judged(line)
    BY <1>1 DEF QaNext, qaVars, StartGeneration, Retag, WriteJson, WriteMd, GenerationCut, StartSession,
       Type, SubmitLine, Expire, Settle, Interrupt, JudgeAnswers
  <2>2. PICK ids, pos, lines, typed, asked, logging : SessionIs(ids, pos, lines, typed, asked, logging)
    BY <1>1, <2>1 DEF QaInv
  <2>3. PICK more : more = Append(lines, [id |-> ids[pos], score |-> line])
    OBVIOUS
  <2>4. session.logging /\ session' = None /\ log' = more /\ pos = Len(ids)
    BY <1>1, <2>1, <2>2, <2>3 DEF Judged, SessionIs
  <2>5. /\ [id |-> ids[pos], score |-> line] \in LogLine
        /\ Len(lines) = pos - 1 /\ lines \in Seq(LogLine) /\ pos \in Nat \ {0}
    <3>1. ids[pos] \in Nat
      BY <2>2 DEF SessionIs
    <3> QED
      BY <2>1, <2>2, <3>1, LineCount DEF LogLine
  <2>6. /\ more \in Seq(LogLine) /\ Len(more) = pos
        /\ \A k \in 1..(pos - 1) : more[k] = lines[k]
        /\ more[pos] = [id |-> ids[pos], score |-> line]
    BY <2>3, <2>5, AddedLine
  <2>7. DOMAIN more = DOMAIN ids /\ \A k \in DOMAIN ids : more[k].id = ids[k]
    <3>1. DOMAIN more = 1..pos /\ DOMAIN ids = 1..pos
      BY <2>2, <2>4, <2>5, <2>6 DEF SessionIs
    <3>2. ASSUME NEW k \in 1..pos PROVE more[k].id = ids[k]
      <4>1. CASE k = pos
        BY <2>6, <4>1
      <4>2. CASE k # pos
        <5>1. k \in 1..(pos - 1)
          BY <2>5, <4>2
        <5> QED
          BY <2>2, <2>6, <5>1 DEF SessionIs
      <4> QED
        BY <4>1, <4>2
    <3> QED
      BY <3>1, <3>2
  <2>8. [k \in DOMAIN more |-> more[k].id] = ids
    <3>1. ids = [k \in DOMAIN ids |-> ids[k]]
      BY <2>2 DEF SessionIs
    <3> QED
      BY <2>7, <3>1
  <2> QED
    BY <2>1, <2>2, <2>4, <2>8 DEF SessionIs
<1> QED
  BY <1>1, QaInvHolds, PTL DEF QaSpec, LogTellsTheSession

-----------------------------------------------------------------------------
(***************************************************************************)
(* PitchScript, for any timing file, plan, catalog of screens and answer   *)
(* of the model.  The sections of a timing that loads have 0.1 to 10       *)
(* minutes each, so the boundaries are a running sum of naturals; a window *)
(* starts where the one before ended because both are rounded from the     *)
(* same boundary, and the last is off by what rounding the total loses.    *)
(***************************************************************************)

\* A function on 1..N is a sequence of that length.
LEMMA PlacesAre ==
    ASSUME NEW N \in Nat, NEW f, f = [i \in 1..N |-> f[i]]
    PROVE  f \in Seq({f[i] : i \in 1..N}) /\ Len(f) = N
<1>1. f \in [1..N -> {f[i] : i \in 1..N}]
  OBVIOUS
<1>2. f \in Seq({f[i] : i \in 1..N})
  BY <1>1
<1> QED
  BY <1>1, <1>2

\* A running sum of naturals.
SumsTo(sections, N, f) ==
    f = [i \in 0..N |-> IF i = 0 THEN 0 ELSE f[i - 1] + sections[i].minutes]

LEMMA BoundariesAre ==
    ASSUME NEW N \in Nat, NEW sections, DOMAIN sections = 1..N, Len(sections) = N,
           \A i \in 1..N : sections[i].minutes \in Nat
    PROVE  /\ Boundaries(sections)[0] = 0
           /\ \A i \in 0..N : Boundaries(sections)[i] \in Nat
<1> DEFINE G == [n \in 1..N |-> [x \in Nat |-> x + sections[n].minutes]]
<1>1. \A n \in 1..N, x \in Nat : G[n][x] = x + sections[n].minutes /\ G[n][x] \in Nat
  OBVIOUS
<1> HIDE DEF G
<1>2. IsRule(G, N, Nat)
  BY <1>1 DEF IsRule
<1>3. PICK f : Computes(G, N, Nat, 0, f)
  BY <1>2, RecursionExists, 0 \in Nat
<1>4. f \in [0..N -> Nat] /\ f[0] = 0 /\ \A n \in 1..N : f[n] = G[n][f[n - 1]]
  BY <1>3 DEF Computes
<1>5. \A n \in 0..N : f[n] = IF n = 0 THEN 0 ELSE f[n - 1] + sections[n].minutes
  <2> SUFFICES ASSUME NEW n \in 0..N, n # 0 PROVE f[n] = f[n - 1] + sections[n].minutes
    BY <1>4
  <2>1. n \in 1..N /\ n - 1 \in 0..N /\ f[n - 1] \in Nat
    BY <1>4
  <2> QED
    BY <1>1, <1>4, <2>1
<1>6. SumsTo(sections, N, f)
  BY <1>4, <1>5 DEF SumsTo
<1> DEFINE g == CHOOSE h : SumsTo(sections, N, h)
<1>7. SumsTo(sections, N, g)
  BY <1>6
<1>8. Boundaries(sections) = g
  BY DEF Boundaries, SumsTo
<1> HIDE DEF g
<1>9. DOMAIN g = 0..N /\ g[0] = 0
      /\ \A i \in 0..N : i # 0 => g[i] = g[i - 1] + sections[i].minutes
  BY <1>7 DEF SumsTo
<1> DEFINE A == {n \in Nat : n <= N => g[n] \in Nat}
<1>10. 0 \in A
  BY <1>9
<1>11. ASSUME NEW n \in Nat, n \in A PROVE n + 1 \in A
  <2> SUFFICES ASSUME n + 1 <= N PROVE g[n + 1] \in Nat
    OBVIOUS
  <2>1. n + 1 \in 0..N /\ n + 1 # 0 /\ (n + 1) - 1 = n /\ n <= N /\ n + 1 \in 1..N
    OBVIOUS
  <2>2. g[n + 1] = g[n] + sections[n + 1].minutes
    BY <1>9, <2>1
  <2> QED
    BY <1>11, <2>1, <2>2
<1>12. \A n \in Nat : n \in A
  <2> HIDE DEF A
  <2> QED
    BY <1>10, <1>11, Counting
<1> QED
  BY <1>8, <1>9, <1>12

IsWindow(w) ==
    w = [id |-> w.id, live |-> w.live, start |-> w.start, end |-> w.end] /\ w.live \in BOOLEAN

\* Windows that follow on one another, each to the rounded time of a boundary.
Chained(windows, N, marks) ==
    /\ DOMAIN windows = 1..N /\ Len(windows) = N
    /\ \A i \in 1..N : IsWindow(windows[i])
    /\ \A i \in 1..N : windows[i].start = IF i = 1 THEN 0 ELSE windows[i - 1].end
    /\ \A i \in 1..N : windows[i].end = Seconds(marks[i])

\* A timing that loads: sections, and a total near their sum if it states one.
Loads(timing, N) ==
    /\ N \in Nat \ {0} /\ DOMAIN timing.sections = 1..N /\ Len(timing.sections) = N
    /\ \A i \in 1..N : timing.sections[i].minutes \in Nat /\ timing.sections[i].live \in BOOLEAN
    /\ timing.total # Undefined => /\ timing.total \in Int
                                   /\ Round1(SumOf(timing.sections)) - timing.total \in -1..1

LEMMA TimingLoads ==
    ASSUME NEW lines \in TimingFiles, Timing(lines) # NoScript
    PROVE  \E N : Loads(Timing(lines), N)
<1>1. PICK L \in Nat : L = Len(lines) /\ DOMAIN lines = 1..L
  BY ScriptAssumption
<1> DEFINE places == [k \in DOMAIN lines |-> k]
           begin == {k \in DOMAIN lines : lines[k].is \in ItemLine}
           starts == Selected(places, begin)
<1>2. places \in Seq(Nat)
  BY <1>1
<1>3. starts \in Seq(Nat)
  <2> HIDE DEF places, begin
  <2> QED
    BY <1>2, SelectedFacts
<1>4. PICK N \in Nat : N = Len(starts)
  <2> HIDE DEF starts
  <2> QED
    BY <1>3
<1> DEFINE doc == Parsed(lines)
           items == [i \in 1..N |-> ItemAt(lines, starts[i])]
           sections == [i \in DOMAIN doc.items |-> Section(doc.items[i])]
<1>5. doc.items = items
  BY <1>4 DEF Parsed
<1> HIDE DEF starts
<1>6. Len(items) = N /\ DOMAIN items = 1..N
  <2>1. items = [i \in 1..N |-> items[i]] /\ DOMAIN items = 1..N
    OBVIOUS
  <2> HIDE DEF items
  <2> QED
    BY <2>1, PlacesAre
<1> HIDE DEF items
<1>7. sections = [i \in 1..N |-> Section(items[i])]
  BY <1>5, <1>6
<1>8. Len(sections) = N
  <2> HIDE DEF sections
  <2>1. sections = [i \in 1..N |-> sections[i]]
    BY <1>7
  <2> QED
    BY <2>1, PlacesAre
<1>9. ~AgainstSchema(doc) /\ Timing(lines) = [total |-> doc.total, sections |-> sections]
      /\ (doc.total # Undefined => Round1(SumOf(sections)) - doc.total \in -1..1)
  BY DEF Timing
<1>10. N # 0 /\ (\A i \in 1..N : items[i].minutes \in 10..1000) /\ doc.total \in Int \cup {Undefined}
  <2> HIDE DEF doc, sections
  <2>1. Len(doc.items) # 0 /\ doc.total \in Int \cup {Undefined}
    BY <1>9 DEF AgainstSchema
  <2>2. \A i \in DOMAIN doc.items : doc.items[i].minutes \in 10..1000
    BY <1>9 DEF AgainstSchema
  <2>3. N # 0
    BY <1>5, <1>6, <2>1
  <2>4. ASSUME NEW i \in 1..N PROVE items[i].minutes \in 10..1000
    <3>1. i \in DOMAIN doc.items /\ doc.items[i] = items[i]
      BY <1>5, <1>6
    <3> QED
      BY <2>2, <3>1, Zenon
  <2> QED
    BY <2>1, <2>3, <2>4
<1> HIDE DEF doc
<1>11. \A i \in 1..N : Section(items[i]).minutes \in Nat /\ Section(items[i]).live \in BOOLEAN
  <2> TAKE i \in 1..N
  <2>1. Section(items[i]).minutes = items[i].minutes
        /\ Section(items[i]).live = ("live" \in DOMAIN items[i] /\ items[i].live = TRUE)
    BY Zenon DEF Section
  <2>2. ("live" \in DOMAIN items[i] /\ items[i].live = TRUE) \in BOOLEAN
    OBVIOUS
  <2>3. items[i].minutes \in Nat
    <3>1. PICK x : x = items[i].minutes
      OBVIOUS
    <3>2. x \in 10..1000
      BY <1>10, <3>1, Zenon
    <3>3. x \in Nat
      BY <3>2
    <3> QED
      BY <3>1, <3>3
  <2> QED
    BY <2>1, <2>2, <2>3, Zenon
<1> HIDE DEF sections
<1>12. Timing(lines).total = doc.total /\ Timing(lines).sections = sections
  BY <1>9
<1>13. \A i \in 1..N : sections[i].minutes \in Nat /\ sections[i].live \in BOOLEAN
  BY <1>7, <1>11
<1> QED
  BY <1>7, <1>8, <1>9, <1>10, <1>12, <1>13 DEF Loads

LEMMA WindowsChain ==
    ASSUME NEW timing, NEW N, Loads(timing, N)
    PROVE  Chained(Windows(timing.sections), N, Boundaries(timing.sections))
<1> DEFINE s == timing.sections
           b == Boundaries(s)
           w == Windows(s)
<1>1. N \in Nat /\ N # 0 /\ DOMAIN s = 1..N /\ Len(s) = N
      /\ \A i \in 1..N : s[i].minutes \in Nat /\ s[i].live \in BOOLEAN
  BY DEF Loads
<1> HIDE DEF s
<1>2. b[0] = 0
  BY <1>1, BoundariesAre
<1> HIDE DEF b
<1>3. w = [i \in 1..N |-> [id |-> s[i].id, live |-> s[i].live,
                         start |-> Seconds(b[i - 1]), end |-> Seconds(b[i])]]
  BY <1>1 DEF Windows, b
<1> HIDE DEF w
<1>4. DOMAIN w = 1..N /\ \A i \in 1..N : /\ w[i].live = s[i].live
                                         /\ w[i].start = Seconds(b[i - 1]) /\ w[i].end = Seconds(b[i])
  BY <1>3
<1>5. Len(w) = N
  <2>1. w \in [1..N -> {w[i] : i \in 1..N}]
    BY <1>3
  <2>2. w \in Seq({w[i] : i \in 1..N})
    BY <1>1, <2>1
  <2> QED
    BY <1>1, <1>4, <2>2
<1>6. \A i \in 1..N : w[i].end = Seconds(b[i])
  BY <1>4
<1>7. \A i \in 1..N : w[i].start = IF i = 1 THEN 0 ELSE w[i - 1].end
  <2> TAKE i \in 1..N
  <2>1. CASE i = 1
    BY <1>2, <1>4, <2>1 DEF Seconds
  <2>2. CASE i # 1
    <3>1. i - 1 \in 1..N
      BY <1>1, <2>2
    <3> QED
      BY <1>4, <2>2, <3>1
  <2> QED
    BY <2>1, <2>2
<1>8. \A i \in 1..N : IsWindow(w[i])
  BY <1>1, <1>3 DEF IsWindow
<1>9. Chained(w, N, b)
  BY <1>1, <1>4, <1>5, <1>6, <1>7, <1>8 DEF Chained
<1> QED
  BY <1>9 DEF w, s, b

\* generateScript() makes one of them the live one.
MadeLive(w) == [w EXCEPT !.live = TRUE]

LEMMA LiveWindow ==
    ASSUME NEW w, IsWindow(w)
    PROVE  /\ IsWindow(MadeLive(w)) /\ MadeLive(w).start = w.start /\ MadeLive(w).end = w.end
<1>1. PICK a, b, c, d : w = [id |-> a, live |-> b, start |-> c, end |-> d]
  BY DEF IsWindow
<1>2. MadeLive(w) = [id |-> a, live |-> TRUE, start |-> c, end |-> d]
  <2>1. \A x : [w EXCEPT !.live = x] = [id |-> a, live |-> x, start |-> c, end |-> d]
    BY <1>1
  <2> QED
    BY <2>1, Zenon DEF MadeLive
<1>3. MadeLive(w).live \in BOOLEAN
  BY <1>2
<1> QED
  BY <1>1, <1>2, <1>3 DEF IsWindow

LEMMA LiveKeepsChain ==
    ASSUME NEW w, NEW N \in Nat \ {0}, NEW marks, Chained(w, N, marks)
    PROVE  Chained(WithLive(w), N, marks)
<1> DEFINE others == {i \in DOMAIN w : w[i].id # "problem"}
           p == IF others = {} THEN Len(w) ELSE FirstPlace(others)
<1>1. CASE WithLive(w) = w
  BY <1>1
<1>2. CASE WithLive(w) = [w EXCEPT ![p].live = TRUE]
  <2>1. PICK pick : pick = p
    OBVIOUS
  <2>2. PICK v : v = [w EXCEPT ![pick] = MadeLive(w[pick])]
    OBVIOUS
  <2>3. WithLive(w) = v
    BY <1>2, <2>1, <2>2 DEF MadeLive
  <2>4. DOMAIN w = 1..N /\ Len(w) = N /\ N \in 1..N
    BY DEF Chained
  <2>5. DOMAIN v = 1..N /\ \A i \in 1..N : v[i] = IF i = pick THEN MadeLive(w[i]) ELSE w[i]
    BY <2>2, <2>4
  <2>6. \A i \in 1..N : IsWindow(v[i]) /\ v[i].start = w[i].start /\ v[i].end = w[i].end
    <3> TAKE i \in 1..N
    <3>1. IsWindow(w[i])
      BY DEF Chained
    <3> QED
      BY <2>5, <3>1, LiveWindow
  <2>7. Len(v) = N
    <3>1. v \in [1..N -> {v[i] : i \in 1..N}]
      BY <2>2, <2>5
    <3>2. v \in Seq({v[i] : i \in 1..N})
      BY <3>1
    <3> QED
      BY <2>5, <3>2
  <2>8. \A i \in 1..N : v[i].start = IF i = 1 THEN 0 ELSE v[i - 1].end
    <3> TAKE i \in 1..N
    <3>1. i # 1 => i - 1 \in 1..N
      OBVIOUS
    <3> QED
      BY <2>6, <3>1 DEF Chained
  <2> QED
    BY <2>3, <2>4, <2>5, <2>6, <2>7, <2>8 DEF Chained
<1> QED
  BY <1>1, <1>2 DEF WithLive

-----------------------------------------------------------------------------
\* Cells and rows.

Meant(plan) == FieldFigures(plan.tam) \cup FieldFigures(plan.revenue)

\* A cell begins as a TODO, or names only figures that occur in what the plan gives.
CellHolds(c, plan) == c.todo \/ \A f \in Named(c) : OccursIn(f, Meant(plan))

LEMMA AuditedCells ==
    ASSUME NEW cell, NEW window, NEW plan
    PROVE  IsValue(window.id) => CellHolds(Audited(cell, window, plan), plan)
<1>1. TodoCell.todo = TRUE
  BY DEF TodoCell, Says
<1>2. CASE IsValue(window.id) /\ ~cell.todo /\ Invented(Named(cell), plan) # {}
  BY <1>1, <1>2 DEF Audited, CellHolds
<1>3. CASE ~(IsValue(window.id) /\ ~cell.todo /\ Invented(Named(cell), plan) # {})
  <2>1. Audited(cell, window, plan) = cell
    BY <1>3 DEF Audited
  <2>2. ASSUME Invented(Named(cell), plan) = {}, NEW f \in Named(cell)
        PROVE  OccursIn(f, Meant(plan))
    BY <2>2 DEF Invented, OccursIn, Meant
  <2> QED
    BY <1>3, <2>1, <2>2 DEF CellHolds
<1> QED
  BY <1>2, <1>3

IsRow(r) ==
    r = [start |-> r.start, end |-> r.end, id |-> r.id, spoken |-> r.spoken, visual |-> r.visual]

\* What DraftIsUsable asks of a row by itself.
RowHolds(r, ui) ==
    /\ r.spoken.cue # Undefined => CueHolds(r.spoken.cue, ui)
    /\ r.visual # NoScript /\ r.visual.screen # Undefined => CueHolds(r.visual.screen, ui)
    /\ r.visual = NoScript => r.spoken.cue = "TODO"

Shown == {Screens[k] : k \in DOMAIN Screens} \cup {"TODO", Undefined}

LEMMA VisualHolds ==
    ASSUME NEW window, window.live \in BOOLEAN, NEW i \in Nat \ {0}, NEW ui \in BOOLEAN
    PROVE  LET v == Visual(window, i, ui)
           IN  /\ v # NoScript /\ v = [mark |-> v.mark, screen |-> v.screen]
               /\ v.screen # Undefined => CueHolds(v.screen, ui)
<1> DEFINE v == Visual(window, i, ui)
<1>1. v = [mark |-> window.live,
           screen |-> IF ~ui THEN "TODO"
                      ELSE IF window.live THEN Undefined
                      ELSE IF Screens = <<>> THEN "TODO" ELSE Screens[((i - 1) % Len(Screens)) + 1]]
  BY DEF Visual
<1> HIDE DEF v
<1>2. ui /\ Screens # <<>> => ((i - 1) % Len(Screens)) + 1 \in DOMAIN Screens
  <2> SUFFICES ASSUME Screens # <<>> PROVE ((i - 1) % Len(Screens)) + 1 \in DOMAIN Screens
    OBVIOUS
  <2>1. Len(Screens) \in Nat /\ DOMAIN Screens = 1..Len(Screens)
    BY ScriptAssumption
  <2>2. Len(Screens) # 0
    <3> SUFFICES ASSUME Len(Screens) = 0 PROVE FALSE
      OBVIOUS
    <3>1. Screens = <<>>
      BY <2>1, ScriptAssumption
    <3> QED
      BY <3>1
  <2>3. (i - 1) % Len(Screens) \in 0..(Len(Screens) - 1)
    BY <2>1, <2>2
  <2> QED
    BY <2>1, <2>3
<1>3. v.screen \in Shown /\ (v.screen # Undefined => CueHolds(v.screen, ui))
  BY <1>1, <1>2 DEF Shown, CueHolds
<1>4. v \in [mark : BOOLEAN, screen : Shown]
  BY <1>1, <1>3
<1>5. v # NoScript
  BY <1>4, ScriptAssumption DEF Shown
<1> QED
  BY <1>1, <1>3, <1>5 DEF v

LEMMA RowsHold ==
    ASSUME NEW w, IsWindow(w), NEW i \in Nat \ {0}, NEW c, NEW ui \in BOOLEAN
    PROVE  LET r == Row(w, i, c, ui)
           IN  /\ r.start = w.start /\ r.end = w.end /\ r.id = w.id
               /\ \A plan : CellHolds(c, plan) => CellHolds(r.spoken, plan)
               /\ RowHolds(r, ui)
<1>1. PICK v : v = Visual(w, i, ui)
  OBVIOUS
<1>2. /\ v # NoScript /\ v = [mark |-> v.mark, screen |-> v.screen]
      /\ v.screen # Undefined => CueHolds(v.screen, ui)
  BY <1>1, VisualHolds DEF IsWindow
<1>3. PICK r : r = [start |-> w.start, end |-> w.end, id |-> w.id, spoken |-> c, visual |-> v]
  OBVIOUS
<1>4. Row(w, i, c, ui) = Enforced(r, ui)
  BY <1>1, <1>3 DEF Row
<1>5. r.start = w.start /\ r.end = w.end /\ r.id = w.id /\ r.spoken = c /\ r.visual = v
  BY <1>3
<1>6. CASE c.cue = Undefined \/ CueHolds(c.cue, ui)
  <2>1. Enforced(r, ui) = r
    BY <1>2, <1>5, <1>6 DEF Enforced
  <2> QED
    BY <1>2, <1>4, <1>5, <1>6, <2>1 DEF RowHolds
<1>7. CASE ~(c.cue = Undefined \/ CueHolds(c.cue, ui))
  <2>1. PICK s : s = Says(c.todo, c.figures, "TODO", Nothing)
    OBVIOUS
  <2>2. Enforced(r, ui) = [r EXCEPT !.spoken = s, !.visual = NoScript]
    BY <1>5, <1>7, <2>1 DEF Enforced
  <2>3. Enforced(r, ui) = [start |-> w.start, end |-> w.end, id |-> w.id, spoken |-> s, visual |-> NoScript]
    BY <1>3, <2>2
  <2>4. s.todo = c.todo /\ s.cue = "TODO" /\ Named(s) \subseteq Named(c)
    BY <2>1 DEF Says, Nothing, Named
  <2>5. ASSUME NEW plan, CellHolds(c, plan) PROVE CellHolds(s, plan)
    BY <2>4, <2>5 DEF CellHolds
  <2>6. CueHolds("TODO", ui)
    BY DEF CueHolds
  <2> QED
    BY <1>4, <2>3, <2>4, <2>5, <2>6 DEF RowHolds
<1> QED
  BY <1>6, <1>7

\* What DraftIsUsable asks of a body.
BodyHolds(rows, N, plan, ui) ==
    /\ N \in Nat \ {0} /\ DOMAIN rows = 1..N /\ Len(rows) = N
    /\ \A i \in 1..N :
        /\ rows[i].start = IF i = 1 THEN 0 ELSE rows[i - 1].end
        /\ IsValue(rows[i].id) => CellHolds(rows[i].spoken, plan)
        /\ RowHolds(rows[i], ui)

\* Rows made of windows and cells that were audited.
MadeOf(rows, w, N, cell, ui) ==
    rows = [i \in 1..N |-> Row(w[i], i, cell[i], ui)]

\* The cells of the rows name nothing in business value but what the plan gives for it.
CellsHold(cell, w, N, plan) ==
    \A i \in 1..N : IsValue(w[i].id) => CellHolds(cell[i], plan)

EndsAt(rows, N, marks) == \A i \in 1..N : rows[i].end = Seconds(marks[i])

LEMMA RowsOfWindows ==
    ASSUME NEW N \in Nat \ {0}, NEW w, NEW marks, Chained(w, N, marks), NEW plan,
           NEW ui \in BOOLEAN, NEW cell, NEW rows, MadeOf(rows, w, N, cell, ui),
           CellsHold(cell, w, N, plan)
    PROVE  BodyHolds(rows, N, plan, ui) /\ EndsAt(rows, N, marks)
<1>1. DOMAIN rows = 1..N /\ \A i \in 1..N : rows[i] = Row(w[i], i, cell[i], ui)
  BY DEF MadeOf
<1>2. Len(rows) = N
  <2>1. rows = [i \in 1..N |-> rows[i]]
    BY <1>1 DEF MadeOf
  <2> QED
    BY <2>1, PlacesAre
<1>3. \A i \in 1..N : /\ rows[i].start = w[i].start /\ rows[i].end = w[i].end /\ rows[i].id = w[i].id
                      /\ CellHolds(cell[i], plan) => CellHolds(rows[i].spoken, plan)
                      /\ RowHolds(rows[i], ui)
  <2> TAKE i \in 1..N
  <2>1. IsWindow(w[i]) /\ i \in Nat \ {0}
    BY DEF Chained
  <2> QED
    BY <1>1, <2>1, RowsHold
<1>4. \A i \in 1..N : rows[i].start = IF i = 1 THEN 0 ELSE rows[i - 1].end
  <2> TAKE i \in 1..N
  <2>1. i # 1 => i - 1 \in 1..N
    OBVIOUS
  <2> QED
    BY <1>3, <2>1 DEF Chained
<1>5. EndsAt(rows, N, marks)
  BY <1>3 DEF Chained, EndsAt
<1>6. \A i \in 1..N : IsValue(rows[i].id) => CellHolds(rows[i].spoken, plan)
  BY <1>3 DEF CellsHold
<1>7. \A i \in 1..N : RowHolds(rows[i], ui)
  BY <1>3
<1> QED
  BY <1>1, <1>2, <1>4, <1>5, <1>6, <1>7 DEF BodyHolds

\* A cell of a draft before its audit: what the model said, or else the plan.
CellOf(draft, window, plan) ==
    IF Spoken(draft, window.id) = NoScript THEN Fallback(window, plan) ELSE Spoken(draft, window.id)

\* The difference that round1() and the rounding of two times can make.
LEMMA NearTheTotal ==
    ASSUME NEW sum \in Nat, NEW total \in Int, Round1(sum) - total \in -1..1
    PROVE  Seconds(sum) - Seconds(total) \in -4..4
BY SMTT(60) DEF Round1, Seconds

\* A time is rounded to the nearest second, in tenths.
LEMMA RoundedTime ==
    ASSUME NEW m \in Nat
    PROVE  10 * Seconds(m) - 6 * m \in -5..5
BY DEF Seconds

\* Rows or windows whose ends are the rounded times of the boundaries.
OnTime(rows, marks) == \A i \in DOMAIN rows : 10 * rows[i].end - 6 * marks[i] \in -5..5

LEMMA RoundedIsOnTime ==
    ASSUME NEW timing, NEW N, Loads(timing, N), NEW rows, DOMAIN rows = 1..N,
           \A i \in 1..N : rows[i].end = Seconds(Boundaries(timing.sections)[i])
    PROVE  OnTime(rows, Boundaries(timing.sections))
<1> DEFINE b == Boundaries(timing.sections)
<1>1. \A i \in 1..N : b[i] \in Nat
  <2>1. \A i \in 0..N : b[i] \in Nat
    BY BoundariesAre DEF Loads
  <2> HIDE DEF b
  <2> QED
    BY <2>1 DEF Loads
<1> HIDE DEF b
<1>2. ASSUME NEW i \in 1..N PROVE 10 * rows[i].end - 6 * b[i] \in -5..5
  <2>1. b[i] \in Nat /\ rows[i].end = Seconds(b[i])
    BY <1>1 DEF b
  <2> QED
    BY <2>1, RoundedTime
<1>3. OnTime(rows, b)
  BY <1>2 DEF OnTime
<1> QED
  BY <1>3 DEF b

LEMMA SumIsNat ==
    ASSUME NEW timing, NEW N, Loads(timing, N)
    PROVE  SumOf(timing.sections) \in Nat
BY BoundariesAre DEF Loads, SumOf

\* DraftIsUsable, of a body.
Usable(body) ==
    LET rows == body.rows
        value == FieldFigures(body.plan.tam) \cup FieldFigures(body.plan.revenue)
    IN /\ \A i \in DOMAIN rows :
            /\ rows[i].start = IF i = 1 THEN 0 ELSE rows[i - 1].end
            /\ IsValue(rows[i].id) =>
                   rows[i].spoken.todo \/ \A f \in Named(rows[i].spoken) : OccursIn(f, value)
            /\ rows[i].spoken.cue # Undefined => CueHolds(rows[i].spoken.cue, body.ui)
            /\ rows[i].visual # NoScript /\ rows[i].visual.screen # Undefined =>
                   CueHolds(rows[i].visual.screen, body.ui)
            /\ rows[i].visual = NoScript => rows[i].spoken.cue = "TODO"
       /\ body.source = "timing" => rows[Len(rows)].end - Seconds(body.total) \in -4..4

LEMMA BodyIsUsable ==
    ASSUME NEW in \in Inputs, NEW timing, NEW N, Loads(timing, N), NEW rows,
           BodyHolds(rows, N, in.plan, in.ui), rows[N].end = Seconds(SumOf(timing.sections))
    PROVE  Usable(Body(in, timing, rows))
<1> DEFINE body == Body(in, timing, rows)
<1>1. /\ body.rows = rows /\ body.plan = in.plan /\ body.ui = in.ui
      /\ body.total = Total(timing, in.profile) /\ body.source = Source(timing, in.profile)
  BY DEF Body
<1> HIDE DEF body
<1>2. \A i \in 1..N :
        /\ rows[i].start = IF i = 1 THEN 0 ELSE rows[i - 1].end
        /\ IsValue(rows[i].id) => CellHolds(rows[i].spoken, in.plan)
        /\ rows[i].spoken.cue # Undefined => CueHolds(rows[i].spoken.cue, in.ui)
        /\ rows[i].visual # NoScript /\ rows[i].visual.screen # Undefined =>
               CueHolds(rows[i].visual.screen, in.ui)
        /\ rows[i].visual = NoScript => rows[i].spoken.cue = "TODO"
  BY DEF BodyHolds, RowHolds
<1>3. DOMAIN rows = 1..N /\ Len(rows) = N
  BY DEF BodyHolds
<1>4. ASSUME body.source = "timing" PROVE rows[N].end - Seconds(body.total) \in -4..4
  <2>1. timing.total # Undefined /\ body.total = timing.total
    BY <1>1, <1>4 DEF Source, Total
  <2>2. timing.total \in Int /\ Round1(SumOf(timing.sections)) - timing.total \in -1..1
    BY <2>1 DEF Loads
  <2> QED
    BY <2>1, <2>2, SumIsNat, NearTheTotal
<1>5. \A i \in DOMAIN body.rows :
        /\ body.rows[i].start = IF i = 1 THEN 0 ELSE body.rows[i - 1].end
        /\ IsValue(body.rows[i].id) =>
              body.rows[i].spoken.todo
              \/ \A f \in Named(body.rows[i].spoken) :
                    OccursIn(f, FieldFigures(body.plan.tam) \cup FieldFigures(body.plan.revenue))
        /\ body.rows[i].spoken.cue # Undefined => CueHolds(body.rows[i].spoken.cue, body.ui)
        /\ body.rows[i].visual # NoScript /\ body.rows[i].visual.screen # Undefined =>
               CueHolds(body.rows[i].visual.screen, body.ui)
        /\ body.rows[i].visual = NoScript => body.rows[i].spoken.cue = "TODO"
  BY <1>1, <1>2, <1>3 DEF Meant, CellHolds
<1>6. body.source = "timing" => body.rows[Len(body.rows)].end - Seconds(body.total) \in -4..4
  BY <1>1, <1>3, <1>4
<1> QED
  BY <1>5, <1>6 DEF Usable, body

\* What generateScript() writes.
LEMMA DraftIsMade ==
    ASSUME NEW in \in Inputs, NEW timing, NEW N, Loads(timing, N), NEW answer, NEW rows,
           \/ rows = BlankRows(in, timing)
           \/ rows = DraftRows(in, WithLive(Windows(timing.sections)), answer)
    PROVE  /\ Usable(Body(in, timing, rows))
           /\ OnTime(rows, Boundaries(timing.sections))
<1> DEFINE w == Windows(timing.sections)
           b == Boundaries(timing.sections)
<1>0. PICK plan, ui : plan = in.plan /\ ui = in.ui
  OBVIOUS
<1>1. Chained(w, N, b) /\ N \in Nat \ {0} /\ in.ui \in BOOLEAN
  BY WindowsChain, ScriptAssumption DEF Loads, Inputs
<1> HIDE DEF w, b
<1>2. ASSUME rows = BlankRows(in, timing)
      PROVE  BodyHolds(rows, N, plan, ui) /\ EndsAt(rows, N, b)
  <2> DEFINE cell == [i \in 1..N |-> TodoCell]
  <2>1. rows = [i \in 1..N |-> Row(w[i], i, TodoCell, ui)]
    BY <1>0, <1>1, <1>2 DEF BlankRows, Chained, w
  <2>2. MadeOf(rows, w, N, cell, ui)
    BY <2>1 DEF MadeOf
  <2>3. CellHolds(TodoCell, plan)
    BY DEF TodoCell, Says, CellHolds
  <2>4. CellsHold(cell, w, N, plan)
    BY <2>3 DEF CellsHold
  <2> HIDE DEF cell
  <2> QED
    BY <1>0, <1>1, <2>2, <2>4, RowsOfWindows
<1>3. ASSUME rows = DraftRows(in, WithLive(Windows(timing.sections)), answer)
      PROVE  BodyHolds(rows, N, plan, ui) /\ EndsAt(rows, N, b)
  <2>1. PICK v : v = WithLive(w)
    OBVIOUS
  <2>2. Chained(v, N, b)
    BY <1>1, <2>1, LiveKeepsChain
  <2> DEFINE speech(i) == IF Spoken(answer, v[i].id) = NoScript THEN Fallback(v[i], plan)
                        ELSE Spoken(answer, v[i].id)
             cell == [i \in 1..N |-> Audited(speech(i), v[i], plan)]
  <2>3. rows = [i \in 1..N |-> Row(v[i], i, Audited(speech(i), v[i], plan), ui)]
    BY <1>0, <1>3, <2>1, <2>2 DEF DraftRows, Chained, w
  <2>4. MadeOf(rows, v, N, cell, ui)
    BY <2>3 DEF MadeOf
  <2>5. ASSUME NEW i \in 1..N PROVE IsValue(v[i].id) => CellHolds(cell[i], plan)
    <3>1. PICK c : c = speech(i)
      OBVIOUS
    <3>2. cell[i] = Audited(c, v[i], plan)
      BY <3>1
    <3> HIDE DEF cell, speech
    <3> QED
      BY <3>2, AuditedCells
  <2> HIDE DEF cell, speech
  <2>6. CellsHold(cell, v, N, plan)
    BY <2>5 DEF CellsHold
  <2> QED
    BY <1>0, <1>1, <2>2, <2>4, <2>6, RowsOfWindows
<1>4. BodyHolds(rows, N, in.plan, in.ui) /\ EndsAt(rows, N, b)
  BY <1>0, <1>2, <1>3
<1>5. SumOf(timing.sections) = b[N] /\ N \in 1..N /\ DOMAIN rows = 1..N
  BY <1>1, <1>4 DEF SumOf, Loads, b, BodyHolds
<1>6. rows[N].end = Seconds(SumOf(timing.sections))
  BY <1>4, <1>5 DEF EndsAt
<1>7. OnTime(rows, b)
  BY <1>4, <1>5, RoundedIsOnTime DEF b, EndsAt
<1> QED
  BY <1>4, <1>6, <1>7, BodyIsUsable DEF b

\* The file is no script, or a text whose body is usable if it is a draft.
IsText(t) == t = [kind |-> t.kind, at |-> t.at, body |-> t.body]

TextHolds(t) == IsText(t) /\ (t.kind \in {"draft", "blank"} => Usable(t.body))

ScriptInv == inputs \in Inputs /\ (file # NoScript => TextHolds(file))

\* A file that is written holds the text or what it held.
LEMMA WritesHold ==
    ASSUME ScriptInv, NEW text, TextHolds(text), WriteScript(text)
    PROVE  /\ file' # NoScript => TextHolds(file')
           /\ file # NoScript /\ file' # file => file'.kind # file.kind \/ file'.body # file.body
           /\ file' \in {file, text}
<1>1. file' \in {file, text}
  BY DEF WriteScript, Reconciled
<1>2. ASSUME file # NoScript, file' # file, file'.kind = file.kind, file'.body = file.body
      PROVE  FALSE
  <2>1. file' = text /\ [file EXCEPT !.at = 0] # [text EXCEPT !.at = 0]
    BY <1>1, <1>2 DEF WriteScript, Reconciled
  <2>2. IsText(file) /\ IsText(text)
    BY <1>2 DEF ScriptInv, TextHolds
  <2>3. [file EXCEPT !.at = 0] = [kind |-> file.kind, at |-> 0, body |-> file.body]
        /\ [text EXCEPT !.at = 0] = [kind |-> text.kind, at |-> 0, body |-> text.body]
    BY <2>2 DEF IsText
  <2> QED
    BY <1>2, <2>1, <2>3
<1> QED
  BY <1>1, <1>2 DEF ScriptInv

\* What TimesDoNotDrift asks of a step.
OnTimeStep ==
    file' # file => OnTime(IF file'.kind = "stub" THEN file'.body.windows ELSE file'.body.rows,
                           Boundaries(Timing(inputs.timing).sections))

\* What RerunKeepsTheFile asks of a step.
KeptStep == file # NoScript /\ file' # file => file'.kind # file.kind \/ file'.body # file.body

LEMMA ScriptStep ==
    ASSUME ScriptInv, [ScriptNext]_scriptVars
    PROVE  ScriptInv' /\ KeptStep /\ OnTimeStep
<1> DEFINE timing == Timing(inputs.timing)
<1>1. CASE EditInputs
  BY <1>1 DEF EditInputs, ScriptInv, KeptStep, OnTimeStep
<1>2. CASE Stub
  <2>1. inputs' = inputs /\ inputs \in Inputs
    BY <1>2 DEF Stub, ScriptInv
  <2>2. CASE file' = file
    BY <2>1, <2>2 DEF ScriptInv, KeptStep, OnTimeStep
  <2>3. CASE file' # file
    <3>1. timing # NoScript
      BY <1>2, <2>3 DEF Stub
    <3>2. PICK N : Loads(timing, N)
      BY <2>1, <3>1, TimingLoads DEF Inputs
    <3>3. PICK text : /\ WriteScript(text) /\ text.kind = "stub" /\ IsText(text)
                      /\ text.body.windows = Windows(timing.sections)
      BY <1>2, <2>3 DEF Stub, IsText, StubText
    <3> HIDE DEF timing
    <3>4. TextHolds(text)
      BY <3>3 DEF TextHolds
    <3>5. Chained(Windows(timing.sections), N, Boundaries(timing.sections))
      BY <3>2, WindowsChain
    <3>6. OnTime(text.body.windows, Boundaries(timing.sections))
      BY <3>2, <3>3, <3>5, RoundedIsOnTime DEF Chained
    <3>7. file' = text /\ ScriptInv' /\ KeptStep
      BY <2>1, <2>3, <3>3, <3>4, WritesHold DEF ScriptInv, KeptStep
    <3> QED
      BY <3>3, <3>6, <3>7 DEF OnTimeStep, timing
  <2> QED
    BY <2>2, <2>3
<1>3. ASSUME NEW answer, Draft(answer)
      PROVE  ScriptInv' /\ KeptStep /\ OnTimeStep
  <2>1. inputs' = inputs /\ inputs \in Inputs
    BY <1>3 DEF Draft, ScriptInv
  <2>2. CASE file' = file
    BY <2>1, <2>2 DEF ScriptInv, KeptStep, OnTimeStep
  <2>3. CASE file' # file
    <3>1. PICK rows : rows = IF answer = Degraded THEN BlankRows(inputs, timing)
                             ELSE DraftRows(inputs, WithLive(Windows(timing.sections)), answer)
      OBVIOUS
    <3>2. timing # NoScript
          /\ WriteScript([kind |-> IF answer = Degraded THEN "blank" ELSE "draft", at |-> scriptRuns + 1,
                          body |-> Body(inputs, timing, rows)])
      BY <1>3, <2>3, <3>1 DEF Draft
    <3>3. PICK N : Loads(timing, N)
      BY <2>1, <3>2, TimingLoads DEF Inputs
    <3> HIDE DEF timing
    <3>4. Usable(Body(inputs, timing, rows)) /\ OnTime(rows, Boundaries(timing.sections))
      BY <2>1, <3>1, <3>3, DraftIsMade
    <3>5. PICK text : /\ WriteScript(text) /\ IsText(text) /\ text.body = Body(inputs, timing, rows)
                      /\ text.kind \in {"blank", "draft"}
      BY <3>2 DEF IsText
    <3>6. TextHolds(text)
      BY <3>4, <3>5 DEF TextHolds
    <3>7. file' = text /\ ScriptInv' /\ KeptStep
      BY <2>1, <2>3, <3>5, <3>6, WritesHold DEF ScriptInv, KeptStep
    <3>8. text.body.rows = rows /\ text.kind # "stub"
      BY <3>5 DEF Body
    <3> QED
      BY <3>4, <3>7, <3>8 DEF OnTimeStep, timing
  <2> QED
    BY <2>2, <2>3
<1>4. CASE UNCHANGED scriptVars
  BY <1>4 DEF scriptVars, ScriptInv, KeptStep, OnTimeStep
<1> QED
  BY <1>1, <1>2, <1>3, <1>4 DEF ScriptNext

\* Whatever the files of a run hold and whatever the model answers, the rows of a draft follow
\* on one another from 0 without a gap, the last ends within four seconds of a stated total,
\* each figure of business value occurs in what the plan gives for it, or the cell begins as a
\* TODO, and what is shown and the first cue of a text can be shown (generate.ts, timing.ts,
\* extractBusinessValue.ts, validateVisuals.ts).
THEOREM DraftsAreUsable == ScriptSpec => []DraftIsUsable
<1>1. ScriptInit => ScriptInv
  BY DEF ScriptInit, ScriptInv
<1>2. ScriptInv /\ [ScriptNext]_scriptVars => ScriptInv'
  BY ScriptStep
<1>3. ScriptInv => DraftIsUsable
  BY DEF ScriptInv, TextHolds, DraftIsUsable, IsDraft, Usable
<1> QED
  BY <1>1, <1>2, <1>3, PTL DEF ScriptSpec

\* A run that would write what the file already says leaves it as it is, its time included,
\* for any inputs and any number of runs (reconcileGeneratedAt(), writeFileDiffAware()).
THEOREM RerunsKeepTheFile == ScriptSpec => RerunKeepsTheFile
<1>1. ScriptInit => ScriptInv
  BY DEF ScriptInit, ScriptInv
<1>2. ScriptInv /\ [ScriptNext]_scriptVars => ScriptInv'
  BY ScriptStep
<1>3. ScriptInv /\ [ScriptNext]_scriptVars =>
        [file # NoScript /\ file' # file => file'.kind # file.kind \/ file'.body # file.body]_scriptVars
  BY ScriptStep DEF KeptStep
<1> QED
  BY <1>1, <1>2, <1>3, PTL DEF ScriptSpec, RerunKeepsTheFile

\* The end of a row is the sum of the minutes up to it, rounded once: no number of sections,
\* of whatever length, makes it differ by more than half a second (computeWindows()).
THEOREM TimesAreExact == ScriptSpec => TimesDoNotDrift
<1>1. ScriptInit => ScriptInv
  BY DEF ScriptInit, ScriptInv
<1>2. ScriptInv /\ [ScriptNext]_scriptVars => ScriptInv'
  BY ScriptStep
<1>3. ScriptInv /\ [ScriptNext]_scriptVars =>
        [file' # file =>
           LET marks == Boundaries(Timing(inputs.timing).sections)
               rows == IF file'.kind = "stub" THEN file'.body.windows ELSE file'.body.rows
           IN \A i \in DOMAIN rows : 10 * rows[i].end - 6 * marks[i] \in -5..5]_scriptVars
  BY ScriptStep DEF OnTimeStep, OnTime
<1> QED
  BY <1>1, <1>2, <1>3, PTL DEF ScriptSpec, TimesDoNotDrift

\* Both at once: what is written has the times of its sections to the second, and a run with
\* nothing else to say writes nothing (computeWindows(), reconcileGeneratedAt()).
THEOREM WritesExactly == ScriptSpec => WritesAreExact
BY RerunsKeepTheFile, TimesAreExact DEF WritesAreExact

-----------------------------------------------------------------------------
(***************************************************************************)
(* ContextBuffer, for any messages, counts, configurations and answers of  *)
(* the compaction functions.  What a fit keeps is told by the place of its *)
(* last evicted message, so the proof carries, besides the buffer, all     *)
(* that was said.                                                          *)
(***************************************************************************)

\* What holds of the empty list, and of a list with one more element, holds of all lists.
LEMMA ListByList ==
    ASSUME NEW T, NEW A, <<>> \in A, \A s \in Seq(T), x \in T : s \in A => Append(s, x) \in A
    PROVE  Seq(T) \subseteq A
<1> DEFINE B == {n \in Nat : \A s \in Seq(T) : Len(s) = n => s \in A}
<1>1. 0 \in B
  BY EmptySeq
<1>2. ASSUME NEW n \in Nat, n \in B PROVE n + 1 \in B
  <2> SUFFICES ASSUME NEW s \in Seq(T), Len(s) = n + 1 PROVE s \in A
    OBVIOUS
  <2>1. SubSeq(s, 1, n) \in Seq(T) /\ s[n + 1] \in T /\ s = Append(SubSeq(s, 1, n), s[n + 1])
    OBVIOUS
  <2>2. Len(SubSeq(s, 1, n)) = n
    OBVIOUS
  <2> QED
    BY <1>2, <2>1, <2>2
<1>3. Nat \subseteq B
  <2> HIDE DEF B
  <2> QED
    BY <1>1, <1>2, Counting
<1> QED
  BY <1>3, LenProperties

\* A selection of a list is a list of the same things.
LEMMA SelectedIn == ASSUME NEW T, NEW s \in Seq(T), NEW S PROVE Selected(s, S) \in Seq(T)
BY SelectedFacts

\* The empty list and a list with one more element are lists of anything.
LEMMA EmptyIn == \A T : <<>> \in Seq(T)
BY EmptySeq

LEMMA AppendedIn == ASSUME NEW T, NEW s \in Seq(T), NEW x \in T PROVE Append(s, x) \in Seq(T)
OBVIOUS

\* Selecting depends on which elements of the list are wanted, and on no other.
LEMMA SelectedAlike ==
    ASSUME NEW T, NEW S, NEW R, S \cap T = R \cap T, NEW s \in Seq(T)
    PROVE  Selected(s, S) = Selected(s, R)
<1> DEFINE A == {q \in Seq(T) : Selected(q, S) = Selected(q, R)}
<1>1. <<>> \in A
  BY NothingSelected, EmptyIn
<1>2. ASSUME NEW q \in Seq(T), NEW x \in T, q \in A PROVE Append(q, x) \in A
  <2>1. Selected(Append(q, x), S) = IF x \in S THEN Append(Selected(q, S), x) ELSE Selected(q, S)
    BY SelectedGrows
  <2>2. Selected(Append(q, x), R) = IF x \in R THEN Append(Selected(q, R), x) ELSE Selected(q, R)
    BY SelectedGrows
  <2>3. (x \in S) <=> (x \in R)
    OBVIOUS
  <2>4. Append(q, x) \in Seq(T)
    BY AppendedIn
  <2> QED
    BY <1>2, <2>1, <2>2, <2>3, <2>4
<1> QED
  <2> HIDE DEF A
  <2>1. Seq(T) \subseteq A
    BY <1>1, <1>2, ListByList
  <2> QED
    BY <2>1 DEF A

\* Everything is selected, or nothing.
LEMMA SelectedAll ==
    ASSUME NEW T, NEW S, T \subseteq S, NEW s \in Seq(T)
    PROVE  Selected(s, S) = s
<1> DEFINE A == {q \in Seq(T) : Selected(q, S) = q}
<1>1. <<>> \in A
  BY NothingSelected, EmptyIn
<1>2. ASSUME NEW q \in Seq(T), NEW x \in T, q \in A PROVE Append(q, x) \in A
  <2>1. Selected(Append(q, x), S) = IF x \in S THEN Append(Selected(q, S), x) ELSE Selected(q, S)
    BY SelectedGrows
  <2>2. Append(q, x) \in Seq(T)
    BY AppendedIn
  <2> QED
    BY <1>2, <2>1, <2>2
<1> QED
  <2> HIDE DEF A
  <2>1. Seq(T) \subseteq A
    BY <1>1, <1>2, ListByList
  <2> QED
    BY <2>1 DEF A

\* A set that holds no element of a list selects nothing of it.
LEMMA SelectedNone ==
    ASSUME NEW T, NEW S, T \cap S = {}, NEW s \in Seq(T)
    PROVE  Selected(s, S) = <<>>
<1> DEFINE A == {q \in Seq(T) : Selected(q, S) = <<>>}
<1>1. <<>> \in A
  BY NothingSelected, EmptyIn
<1>2. ASSUME NEW q \in Seq(T), NEW x \in T, q \in A PROVE Append(q, x) \in A
  <2>1. Selected(Append(q, x), S) = IF x \in S THEN Append(Selected(q, S), x) ELSE Selected(q, S)
    BY SelectedGrows
  <2>2. Append(q, x) \in Seq(T)
    BY AppendedIn
  <2> QED
    BY <1>2, <2>1, <2>2
<1> QED
  <2> HIDE DEF A
  <2>1. Seq(T) \subseteq A
    BY <1>1, <1>2, ListByList
  <2> QED
    BY <2>1 DEF A

\* Selecting from what is selected.
LEMMA SelectedTwice ==
    ASSUME NEW T, NEW S, NEW R, NEW s \in Seq(T)
    PROVE  Selected(Selected(s, S), R) = Selected(s, S \cap R)
<1> DEFINE A == {q \in Seq(T) : Selected(Selected(q, S), R) = Selected(q, S \cap R)}
<1>1. <<>> \in A
  BY NothingSelected, EmptyIn
<1>2. ASSUME NEW q \in Seq(T), NEW x \in T, q \in A PROVE Append(q, x) \in A
  <2>1. Selected(Append(q, x), S) = IF x \in S THEN Append(Selected(q, S), x) ELSE Selected(q, S)
    BY SelectedGrows
  <2>2. Selected(Append(q, x), S \cap R)
          = IF x \in S \cap R THEN Append(Selected(q, S \cap R), x) ELSE Selected(q, S \cap R)
    BY SelectedGrows
  <2>3. Selected(q, S) \in Seq(T)
    BY SelectedIn
  <2>4. Selected(Append(Selected(q, S), x), R)
          = IF x \in R THEN Append(Selected(Selected(q, S), R), x) ELSE Selected(Selected(q, S), R)
    BY <2>3, SelectedGrows
  <2>5. Append(q, x) \in Seq(T)
    BY AppendedIn
  <2>6. Selected(Selected(q, S), R) = Selected(q, S \cap R)
    BY <1>2
  <2>7. CASE x \in S
    <3>1. Selected(Append(q, x), S) = Append(Selected(q, S), x)
      BY <2>1, <2>7
    <3>2. x \in S \cap R <=> x \in R
      BY <2>7
    <3>3. Selected(Append(Selected(q, S), x), R) = Selected(Append(q, x), S \cap R)
      BY <2>2, <2>4, <2>6, <3>2
    <3> QED
      BY <2>5, <3>1, <3>3
  <2>8. CASE x \notin S
    BY <2>1, <2>2, <2>5, <2>6, <2>8
  <2> QED
    BY <2>7, <2>8
<1> QED
  <2> HIDE DEF A
  <2>1. Seq(T) \subseteq A
    BY <1>1, <1>2, ListByList
  <2> QED
    BY <2>1 DEF A

\* Joining a list with one more element is joining the list, and then the element.
LEMMA JoinedWithOneMore ==
    ASSUME NEW T, NEW p \in Seq(T), NEW q \in Seq(T), NEW x \in T
    PROVE  p \o Append(q, x) = Append(p \o q, x)
OBVIOUS

\* Selecting from two lists.
LEMMA SelectedFromBoth ==
    ASSUME NEW T, NEW S, NEW p \in Seq(T), NEW s \in Seq(T)
    PROVE  Selected(p \o s, S) = Selected(p, S) \o Selected(s, S)
<1> DEFINE A == {q \in Seq(T) : Selected(p \o q, S) = Selected(p, S) \o Selected(q, S)}
<1>1. <<>> \in A
  BY NothingSelected, EmptyIn, ConcatEmptySeq, SelectedIn
<1>2. ASSUME NEW q \in Seq(T), NEW x \in T, q \in A PROVE Append(q, x) \in A
  <2>1. Selected(Append(q, x), S) = IF x \in S THEN Append(Selected(q, S), x) ELSE Selected(q, S)
    BY SelectedGrows
  <2>2. p \o q \in Seq(T) /\ p \o Append(q, x) = Append(p \o q, x)
    BY JoinedWithOneMore, ConcatProperties
  <2>3. Selected(Append(p \o q, x), S)
          = IF x \in S THEN Append(Selected(p \o q, S), x) ELSE Selected(p \o q, S)
    BY <2>2, SelectedGrows
  <2>4. Selected(p, S) \o Append(Selected(q, S), x) = Append(Selected(p, S) \o Selected(q, S), x)
    BY SelectedIn, JoinedWithOneMore
  <2>5. Append(q, x) \in Seq(T)
    BY AppendedIn
  <2> QED
    BY <1>2, <2>1, <2>2, <2>3, <2>4, <2>5
<1> QED
  <2> HIDE DEF A
  <2>1. Seq(T) \subseteq A
    BY <1>1, <1>2, ListByList
  <2> QED
    BY <2>1 DEF A

\* Which elements are selected.
LEMMA SelectedElements ==
    ASSUME NEW T, NEW s \in Seq(T), NEW S
    PROVE  /\ Selected(s, S) \in Seq(S \cap T)
           /\ RowsOf(Selected(s, S)) = RowsOf(s) \cap S
<1>1. PICK q : q = Selected(s, S)
  OBVIOUS
<1>2. q \in Seq(T)
  BY <1>1, SelectedIn
<1>3. PICK pos : PicksUpTo(s, S, Len(s), q, pos)
  BY <1>1, SelectedFacts
<1>4. \A i \in 1..Len(q) : q[i] \in S /\ \E k \in 1..Len(s) : q[i] = s[k]
  BY <1>3 DEF PicksUpTo
<1>5. \A k \in 1..Len(s) : s[k] \in S => \E i \in 1..Len(q) : q[i] = s[k]
  BY <1>3 DEF PicksUpTo
<1>6. q \in Seq(S \cap T)
  BY <1>2, <1>4
<1>7. RowsOf(q) = RowsOf(s) \cap S
  BY <1>4, <1>5 DEF RowsOf
<1> QED
  BY <1>1, <1>6, <1>7

\* What is selected of a list whose elements differ differs.
LEMMA SelectedDiffer ==
    ASSUME NEW T, NEW s \in Seq(T), Distinct(s), NEW S
    PROVE  Distinct(Selected(s, S))
<1>1. PICK q : q = Selected(s, S)
  OBVIOUS
<1>2. q \in Seq(T)
  BY <1>1, SelectedIn
<1>3. PICK pos : PicksUpTo(s, S, Len(s), q, pos)
  BY <1>1, SelectedFacts
<1> SUFFICES ASSUME NEW i \in 1..Len(q), NEW j \in 1..Len(q), i # j PROVE q[i] # q[j]
  BY <1>1, <1>2 DEF Distinct
<1>4. pos[i] \in 1..Len(s) /\ pos[j] \in 1..Len(s) /\ q[i] = s[pos[i]] /\ q[j] = s[pos[j]]
  BY <1>3 DEF PicksUpTo
<1>5. i < j \/ j < i
  BY <1>2
<1>6. pos[i] # pos[j]
  BY <1>3, <1>4, <1>5 DEF PicksUpTo
<1> QED
  BY <1>4, <1>6 DEF Distinct

\* What a message counts is a number.
LEMMA CountsAreNumbers ==
    ASSUME NEW m \in Entries, NEW name
    PROVE  CountMessage(m, name) \in Nat
<1>1. m.chars \in Nat /\ (m.cached \in Nat \/ m.cached = Omitted)
  BY ContextAssumption
<1>2. Profile(name).framing \in Nat
  BY ContextAssumption DEF Profile
<1>3. Quarters(m.chars) \in Nat
  BY <1>1 DEF Quarters
<1> QED
  BY <1>1, <1>2, <1>3 DEF CountMessage, Or

\* f counts the messages of b up to place N.
CountsTo(b, name, N, f) ==
    f = [n \in 0..N |-> IF n = 0 THEN 0 ELSE f[n - 1] + CountMessage(b[n], name)]

\* The count of a buffer is the last of the counts of its beginnings.
LEMMA CountIs ==
    ASSUME NEW b \in Seq(Entries), NEW name
    PROVE  \E f \in [0..Len(b) -> Nat] :
              /\ CountsTo(b, name, Len(b), f) /\ CountBuffer(b, name) = f[Len(b)]
<1>1. PICK N \in Nat : N = Len(b)
  OBVIOUS
<1> DEFINE G == [n \in 1..N |-> [t \in Nat |-> t + CountMessage(b[n], name)]]
<1>2. \A n \in 1..N : CountMessage(b[n], name) \in Nat
  BY <1>1, CountsAreNumbers
<1>3. \A n \in 1..N, t \in Nat : G[n][t] = t + CountMessage(b[n], name)
  OBVIOUS
<1> HIDE DEF G
<1>4. PICK f \in [0..N -> Nat] : f[0] = 0 /\ \A n \in 1..N : f[n] = G[n][f[n - 1]]
  <2>0. \A n \in 1..N, t \in Nat : t + CountMessage(b[n], name) \in Nat
    BY <1>2
  <2>1. IsRule(G, N, Nat)
    BY <1>3, <2>0 DEF IsRule
  <2>2. \E f : Computes(G, N, Nat, 0, f)
    BY <2>1, RecursionExists
  <2> QED
    BY <2>2 DEF Computes
<1>5. \A n \in 0..N : f[n] = IF n = 0 THEN 0 ELSE f[n - 1] + CountMessage(b[n], name)
  <2> SUFFICES ASSUME NEW n \in 0..N, n # 0 PROVE f[n] = f[n - 1] + CountMessage(b[n], name)
    BY <1>4
  <2>1. n \in 1..N /\ n - 1 \in 0..N
    OBVIOUS
  <2>2. f[n] = G[n][f[n - 1]] /\ f[n - 1] \in Nat
    BY <1>4, <2>1
  <2> QED
    BY <1>3, <2>1, <2>2
<1>6. CountsTo(b, name, N, f)
  BY <1>4, <1>5 DEF CountsTo
<1> DEFINE g == CHOOSE h : CountsTo(b, name, N, h)
<1>7. CountsTo(b, name, N, g)
  BY <1>6
<1>8. CountBuffer(b, name) = g[N]
  BY <1>1 DEF CountBuffer, CountsTo
<1>9. g \in [0..N -> Nat]
  <2> HIDE DEF g
  <2> DEFINE A == {n \in Nat : n <= N => g[n] \in Nat}
  <2>1. 0 \in A
    BY <1>7 DEF CountsTo
  <2>2. ASSUME NEW n \in Nat, n \in A PROVE n + 1 \in A
    <3> SUFFICES ASSUME n + 1 <= N PROVE g[n + 1] \in Nat
      OBVIOUS
    <3>1. PICK k : k = n + 1
      OBVIOUS
    <3>2. k \in 0..N /\ k # 0 /\ k - 1 = n /\ k \in 1..N
      BY <3>1
    <3>3. g[k] = g[n] + CountMessage(b[k], name)
      BY <1>7, <3>2 DEF CountsTo
    <3> QED
      BY <1>2, <2>2, <3>1, <3>2, <3>3
  <2>3. Nat \subseteq A
    <3> HIDE DEF A
    <3> QED
      BY <2>1, <2>2, Counting
  <2>4. g = [n \in 0..N |-> g[n]]
    BY <1>7 DEF CountsTo
  <2> QED
    BY <2>3, <2>4
<1> QED
  BY <1>1, <1>7, <1>8, <1>9

\* What a buffer counts: nothing if it is empty, and more with each message.
LEMMA EmptyCount == \A name : CountBuffer(<<>>, name) = 0
<1> SUFFICES ASSUME NEW name PROVE CountBuffer(<<>>, name) = 0
  OBVIOUS
<1>1. <<>> \in Seq(Entries) /\ Len(<<>>) = 0
  BY EmptySeq
<1>2. PICK f : CountsTo(<<>>, name, 0, f) /\ CountBuffer(<<>>, name) = f[0]
  BY <1>1, CountIs
<1> QED
  BY <1>2 DEF CountsTo

\* One more message adds its own count.
LEMMA CountGrows ==
    ASSUME NEW b \in Seq(Entries), NEW m \in Entries, NEW name
    PROVE  /\ CountBuffer(b, name) \in Nat
           /\ CountBuffer(Append(b, m), name) = CountBuffer(b, name) + CountMessage(m, name)
<1>1. PICK r : r = Append(b, m)
  OBVIOUS
<1>2. PICK N \in Nat : N = Len(b)
  OBVIOUS
<1>3. r \in Seq(Entries) /\ Len(r) = N + 1 /\ r[N + 1] = m /\ \A i \in 1..N : r[i] = b[i]
  BY <1>1, <1>2, AppendProperties
<1>4. PICK f \in [0..N -> Nat] : CountsTo(b, name, N, f) /\ CountBuffer(b, name) = f[N]
  BY <1>2, CountIs
<1>5. PICK g : CountsTo(r, name, N + 1, g) /\ CountBuffer(r, name) = g[N + 1]
  BY <1>3, CountIs
<1> DEFINE A == {n \in Nat : n <= N => f[n] = g[n]}
<1>6. 0 \in A
  BY <1>4, <1>5 DEF CountsTo
<1>7. ASSUME NEW n \in Nat, n \in A PROVE n + 1 \in A
  <2> SUFFICES ASSUME n + 1 <= N PROVE f[n + 1] = g[n + 1]
    OBVIOUS
  <2>1. PICK k : k = n + 1
    OBVIOUS
  <2>2. k \in 0..N /\ k \in 0 .. N + 1 /\ k # 0 /\ k - 1 = n /\ k \in 1..N
    BY <2>1
  <2>3. f[k] = f[n] + CountMessage(b[k], name)
    BY <1>4, <2>2 DEF CountsTo
  <2>4. g[k] = g[n] + CountMessage(r[k], name)
    BY <1>5, <2>2 DEF CountsTo
  <2> QED
    BY <1>3, <1>7, <2>1, <2>2, <2>3, <2>4
<1>8. Nat \subseteq A
  <2> HIDE DEF A
  <2> QED
    BY <1>6, <1>7, Counting
<1>9. f[N] = g[N]
  BY <1>8
<1>10. PICK k : k = N + 1
  OBVIOUS
<1>11. k \in 0 .. N + 1 /\ k # 0 /\ k - 1 = N
  BY <1>10
<1>12. g[k] = g[N] + CountMessage(r[k], name)
  BY <1>5, <1>10, <1>11 DEF CountsTo
<1> QED
  BY <1>1, <1>3, <1>4, <1>5, <1>9, <1>10, <1>12

\* The count of a buffer is a natural number.
LEMMA CountIsNumber ==
    ASSUME NEW b \in Seq(Entries), NEW name PROVE CountBuffer(b, name) \in Nat
<1>1. PICK f \in [0..Len(b) -> Nat] : CountBuffer(b, name) = f[Len(b)]
  BY CountIs
<1> QED
  BY <1>1, LenProperties

\* Two buffers count what both count.
LEMMA CountOfBoth ==
    ASSUME NEW p \in Seq(Entries), NEW b \in Seq(Entries), NEW name
    PROVE  CountBuffer(p \o b, name) = CountBuffer(p, name) + CountBuffer(b, name)
<1> DEFINE A == {q \in Seq(Entries) :
                    CountBuffer(p \o q, name) = CountBuffer(p, name) + CountBuffer(q, name)}
<1>1. <<>> \in A
  BY EmptyCount, EmptyIn, ConcatEmptySeq, CountIsNumber
<1>2. ASSUME NEW q \in Seq(Entries), NEW m \in Entries, q \in A PROVE Append(q, m) \in A
  <2>1. p \o q \in Seq(Entries) /\ p \o Append(q, m) = Append(p \o q, m)
    BY JoinedWithOneMore, ConcatProperties
  <2>2. CountBuffer(Append(p \o q, m), name) = CountBuffer(p \o q, name) + CountMessage(m, name)
    BY <2>1, CountGrows
  <2>3. CountBuffer(Append(q, m), name) = CountBuffer(q, name) + CountMessage(m, name)
    BY CountGrows
  <2>4. CountMessage(m, name) \in Nat
    BY CountsAreNumbers
  <2>5. CountBuffer(p, name) \in Nat /\ CountBuffer(q, name) \in Nat
    BY CountIsNumber
  <2>6. Append(q, m) \in Seq(Entries)
    BY AppendedIn
  <2>7. CountBuffer(p \o q, name) = CountBuffer(p, name) + CountBuffer(q, name)
    BY <1>2
  <2>8. CountBuffer(p \o Append(q, m), name)
          = CountBuffer(p, name) + CountBuffer(Append(q, m), name)
    BY <2>1, <2>2, <2>3, <2>4, <2>5, <2>7
  <2> QED
    BY <2>6, <2>8
<1> QED
  <2> HIDE DEF A
  <2>1. Seq(Entries) \subseteq A
    BY <1>1, <1>2, ListByList
  <2> QED
    BY <2>1 DEF A

\* A buffer counts what its pinned messages count and what the others count.
LEMMA CountOfParts ==
    ASSUME NEW b \in Seq(Entries), NEW name
    PROVE  CountBuffer(b, name) = CountBuffer(Pinned(b), name) + CountBuffer(Evictable(b), name)
<1> DEFINE A == {q \in Seq(Entries) : CountBuffer(q, name)
                    = CountBuffer(Pinned(q), name) + CountBuffer(Evictable(q), name)}
<1>1. <<>> \in A
  BY EmptyCount, EmptyIn, NothingSelected DEF Pinned, Evictable
<1>2. ASSUME NEW q \in Seq(Entries), NEW m \in Entries, q \in A PROVE Append(q, m) \in A
  <2>1. PICK p, e : p = Pinned(q) /\ e = Evictable(q)
    OBVIOUS
  <2>2. p \in Seq(Entries) /\ e \in Seq(Entries)
    BY <2>1, SelectedIn DEF Pinned, Evictable
  <2>3. CountBuffer(Append(q, m), name) = CountBuffer(q, name) + CountMessage(m, name)
    BY CountGrows
  <2>4. CountMessage(m, name) \in Nat
    BY CountsAreNumbers
  <2>5. CountBuffer(p, name) \in Nat /\ CountBuffer(e, name) \in Nat
    BY <2>2, CountIsNumber
  <2>6. CountBuffer(q, name) = CountBuffer(p, name) + CountBuffer(e, name)
    BY <1>2, <2>1
  <2>7. CountBuffer(Append(q, m), name)
          = CountBuffer(Pinned(Append(q, m)), name) + CountBuffer(Evictable(Append(q, m)), name)
    <3>1. CASE m \in PinnedEntries
      <4>1. Pinned(Append(q, m)) = Append(p, m) /\ Evictable(Append(q, m)) = e
        BY <2>1, <3>1, SelectedGrows DEF Pinned, Evictable
      <4>2. CountBuffer(Append(p, m), name) = CountBuffer(p, name) + CountMessage(m, name)
        BY <2>2, CountGrows
      <4> QED
        BY <2>3, <2>4, <2>5, <2>6, <4>1, <4>2
    <3>2. CASE m \notin PinnedEntries
      <4>1. Pinned(Append(q, m)) = p /\ Evictable(Append(q, m)) = Append(e, m)
        BY <2>1, <3>2, SelectedGrows DEF Pinned, Evictable
      <4>2. CountBuffer(Append(e, m), name) = CountBuffer(e, name) + CountMessage(m, name)
        BY <2>2, CountGrows
      <4> QED
        BY <2>3, <2>4, <2>5, <2>6, <4>1, <4>2
    <3> QED
      BY <3>1, <3>2
  <2> QED
    BY <2>7, AppendedIn
<1> QED
  <2> HIDE DEF A
  <2>1. Seq(Entries) \subseteq A
    BY <1>1, <1>2, ListByList
  <2> QED
    BY <2>1 DEF A

\* A set of natural numbers that is not empty has a least one.
LEMMA LeastThereIs ==
    ASSUME NEW S, S \subseteq Nat, S # {}
    PROVE  \E m \in S : \A k \in S : m <= k
<1>1. PICK m \in S : \A k \in S : ~(<<k, m>> \in OpToRel(<, Nat))
  BY NatLessThanWellFounded, WFMin
<1>2. ASSUME NEW k \in S PROVE m <= k
  <2>1. ~(k < m)
    BY <1>1, <1>2 DEF OpToRel
  <2> QED
    BY <2>1
<1> QED
  BY <1>2

\* The end of a list, and what is before it.
LEMMA LastOfFacts ==
    ASSUME NEW T, NEW b \in Seq(T), NEW k \in Nat
    PROVE  /\ LastOf(b, k) \in Seq(T)
           /\ Len(LastOf(b, k)) = IF k < Len(b) THEN k ELSE Len(b)
           /\ \E front \in Seq(T) : b = front \o LastOf(b, k) /\ (k >= Len(b) => front = <<>>)
<1>1. CASE k < Len(b)
  <2>1. PICK m \in Nat : m = Len(b) - k
    BY <1>1
  <2>2. LastOf(b, k) = SubSeq(b, m + 1, Len(b))
    BY <1>1, <2>1 DEF LastOf
  <2>3. SubSeq(b, m + 1, Len(b)) \in Seq(T) /\ Len(SubSeq(b, m + 1, Len(b))) = k
    BY <1>1, <2>1
  <2>4. b = SubSeq(b, 1, m) \o SubSeq(b, m + 1, Len(b))
    <3>1. 1 \in 1 .. Len(b) + 1 /\ m \in 1 - 1 .. Len(b) /\ Len(b) \in m .. Len(b)
      BY <1>1, <2>1
    <3>2. SubSeq(b, 1, m) \o SubSeq(b, m + 1, Len(b)) = SubSeq(b, 1, Len(b))
      BY <3>1, ConcatAdjacentSubSeq
    <3> QED
      BY <3>2, SubSeqFull
  <2>5. PICK front : front = SubSeq(b, 1, m)
    OBVIOUS
  <2>6. front \in Seq(T) /\ b = front \o LastOf(b, k)
    <3>1. \A i \in 1..m : b[i] \in T
      BY <1>1, <2>1
    <3>2. SubSeq(b, 1, m) \in Seq(T)
      BY <3>1, SubSeqProperties
    <3> QED
      BY <2>2, <2>4, <2>5, <3>2
  <2>7. ~(k >= Len(b))
    BY <1>1
  <2>8. \E f \in Seq(T) : b = f \o LastOf(b, k) /\ (k >= Len(b) => f = <<>>)
    BY <2>6, <2>7
  <2>9. LastOf(b, k) \in Seq(T) /\ Len(LastOf(b, k)) = k
    BY <2>2, <2>3
  <2> QED
    BY <1>1, <2>8, <2>9
<1>2. CASE ~(k < Len(b))
  <2>1. LastOf(b, k) = b
    BY <1>2 DEF LastOf
  <2>2. b = <<>> \o b /\ <<>> \in Seq(T)
    BY ConcatEmptySeq, EmptySeq
  <2> QED
    BY <1>2, <2>1, <2>2
<1> QED
  BY <1>1, <1>2

\* The end of two lists, as long as the second, is the second.
LEMMA LastOfBoth ==
    ASSUME NEW T, NEW p \in Seq(T), NEW q \in Seq(T)
    PROVE  LastOf(p \o q, Len(q)) = q
<1>1. PICK m, n \in Nat : m = Len(p) /\ n = Len(q)
  OBVIOUS
<1>2. PICK r : r = p \o q
  OBVIOUS
<1>3. /\ r \in Seq(T) /\ Len(r) = m + n
      /\ \A i \in 1 .. m + n : r[i] = IF i <= m THEN p[i] ELSE q[i - m]
  BY <1>1, <1>2, ConcatProperties
<1>4. CASE m = 0
  <2>1. r = q
    BY <1>1, <1>2, <1>4, ConcatEmptySeq, EmptySeq
  <2> QED
    BY <1>2, <2>1 DEF LastOf
<1>5. CASE m # 0
  <2>1. LastOf(r, n) = SubSeq(r, m + 1, m + n)
    <3>1. ~(n >= Len(r)) /\ Len(r) - n + 1 = m + 1
      BY <1>3, <1>5
    <3>2. LastOf(r, n) = SubSeq(r, Len(r) - n + 1, Len(r))
      BY <3>1 DEF LastOf
    <3> QED
      BY <1>3, <3>1, <3>2
  <2>2. \A i \in m + 1 .. m + n : r[i] \in T
    BY <1>3
  <2>3. PICK z : z = SubSeq(r, m + 1, m + n)
    OBVIOUS
  <2>4. z \in Seq(T) /\ Len(z) = n /\ \A i \in 1..n : z[i] = r[m + i]
    <3>1. Len(z) = IF m + 1 <= m + n THEN m + n - (m + 1) + 1 ELSE 0
      BY <2>2, <2>3, SubSeqProperties
    <3>2. z \in Seq(T)
      BY <2>2, <2>3, SubSeqProperties
    <3>3. \A i \in 1 .. m + n - (m + 1) + 1 : z[i] = r[m + 1 + i - 1]
      BY <2>2, <2>3, SubSeqProperties
    <3> QED
      BY <3>1, <3>2, <3>3
  <2>5. \A i \in 1..n : z[i] = q[i]
    BY <1>3, <2>4
  <2>6. z = q
    BY <1>1, <2>4, <2>5, SeqEqual
  <2> QED
    BY <1>1, <1>2, <2>1, <2>3, <2>6
<1> QED
  BY <1>4, <1>5

\* front is before the last k of b, and its end is the next of them.
IsBefore(front, b, k) ==
    /\ front # <<>> /\ b = front \o LastOf(b, k)
    /\ LastOf(b, k + 1) = <<front[Len(front)]>> \o LastOf(b, k)

\* An end one element longer has that element before the shorter end.
LEMMA LastOfOneMore ==
    ASSUME NEW T, NEW b \in Seq(T), NEW k \in Nat, k < Len(b)
    PROVE  \E front \in Seq(T) : front[Len(front)] \in T /\ IsBefore(front, b, k)
<1>1. PICK N, m \in Nat : N = Len(b) /\ m = N - k
  OBVIOUS
<1>2. m \in 1..N /\ LastOf(b, k) = SubSeq(b, m + 1, N)
  BY <1>1 DEF LastOf
<1>3. LastOf(b, k + 1) = SubSeq(b, m, N)
  <2>1. CASE k + 1 < N
    <3>1. N - (k + 1) + 1 = m
      BY <1>1
    <3> QED
      BY <1>1, <2>1, <3>1 DEF LastOf
  <2>2. CASE k + 1 = N
    <3>1. m = 1 /\ LastOf(b, k + 1) = b
      BY <1>1, <2>2 DEF LastOf
    <3> QED
      BY <1>1, <3>1, SubSeqFull
  <2> QED
    BY <1>1, <2>1, <2>2
<1>4. SubSeq(b, m, N) = <<b[m]>> \o SubSeq(b, m + 1, N)
  BY <1>1, <1>2, SubSeqRecursiveFirst
<1>5. PICK front : front = SubSeq(b, 1, m)
  OBVIOUS
<1>6. front \in Seq(T) /\ Len(front) = m /\ front[m] = b[m] /\ b[m] \in T
  BY <1>1, <1>2, <1>5
<1>7. b = front \o SubSeq(b, m + 1, N)
  BY <1>1, <1>2, <1>5
<1>8. front # <<>>
  BY <1>2, <1>6
<1>9. IsBefore(front, b, k)
  BY <1>2, <1>3, <1>4, <1>6, <1>7, <1>8 DEF IsBefore
<1> QED
  BY <1>6, <1>9

\* What a message more at the front counts.
LEMMA CountOfOneMore ==
    ASSUME NEW m \in Entries, NEW b \in Seq(Entries), NEW name
    PROVE  CountBuffer(<<m>> \o b, name) = CountMessage(m, name) + CountBuffer(b, name)
<1>1. <<>> \in Seq(Entries) /\ <<m>> = Append(<<>>, m) /\ <<m>> \in Seq(Entries)
  BY EmptySeq
<1>2. CountBuffer(<<m>>, name) = CountBuffer(<<>>, name) + CountMessage(m, name)
  <2>1. \A b0 \in Seq(Entries) : CountBuffer(Append(b0, m), name)
                                  = CountBuffer(b0, name) + CountMessage(m, name)
    BY CountGrows
  <2>2. CountBuffer(Append(<<>>, m), name) = CountBuffer(<<>>, name) + CountMessage(m, name)
    BY <1>1, <2>1
  <2> QED
    BY <1>1, <2>2
<1>3. CountBuffer(<<m>> \o b, name) = CountBuffer(<<m>>, name) + CountBuffer(b, name)
  BY <1>1, CountOfBoth
<1> QED
  BY <1>2, <1>3, EmptyCount, CountsAreNumbers

\* What is before a suffix is nothing, or ends with a message too many.
TooMany(d, kept, room, name) ==
    d # <<>> => CountBuffer(kept, name) + CountMessage(d[Len(d)], name) > room

\* The fitting suffix is one, fits, and would not with one message more.
LEMMA FittingSuffixFits ==
    ASSUME NEW b \in Seq(Entries), NEW room \in Nat, NEW name
    PROVE  /\ FittingSuffix(b, room, name) \in Seq(Entries)
           /\ CountBuffer(FittingSuffix(b, room, name), name) <= room
           /\ \E d \in Seq(Entries) : /\ b = d \o FittingSuffix(b, room, name)
                                      /\ TooMany(d, FittingSuffix(b, room, name), room, name)
<1>1. PICK N \in Nat : N = Len(b)
  OBVIOUS
<1> DEFINE fits(k) == CountBuffer(LastOf(b, k), name) <= room
           longest(k) == fits(k) /\ \A j \in k + 1 .. N : ~fits(j)
           k0 == CHOOSE k \in 0..N : longest(k)
<1>2. FittingSuffix(b, room, name) = LastOf(b, k0)
  BY <1>1 DEF FittingSuffix
<1>3. fits(0)
  <2>1. LastOf(b, 0) \in Seq(Entries) /\ Len(LastOf(b, 0)) = 0
    <3>1. Len(LastOf(b, 0)) = IF 0 < Len(b) THEN 0 ELSE Len(b)
      BY LastOfFacts
    <3> QED
      BY <1>1, <3>1, LastOfFacts
  <2>2. LastOf(b, 0) = <<>>
    BY <2>1, EmptySeq
  <2> QED
    BY <2>2, EmptyCount
<1> HIDE DEF fits
<1>4. \E k \in 0..N : longest(k)
  <2> DEFINE S == {n \in 0..N : fits(N - n)}
  <2>1. N \in S
    BY <1>3
  <2>2. PICK n \in S : \A i \in S : n <= i
    <3>1. S \subseteq Nat
      OBVIOUS
    <3>2. S # {}
      BY <2>1
    <3> HIDE DEF S
    <3> QED
      BY <3>1, <3>2, LeastThereIs
  <2>3. N - n \in 0..N /\ fits(N - n)
    OBVIOUS
  <2>4. ASSUME NEW j \in N - n + 1 .. N, fits(j) PROVE FALSE
    <3>1. PICK i \in 0..N : i = N - j
      OBVIOUS
    <3>2. N - i = j
      BY <3>1
    <3>3. fits(N - i)
      BY <2>4, <3>2
    <3>4. i \in S
      BY <3>3
    <3> QED
      BY <2>2, <3>1, <3>4
  <2> QED
    BY <2>3, <2>4
<1>5. PICK k : k = k0
  OBVIOUS
<1>6. k \in 0..N /\ longest(k)
  BY <1>4, <1>5
<1>7. PICK kept : kept = LastOf(b, k)
  OBVIOUS
<1>8. FittingSuffix(b, room, name) = kept
  BY <1>2, <1>5, <1>7
<1>9. kept \in Seq(Entries)
  BY <1>6, <1>7, LastOfFacts
<1>10. CountBuffer(kept, name) <= room
  BY <1>6, <1>7 DEF fits
<1>11. \E d \in Seq(Entries) : b = d \o kept /\ TooMany(d, kept, room, name)
  <2>1. CASE k = N
    <3>1. b = <<>> \o kept /\ <<>> \in Seq(Entries)
      BY <1>1, <1>7, <2>1, ConcatEmptySeq, EmptySeq DEF LastOf
    <3> QED
      BY <3>1 DEF TooMany
  <2>2. CASE k # N
    <3>1. k \in Nat /\ k < N /\ k + 1 \in k + 1 .. N
      BY <1>6, <2>2
    <3>2. PICK d \in Seq(Entries) :
             /\ d # <<>> /\ b = d \o kept /\ d[Len(d)] \in Entries
             /\ LastOf(b, k + 1) = <<d[Len(d)]>> \o kept
      <4>1. k < Len(b)
        BY <1>1, <3>1
      <4>2. \E d \in Seq(Entries) : d[Len(d)] \in Entries /\ IsBefore(d, b, k)
        BY <3>1, <4>1, LastOfOneMore
      <4> QED
        BY <1>7, <4>2 DEF IsBefore
    <3>3. ~(CountBuffer(LastOf(b, k + 1), name) <= room)
      BY <1>6, <3>1 DEF fits
    <3>4. PICK m \in Entries : m = d[Len(d)]
      BY <3>2
    <3>5. CountBuffer(LastOf(b, k + 1), name) = CountMessage(m, name) + CountBuffer(kept, name)
      <4>1. LastOf(b, k + 1) = <<m>> \o kept
        BY <3>2, <3>4
      <4>2. CountBuffer(<<m>> \o kept, name) = CountMessage(m, name) + CountBuffer(kept, name)
        BY <1>9, CountOfOneMore
      <4> QED
        BY <4>1, <4>2
    <3>6. CountMessage(m, name) \in Nat /\ CountBuffer(kept, name) \in Nat
      BY <1>9, CountsAreNumbers, CountIsNumber
    <3>7. TooMany(d, kept, room, name)
      BY <3>3, <3>4, <3>5, <3>6 DEF TooMany
    <3> QED
      BY <3>2, <3>7
  <2> QED
    BY <2>1, <2>2
<1> QED
  BY <1>8, <1>9, <1>10, <1>11

\* The strategies and fit() work with the same budget.
LEMMA OneBudget ==
    ASSUME NEW c \in Configs
    PROVE  /\ InputBudget(c) \in Nat /\ StrategyBudget(c) = InputBudget(c)
           /\ Resolved(c).n \in Nat
<1>1. /\ c.window \in Nat \ {0} \/ c.window = Omitted
      /\ c.reserved \in Nat \/ c.reserved = Omitted
      /\ c.n \in Nat \/ c.n = Omitted
  BY ContextAssumption
<1>2. \A name : Profile(name).window \in Nat \ {0}
  BY ContextAssumption DEF Profile
<1>3. RESERVED_OUTPUT \in Nat /\ KEEP_LAST_N_DEFAULT \in Nat
  BY ContextAssumption
<1>4. Resolved(c).n \in Nat /\ Resolved(c).reserved \in Nat
  BY <1>1, <1>3 DEF Resolved, Or
<1>5. Resolved(c).window = c.window
  BY DEF Resolved
<1>6. PICK name : name = Resolved(c).profile
  OBVIOUS
<1>7. PICK w : w = Or(c.window, Profile(name).window)
  OBVIOUS
<1>8. w \in Nat \ {0}
  BY <1>1, <1>2, <1>7 DEF Or
<1>9. PICK reserved \in Nat : reserved = Resolved(c).reserved
  BY <1>4
<1>10. StrategyBudget(c) = Budget(w, reserved)
  BY <1>5, <1>6, <1>7, <1>9 DEF StrategyBudget
<1>11. InputBudget(c) = Budget(w, reserved)
  <2>1. ~(w < 1)
    BY <1>8
  <2> QED
    BY <1>5, <1>6, <1>7, <1>9, <2>1 DEF InputBudget
<1>12. Budget(w, reserved) \in Nat
  BY <1>8, <1>9 DEF Budget
<1> QED
  BY <1>4, <1>10, <1>11, <1>12

\* What d holds was evicted from before kept, that fits room, and had to be.
Evicted(d, kept, room, c) ==
    \/ TooMany(d, kept, room, Resolved(c).profile)
    \/ Resolved(c).strategy = "keep-last-n" /\ Len(kept) >= Resolved(c).n

KeepsTheEnd(e, kept, room, c) ==
    /\ kept \in Seq(Entries) /\ CountBuffer(kept, Resolved(c).profile) <= room
    /\ \E d \in Seq(Entries) : e = d \o kept /\ Evicted(d, kept, room, c)

\* Three lists are joined in either grouping.
LEMMA Grouped ==
    ASSUME NEW T, NEW p \in Seq(T), NEW q \in Seq(T), NEW r \in Seq(T)
    PROVE  p \o (q \o r) = (p \o q) \o r
BY ConcatAssociative, SMT

\* Grouped, with a name for each list.
LEMMA Regrouped ==
    ASSUME NEW T, NEW p \in Seq(T), NEW q \in Seq(T), NEW r \in Seq(T),
           NEW s, s = q \o r, NEW all, all = p \o s
    PROVE  p \o q \in Seq(T) /\ all = (p \o q) \o r
<1>1. all = p \o (q \o r)
  OBVIOUS
<1>2. p \o q \in Seq(T)
  BY ConcatProperties
<1> QED
  BY <1>1, <1>2, Grouped

\* The strategies keep an end of what may go.
LEMMA KeptIsTheEnd ==
    ASSUME NEW b \in Seq(Entries), NEW c \in Configs, NEW room \in Nat,
           room = StrategyBudget(c) - CountBuffer(Pinned(b), Resolved(c).profile)
    PROVE  KeepsTheEnd(Evictable(b), Kept(b, c), room, c)
<1>1. PICK name, n : name = Resolved(c).profile /\ n = Resolved(c).n
  OBVIOUS
<1>2. n \in Nat
  BY <1>1, OneBudget
<1>3. PICK e \in Seq(Entries) : e = Evictable(b)
  BY SelectedIn DEF Evictable
<1>4. CASE Resolved(c).strategy = "keep-last-n"
  <2>1. PICK L : L = LastOf(e, n)
    OBVIOUS
  <2>2. L \in Seq(Entries) /\ Len(L) = IF n < Len(e) THEN n ELSE Len(e)
    BY <1>2, <2>1, LastOfFacts
  <2>3. PICK front \in Seq(Entries) : e = front \o L /\ (n >= Len(e) => front = <<>>)
    BY <1>2, <2>1, LastOfFacts
  <2>4. PICK kept : kept = FittingSuffix(L, room, name)
    OBVIOUS
  <2>5. Kept(b, c) = kept
    BY <1>1, <1>3, <1>4, <2>1, <2>4 DEF Kept
  <2>6. kept \in Seq(Entries) /\ CountBuffer(kept, name) <= room
    BY <2>2, <2>4, FittingSuffixFits
  <2>7. PICK d \in Seq(Entries) : L = d \o kept /\ TooMany(d, kept, room, name)
    BY <2>2, <2>4, FittingSuffixFits
  <2>8. front \o d \in Seq(Entries) /\ e = (front \o d) \o kept
    <3>1. e = front \o L /\ L = d \o kept
      BY <2>3, <2>7
    <3> QED
      BY <2>6, <3>1, Regrouped
  <2>9. Evicted(front \o d, kept, room, c)
    <3>1. CASE d # <<>>
      <4>1. PICK p : p = front \o d
        OBVIOUS
      <4>2. Len(d) \in Nat \ {0} /\ Len(front) \in Nat
        BY <3>1, EmptySeq
      <4>3. Len(p) = Len(front) + Len(d) /\ p[Len(p)] = d[Len(d)]
        BY <4>1, <4>2, ConcatProperties
      <4>4. CountBuffer(kept, name) + CountMessage(p[Len(p)], name) > room
        BY <2>7, <3>1, <4>3 DEF TooMany
      <4> QED
        BY <1>1, <4>1, <4>4 DEF TooMany, Evicted
    <3>2. CASE d = <<>> /\ front # <<>>
      <4>1. L = kept
        BY <2>6, <2>7, <3>2, ConcatEmptySeq
      <4>2. n < Len(e)
        BY <1>2, <2>3, <3>2
      <4>3. Len(kept) = n
        BY <2>2, <4>1, <4>2
      <4> QED
        BY <1>1, <1>2, <1>4, <4>3 DEF Evicted
    <3>3. CASE d = <<>> /\ front = <<>>
      <4>1. front \o d = <<>>
        BY <3>3, ConcatEmptySeq, EmptySeq
      <4> QED
        BY <4>1 DEF TooMany, Evicted
    <3> QED
      BY <3>1, <3>2, <3>3
  <2> QED
    BY <1>1, <1>3, <2>5, <2>6, <2>8, <2>9 DEF KeepsTheEnd
<1>5. CASE Resolved(c).strategy # "keep-last-n"
  <2>1. PICK kept : kept = FittingSuffix(e, room, name)
    OBVIOUS
  <2>2. Kept(b, c) = kept
    BY <1>1, <1>3, <1>5, <2>1 DEF Kept
  <2>3. kept \in Seq(Entries) /\ CountBuffer(kept, name) <= room
    BY <2>1, FittingSuffixFits
  <2>4. PICK d \in Seq(Entries) : e = d \o kept /\ TooMany(d, kept, room, name)
    BY <2>1, FittingSuffixFits
  <2> QED
    BY <1>1, <1>3, <2>2, <2>3, <2>4 DEF KeepsTheEnd, Evicted
<1> QED
  BY <1>4, <1>5

\* Two lists without a repetition have no element in common.
LEMMA NoneInCommon ==
    ASSUME NEW T, NEW d \in Seq(T), NEW k \in Seq(T), Distinct(d \o k)
    PROVE  ElementsOf(d) \cap ElementsOf(k) = {}
<1>1. PICK m, n \in Nat : m = Len(d) /\ n = Len(k)
  OBVIOUS
<1>2. PICK b : b = d \o k
  OBVIOUS
<1>3. /\ b \in Seq(T) /\ Len(b) = m + n
      /\ \A i \in 1 .. m + n : b[i] = IF i <= m THEN d[i] ELSE k[i - m]
  BY <1>1, <1>2, ConcatProperties
<1> SUFFICES ASSUME NEW i \in 1..m, NEW j \in 1..n, d[i] = k[j] PROVE FALSE
  BY <1>1 DEF ElementsOf
<1>4. i \in 1 .. m + n /\ m + j \in 1 .. m + n /\ i # m + j
  OBVIOUS
<1>5. b[i] = d[i] /\ b[m + j] = k[j]
  BY <1>3, <1>4
<1>6. DOMAIN b = 1 .. m + n
  BY <1>3
<1> QED
  BY <1>2, <1>4, <1>5, <1>6 DEF Distinct

\* A list is a list of its own elements.
LEMMA OwnElements == \A T : \A s \in Seq(T) : s \in Seq(ElementsOf(s)) /\ ElementsOf(s) \subseteq T
BY DEF ElementsOf

\* The second of them is what its elements select.
LEMMA SecondSelected ==
    ASSUME NEW T, NEW d \in Seq(T), NEW k \in Seq(T), Distinct(d \o k)
    PROVE  Selected(d \o k, ElementsOf(k)) = k
<1>1. ElementsOf(d) \cap ElementsOf(k) = {}
  BY NoneInCommon
<1>2. d \in Seq(ElementsOf(d)) /\ k \in Seq(ElementsOf(k))
  BY OwnElements
<1>3. Selected(d, ElementsOf(k)) = <<>>
  BY <1>1, <1>2, SelectedNone
<1>4. Selected(k, ElementsOf(k)) = k
  BY <1>2, SelectedAll
<1>5. Selected(d \o k, ElementsOf(k)) = Selected(d, ElementsOf(k)) \o Selected(k, ElementsOf(k))
  BY SelectedFromBoth
<1> QED
  BY <1>3, <1>4, <1>5, ConcatEmptySeq

\* With the last of d the buffer would not fit, or keep-last-n has its n.
MustGo(d, out, c) ==
    \/ TooMany(d, out, InputBudget(c), Resolved(c).profile)
    \/ Resolved(c).strategy = "keep-last-n" /\ Len(Evictable(out)) >= Resolved(c).n

\* What is left of a buffer: all that is pinned and an end of the rest; what is gone had to go.
Reduced(out, b, c) ==
    /\ out \in Seq(Entries) /\ Distinct(out) /\ Pinned(out) = Pinned(b)
    /\ \E d \in Seq(Entries) : Evictable(b) = d \o Evictable(out) /\ MustGo(d, out, c)

\* A buffer nothing was taken from is reduced from itself.
LEMMA SameIsReduced ==
    ASSUME NEW b \in Seq(Entries), Distinct(b), NEW c
    PROVE  Reduced(b, b, c)
<1>1. <<>> \in Seq(Entries) /\ Evictable(b) = <<>> \o Evictable(b)
  BY SelectedIn, ConcatEmptySeq, EmptySeq DEF Evictable
<1>2. TooMany(<<>>, b, InputBudget(c), Resolved(c).profile)
  BY DEF TooMany
<1> QED
  BY <1>1, <1>2 DEF Reduced, MustGo

\* A strategy reduces what is clean, and what it keeps fits when the pinned ones do.
LEMMA StrategyFits ==
    ASSUME NEW b \in Seq(Entries), Distinct(b), NEW c \in Configs,
           CountBuffer(Pinned(b), Resolved(c).profile) <= InputBudget(c)
    PROVE  /\ Reduced(StrategyFit(b, c), b, c)
           /\ CountBuffer(StrategyFit(b, c), Resolved(c).profile) <= InputBudget(c)
<1>1. PICK name : name = Resolved(c).profile
  OBVIOUS
<1>2. PICK budget \in Nat : budget = InputBudget(c) /\ budget = StrategyBudget(c)
  BY OneBudget
<1>3. CASE CountBuffer(b, name) <= budget
  <2>1. StrategyFit(b, c) = b
    BY <1>1, <1>2, <1>3 DEF StrategyFit
  <2> QED
    BY <1>1, <1>2, <1>3, <2>1, SameIsReduced
<1>4. CASE ~(CountBuffer(b, name) <= budget)
  <2>1. PICK kept : kept = Kept(b, c)
    OBVIOUS
  <2>2. PICK R : R = ElementsOf(kept)
    OBVIOUS
  <2>3. PICK out : out = Selected(b, PinnedEntries \cup R)
    OBVIOUS
  <2>4. StrategyFit(b, c) = out
    BY <1>1, <1>2, <1>4, <2>1, <2>2, <2>3 DEF StrategyFit
  <2>5. out \in Seq(Entries) /\ Distinct(out)
    BY <2>3, SelectedIn, SelectedDiffer
  <2>6. PICK pinned \in Nat : pinned = CountBuffer(Pinned(b), name)
    BY SelectedIn, CountIsNumber DEF Pinned
  <2>7. PICK room \in Nat : room = budget - pinned
    BY <1>1, <1>2, <2>6
  <2>8. KeepsTheEnd(Evictable(b), kept, room, c)
    BY <1>1, <1>2, <2>1, <2>6, <2>7, KeptIsTheEnd
  <2>9. kept \in Seq(Entries) /\ CountBuffer(kept, name) <= room
    BY <1>1, <2>8 DEF KeepsTheEnd
  <2>10. PICK d \in Seq(Entries) : Evictable(b) = d \o kept /\ Evicted(d, kept, room, c)
    BY <2>8 DEF KeepsTheEnd
  <2>11. Distinct(d \o kept)
    BY <2>10, SelectedDiffer DEF Evictable
  <2>12. R \subseteq Entries \ PinnedEntries
    <3>1. Evictable(b) \in Seq((Entries \ PinnedEntries) \cap Entries)
      BY SelectedElements DEF Evictable
    <3>2. d \o kept \in Seq(Entries \ PinnedEntries)
      BY <2>10, <3>1
    <3> SUFFICES ASSUME NEW i \in 1..Len(kept) PROVE kept[i] \in Entries \ PinnedEntries
      BY <2>2, <2>9 DEF ElementsOf
    <3>3. (d \o kept)[Len(d) + i] = kept[i] /\ Len(d) + i \in 1..Len(d \o kept)
      BY <2>9, ConcatProperties
    <3> QED
      BY <3>2, <3>3, ElementOfSeq
  <2>13. Pinned(out) = Pinned(b)
    <3>1. Pinned(out) = Selected(b, (PinnedEntries \cup R) \cap PinnedEntries)
      BY <2>3, SelectedTwice DEF Pinned
    <3>2. (PinnedEntries \cup R) \cap PinnedEntries = PinnedEntries
      OBVIOUS
    <3> QED
      BY <3>1, <3>2 DEF Pinned
  <2>14. Evictable(out) = kept
    <3>1. PICK U : U = Entries \ PinnedEntries
      OBVIOUS
    <3>2. Evictable(out) = Selected(b, (PinnedEntries \cup R) \cap U)
      BY <2>3, <3>1, SelectedTwice DEF Evictable
    <3>3. (PinnedEntries \cup R) \cap U = U \cap R
      BY <3>1
    <3>4. Selected(b, U \cap R) = Selected(Selected(b, U), R)
      BY SelectedTwice
    <3>5. Selected(b, U) = d \o kept
      BY <2>10, <3>1 DEF Evictable
    <3>6. Selected(d \o kept, R) = kept
      BY <2>2, <2>9, <2>11, SecondSelected
    <3> QED
      BY <3>2, <3>3, <3>4, <3>5, <3>6
  <2>15. PICK k \in Nat : k = CountBuffer(kept, name)
    BY <2>9, CountIsNumber
  <2>16. CountBuffer(out, name) = pinned + k
    BY <2>5, <2>6, <2>13, <2>14, <2>15, CountOfParts
  <2>17. CountBuffer(out, name) <= budget
    BY <2>7, <2>9, <2>15, <2>16
  <2>18. \/ TooMany(d, out, budget, name)
         \/ Resolved(c).strategy = "keep-last-n" /\ Len(kept) >= Resolved(c).n
    <3>1. CASE TooMany(d, kept, room, name)
      <4>1. CASE d = <<>>
        BY <4>1 DEF TooMany
      <4>2. CASE d # <<>>
        <5>1. d[Len(d)] \in Entries
          BY <4>2, EmptySeq, ElementOfSeq
        <5>2. PICK more \in Nat : more = CountMessage(d[Len(d)], name)
          BY <5>1, CountsAreNumbers
        <5>3. k + more > room
          BY <2>15, <3>1, <4>2, <5>2 DEF TooMany
        <5>4. pinned + k + more > budget
          BY <2>7, <5>3
        <5> QED
          BY <2>16, <5>2, <5>4 DEF TooMany
      <4> QED
        BY <4>1, <4>2
    <3> QED
      BY <1>1, <2>10, <3>1 DEF Evicted
  <2>19. Reduced(out, b, c)
    <3>1. MustGo(d, out, c)
      BY <1>1, <1>2, <2>14, <2>18 DEF MustGo
    <3> QED
      BY <2>5, <2>10, <2>13, <2>14, <3>1 DEF Reduced
  <2> QED
    BY <1>1, <1>2, <2>4, <2>17, <2>19
<1> QED
  BY <1>3, <1>4

\* What fit() says of the buffer it returns is so.
FitTells(r, c) ==
    /\ r.status.total = CountBuffer(r.buffer, Resolved(c).profile)
    /\ r.status.budget = InputBudget(c)
    /\ r.status.rejected \/ r.status.total <= r.status.budget

\* The status an answer carries is the status of its buffer.
LEMMA StatusTells ==
    ASSUME NEW b, NEW c, NEW evicted
    PROVE  /\ CountBuffer(b, Resolved(c).profile) <= InputBudget(c)
                => FitTells([buffer |-> b, status |-> Status(b, c, evicted)], c)
           /\ FitTells(Rejection(b, c, evicted), c) /\ Rejection(b, c, evicted).buffer = b
BY DEF FitTells, Status, Rejection

\* The strategies add nothing.
LEMMA StrategyAddsNothing ==
    ASSUME NEW T, NEW b \in Seq(T), NEW c
    PROVE  StrategyFit(b, c) \in Seq(T)
<1>1. \A S : Selected(b, S) \in Seq(T)
  BY SelectedIn
<1> QED
  BY <1>1 DEF StrategyFit

\* fit() keeps what it must and says what it did.
LEMMA FitIsSound ==
    ASSUME NEW b \in Seq(Entries), Distinct(b), NEW c \in Configs
    PROVE  /\ Reduced(Fit(b, c).buffer, Selected(b, ValidEntries), c)
           /\ Fit(b, c).buffer \in Seq(ValidEntries)
           /\ FitTells(Fit(b, c), c)
<1>1. PICK clean : clean = Selected(b, ValidEntries)
  OBVIOUS
<1>2. clean \in Seq(Entries) /\ Distinct(clean)
  BY <1>1, SelectedIn, SelectedDiffer
<1>3. clean \in Seq(ValidEntries)
  <2>1. clean \in Seq(ValidEntries \cap Entries)
    BY <1>1, SelectedElements
  <2>2. ValidEntries \cap Entries = ValidEntries
    BY DEF ValidEntries
  <2> QED
    BY <2>1, <2>2
<1>4. PICK name, budget : name = Resolved(c).profile /\ budget = InputBudget(c)
  OBVIOUS
<1>5. budget \in Nat
  BY <1>4, OneBudget
<1>6. PICK p : p = Pinned(clean)
  OBVIOUS
<1>7. PICK invalid : invalid = Len(b) - Len(clean)
  OBVIOUS
<1>8. CASE clean = <<>>
  <2>1. Fit(b, c) = [buffer |-> <<>>, status |-> Status(<<>>, c, invalid)]
    BY <1>1, <1>7, <1>8 DEF Fit
  <2>2. CountBuffer(<<>>, name) <= budget
    BY <1>5, EmptyCount
  <2>3. FitTells(Fit(b, c), c)
    BY <1>4, <2>1, <2>2, StatusTells
  <2>4. Fit(b, c).buffer = clean
    BY <1>8, <2>1
  <2> QED
    BY <1>3, <1>1, <1>2, <2>3, <2>4, SameIsReduced
<1>9. CASE clean # <<>> /\ CountBuffer(p, name) > budget
  <2>1. Fit(b, c) = Rejection(p, c, invalid)
    BY <1>1, <1>4, <1>6, <1>7, <1>9 DEF Fit
  <2>2. FitTells(Fit(b, c), c) /\ Fit(b, c).buffer = p
    BY <2>1, StatusTells
  <2>3. p \in Seq(Entries) /\ Distinct(p)
    BY <1>2, <1>6, SelectedIn, SelectedDiffer DEF Pinned
  <2>4. Pinned(p) = p
    BY <1>2, <1>6, SelectedTwice DEF Pinned
  <2>5. Evictable(p) = <<>>
    <3>1. Evictable(p) = Selected(clean, PinnedEntries \cap (Entries \ PinnedEntries))
      BY <1>2, <1>6, SelectedTwice DEF Pinned, Evictable
    <3> QED
      BY <1>2, <3>1, SelectedNone
  <2>6. PICK d : d = Evictable(clean)
    OBVIOUS
  <2>7. d \in Seq(Entries) /\ d = d \o <<>>
    BY <1>2, <2>6, SelectedIn, ConcatEmptySeq DEF Evictable
  <2>8. TooMany(d, p, budget, name)
    <3>1. CASE d # <<>>
      <4>1. d[Len(d)] \in Entries
        BY <2>7, <3>1, EmptySeq, ElementOfSeq
      <4>2. CountMessage(d[Len(d)], name) \in Nat /\ CountBuffer(p, name) \in Nat
        BY <2>3, <4>1, CountsAreNumbers, CountIsNumber
      <4> QED
        BY <1>5, <1>9, <4>2 DEF TooMany
    <3> QED
      BY <3>1 DEF TooMany
  <2>9. Reduced(p, clean, c)
    BY <1>4, <1>6, <2>3, <2>4, <2>5, <2>6, <2>7, <2>8 DEF Reduced, MustGo
  <2>10. p \in Seq(ValidEntries)
    BY <1>3, <1>6, SelectedIn DEF Pinned
  <2> QED
    BY <1>1, <2>2, <2>9, <2>10
<1>10. CASE /\ clean # <<>> /\ ~(CountBuffer(p, name) > budget)
           /\ CountBuffer(p, name) + CountMessage(clean[Len(clean)], name) > budget
  <2>1. Fit(b, c) = Rejection(clean, c, invalid)
    BY <1>1, <1>4, <1>6, <1>7, <1>10 DEF Fit
  <2>2. FitTells(Fit(b, c), c) /\ Fit(b, c).buffer = clean
    BY <2>1, StatusTells
  <2> QED
    BY <1>3, <1>1, <1>2, <2>2, SameIsReduced
<1>11. CASE /\ clean # <<>> /\ ~(CountBuffer(p, name) > budget)
            /\ ~(CountBuffer(p, name) + CountMessage(clean[Len(clean)], name) > budget)
  <2>1. PICK out : out = StrategyFit(clean, c)
    OBVIOUS
  <2>2. Fit(b, c) = [buffer |-> out, status |-> Status(out, c, invalid + Len(clean) - Len(out))]
    BY <1>1, <1>4, <1>6, <1>7, <1>11, <2>1 DEF Fit
  <2>3. CountBuffer(p, name) <= budget
    <3>1. CountBuffer(p, name) \in Nat
      BY <1>2, <1>6, SelectedIn, CountIsNumber DEF Pinned
    <3> QED
      BY <1>5, <1>11, <3>1
  <2>4. Reduced(out, clean, c) /\ CountBuffer(out, name) <= budget
    BY <1>2, <1>4, <1>6, <2>1, <2>3, StrategyFits
  <2>5. FitTells(Fit(b, c), c)
    BY <1>4, <2>2, <2>4, StatusTells
  <2>6. Fit(b, c).buffer = out
    BY <2>2
  <2>7. out \in Seq(ValidEntries)
    BY <1>3, <2>1, StrategyAddsNothing
  <2> QED
    BY <1>1, <2>4, <2>5, <2>6, <2>7
<1> QED
  BY <1>8, <1>9, <1>10, <1>11

\* Two lists of the same things are one of them.
LEMMA BothIn == ASSUME NEW T, NEW p \in Seq(T), NEW q \in Seq(T) PROVE p \o q \in Seq(T)
BY ConcatProperties

\* The end of two lists is the end of the second, unless it is empty.
LEMMA EndOfBoth ==
    ASSUME NEW T, NEW p \in Seq(T), NEW q \in Seq(T)
    PROVE  /\ q # <<>> => p \o q # <<>> /\ (p \o q)[Len(p \o q)] = q[Len(q)]
           /\ q = <<>> => p \o q = p
<1>1. CASE q # <<>>
  <2>1. Len(q) \in Nat \ {0} /\ Len(p) \in Nat
    BY <1>1, EmptySeq
  <2>2. Len(p \o q) = Len(p) + Len(q)
    BY ConcatProperties
  <2>3. (p \o q)[Len(p) + Len(q)] = q[Len(q)]
    BY <2>1, ConcatProperties
  <2> QED
    BY <1>1, <2>1, <2>2, <2>3, EmptySeq
<1>2. CASE q = <<>>
  BY <1>2, ConcatEmptySeq
<1> QED
  BY <1>1, <1>2

\* The last element of a list is one of its elements.
LEMMA LastIsIn == ASSUME NEW T, NEW d \in Seq(T), d # <<>> PROVE d[Len(d)] \in T
BY EmptySeq, ElementOfSeq

\* Reducing what was reduced.
LEMMA ReducedTwice ==
    ASSUME NEW s \in Seq(Entries), NEW b, NEW out, NEW c, Reduced(b, s, c), Reduced(out, b, c)
    PROVE  Reduced(out, s, c)
<1>1. PICK name, budget : name = Resolved(c).profile /\ budget = InputBudget(c)
  OBVIOUS
<1>2. /\ b \in Seq(Entries) /\ Pinned(b) = Pinned(s)
      /\ out \in Seq(Entries) /\ Distinct(out) /\ Pinned(out) = Pinned(b)
  BY DEF Reduced
<1>3. PICK d \in Seq(Entries) : Evictable(s) = d \o Evictable(b) /\ MustGo(d, b, c)
  BY DEF Reduced
<1>4. PICK f \in Seq(Entries) : Evictable(b) = f \o Evictable(out) /\ MustGo(f, out, c)
  BY DEF Reduced
<1>5. Evictable(out) \in Seq(Entries)
  BY <1>2, SelectedIn DEF Evictable
<1>6. PICK g \in Seq(Entries) : g = d \o f
  BY BothIn
<1>7. Evictable(s) = g \o Evictable(out)
  BY <1>3, <1>4, <1>5, <1>6, Regrouped
<1>8. MustGo(g, out, c)
  <2>1. CASE f # <<>>
    <3>1. g # <<>> /\ g[Len(g)] = f[Len(f)]
      BY <1>6, <2>1, EndOfBoth
    <3> QED
      BY <1>4, <2>1, <3>1 DEF MustGo, TooMany
  <2>2. CASE f = <<>>
    <3>1. g = d
      BY <1>6, <2>2, EndOfBoth
    <3>2. Evictable(b) = Evictable(out)
      BY <1>4, <1>5, <2>2, ConcatEmptySeq
    <3>3. CountBuffer(b, name) = CountBuffer(out, name)
      BY <1>2, <3>2, CountOfParts
    <3> QED
      BY <1>1, <1>3, <3>1, <3>2, <3>3 DEF MustGo, TooMany
  <2> QED
    BY <2>1, <2>2
<1> QED
  BY <1>2, <1>7, <1>8 DEF Reduced

\* A list whose elements differ may take one more that is none of them.
LEMMA DistinctGrows ==
    ASSUME NEW T, NEW b \in Seq(T), Distinct(b), NEW m \in T, m \notin ElementsOf(b)
    PROVE  Distinct(Append(b, m))
<1>1. PICK r : r = Append(b, m)
  OBVIOUS
<1>2. PICK N \in Nat : N = Len(b)
  OBVIOUS
<1>3. r \in Seq(T) /\ Len(r) = N + 1 /\ r[N + 1] = m /\ \A i \in 1..N : r[i] = b[i]
  BY <1>1, <1>2, AppendProperties
<1>4. \A i \in 1..N : b[i] # m
  BY <1>2 DEF ElementsOf
<1>5. \A i, j \in 1..N : i # j => b[i] # b[j]
  BY <1>2 DEF Distinct
<1>6. \A i \in 1 .. N + 1 : i = N + 1 \/ i \in 1..N
  OBVIOUS
<1>7. \A i, j \in 1 .. N + 1 : i # j => r[i] # r[j]
  BY <1>3, <1>4, <1>5, <1>6
<1>8. DOMAIN r = 1 .. N + 1
  BY <1>3
<1> QED
  BY <1>1, <1>7, <1>8 DEF Distinct

\* One message more, of a buffer and of what was said.
LEMMA ReducedGrows ==
    ASSUME NEW s \in Seq(Entries), NEW b, NEW c \in Configs, Reduced(b, s, c),
           NEW m \in Entries, m \notin ElementsOf(b)
    PROVE  Reduced(Append(b, m), Append(s, m), c)
<1>1. PICK name, budget, n : name = Resolved(c).profile /\ budget = InputBudget(c)
                             /\ n = Resolved(c).n
  OBVIOUS
<1>2. budget \in Nat /\ n \in Nat
  BY <1>1, OneBudget
<1>3. b \in Seq(Entries) /\ Distinct(b) /\ Pinned(b) = Pinned(s)
  BY DEF Reduced
<1>4. PICK d \in Seq(Entries) : Evictable(s) = d \o Evictable(b) /\ MustGo(d, b, c)
  BY DEF Reduced
<1>5. PICK e \in Seq(Entries) : e = Evictable(b)
  BY <1>3, SelectedIn DEF Evictable
<1>6. PICK r \in Seq(Entries) : r = Append(b, m)
  BY <1>3, AppendedIn
<1>7. Distinct(r)
  BY <1>3, <1>6, DistinctGrows
<1>8. Pinned(r) = Pinned(Append(s, m))
  <2>1. Pinned(r) = IF m \in PinnedEntries THEN Append(Pinned(b), m) ELSE Pinned(b)
    BY <1>3, <1>6, SelectedGrows DEF Pinned
  <2>2. Pinned(Append(s, m)) = IF m \in PinnedEntries THEN Append(Pinned(s), m) ELSE Pinned(s)
    BY SelectedGrows DEF Pinned
  <2> QED
    BY <1>3, <2>1, <2>2
<1>9. Len(e) \in Nat /\ Len(Append(e, m)) = Len(e) + 1
  BY AppendProperties
<1>10. TooMany(d, b, budget, name) => TooMany(d, r, budget, name)
  <2> SUFFICES ASSUME d # <<>>, CountBuffer(b, name) + CountMessage(d[Len(d)], name) > budget
               PROVE  CountBuffer(r, name) + CountMessage(d[Len(d)], name) > budget
    BY DEF TooMany
  <2>1. CountMessage(d[Len(d)], name) \in Nat /\ CountMessage(m, name) \in Nat
    BY LastIsIn, CountsAreNumbers
  <2>2. CountBuffer(b, name) \in Nat
        /\ CountBuffer(r, name) = CountBuffer(b, name) + CountMessage(m, name)
    BY <1>3, <1>6, CountGrows
  <2> QED
    BY <1>2, <2>1, <2>2
<1>11. Evictable(Append(s, m)) = d \o Evictable(r) /\ Len(Evictable(r)) >= Len(e)
  <2>1. Evictable(r) = IF m \in Entries \ PinnedEntries THEN Append(e, m) ELSE e
    BY <1>3, <1>5, <1>6, SelectedGrows DEF Evictable
  <2>2. Evictable(Append(s, m))
          = IF m \in Entries \ PinnedEntries THEN Append(Evictable(s), m) ELSE Evictable(s)
    BY SelectedGrows DEF Evictable
  <2>3. d \o Append(e, m) = Append(d \o e, m)
    BY JoinedWithOneMore
  <2>4. Evictable(s) = d \o e
    BY <1>4, <1>5
  <2>5. CASE m \in Entries \ PinnedEntries
    <3>1. Evictable(r) = Append(e, m) /\ Evictable(Append(s, m)) = Append(d \o e, m)
      BY <2>1, <2>2, <2>4, <2>5
    <3>2. Evictable(Append(s, m)) = d \o Evictable(r)
      BY <2>3, <3>1
    <3> QED
      BY <1>9, <3>1, <3>2
  <2>6. CASE m \notin Entries \ PinnedEntries
    BY <1>9, <2>1, <2>2, <2>4, <2>6
  <2> QED
    BY <2>5, <2>6
<1>12. MustGo(d, r, c)
  <2>1. Len(Evictable(b)) >= n => Len(Evictable(r)) >= n
    <3>1. Evictable(r) \in Seq(Entries)
      BY SelectedIn DEF Evictable
    <3> QED
      BY <1>2, <1>5, <1>9, <1>11, <3>1
  <2> QED
    BY <1>1, <1>4, <1>10, <2>1 DEF MustGo
<1> QED
  BY <1>6, <1>7, <1>8, <1>11, <1>12 DEF Reduced

-----------------------------------------------------------------------------

\* What a conversation holds at any time.
BufferInv ==
    /\ config \in Configs
    /\ said \in Seq(Entries) /\ Distinct(said)
    /\ buf \in Seq(ValidEntries)
    /\ Reduced(buf, said, config)
    /\ FitTells([buffer |-> buf, status |-> status], config)

\* Valid messages are messages.
LEMMA ValidIn == ASSUME NEW b \in Seq(ValidEntries) PROVE b \in Seq(Entries)
BY SeqMonotonic DEF ValidEntries

\* A sound answer of fit() for what is said is what the invariant asks for.
LEMMA ResultKeepsInv ==
    ASSUME config \in Configs, config' = config, NEW fitted,
           said' \in Seq(Entries), Distinct(said)', Reduced(fitted.buffer, said', config),
           fitted.buffer \in Seq(ValidEntries), FitTells(fitted, config),
           buf' = fitted.buffer, status' = fitted.status
    PROVE  BufferInv'
<1>1. Reduced(buf', said', config')
  OBVIOUS
<1>2. FitTells([buffer |-> buf', status |-> status'], config')
  BY DEF FitTells
<1> QED
  BY <1>1, <1>2 DEF BufferInv

\* fit() of a buffer with a new message.
LEMMA AppendedIsReduced ==
    ASSUME BufferInv, NEW m \in Message, New(m), NEW s,
           s = IF m.valid THEN Append(said, m) ELSE said
    PROVE  /\ s \in Seq(Entries) /\ Distinct(s)
           /\ Reduced(Fit(Append(buf, m), config).buffer, s, config)
           /\ Fit(Append(buf, m), config).buffer \in Seq(ValidEntries)
           /\ FitTells(Fit(Append(buf, m), config), config)
<1>1. m \in Entries
  BY DEF Entries
<1>2. /\ config \in Configs /\ said \in Seq(Entries) /\ Distinct(said)
      /\ buf \in Seq(ValidEntries) /\ Reduced(buf, said, config)
  BY DEF BufferInv
<1>3. buf \in Seq(Entries) /\ Distinct(buf)
  BY <1>2 DEF Reduced
<1>4. m \notin ElementsOf(said) /\ m \notin ElementsOf(buf)
  BY DEF New, Ids, ElementsOf
<1>5. Append(buf, m) \in Seq(Entries) /\ Distinct(Append(buf, m))
  BY <1>1, <1>3, <1>4, AppendedIn, DistinctGrows
<1>6. PICK clean : clean = Selected(Append(buf, m), ValidEntries)
  OBVIOUS
<1>7. PICK r : r = Fit(Append(buf, m), config)
  OBVIOUS
<1>8. Reduced(r.buffer, clean, config) /\ FitTells(r, config) /\ r.buffer \in Seq(ValidEntries)
  BY <1>2, <1>5, <1>6, <1>7, FitIsSound
<1>9. Selected(buf, ValidEntries) = buf
  BY <1>2, SelectedAll
<1>10. s \in Seq(Entries) /\ Distinct(s) /\ Reduced(r.buffer, s, config)
  <2>1. CASE m.valid
    <3>1. m \in ValidEntries
      BY <1>1, <2>1 DEF ValidEntries
    <3>2. clean = Append(buf, m)
      BY <1>1, <1>3, <1>6, <1>9, <3>1, SelectedGrows
    <3>3. s = Append(said, m)
      BY <2>1
    <3>4. s \in Seq(Entries) /\ Distinct(s)
      BY <1>1, <1>2, <1>4, <3>3, AppendedIn, DistinctGrows
    <3>5. Reduced(Append(buf, m), Append(said, m), config)
      BY <1>1, <1>2, <1>4, ReducedGrows
    <3> QED
      BY <1>8, <3>2, <3>3, <3>4, <3>5, ReducedTwice
  <2>2. CASE ~m.valid
    <3>1. m \notin ValidEntries
      BY <2>2 DEF ValidEntries
    <3>2. clean = buf
      BY <1>1, <1>3, <1>6, <1>9, <3>1, SelectedGrows
    <3> QED
      BY <1>2, <1>8, <2>2, <3>2, ReducedTwice
  <2> QED
    BY <2>1, <2>2
<1> QED
  BY <1>7, <1>8, <1>10

\* The invariant holds of the empty buffer, and every operation keeps it.
LEMMA ContextBegins == ContextInit => BufferInv
<1> SUFFICES ASSUME ContextInit PROVE BufferInv
  OBVIOUS
<1>1. config \in Configs /\ said = <<>> /\ buf = <<>> /\ status = Status(<<>>, config, 0)
  BY DEF ContextInit
<1>2. Distinct(<<>>)
  BY DEF Distinct
<1>3. <<>> \in Seq(Entries) /\ <<>> \in Seq(ValidEntries)
  BY EmptySeq
<1>4. Reduced(<<>>, <<>>, config)
  BY <1>2, <1>3, SameIsReduced
<1>5. CountBuffer(<<>>, Resolved(config).profile) <= InputBudget(config)
  BY <1>1, EmptyCount, OneBudget
<1>6. FitTells([buffer |-> <<>>, status |-> Status(<<>>, config, 0)], config)
  BY <1>5, StatusTells
<1> QED
  BY <1>1, <1>2, <1>3, <1>4, <1>6 DEF BufferInv

LEMMA ContextSteps == BufferInv /\ [ContextNext]_contextVars => BufferInv'
<1> SUFFICES ASSUME BufferInv, [ContextNext]_contextVars PROVE BufferInv'
  OBVIOUS
<1>1. config \in Configs
  BY DEF BufferInv
<1>2. ASSUME NEW when, Register(when) PROVE BufferInv'
  <2>1. UNCHANGED <<config, said, buf, status>>
    BY <1>2 DEF Register
  <2> QED
    BY <2>1 DEF BufferInv, Distinct
<1>3. ASSUME NEW m \in Message, New(m), AppendMessage(m) PROVE BufferInv'
  <2>1. PICK r : r = Fit(Append(buf, m), config)
    OBVIOUS
  <2>2. PICK s : s = IF m.valid THEN Append(said, m) ELSE said
    OBVIOUS
  <2>3. said' = s /\ buf' = r.buffer /\ status' = r.status /\ config' = config
    BY <1>3, <2>1, <2>2 DEF AppendMessage
  <2>4. s \in Seq(Entries) /\ Distinct(s)
    BY <1>3, <2>2, AppendedIsReduced
  <2>5. Reduced(r.buffer, s, config) /\ r.buffer \in Seq(ValidEntries) /\ FitTells(r, config)
    BY <1>3, <2>1, <2>2, AppendedIsReduced
  <2>6. Distinct(said)'
    BY <2>3, <2>4 DEF Distinct
  <2> QED
    BY <1>1, <2>3, <2>4, <2>5, <2>6, ResultKeepsInv
<1>4. ASSUME NEW m \in Message, New(m), NEW a \in Compactions, AppendCompacting(m, a)
      PROVE  BufferInv'
  <2>1. PICK mechanical, validated, r :
           /\ mechanical = Fit(Append(buf, m), config)
           /\ validated = IF a = NoCompaction THEN NoCompaction ELSE Fit(a, config)
           /\ r = FitWithCompaction(mechanical, validated, slot)
           /\ said' = IF r = validated /\ r # mechanical THEN Selected(a, ValidEntries)
                      ELSE IF m.valid THEN Append(said, m) ELSE said
           /\ buf' = r.buffer /\ status' = r.status /\ config' = config
    BY <1>4 DEF AppendCompacting
  <2>2. CASE r = mechanical
    <3>1. PICK s : s = IF m.valid THEN Append(said, m) ELSE said
      OBVIOUS
    <3>2. said' = s
      BY <2>1, <2>2, <3>1
    <3>3. s \in Seq(Entries) /\ Distinct(s)
      BY <1>4, <3>1, AppendedIsReduced
    <3>4. Reduced(r.buffer, s, config) /\ r.buffer \in Seq(ValidEntries) /\ FitTells(r, config)
      BY <1>4, <2>1, <2>2, <3>1, AppendedIsReduced
    <3>5. Distinct(said)'
      BY <3>2, <3>3 DEF Distinct
    <3> QED
      BY <1>1, <2>1, <3>2, <3>3, <3>4, <3>5, ResultKeepsInv
  <2>3. CASE r # mechanical
    <3>1. r = validated /\ validated # NoCompaction
      BY <2>1, <2>3 DEF FitWithCompaction
    <3>2. a \in Compactions \ {NoCompaction} /\ r = Fit(a, config)
      BY <2>1, <3>1
    <3>3. a \in Seq(Entries) /\ Distinct(a)
      BY <3>2, ContextAssumption
    <3>4. PICK s : s = Selected(a, ValidEntries)
      OBVIOUS
    <3>5. said' = s
      BY <2>1, <2>3, <3>1, <3>4
    <3>6. s \in Seq(Entries) /\ Distinct(s)
      BY <3>3, <3>4, SelectedIn, SelectedDiffer
    <3>7. Reduced(r.buffer, s, config) /\ r.buffer \in Seq(ValidEntries) /\ FitTells(r, config)
      BY <1>1, <3>2, <3>3, <3>4, FitIsSound
    <3>8. Distinct(said)'
      BY <3>5, <3>6 DEF Distinct
    <3> QED
      BY <1>1, <2>1, <3>5, <3>6, <3>7, <3>8, ResultKeepsInv
  <2> QED
    BY <2>2, <2>3
<1>5. CASE UNCHANGED contextVars
  BY <1>5 DEF BufferInv, contextVars, Distinct
<1> QED
  BY <1>2, <1>3, <1>4, <1>5 DEF ContextNext

\* What the invariant says of the evicted messages is that the end of what was said is kept.
LEMMA InvKeepsTheEnd ==
    BufferInv => FitsOrSaysWhy /\ PinnedSurvive /\ KeptIsRecent /\ EvictsOnlyWhatMustGo
<1> SUFFICES ASSUME BufferInv
             PROVE  FitsOrSaysWhy /\ PinnedSurvive /\ KeptIsRecent /\ EvictsOnlyWhatMustGo
  OBVIOUS
<1>1. /\ config \in Configs /\ said \in Seq(Entries) /\ Distinct(said)
      /\ buf \in Seq(ValidEntries) /\ Reduced(buf, said, config)
  BY DEF BufferInv
<1>2. buf \in Seq(Entries) /\ Pinned(buf) = Pinned(said)
  BY <1>1 DEF Reduced
<1>3. /\ status.total = CountBuffer(buf, Resolved(config).profile)
      /\ status.budget = InputBudget(config)
      /\ status.rejected \/ status.total <= status.budget
  BY DEF BufferInv, FitTells
<1>4. FitsOrSaysWhy /\ PinnedSurvive
  BY <1>2, <1>3 DEF FitsOrSaysWhy, PinnedSurvive
<1>5. PICK k \in Seq(Entries) : k = Evictable(buf)
  BY <1>2, SelectedIn DEF Evictable
<1>6. PICK d \in Seq(Entries) : Evictable(said) = d \o k /\ MustGo(d, buf, config)
  BY <1>1, <1>5 DEF Reduced
<1>7. KeptIsRecent
  BY <1>5, <1>6, LastOfBoth DEF KeptIsRecent
<1>8. PICK E : E = ElementsOf(buf)
  OBVIOUS
<1>9. Selected(Evictable(said), Entries \ E) = d
  <2>1. Distinct(d \o k)
    BY <1>1, <1>6, SelectedDiffer DEF Evictable
  <2>2. ElementsOf(d) \cap ElementsOf(k) = {}
    BY <2>1, NoneInCommon
  <2>3. RowsOf(k) = RowsOf(buf) \cap (Entries \ PinnedEntries)
    BY <1>2, <1>5, SelectedElements DEF Evictable
  <2>4. \A T : \A s \in Seq(T) : RowsOf(s) = ElementsOf(s)
    BY DEF RowsOf, ElementsOf
  <2>5. ElementsOf(k) = E \cap (Entries \ PinnedEntries)
    BY <1>2, <1>8, <2>3, <2>4
  <2>6. ElementsOf(d) \subseteq Entries \ PinnedEntries
    <3>1. Evictable(said) \in Seq(Entries \cap (Entries \ PinnedEntries))
      <4>1. Evictable(said) \in Seq((Entries \ PinnedEntries) \cap Entries)
        BY <1>1, SelectedElements DEF Evictable
      <4>2. (Entries \ PinnedEntries) \cap Entries = Entries \cap (Entries \ PinnedEntries)
        OBVIOUS
      <4> QED
        BY <4>1, <4>2
    <3>2. d \o k \in Seq(Entries \ PinnedEntries)
      BY <1>6, <3>1
    <3> SUFFICES ASSUME NEW i \in 1..Len(d) PROVE d[i] \in Entries \ PinnedEntries
      BY DEF ElementsOf
    <3>3. (d \o k)[i] = d[i] /\ i \in 1..Len(d \o k)
      BY ConcatProperties
    <3> QED
      BY <3>2, <3>3, ElementOfSeq
  <2>7. ElementsOf(d) \subseteq Entries \ E /\ ElementsOf(k) \cap (Entries \ E) = {}
    BY <2>2, <2>5, <2>6
  <2>8. d \in Seq(ElementsOf(d)) /\ k \in Seq(ElementsOf(k))
    BY OwnElements
  <2>9. Selected(d, Entries \ E) = d /\ Selected(k, Entries \ E) = <<>>
    BY <2>7, <2>8, SelectedAll, SelectedNone
  <2>10. Selected(d \o k, Entries \ E) = Selected(d, Entries \ E) \o Selected(k, Entries \ E)
    BY SelectedFromBoth
  <2> QED
    BY <1>6, <2>9, <2>10, ConcatEmptySeq
<1>10. EvictsOnlyWhatMustGo
  BY <1>3, <1>6, <1>8, <1>9 DEF EvictsOnlyWhatMustGo, MustGo, TooMany
<1> QED
  BY <1>4, <1>7, <1>10

\* What f makes of each element.
Image(b, f) == [i \in DOMAIN b |-> f[b[i]]]

\* The image of a list is a list as long.
LEMMA ImageIn ==
    ASSUME NEW T, NEW V, NEW f \in [T -> V], NEW b \in Seq(T)
    PROVE  /\ Image(b, f) \in Seq(V) /\ Len(Image(b, f)) = Len(b)
           /\ \A i \in 1..Len(b) : Image(b, f)[i] = f[b[i]]
<1>1. PICK N \in Nat : N = Len(b)
  OBVIOUS
<1>2. DOMAIN b = 1..N /\ \A i \in 1..N : b[i] \in T
  BY <1>1
<1>3. \A i \in 1..N : f[b[i]] \in V
  BY <1>2
<1>4. Image(b, f) = [i \in 1..N |-> f[b[i]]]
  BY <1>2 DEF Image
<1>5. [i \in 1..N |-> f[b[i]]] \in Seq(V)
  BY <1>3, IsASeq
<1> QED
  BY <1>1, <1>4, <1>5

\* The image of one more element is its image after the others.
LEMMA ImageGrows ==
    ASSUME NEW T, NEW V, NEW f \in [T -> V], NEW b \in Seq(T), NEW x \in T
    PROVE  Image(Append(b, x), f) = Append(Image(b, f), f[x])
<1>1. PICK r \in Seq(T) : r = Append(b, x)
  BY AppendedIn
<1>2. PICK N \in Nat : N = Len(b)
  OBVIOUS
<1>3. Len(r) = N + 1 /\ r[N + 1] = x /\ \A i \in 1..N : r[i] = b[i]
  BY <1>1, <1>2, AppendProperties
<1>4. PICK q \in Seq(V) : q = Image(b, f)
  BY ImageIn
<1>5. Len(q) = N /\ \A i \in 1..N : q[i] = f[b[i]]
  BY <1>2, <1>4, ImageIn
<1>6. PICK p \in Seq(V) : p = Append(q, f[x])
  BY AppendedIn
<1>7. Len(p) = N + 1 /\ p[N + 1] = f[x] /\ \A i \in 1..N : p[i] = q[i]
  BY <1>5, <1>6, AppendProperties
<1>8. PICK z \in Seq(V) : z = Image(r, f)
  BY ImageIn
<1>9. Len(z) = N + 1 /\ \A i \in 1 .. N + 1 : z[i] = f[r[i]]
  <2>1. Len(z) = Len(r) /\ \A i \in 1..Len(r) : z[i] = f[r[i]]
    BY <1>8, ImageIn, SMTT(30)
  <2> QED
    BY <1>3, <2>1
<1>10. \A i \in 1 .. N + 1 : i = N + 1 \/ i \in 1..N
  OBVIOUS
<1>11. \A i \in 1 .. N + 1 : z[i] = p[i]
  BY <1>3, <1>5, <1>7, <1>9, <1>10
<1>12. z = p
  BY <1>7, <1>9, <1>11, SeqEqual
<1> QED
  BY <1>1, <1>4, <1>6, <1>8, <1>12

LEMMA NoImage == \A f : Image(<<>>, f) = <<>>
BY DEF Image

\* What becomes of an element of T is in S when the element is in R.
Corresponds(T, f, S, R) == \A x \in T : f[x] \in S <=> x \in R

\* Selecting the images by S is selecting the elements by R.
SelectsAlike(b, f, S, R) == Selected(Image(b, f), S) = Image(Selected(b, R), f)

LEMMA ImageSelected ==
    ASSUME NEW T, NEW V, NEW f \in [T -> V], NEW S, NEW R, Corresponds(T, f, S, R),
           NEW b \in Seq(T)
    PROVE  SelectsAlike(b, f, S, R)
<1> DEFINE A == {q \in Seq(T) : Selected(Image(q, f), S) = Image(Selected(q, R), f)}
<1>1. <<>> \in A
  <2>1. Image(<<>>, f) = <<>>
    BY NoImage
  <2> QED
    BY <2>1, NothingSelected, EmptyIn
<1>2. ASSUME NEW q \in Seq(T), NEW x \in T, q \in A PROVE Append(q, x) \in A
  <2>1. Image(Append(q, x), f) = Append(Image(q, f), f[x])
    BY ImageGrows
  <2>2. PICK w \in Seq(V) : w = Image(q, f)
    BY ImageIn
  <2>3. Selected(Append(w, f[x]), S)
          = IF f[x] \in S THEN Append(Selected(w, S), f[x]) ELSE Selected(w, S)
    BY SelectedGrows
  <2>4. Selected(Append(q, x), R) = IF x \in R THEN Append(Selected(q, R), x) ELSE Selected(q, R)
    BY SelectedGrows
  <2>5. Image(Append(Selected(q, R), x), f) = Append(Image(Selected(q, R), f), f[x])
    <3>1. PICK y \in Seq(T) : y = Selected(q, R)
      BY SelectedIn
    <3>2. Image(Append(y, x), f) = Append(Image(y, f), f[x])
      BY ImageGrows
    <3> QED
      BY <3>1, <3>2
  <2>6. Selected(w, S) = Image(Selected(q, R), f)
    BY <1>2, <2>2
  <2>7. f[x] \in S <=> x \in R
    BY DEF Corresponds
  <2>8. Selected(Image(Append(q, x), f), S) = Image(Selected(Append(q, x), R), f)
    <3>1. CASE x \in R
      <4>1. Selected(Image(Append(q, x), f), S) = Append(Selected(w, S), f[x])
        BY <2>1, <2>2, <2>3, <2>7, <3>1
      <4>2. Selected(Append(q, x), R) = Append(Selected(q, R), x)
        BY <2>4, <3>1
      <4> QED
        BY <2>5, <2>6, <4>1, <4>2
    <3>2. CASE x \notin R
      BY <2>1, <2>2, <2>3, <2>4, <2>6, <2>7, <3>2
    <3> QED
      BY <3>1, <3>2
  <2> QED
    BY <2>8, AppendedIn
<1> QED
  <2> HIDE DEF A
  <2>1. Seq(T) \subseteq A
    BY <1>1, <1>2, ListByList
  <2> QED
    BY <2>1 DEF A, SelectsAlike

-----------------------------------------------------------------------------

\* f joins the texts up to place N.
JoinsTo(texts, N, f) == f = [n \in 0..N |-> IF n = 0 THEN <<>> ELSE f[n - 1] \o texts[n]]

LEMMA JoinedIs ==
    ASSUME NEW X, NEW texts \in Seq(Seq(X))
    PROVE  \E f \in [0..Len(texts) -> Seq(X)] :
              JoinsTo(texts, Len(texts), f) /\ Joined(texts) = f[Len(texts)]
<1>1. PICK N \in Nat : N = Len(texts)
  OBVIOUS
<1>2. PICK D : D = Seq(X)
  OBVIOUS
<1>3. <<>> \in D /\ \A n \in 1..N : texts[n] \in D
  BY <1>1, <1>2, EmptySeq
<1>4. \A p, q \in D : p \o q \in D
  BY <1>2, ConcatProperties
<1> DEFINE G == [n \in 1..N |-> [t \in D |-> t \o texts[n]]]
<1>5. \A n \in 1..N, t \in D : G[n][t] = t \o texts[n] /\ t \o texts[n] \in D
  BY <1>3, <1>4
<1> HIDE DEF G
<1>6. PICK f \in [0..N -> D] : f[0] = <<>> /\ \A n \in 1..N : f[n] = G[n][f[n - 1]]
  <2>1. IsRule(G, N, D)
    BY <1>5 DEF IsRule
  <2>2. PICK d \in D : d = <<>>
    BY <1>3
  <2>3. \E f : Computes(G, N, D, d, f)
    BY <2>1, RecursionExists
  <2> QED
    BY <2>2, <2>3 DEF Computes
<1>7. \A n \in 0..N : f[n] = IF n = 0 THEN <<>> ELSE f[n - 1] \o texts[n]
  <2> SUFFICES ASSUME NEW n \in 0..N, n # 0 PROVE f[n] = f[n - 1] \o texts[n]
    BY <1>6
  <2>1. n \in 1..N /\ n - 1 \in 0..N
    OBVIOUS
  <2>2. f[n] = G[n][f[n - 1]] /\ f[n - 1] \in D
    BY <1>6, <2>1
  <2> QED
    BY <1>5, <2>1, <2>2
<1>8. JoinsTo(texts, N, f)
  BY <1>6, <1>7 DEF JoinsTo
<1> DEFINE g == CHOOSE h : JoinsTo(texts, N, h)
<1>9. JoinsTo(texts, N, g)
  BY <1>8
<1>10. Joined(texts) = g[N]
  BY <1>1 DEF Joined, JoinsTo
<1>11. g \in [0..N -> D]
  <2> HIDE DEF g
  <2> DEFINE A == {n \in Nat : n <= N => g[n] \in D}
  <2>1. 0 \in A
    BY <1>3, <1>9 DEF JoinsTo
  <2>2. ASSUME NEW n \in Nat, n \in A PROVE n + 1 \in A
    <3> SUFFICES ASSUME n + 1 <= N PROVE g[n + 1] \in D
      OBVIOUS
    <3>1. PICK k : k = n + 1
      OBVIOUS
    <3>2. k \in 0..N /\ k # 0 /\ k - 1 = n /\ k \in 1..N
      BY <3>1
    <3>3. g[k] = g[n] \o texts[k]
      BY <1>9, <3>2 DEF JoinsTo
    <3>4. g[n] \in D /\ texts[k] \in D
      BY <1>3, <2>2, <3>2
    <3> QED
      BY <1>4, <3>1, <3>3, <3>4
  <2>3. Nat \subseteq A
    <3> HIDE DEF A
    <3> QED
      BY <2>1, <2>2, Counting
  <2>4. g = [n \in 0..N |-> g[n]]
    BY <1>9 DEF JoinsTo
  <2> QED
    BY <2>3, <2>4
<1> QED
  BY <1>1, <1>2, <1>9, <1>10, <1>11

LEMMA JoinedIn == ASSUME NEW X, NEW texts \in Seq(Seq(X)) PROVE Joined(texts) \in Seq(X)
<1>1. PICK D : D = Seq(X)
  OBVIOUS
<1>2. PICK N \in Nat : N = Len(texts)
  OBVIOUS
<1>3. PICK f \in [0..N -> D] : Joined(texts) = f[N]
  BY <1>1, <1>2, JoinedIs
<1> QED
  BY <1>1, <1>3

\* No text, and one.
LEMMA JoinedFew ==
    ASSUME NEW X
    PROVE  /\ Joined(<<>>) = <<>>
           /\ \A text \in Seq(X) : Joined([i \in 1..1 |-> text]) = text
<1>1. Joined(<<>>) = <<>>
  <2>1. <<>> \in Seq(Seq(X)) /\ Len(<<>>) = 0
    BY EmptySeq
  <2>2. PICK f : JoinsTo(<<>>, 0, f) /\ Joined(<<>>) = f[0]
    BY <2>1, JoinedIs
  <2> QED
    BY <2>2 DEF JoinsTo
<1>2. ASSUME NEW text \in Seq(X) PROVE Joined([i \in 1..1 |-> text]) = text
  <2>1. PICK texts : texts = [i \in 1..1 |-> text]
    OBVIOUS
  <2>2. PICK D : D = Seq(X)
    OBVIOUS
  <2>3. texts \in Seq(D) /\ Len(texts) = 1 /\ texts[1] = text
    BY <2>1, <2>2
  <2>4. PICK f : JoinsTo(texts, 1, f) /\ Joined(texts) = f[1]
    BY <2>2, <2>3, JoinedIs
  <2>5. f[0] = <<>> /\ f[1] = f[0] \o texts[1]
    <3>1. f[0] = <<>>
      BY <2>4 DEF JoinsTo
    <3>2. PICK k : k = 1
      OBVIOUS
    <3>3. k \in 0..1 /\ k # 0 /\ k - 1 = 0
      BY <3>2
    <3>4. f[k] = f[k - 1] \o texts[k]
      BY <2>4, <3>3 DEF JoinsTo
    <3> QED
      BY <3>1, <3>2, <3>3, <3>4
  <2>6. <<>> \o text = text
    BY ConcatEmptySeq
  <2> QED
    BY <2>1, <2>3, <2>4, <2>5, <2>6
<1> QED
  BY <1>1, <1>2

-----------------------------------------------------------------------------

AsIs == [m \in Entries |-> Entry(m.role, Text(m))]
AsTurn == [m \in Entries |-> Entry(WireRole(m.role), Text(m))]
Wire == {AsIs[m] : m \in Entries} \cup {AsTurn[m] : m \in Entries}

LEMMA Adapters ==
    ASSUME NEW b \in Seq(Entries)
    PROVE  ViaGeneric(b) = Image(b, AsIs) /\ ViaOpenAI(b) = Image(b, AsTurn)
<1>1. \A i \in DOMAIN b : b[i] \in Entries
  OBVIOUS
<1>2. \A i \in DOMAIN b : AsIs[b[i]] = Entry(b[i].role, Text(b[i]))
  BY <1>1 DEF AsIs
<1>3. \A i \in DOMAIN b : AsTurn[b[i]] = Entry(WireRole(b[i].role), Text(b[i]))
  BY <1>1 DEF AsTurn
<1> QED
  BY <1>2, <1>3 DEF ViaGeneric, ViaOpenAI, Image

LEMMA AdapterTypes == AsIs \in [Entries -> Wire] /\ AsTurn \in [Entries -> Wire]
<1>1. \A m \in Entries : AsIs[m] \in Wire /\ AsTurn[m] \in Wire
  BY DEF Wire
<1> QED
  BY <1>1 DEF AsIs, AsTurn

\* Of what is on a wire, the turns and the rest.
LEMMA WireParts ==
    ASSUME NEW V, NEW w \in Seq(V)
    PROVE  /\ WireTurns(w) = Selected(w, {e \in V : e.role # "system"})
           /\ Selected(w, {e \in ElementsOf(w) : e.role = "system"})
                = Selected(w, {e \in V : e.role = "system"})
<1>1. w \in Seq(ElementsOf(w)) /\ ElementsOf(w) \subseteq V
  BY OwnElements
<1>2. {e \in ElementsOf(w) : e.role # "system"} \cap ElementsOf(w)
        = {e \in V : e.role # "system"} \cap ElementsOf(w)
  BY <1>1
<1>3. {e \in ElementsOf(w) : e.role = "system"} \cap ElementsOf(w)
        = {e \in V : e.role = "system"} \cap ElementsOf(w)
  BY <1>1
<1> QED
  BY <1>1, <1>2, <1>3, SelectedAlike DEF WireTurns

LEMMA RolesOnTheWire ==
    ASSUME NEW m \in Entries
    PROVE  /\ AsIs[m].role = m.role /\ AsIs[m].text = Text(m)
           /\ AsTurn[m].text = Text(m) /\ AsTurn[m].role = WireRole(m.role)
           /\ AsTurn[m].role = "system" <=> m.role = "system"
BY DEF AsIs, AsTurn, Entry, WireRole

\* The turns of what an adapter makes of a buffer are what it makes of the turns.
LEMMA TurnsOnTheWire ==
    ASSUME NEW b \in Seq(Entries)
    PROVE  /\ WireTurns(ViaGeneric(b)) = ViaGeneric(Turns(b))
           /\ WireTurns(ViaOpenAI(b)) = ViaOpenAI(Turns(b))
           /\ Selected(ViaGeneric(b), {e \in Wire : e.role = "system"}) = ViaGeneric(SystemOf(b))
           /\ Selected(ViaOpenAI(b), {e \in Wire : e.role = "system"}) = ViaOpenAI(SystemOf(b))
<1> DEFINE T == {m \in Entries : m.role # "system"}
           S == {m \in Entries : m.role = "system"}
           WT == {e \in Wire : e.role # "system"}
           WS == {e \in Wire : e.role = "system"}
<1>1. AsIs \in [Entries -> Wire] /\ AsTurn \in [Entries -> Wire]
  BY AdapterTypes
<1>2. /\ Corresponds(Entries, AsIs, WT, T) /\ Corresponds(Entries, AsTurn, WT, T)
      /\ Corresponds(Entries, AsIs, WS, S) /\ Corresponds(Entries, AsTurn, WS, S)
  BY <1>1, RolesOnTheWire DEF Corresponds
<1>3. Image(b, AsIs) \in Seq(Wire) /\ Image(b, AsTurn) \in Seq(Wire)
  BY <1>1, ImageIn
<1>4. Turns(b) = Selected(b, T) /\ SystemOf(b) = Selected(b, S)
  BY DEF Turns, SystemOf
<1>5. Turns(b) \in Seq(Entries) /\ SystemOf(b) \in Seq(Entries)
  BY <1>4, SelectedIn
<1> HIDE DEF T, S
<1>6. WireTurns(Image(b, AsIs)) = Selected(Image(b, AsIs), WT)
      /\ WireTurns(Image(b, AsTurn)) = Selected(Image(b, AsTurn), WT)
  BY <1>3, WireParts
<1> HIDE DEF WT, WS
<1>7. SelectsAlike(b, AsIs, WT, T) /\ SelectsAlike(b, AsTurn, WT, T)
  BY <1>1, <1>2, ImageSelected
<1>8. SelectsAlike(b, AsIs, WS, S) /\ SelectsAlike(b, AsTurn, WS, S)
  BY <1>1, <1>2, ImageSelected
<1> QED
  BY <1>4, <1>5, <1>6, <1>7, <1>8, Adapters DEF WS, SelectsAlike

\* What is joined of the texts of the system messages.
SystemText(b) == Joined([i \in DOMAIN SystemOf(b) |-> Text(SystemOf(b)[i])])

LEMMA SystemTextIs ==
    ASSUME NEW b \in Seq(Entries)
    PROVE  SystemText(b) \in Seq({m.id : m \in Entries})
<1>1. PICK X : X = {m.id : m \in Entries}
  OBVIOUS
<1>2. PICK q \in Seq(Entries) : q = SystemOf(b)
  BY SelectedIn DEF SystemOf
<1>3. \A m \in Entries : Text(m) \in Seq(X)
  <2> SUFFICES ASSUME NEW m \in Entries PROVE Text(m) \in Seq(X)
    OBVIOUS
  <2>1. m.id \in X
    BY <1>1
  <2>2. <<m.id>> \in Seq(X) /\ <<>> \in Seq(X)
    BY <2>1
  <2> QED
    BY <2>2 DEF Text
<1>4. PICK D : D = Seq(X)
  OBVIOUS
<1>5. PICK N \in Nat : N = Len(q)
  OBVIOUS
<1>6. \A i \in 1..N : Text(q[i]) \in D
  BY <1>3, <1>4, <1>5
<1>7. [i \in 1..N |-> Text(q[i])] \in Seq(D)
  BY <1>6, IsASeq
<1>8. DOMAIN q = 1..N
  BY <1>5
<1> QED
  BY <1>1, <1>2, <1>4, <1>7, <1>8, JoinedIn DEF SystemText

\* What the turns and the system say passes every adapter.
LEMMA WireIsFaithful ==
    ASSUME buf \in Seq(Entries)
    PROVE  WireKeepsTheTurns
<1>1. PICK t \in Seq(Entries) : t = Turns(buf)
  BY SelectedIn DEF Turns
<1>2. PICK turns : turns = WireTurns(ViaGeneric(buf))
  OBVIOUS
<1>3. turns = ViaGeneric(t)
  BY <1>1, <1>2, TurnsOnTheWire
<1>4. [i \in DOMAIN turns |-> Entry(WireRole(turns[i].role), turns[i].text)] = ViaOpenAI(t)
  BY <1>3 DEF ViaGeneric, ViaOpenAI, Entry
<1>5. WireTurns(ViaOpenAI(buf)) = ViaOpenAI(t)
  BY <1>1, TurnsOnTheWire
<1>6. Turns(t) = t /\ SystemOf(t) = <<>>
  <2>1. Turns(t) = t
    BY <1>1, SelectedTwice DEF Turns
  <2>2. SystemOf(t) = Selected(buf, {m \in Entries : m.role # "system"}
                                    \cap {m \in Entries : m.role = "system"})
    BY <1>1, SelectedTwice DEF Turns, SystemOf
  <2>3. {m \in Entries : m.role # "system"} \cap {m \in Entries : m.role = "system"} = {}
    OBVIOUS
  <2> QED
    BY <2>1, <2>2, <2>3, SelectedNone
<1>7. PICK text : text = SystemText(buf)
  OBVIOUS
<1>8. PICK X : text \in Seq(X)
  BY <1>7, SystemTextIs
<1>9. PICK w \in Seq(Wire) : w = ViaOpenAI(t)
  BY Adapters, AdapterTypes, ImageIn
<1>10. PICK front : front = IF text = <<>> THEN <<>> ELSE <<Entry("system", text)>>
  OBVIOUS
<1>11. ViaAnthropic(buf) = front \o w
  BY <1>1, <1>7, <1>9, <1>10 DEF ViaAnthropic, SystemText
<1>12. PICK V : V = Wire \cup {Entry("system", text)}
  OBVIOUS
<1>13. front \in Seq(V) /\ w \in Seq(V) /\ w \in Seq(Wire)
  <2>1. Entry("system", text) \in V /\ Wire \subseteq V
    BY <1>12
  <2>2. <<Entry("system", text)>> \in Seq(V) /\ <<>> \in Seq(V)
    BY <2>1
  <2>3. w \in Seq(V)
    BY <2>1, SeqMonotonic
  <2> QED
    BY <1>9, <1>10, <2>2, <2>3
<1>14. PICK T, S : T = {e \in V : e.role # "system"} /\ S = {e \in V : e.role = "system"}
  OBVIOUS
<1>15. Selected(w, T) = w /\ Selected(w, S) = <<>>
  <2>1. WireTurns(w) = w
    BY <1>6, <1>9, TurnsOnTheWire
  <2>2. WireTurns(w) = Selected(w, T)
    BY <1>13, <1>14, WireParts
  <2>3. Selected(w, {e \in Wire : e.role = "system"}) = <<>>
    <3>1. Selected(w, {e \in Wire : e.role = "system"}) = ViaOpenAI(<<>>)
      BY <1>6, <1>9, TurnsOnTheWire
    <3> QED
      BY <3>1 DEF ViaOpenAI
  <2>4. S \cap Wire = {e \in Wire : e.role = "system"} \cap Wire
    BY <1>12, <1>14
  <2>5. Selected(w, S) = Selected(w, {e \in Wire : e.role = "system"})
    <3>1. PICK R : R = {e \in Wire : e.role = "system"}
      OBVIOUS
    <3>2. S \cap Wire = R \cap Wire
      BY <2>4, <3>1
    <3> QED
      BY <1>13, <3>1, <3>2, SelectedAlike
  <2> QED
    BY <2>1, <2>2, <2>3, <2>5
<1>16. Selected(front, T) = <<>> /\ Selected(front, S) = front
  <2>1. PICK one : one = {Entry("system", text)}
    OBVIOUS
  <2>2. front \in Seq(one)
    <3>1. <<Entry("system", text)>> \in Seq(one) /\ <<>> \in Seq(one)
      BY <2>1
    <3> QED
      BY <1>10, <3>1
  <2>3. one \cap T = {} /\ one \subseteq S
    BY <1>12, <1>14, <2>1 DEF Entry
  <2> QED
    BY <2>2, <2>3, SelectedNone, SelectedAll
<1>17. front \o w \in Seq(V)
  BY <1>13, BothIn
<1>18. Selected(front \o w, T) = w /\ Selected(front \o w, S) = front
  <2>1. Selected(front \o w, T) = Selected(front, T) \o Selected(w, T)
    BY <1>13, SelectedFromBoth
  <2>2. Selected(front \o w, S) = Selected(front, S) \o Selected(w, S)
    BY <1>13, SelectedFromBoth
  <2>3. <<>> \o w = w /\ front \o <<>> = front
    BY <1>13, ConcatEmptySeq
  <2> QED
    BY <1>15, <1>16, <2>1, <2>2, <2>3
<1>19. WireTurns(ViaAnthropic(buf)) = w
  BY <1>11, <1>14, <1>17, <1>18, WireParts
<1>20. WireSystem(ViaAnthropic(buf)) = Joined([i \in DOMAIN front |-> front[i].text])
  BY <1>11, <1>14, <1>17, <1>18, WireParts DEF WireSystem
<1>21. Joined([i \in DOMAIN front |-> front[i].text]) = text
  <2>1. CASE text = <<>>
    <3>1. [i \in DOMAIN front |-> front[i].text] = <<>>
      BY <1>10, <2>1
    <3> QED
      BY <2>1, <3>1, JoinedFew
  <2>2. CASE text # <<>>
    <3>1. [i \in DOMAIN front |-> front[i].text] = [i \in 1..1 |-> text]
      BY <1>10, <2>2 DEF Entry
    <3> QED
      BY <1>8, <3>1, JoinedFew
  <2> QED
    BY <2>1, <2>2
<1>22. WireSystem(ViaGeneric(buf)) = text
  <2>1. ViaGeneric(buf) \in Seq(Wire)
    BY Adapters, AdapterTypes, ImageIn
  <2>2. Selected(ViaGeneric(buf), {e \in ElementsOf(ViaGeneric(buf)) : e.role = "system"})
          = ViaGeneric(SystemOf(buf))
    BY <2>1, WireParts, TurnsOnTheWire
  <2>3. WireSystem(ViaGeneric(buf))
          = Joined([i \in DOMAIN ViaGeneric(SystemOf(buf)) |-> ViaGeneric(SystemOf(buf))[i].text])
    BY <2>2 DEF WireSystem
  <2>4. [i \in DOMAIN ViaGeneric(SystemOf(buf)) |-> ViaGeneric(SystemOf(buf))[i].text]
          = [i \in DOMAIN SystemOf(buf) |-> Text(SystemOf(buf)[i])]
    BY DEF ViaGeneric, Entry
  <2> QED
    BY <1>7, <2>3, <2>4 DEF SystemText
<1> QED
  BY <1>2, <1>4, <1>5, <1>9, <1>19, <1>20, <1>21, <1>22 DEF WireKeepsTheTurns

\* After any series of calls, and whatever a compaction function answers, the buffer fits
\* or says why not, holds all that is pinned and an end of the rest, and lost no message
\* without need (append(), fit() and fitWithCompaction() of src/context).
THEOREM BuffersAreSound == ContextSpec => []BufferIsSound
<1>1. BufferInv => BufferIsSound
  <2> SUFFICES ASSUME BufferInv PROVE BufferIsSound
    OBVIOUS
  <2>1. buf \in Seq(Entries)
    BY DEF BufferInv, Reduced
  <2> QED
    BY <2>1, InvKeepsTheEnd, WireIsFaithful DEF BufferIsSound
<1> QED
  BY <1>1, ContextBegins, ContextSteps, PTL DEF ContextSpec
=============================================================================
