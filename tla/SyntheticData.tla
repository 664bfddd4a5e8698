---------------------------- MODULE SyntheticData -----------------------------
(***************************************************************************)
(* src/data: batches of made-up records and documents.  A generation asks  *)
(* the provider through the resilience wrapper, has an answer that does    *)
(* not fit repaired once, marks what it hands out as synthetic and writes  *)
(* the same batch to a file and to the golden cache, where the wrapper     *)
(* looks when the provider is down.  Generations are run one after         *)
(* another; each call out of the program is a step.                        *)
(***************************************************************************)
EXTENDS Integers

CONSTANTS
    Requests,       \* what callers ask for, see Request below
    MaxRetries,     \* the wrapper's
    NotGiven, NoBatch,
    MaxGenerated    \* bound: generations

\* A request: the entry point it went to, the shape it has, whether the input contract
\* accepts it, whether its schema forbids fields it does not name, whether it takes elements
\* that are no objects, how much it asks for, an explicit cache key or NotGiven, the cache
\* switch, the provider named for the cache, the two watermark switches and the kill switch.
Request ==
    [entry : {"records", "documents"}, kind : {"records", "documents", "freeform"},
     legal : BOOLEAN, closed : BOOLEAN, loose : BOOLEAN, count : Nat, key : {NotGiven, "k"},
     cached : BOOLEAN, provider : {NotGiven, "p"}, mark : BOOLEAN, allowUnmarked : BOOLEAN, forced : BOOLEAN]

ASSUME DataAssumption == Requests \subseteq Request

\* A batch: what its elements are, its size, how many of them are objects, and the marks
\* these carry.
VARIABLES
    stage, req,         \* the generation under way
    raw, batch,         \* what the wrapper returned; the batch made of it
    calls, repairs,     \* provider calls and repairs of this generation
    returned,           \* what it returned
    batchFiles, cache,  \* file name -> batch; key -> batch
    generated

dataVars == <<stage, req, raw, batch, calls, repairs, returned, batchFiles, cache, generated>>

DataInit ==
    /\ stage = "idle" /\ req = NoBatch /\ raw = NoBatch /\ batch = NoBatch
    /\ calls = 0 /\ repairs = 0 /\ returned = NoBatch
    /\ batchFiles = {} /\ cache = {}
    /\ generated = 0

MaxCount == 2   \* batch.maxCount, 200 in defaults.json

Count(r) == IF r.count > MaxCount THEN MaxCount ELSE IF r.count < 1 THEN 1 ELSE r.count

-----------------------------------------------------------------------------
\* Keys: an explicit one, or one derived from the provider and what was asked for.

CacheKey(r) == IF r.key # NotGiven THEN <<r.key>> ELSE <<r.provider, r.kind, r.count, r.closed, r.loose>>

\* Variant: the writer names the batch by what it holds.
WriterKeyBySize(r) == IF r.key # NotGiven THEN <<r.key>> ELSE <<r.provider, r.kind, Count(r), r.closed, r.loose>>

\* writeBatch() derives the key again.
WriterKey(r) == CacheKey(r)

Stored(at) == {e \in cache : e.key = at}

-----------------------------------------------------------------------------

DegradedResult(reason) == [ok |-> FALSE, reason |-> reason, batch |-> NoBatch]

Returns(value) == returned' = value /\ stage' = "idle"

Admitted(r) == r.legal /\ (r.entry = "records") = (r.kind = "records")

\* generateRecords(), generateDocuments(): the input is checked before anything is called;
\* the contract it is checked against may be missing.
Generate(r) ==
    /\ stage = "idle"
    /\ generated' = generated + 1
    /\ req' = r /\ raw' = NoBatch /\ batch' = NoBatch /\ calls' = 0 /\ repairs' = 0
    /\ \/ Returns(DegradedResult("resilience_internal_error"))
       \/ ~Admitted(r) /\ Returns(DegradedResult("invalid_input"))
       \/ Admitted(r) /\ stage' = "provider" /\ returned' = NoBatch
    /\ UNCHANGED <<batchFiles, cache>>

\* What a provider may answer, parsed: elements that match the schema but for being objects,
\* documents, or nothing of the sort.
Replies ==
    {a \in [is : {"records", "documents", "junk"}, size : {1, Count(req)},
            objects : {"all", "some", "none"}, synthetic : {FALSE}, header : {FALSE}] :
       a.is # "records" => a.objects = "all"}

\* invokeProvider(): the wrapper calls the provider, again after a failure ...
CallProvider ==
    /\ stage = "provider" /\ ~req.forced /\ calls <= MaxRetries
    /\ calls' = calls + 1
    /\ \/ \E a \in Replies : raw' = [live |-> TRUE, value |-> a] /\ stage' = "check"
       \/ UNCHANGED <<raw, stage>>
    /\ UNCHANGED <<req, batch, repairs, returned, batchFiles, cache, generated>>

\* ... and in the end looks into the cache, if the request has one.
FallBack ==
    /\ stage = "provider" /\ (req.forced \/ calls > MaxRetries)
    /\ \/ /\ req.cached
          /\ \E e \in Stored(CacheKey(req)) : raw' = [live |-> FALSE, value |-> e.batch]
          /\ stage' = "check" /\ UNCHANGED returned
       \/ (~req.cached \/ Stored(CacheKey(req)) = {}) /\ Returns(DegradedResult("fallback")) /\ UNCHANGED raw
    /\ UNCHANGED <<req, batch, calls, repairs, batchFiles, cache, generated>>

\* A schema that forbids other fields refuses the mark; the count is part of the schema.
Fits(value) ==
    IF req.kind = "records"
    THEN /\ value.is = "records" /\ value.size = Count(req) /\ ~(req.closed /\ value.synthetic)
         /\ req.loose \/ value.objects = "all"
    ELSE value.is = "documents" /\ value.objects = "all"

\* validateOrRepair(), the structural check: a live answer that does not fit is repaired,
\* a batch of the cache is not, and documents never are.
Check ==
    /\ stage = "check"
    /\ IF Fits(raw.value) THEN batch' = raw.value /\ stage' = "mark" /\ UNCHANGED returned
       ELSE /\ UNCHANGED batch
            /\ IF req.kind # "records" THEN Returns(DegradedResult("document_structural_check_failed"))
               ELSE IF raw.live THEN stage' = "repair" /\ UNCHANGED returned
               ELSE Returns(DegradedResult("validation_repair_failed"))
    /\ UNCHANGED <<req, raw, calls, repairs, batchFiles, cache, generated>>

\* repair(): one more call, past the wrapper, and its answer is the last word.
Repair ==
    /\ stage = "repair"
    /\ repairs' = repairs + 1
    /\ \/ \E a \in {x \in Replies : Fits(x)} : batch' = a /\ stage' = "mark" /\ UNCHANGED returned
       \/ Returns(DegradedResult("validation_repair_failed")) /\ UNCHANGED batch
    /\ UNCHANGED <<req, raw, calls, batchFiles, cache, generated>>

\* watermarkDecision(): leaving the mark out takes both switches.
Marks == req.mark \/ ~req.allowUnmarked

\* normalizeDocument() keeps the text, header and all, and drops the flag.
Normalized == IF req.kind = "records" THEN batch ELSE [batch EXCEPT !.synthetic = FALSE]

\* Variant: a cached batch is taken to be marked already.
MarkLiveOnly ==
    /\ stage = "mark" /\ stage' = "write"
    /\ batch' = IF Marks /\ raw.live
                THEN [Normalized EXCEPT !.synthetic = batch.objects # "none", !.header = req.kind # "records"]
                ELSE Normalized
    /\ UNCHANGED <<req, raw, calls, repairs, returned, batchFiles, cache, generated>>

\* watermarkBatch(), in place, before anything is written; an element that is no object is
\* passed through.
Mark ==
    /\ stage = "mark" /\ stage' = "write"
    /\ batch' = IF Marks
                THEN [Normalized EXCEPT !.synthetic = batch.objects # "none", !.header = req.kind # "records"]
                ELSE Normalized
    /\ UNCHANGED <<req, raw, calls, repairs, returned, batchFiles, cache, generated>>

\* writeBatch(), the file: named by kind, domain and size; a failure is swallowed.
FileName == <<req.kind, batch.size>>

WriteFile ==
    /\ stage = "write" /\ stage' = "store"
    /\ LET file == [name |-> FileName, batch |-> batch, by |-> req]
       IN  batchFiles' \in {batchFiles, {f \in batchFiles : f.name # FileName} \cup {file}}
    /\ UNCHANGED <<req, raw, batch, calls, repairs, returned, cache, generated>>

\* writeBatch(), the cache, if it is switched on; and the batch is returned.
Store ==
    /\ stage = "store"
    /\ LET entry == [key |-> WriterKey(req), batch |-> batch, by |-> req]
       IN cache' \in {cache} \cup IF req.cached THEN {(cache \ Stored(WriterKey(req))) \cup {entry}} ELSE {}
    /\ Returns([ok |-> TRUE, reason |-> NoBatch, batch |-> batch])
    /\ UNCHANGED <<req, raw, batch, calls, repairs, batchFiles, generated>>

DataNext ==
    \/ generated < MaxGenerated /\ \E r \in Requests : Generate(r)
    \/ CallProvider \/ FallBack \/ Check \/ Repair \/ Mark \/ WriteFile \/ Store

DataSpec == DataInit /\ [][DataNext]_dataVars

-----------------------------------------------------------------------------

Marked(b, r) == b.synthetic /\ (r.kind # "records" => b.header)

\* The request switched the mark off, and its configuration allows that.
SwitchedOff(r) == ~r.mark /\ r.allowUnmarked

\* An element that can bear the mark bears it; where the request takes objects only, every
\* element does.
Marking(b, r) ==
    \/ SwitchedOff(r)
    \/ Marked(b, r) /\ (r.loose \/ b.objects = "all")
    \/ r.loose /\ b.objects = "none"

\* What leaves the generator, live or out of the cache, handed out or in a file, bears its
\* marks, unless they were switched off: each element that can, and where the request takes
\* objects only, each element.
BatchesAreMarked ==
    /\ returned # NoBatch /\ returned.ok => Marking(returned.batch, req)
    /\ \A f \in batchFiles : Marking(f.batch, f.by)

\* "write-through entries are readable offline": who asks again for what was written,
\* while the provider is down, is given it, one repair was the most, and a schema that
\* forbids the mark is the exception.
ReadableOffline ==
    /\ returned # NoBatch /\ ~returned.ok /\ returned.reason \in {"fallback", "validation_repair_failed"} /\ req.forced =>
           ~\E e \in cache : e.by = [req EXCEPT !.forced = FALSE] /\ ~req.closed
    /\ repairs <= 1 /\ (repairs = 1 => raw.live)

\* Both at once: what is cached is marked, and found again.
MarkedAndReadable == BatchesAreMarked /\ ReadableOffline
=============================================================================
