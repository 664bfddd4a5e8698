----------------------------- MODULE GoldenCache ------------------------------
(***************************************************************************)
(* src/resilience/cache/store.ts: one JSON file per key, and the manifest  *)
(* golden-index.json beside them.  Processes (the service, the recording   *)
(* script) share the directory with no lock: every step below is one call  *)
(* to the file system.  Within a process the calls of one operation are    *)
(* synchronous, so that no two operations of a process overlap.            *)
(*                                                                         *)
(* A key is a valid one and a value can be serialised (otherwise a call    *)
(* does nothing).  A manifest is the set of keys it lists, or NoIndex when *)
(* it is missing or cannot be parsed; what it says of a key, and its own   *)
(* temporary file, are left out.                                           *)
(***************************************************************************)
EXTENDS Integers

CONSTANTS
    Procs, Keys, Values,
    Absent, Partial,
    Corrupt,        \* a file that is not JSON
    NoIndex, NoKey, NoValue,
    MaxOps,         \* bound: calls
    MaxDamage,      \* bound: entries or manifests damaged from outside
    MaxFaults,      \* bound: calls of the file system that fail
    MaxKills        \* bound: processes that die

ASSUME CacheAssumption ==
    /\ {MaxOps, MaxDamage, MaxFaults, MaxKills} \subseteq Nat
    /\ {Absent, Partial, Corrupt} \cap Values = {}
    /\ Absent # Partial /\ Corrupt \notin {Absent, Partial}
    /\ {"none", "miss", "done", "deleted", "not deleted"} \cap Values = {}
    /\ \A S \in SUBSET Keys : NoIndex # S
    /\ NoKey \notin Keys /\ NoValue \notin Values

VARIABLES
    files,      \* what <name>.json holds
    corrupt,    \* what <name>.corrupt.json holds
    manifest,
    tmp,        \* what the process's temporary file holds
    pc, key, value, index,      \* a call and its locals
    result,     \* what the last call of the process returned
    seen,       \* history: what the file of a running get has held
    kept,       \* history: put, and since then not damaged or deleted
    overlapped, \* history: a call began while another was under way
    ops, damage, faults, kills

disk == <<files, corrupt, manifest>>
asked == <<ops, overlapped>>
bounds == <<asked, damage, faults, kills>>
locals == <<key, value, index>>
cacheVars == <<disk, tmp, pc, locals, result, seen, kept, bounds>>

CacheInit ==
    /\ files = [k \in Keys |-> Absent] /\ corrupt = [k \in Keys |-> Absent]
    /\ manifest = NoIndex
    /\ tmp = [p \in Procs |-> Absent]
    /\ pc = [p \in Procs |-> "idle"]
    /\ key = [p \in Procs |-> NoKey] /\ value = [p \in Procs |-> NoValue]
    /\ index = [p \in Procs |-> {}]
    /\ result = [p \in Procs |-> "none"]
    /\ seen = [p \in Procs |-> {}]
    /\ kept = [k \in Keys |-> FALSE]
    /\ overlapped = FALSE
    /\ ops = 0 /\ damage = 0 /\ faults = 0 /\ kills = 0

Reading(p) == pc[p] \in {"exists", "read", "quarantine"}

\* The file of k now holds c, which the gets of k that are under way have seen.
SetFile(k, c) ==
    /\ files' = [files EXCEPT ![k] = c]
    /\ seen' = [p \in Procs |-> IF Reading(p) /\ key[p] = k THEN seen[p] \cup {c} ELSE seen[p]]

\* scanIndex lists the *.json there are; .corrupt. and temporary files are not among them.
Scan == {k \in Keys : files[k] # Absent}

\* readIndex(root) ?? scanIndex(root).
Index == IF manifest = NoIndex THEN Scan ELSE manifest

Goto(p, l) == pc' = [pc EXCEPT ![p] = l]

Return(p, r) ==
    /\ Goto(p, "idle")
    /\ result' = [result EXCEPT ![p] = r]

Begin(p, k, v, l) ==
    /\ pc[p] = "idle" /\ ops < MaxOps
    /\ Goto(p, l)
    /\ key' = [key EXCEPT ![p] = k] /\ value' = [value EXCEPT ![p] = v]
    /\ result' = [result EXCEPT ![p] = "none"]
    /\ ops' = ops + 1
    /\ overlapped' = (overlapped \/ \E q \in Procs : pc[q] # "idle")

history == <<seen, kept>>
outside == <<damage, faults, kills>>

-----------------------------------------------------------------------------
\* put

\* writeFileSync begins: the temporary file is named for the process.
Put(p, k, v) ==
    /\ Begin(p, k, v, "write")
    /\ tmp' = [tmp EXCEPT ![p] = Partial]
    /\ UNCHANGED <<disk, index, history, outside>>

\* Variant: the file gets its name before it is complete.
WriteTmpAndGo(p) ==
    /\ pc[p] = "write"
    /\ Goto(p, "replace")
    /\ UNCHANGED <<disk, tmp, locals, result, history, bounds>>

WriteTmp(p) ==
    /\ pc[p] = "write"
    /\ tmp' = [tmp EXCEPT ![p] = value[p]]
    /\ Goto(p, "replace")
    /\ UNCHANGED <<disk, locals, result, history, bounds>>

\* Variant: an entry that exists is not replaced.
ReplaceIfNew(p) ==
    /\ pc[p] = "replace"
    /\ IF files[key[p]] = Absent THEN SetFile(key[p], tmp[p]) ELSE UNCHANGED <<files, seen>>
    /\ tmp' = [tmp EXCEPT ![p] = Absent]
    /\ kept' = [kept EXCEPT ![key[p]] = TRUE]
    /\ Goto(p, "read_index")
    /\ UNCHANGED <<corrupt, manifest, locals, result, bounds>>

\* renameSync
Replace(p) ==
    /\ pc[p] = "replace"
    /\ SetFile(key[p], tmp[p])
    /\ tmp' = [tmp EXCEPT ![p] = Absent]
    /\ kept' = [kept EXCEPT ![key[p]] = TRUE]
    /\ Goto(p, "read_index")
    /\ UNCHANGED <<corrupt, manifest, locals, result, bounds>>

\* writeFileSync or renameSync throws: the temporary file stays, until the process writes
\* it again, and the manifest is left alone.
PutFails(p) ==
    /\ pc[p] \in {"write", "replace"} /\ faults < MaxFaults
    /\ Return(p, "done")
    /\ faults' = faults + 1
    /\ UNCHANGED <<disk, tmp, locals, history, asked, damage, kills>>

ReadIndex(p) ==
    /\ pc[p] = "read_index"
    /\ index' = [index EXCEPT ![p] = Index \cup {key[p]}]
    /\ Goto(p, "write_index")
    /\ UNCHANGED <<disk, tmp, key, value, result, history, bounds>>

\* writeIndex, for put and for delete; a failure is only logged.
WriteIndex(p) ==
    /\ pc[p] \in {"write_index", "write_less"}
    /\ \/ manifest' = index[p] /\ UNCHANGED faults
       \/ faults < MaxFaults /\ faults' = faults + 1 /\ UNCHANGED manifest
    /\ Return(p, IF pc[p] = "write_less" THEN "deleted" ELSE "done")
    /\ UNCHANGED <<files, corrupt, tmp, locals, seen, kept, asked, damage, kills>>

-----------------------------------------------------------------------------
\* get

Get(p, k) ==
    /\ Begin(p, k, NoValue, "exists")
    /\ seen' = [seen EXCEPT ![p] = {files[k]}]
    /\ UNCHANGED <<disk, tmp, index, kept, outside>>

\* Variant: the manifest says whether there is an entry.
ExistsIfListed(p) ==
    /\ pc[p] = "exists"
    /\ IF manifest # NoIndex /\ key[p] \notin manifest
         THEN Return(p, "miss") ELSE Goto(p, "read") /\ UNCHANGED result
    /\ UNCHANGED <<disk, tmp, locals, history, bounds>>

Exists(p) ==
    /\ pc[p] = "exists"
    /\ IF files[key[p]] = Absent
         THEN Return(p, "miss") ELSE Goto(p, "read") /\ UNCHANGED result
    /\ UNCHANGED <<disk, tmp, locals, history, bounds>>

\* A file that is gone by now makes readFileSync throw, hence a miss.
Read(p) ==
    /\ pc[p] = "read"
    /\ LET c == files[key[p]]
       IN  IF c \in Values THEN Return(p, c)
           ELSE IF c = Absent THEN Return(p, "miss")
           ELSE Goto(p, "quarantine") /\ UNCHANGED result
    /\ UNCHANGED <<disk, tmp, locals, history, bounds>>

\* renameSync to <name>.corrupt.json takes the file that is there now; that there is none
\* is passed over.
Quarantine(p) ==
    /\ pc[p] = "quarantine"
    /\ IF files[key[p]] = Absent THEN UNCHANGED <<files, corrupt, seen>>
       ELSE /\ corrupt' = [corrupt EXCEPT ![key[p]] = files[key[p]]]
            /\ SetFile(key[p], Absent)
    /\ Return(p, "miss")
    /\ UNCHANGED <<manifest, tmp, locals, kept, bounds>>

-----------------------------------------------------------------------------
\* delete

Delete(p, k) ==
    /\ Begin(p, k, NoValue, "existed")
    /\ UNCHANGED <<disk, tmp, index, history, outside>>

\* The entry may be absent, and the manifest list it all the same.
Existed(p) ==
    /\ pc[p] = "existed"
    /\ Goto(p, IF files[key[p]] = Absent THEN "unlist_only" ELSE "unlink")
    /\ UNCHANGED <<disk, tmp, locals, result, history, bounds>>

\* unlinkSync; when the file is gone by now it throws, and the call returns false.
Unlink(p) ==
    /\ pc[p] = "unlink"
    /\ IF files[key[p]] = Absent
         THEN Return(p, "not deleted") /\ UNCHANGED <<files, seen, kept>>
         ELSE /\ SetFile(key[p], Absent)
              /\ kept' = [kept EXCEPT ![key[p]] = FALSE]
              /\ Goto(p, "unlist") /\ UNCHANGED result
    /\ UNCHANGED <<corrupt, manifest, tmp, locals, bounds>>

\* Here a manifest that cannot be read is left as it is.
Unlist(p) ==
    /\ pc[p] \in {"unlist", "unlist_only"}
    /\ LET existed == pc[p] = "unlist"
           listed == manifest # NoIndex /\ key[p] \in manifest
       IN  IF listed
             THEN /\ index' = [index EXCEPT ![p] = manifest \ {key[p]}]
                  /\ Goto(p, IF existed THEN "write_less" ELSE "write_index")
                  /\ UNCHANGED result
             ELSE /\ Return(p, IF existed THEN "deleted" ELSE "not deleted")
                  /\ UNCHANGED index
    /\ UNCHANGED <<disk, tmp, key, value, seen, kept, bounds>>

-----------------------------------------------------------------------------
\* What happens to the directory and the processes from outside.

DamageEntry(k) ==
    /\ damage < MaxDamage /\ files[k] # Absent
    /\ SetFile(k, Corrupt)
    /\ kept' = [kept EXCEPT ![k] = FALSE]
    /\ damage' = damage + 1
    /\ UNCHANGED <<corrupt, manifest, tmp, pc, locals, result, asked, faults, kills>>

DamageIndex ==
    /\ damage < MaxDamage /\ manifest # NoIndex
    /\ manifest' = NoIndex
    /\ damage' = damage + 1
    /\ UNCHANGED <<files, corrupt, tmp, pc, locals, result, history, asked, faults, kills>>

\* A process dies in the middle of a call: its temporary file stays behind under a name
\* nobody uses, and another process takes its place.
Crash(p) ==
    /\ pc[p] # "idle" /\ kills < MaxKills
    /\ Return(p, "none")
    /\ tmp' = [tmp EXCEPT ![p] = Absent]
    /\ kills' = kills + 1
    /\ UNCHANGED <<disk, locals, history, asked, damage, faults>>

CacheNext ==
    \/ \E p \in Procs :
        \/ \E k \in Keys : Get(p, k) \/ Delete(p, k) \/ \E v \in Values : Put(p, k, v)
        \/ WriteTmp(p) \/ Replace(p) \/ PutFails(p) \/ ReadIndex(p) \/ WriteIndex(p)
        \/ Exists(p) \/ Read(p) \/ Quarantine(p)
        \/ Existed(p) \/ Unlink(p) \/ Unlist(p)
        \/ Crash(p)
    \/ \E k \in Keys : DamageEntry(k)
    \/ DamageIndex

CacheSpec == CacheInit /\ [][CacheNext]_cacheVars

-----------------------------------------------------------------------------

Label ==
    {"idle", "write", "replace", "read_index", "write_index", "exists", "read", "quarantine",
     "existed", "unlink", "unlist", "unlist_only", "write_less"}

Content == Values \cup {Absent, Partial, Corrupt}

\* Every variable holds values of its shape, and a process that writes has a temporary
\* file.
CacheTypeOK ==
    /\ files \in [Keys -> Content] /\ corrupt \in [Keys -> Content]
    /\ \A p \in Procs : pc[p] \in {"write", "replace"} => tmp[p] # Absent
    /\ manifest = NoIndex \/ manifest \in SUBSET Keys
    /\ tmp \in [Procs -> Values \cup {Absent, Partial}]
    /\ pc \in [Procs -> Label]
    /\ key \in [Procs -> Keys \cup {NoKey}] /\ value \in [Procs -> Values \cup {NoValue}]
    /\ index \in [Procs -> SUBSET Keys]
    /\ ops \in 0..MaxOps /\ damage \in 0..MaxDamage
    /\ faults \in 0..MaxFaults /\ kills \in 0..MaxKills

\* "Atomic write (tmp file + rename)": the file of a key, and what was quarantined of it,
\* never holds part of a value, whoever writes at the same time and whoever dies.
NoPartialEntry == \A k \in Keys : Partial \notin {files[k], corrupt[k]}

\* What get returns is true of some moment of the call: a value was in the file then, and
\* a miss means that the file was absent or corrupt then.  The manifest, which may know
\* nothing of an entry, has no say ("reads never depend on it").
GetTellsTruth ==
    \A p \in Procs :
        /\ result[p] \in Values => result[p] \in seen[p]
        /\ result[p] = "miss" => seen[p] \cap {Absent, Partial, Corrupt} # {}

Quiet == \A p \in Procs : pc[p] = "idle"

\* As long as calls take turns and none is cut short, list shows every entry there is,
\* also after a manifest was lost: "recoverable by scanning *.json if lost/corrupt".
EntriesAreListed ==
    ~overlapped /\ faults = 0 /\ kills = 0 /\ Quiet => Scan \subseteq Index

\* As long as calls take turns, an entry that was put stays readable until something
\* outside damages it or it is deleted, whatever fails or dies; an entry put again in the
\* place of a corrupt one does, too.
RecordedStays ==
    ~overlapped => \A k \in Keys : kept[k] => files[k] \in Values
=============================================================================
