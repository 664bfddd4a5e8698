------------------------------ MODULE AuditTrail ------------------------------
(***************************************************************************)
(* src/stayquiet/audit.py: the audit trail, an in-memory mirror and a JSON *)
(* Lines file.  audit_append decides under audit._lock whether the line is *)
(* new and adds it to the mirror; it writes the file after releasing the   *)
(* lock, so the two are two steps of a thread with anything in between.    *)
(* The mirror dies with the process, the file does not.                    *)
(*                                                                         *)
(* A line stands for the action, booking and detail of an entry, which is  *)
(* what the dedupe compares; entries are numbered in the order they enter  *)
(* a mirror, over all lives of the process.                                *)
(***************************************************************************)
EXTENDS Integers, Sequences, FiniteSets

CONSTANTS
    Writer,         \* threads that call audit_append
    Line,           \* <<action, booking, detail>> values
    Repeating,      \* the lines whose action is deduplicated: policy_change_detected,
                    \* resolved_quietly, escalated_to_host
    MaxEntries,     \* bound: entries ever recorded
    MaxCrashes      \* bound: process restarts

ASSUME AuditAssumption ==
    /\ Repeating \subseteq Line
    /\ MaxEntries \in Nat
    /\ MaxCrashes \in Nat

VARIABLES
    mirror,         \* _mirror, oldest first
    file,           \* the lines of AUDIT_PATH
    writing,        \* per thread: the entry it has in the mirror and not yet in the file
    recorded,       \* number of entries ever added to a mirror
    unwritten,      \* entries that never reached the file: a failed write or a crash
    crashes         \* restarts so far

auditVars == <<mirror, file, writing, recorded, unwritten, crashes>>

NoEntry == [id |-> 0]

Entry == [id : Nat \ {0}, line : Line]

AuditInit ==
    /\ mirror = <<>>
    /\ file = <<>>
    /\ writing = [w \in Writer |-> NoEntry]
    /\ recorded = 0
    /\ unwritten = {}
    /\ crashes = 0

\* A thread makes one call at a time.
NotWriting(w) == writing[w] = NoEntry

\* Variant: only the newest entry is looked at, as the docstring of audit_append has it.
InMirrorIfNewest(l) == mirror # <<>> /\ mirror[Len(mirror)].line = l

\* The scan of audit_append over the whole mirror.
InMirror(l) == \E i \in DOMAIN mirror : mirror[i].line = l

\* audit_append of a line that is already in the trail returns the line there is.
ReturnExisting(w, l) ==
    /\ l \in Repeating /\ InMirror(l)
    /\ UNCHANGED auditVars

\* audit_append of any other line, up to the release of the lock.
RecordNew(w, l) ==
    /\ ~ (l \in Repeating /\ InMirror(l))
    /\ LET e == [id |-> recorded + 1, line |-> l]
       IN  /\ mirror' = Append(mirror, e)
           /\ writing' = [writing EXCEPT ![w] = e]
    /\ recorded' = recorded + 1
    /\ UNCHANGED <<file, unwritten, crashes>>

AuditAppend(w, l) ==
    /\ NotWriting(w)
    /\ ReturnExisting(w, l) \/ RecordNew(w, l)

\* Variant: the file is opened with "w".
WriteLineTruncating(w) ==
    /\ ~NotWriting(w)
    /\ file' = <<writing[w]>>
    /\ writing' = [writing EXCEPT ![w] = NoEntry]
    /\ UNCHANGED <<mirror, recorded, unwritten, crashes>>

\* The rest of audit_append: one line appended to the file ...
WriteLine(w) ==
    /\ ~NotWriting(w)
    /\ file' = Append(file, writing[w])
    /\ writing' = [writing EXCEPT ![w] = NoEntry]
    /\ UNCHANGED <<mirror, recorded, unwritten, crashes>>

\* ... or an OSError: the entry stays in the mirror only.
WriteFails(w) ==
    /\ ~NotWriting(w)
    /\ unwritten' = unwritten \cup {writing[w].id}
    /\ writing' = [writing EXCEPT ![w] = NoEntry]
    /\ UNCHANGED <<mirror, file, recorded, crashes>>

InFlight == {writing[w].id : w \in {v \in Writer : ~NotWriting(v)}}

\* The process dies and starts again: the mirror is not read back from the file.
AuditCrash ==
    /\ mirror' = <<>>
    /\ writing' = [w \in Writer |-> NoEntry]
    /\ unwritten' = unwritten \cup InFlight
    /\ crashes' = crashes + 1
    /\ UNCHANGED <<file, recorded>>

\* audit_read: the mirror when it holds anything, the file otherwise; newest first,
\* at most limit entries.
AuditRead(limit) ==
    LET items == IF mirror # <<>> THEN mirror ELSE file
        n == Len(items)
    IN  [i \in 1..(IF n < limit THEN n ELSE limit) |-> items[n + 1 - i]]

AuditNext ==
    \/ \E w \in Writer, l \in Line : recorded < MaxEntries /\ AuditAppend(w, l)
    \/ \E w \in Writer : WriteLine(w) \/ WriteFails(w)
    \/ crashes < MaxCrashes /\ AuditCrash

AuditSpec == AuditInit /\ [][AuditNext]_auditVars

-----------------------------------------------------------------------------

\* Every variable holds values of its shape.
AuditTypeOK ==
    /\ mirror \in Seq(Entry)
    /\ file \in Seq(Entry)
    /\ writing \in [Writer -> Entry \cup {NoEntry}]
    /\ recorded \in Nat /\ crashes \in Nat
    /\ unwritten \subseteq 1..recorded

\* A cycle that repeats what an earlier one recorded adds nothing to the trail, with
\* any other lines, and other threads, in between (audit_append, "return it instead
\* of appending a duplicate").
NoRepeatInMirror ==
    \A i, j \in DOMAIN mirror :
        mirror[i].line = mirror[j].line /\ mirror[i].line \in Repeating => i = j

\* An entry once recorded is in exactly one place on its way to the file: on disk, in
\* the hands of the thread that writes it, or known to be unwritten.  Overlapping
\* writers neither lose a line nor write it twice, and the file is never cut short.
EachEntryAccountedFor ==
    \A id \in 1..recorded :
        LET onDisk == {i \in DOMAIN file : file[i].id = id}
            inHand == {w \in Writer : writing[w].id = id}
        IN  Cardinality(onDisk) + Cardinality(inHand)
                + (IF id \in unwritten THEN 1 ELSE 0) = 1

\* While the process lives, its mirror holds every entry it recorded, in order,
\* whatever happened to the file (audit_append, "the UI never loses the trail because
\* the disk is read-only").
MirrorOutlivesTheDisk ==
    [][\/ crashes' # crashes
       \/ /\ Len(mirror') = Len(mirror) + (recorded' - recorded)
          /\ SubSeq(mirror', 1, Len(mirror)) = mirror]_auditVars
=============================================================================
