----------------------------- MODULE CostSnapshot -----------------------------
(***************************************************************************)
(* The persistence of src/cost/store.py.  After a change to the records,   *)
(* outside the lock, a thread writes a snapshot to "<path>.tmp", the same  *)
(* name for every thread, and renames it to the path.  Every step below is *)
(* one call to the file system, which knows files by inode: a file keeps   *)
(* its writer when it gets another name.                                   *)
(*                                                                         *)
(* A snapshot is the number of its records, which is also its length; only *)
(* whole ones can be loaded.                                               *)
(***************************************************************************)
EXTENDS Integers, FiniteSets

CONSTANTS
    Threads,
    Inodes,
    None,           \* no file
    MaxChanges,     \* bound: appends
    MaxRestarts,    \* bound: restarts of the process
    MaxBadWrites    \* bound: writes that fail

ASSUME SnapshotAssumption ==
    /\ None \notin Inodes
    /\ \E i, j \in Inodes : i # j      \* there is always another inode
    /\ {MaxChanges, MaxRestarts, MaxBadWrites} \subseteq Nat

VARIABLES
    inMemory,       \* how many records there are
    names,          \* the inode under "tmp" and under "path"
    content,        \* what an inode holds: a length, and whether it is a whole snapshot
    step,
    snap,           \* of a thread: the snapshot it took
    open,           \* of a thread: the inode it has opened
    appends, restarts, badWrites,
    saved           \* history: the last persist did not fail

snapshotVars == <<inMemory, names, content, step, snap, open, appends, restarts, badWrites, saved>>

Whole(n) == [length |-> n, whole |-> TRUE]

SnapshotInit ==
    /\ inMemory = 0
    /\ names = [f \in {"tmp", "path"} |-> None]
    /\ content = [i \in Inodes |-> [length |-> 0, whole |-> FALSE]]
    /\ step = [t \in Threads |-> "idle"]
    /\ snap = [t \in Threads |-> 0] /\ open = [t \in Threads |-> None]
    /\ appends = 0 /\ restarts = 0 /\ badWrites = 0
    /\ saved = FALSE

StepTo(t, l) == step' = [step EXCEPT ![t] = l]

\* append: the record under the lock; the snapshot is left for later.
AppendRecord(t) ==
    /\ step[t] = "idle" /\ appends < MaxChanges
    /\ inMemory' = inMemory + 1 /\ appends' = appends + 1
    /\ StepTo(t, "take")
    /\ UNCHANGED <<names, content, snap, open, restarts, badWrites, saved>>

\* reset
ResetRecords(t) ==
    /\ step[t] = "idle" /\ appends < MaxChanges /\ inMemory > 0
    /\ inMemory' = 0 /\ appends' = appends + 1
    /\ StepTo(t, "take")
    /\ UNCHANGED <<names, content, snap, open, restarts, badWrites, saved>>

\* to_json, under the lock.
Take(t) ==
    /\ step[t] = "take"
    /\ snap' = [snap EXCEPT ![t] = inMemory]
    /\ StepTo(t, "open")
    /\ UNCHANGED <<inMemory, names, content, open, appends, restarts, badWrites, saved>>

InUse == {names["tmp"], names["path"]} \cup {open[t] : t \in Threads}

\* open(tmp, "w"): empties the file there is, or makes one.
Open(t) ==
    /\ step[t] = "open"
    /\ LET i == IF names["tmp"] # None THEN names["tmp"] ELSE CHOOSE j \in Inodes \ InUse : TRUE
       IN  /\ names' = [names EXCEPT !["tmp"] = i]
           /\ content' = [content EXCEPT ![i] = [length |-> 0, whole |-> FALSE]]
           /\ open' = [open EXCEPT ![t] = i]
    /\ StepTo(t, "write")
    /\ UNCHANGED <<inMemory, snap, appends, restarts, badWrites, saved>>

\* Part of the snapshot is flushed.
WritePart(t) ==
    /\ step[t] = "write"
    /\ content' = [content EXCEPT ![open[t]].whole = FALSE]
    /\ StepTo(t, "write_rest")
    /\ UNCHANGED <<inMemory, names, snap, open, appends, restarts, badWrites, saved>>

\* The rest is flushed as the file is closed: over what another thread has written, of
\* which a longer tail remains.
WriteRest(t) ==
    /\ step[t] \in {"write", "write_rest"}
    /\ content' = [content EXCEPT ![open[t]] =
                      IF @.length > snap[t] THEN [@ EXCEPT !.whole = FALSE] ELSE Whole(snap[t])]
    /\ open' = [open EXCEPT ![t] = None]
    /\ StepTo(t, "replace")
    /\ UNCHANGED <<inMemory, names, snap, appends, restarts, badWrites, saved>>

\* os.replace; without a tmp it fails, which is only logged.
Rename(t) ==
    /\ step[t] = "replace"
    /\ IF names["tmp"] = None THEN saved' = FALSE /\ UNCHANGED names
       ELSE names' = [f \in {"tmp", "path"} |-> IF f = "path" THEN names["tmp"] ELSE None]
            /\ saved' = TRUE
    /\ StepTo(t, "idle")
    /\ UNCHANGED <<inMemory, content, snap, open, appends, restarts, badWrites>>

\* Variant: a snapshot that failed is put in place all the same.
PersistFailsReplacing(t) ==
    /\ step[t] \in {"write", "write_rest"} /\ badWrites < MaxBadWrites
    /\ open' = [open EXCEPT ![t] = None]
    /\ badWrites' = badWrites + 1
    /\ StepTo(t, "replace")
    /\ UNCHANGED <<inMemory, names, content, snap, appends, restarts, saved>>

\* A write fails, and what is written stays under the temporary name.
PersistFails(t) ==
    /\ step[t] \in {"write", "write_rest"} /\ badWrites < MaxBadWrites
    /\ open' = [open EXCEPT ![t] = None]
    /\ badWrites' = badWrites + 1 /\ saved' = FALSE
    /\ StepTo(t, "idle")
    /\ UNCHANGED <<inMemory, names, content, snap, appends, restarts>>

Loadable == names["path"] # None /\ content[names["path"]].whole

Stored == content[names["path"]].length

\* The process dies at any step, and the next one loads what is under the path, or starts
\* afresh; what it has loaded it persists again, in the thread that makes the store.
Restart(t) ==
    /\ restarts < MaxRestarts
    /\ restarts' = restarts + 1
    /\ inMemory' = IF Loadable THEN Stored ELSE 0
    /\ step' = [u \in Threads |-> IF u = t /\ Loadable THEN "take" ELSE "idle"]
    /\ open' = [u \in Threads |-> None]
    /\ saved' = FALSE
    /\ UNCHANGED <<names, content, snap, appends, badWrites>>

SnapshotNext ==
    \E t \in Threads :
        \/ AppendRecord(t) \/ ResetRecords(t) \/ Take(t) \/ Open(t)
        \/ WritePart(t) \/ WriteRest(t) \/ Rename(t) \/ PersistFails(t)
        \/ Restart(t)

SnapshotSpec == SnapshotInit /\ [][SnapshotNext]_snapshotVars

-----------------------------------------------------------------------------

\* Every variable holds values of its shape.
SnapshotTypeOK ==
    /\ inMemory \in 0..MaxChanges
    /\ names \in [{"tmp", "path"} -> Inodes \cup {None}]
    /\ content \in [Inodes -> [length : 0..MaxChanges, whole : BOOLEAN]]
    /\ step \in [Threads -> {"idle", "take", "open", "write", "write_rest", "replace"}]
    /\ snap \in [Threads -> 0..MaxChanges] /\ open \in [Threads -> Inodes \cup {None}]
    /\ \A t \in Threads : open[t] # None <=> step[t] \in {"write", "write_rest"}
    /\ appends \in 0..MaxChanges /\ restarts \in 0..MaxRestarts /\ badWrites \in 0..MaxBadWrites

\* "Atomic snapshot write": what is under the path can be loaded at every moment, so that
\* a restart never starts afresh where there were records.  With one thread it can.
SnapshotWhole == names["path"] # None => Loadable

\* A restart gives back the records there were, but for what one change had not persisted
\* yet, whatever step the crash interrupted: with one thread, and after a persist that did
\* not fail.
RestartKeepsRecords ==
    [][restarts' = restarts + 1 /\ saved =>
           inMemory' \in {inMemory - 1, inMemory} \/ inMemory = 0]_snapshotVars
=============================================================================
