------------------------- MODULE ClientStores_proofs --------------------------
(***************************************************************************)
(* Theorems about the stores a model client shares with others,            *)
(* GoldenCache and CostStore, and the snapshot of a CostStore.             *)
(*                                                                         *)
(* GoldenCache, for any number of processes, keys, values, failures and    *)
(* kills: CacheInv is the inductive invariant; each of its parts has a     *)
(* lemma of its own.                                                       *)
(* CostStore, for any number of wrappers, providers, limits and units: what*)
(* the listeners hear rests on one fact, that an edge that is still fresh  *)
(* has not been heard of.                                                  *)
(* CostSnapshot, with one thread, for any data, failures and restarts: the *)
(* file that has the name of the snapshot is none that is being written.   *)
(***************************************************************************)
EXTENDS GoldenCache, CostStore, CostSnapshot, TLAPS

Outcome == Values \cup {"none", "miss", "done", "deleted", "not deleted"}

\* Types, those of the histories included.
CacheTypes ==
    /\ CacheTypeOK
    /\ result \in [Procs -> Outcome]
    /\ seen \in [Procs -> SUBSET Content]

\* A call has a key; what is about to be written, and what was, is a value.
CallInv ==
    \A p \in Procs :
        /\ pc[p] # "idle" => key[p] \in Keys
        /\ pc[p] = "write" => value[p] \in Values
        /\ pc[p] = "replace" => tmp[p] \in Values

\* What a get may still find was in the file during the call.
ReadInv ==
    \A p \in Procs :
        /\ Reading(p) => files[key[p]] \in seen[p]
        /\ pc[p] = "quarantine" => seen[p] \cap {Absent, Partial, Corrupt} # {}

TruthInv == ReadInv /\ GetTellsTruth

\* As long as calls take turns, one process is at work, and what it is about to put away
\* as corrupt is not an entry that counts as kept.
SoloInv ==
    ~overlapped =>
        /\ \A p, q \in Procs : pc[p] # "idle" /\ pc[q] # "idle" => p = q
        /\ \A p \in Procs : pc[p] = "quarantine" => ~kept[key[p]]

\* The entries there are, but for the one whose put has not come to the manifest yet,
\* are in the manifest, and in the one a call is about to write.
ListInv ==
    ~overlapped /\ faults = 0 /\ kills = 0 =>
        /\ \A k \in Scan :
              \/ k \in Index
              \/ \E p \in Procs : pc[p] \in {"read_index", "write_index"} /\ key[p] = k
        /\ \A p \in Procs :
            /\ pc[p] \in {"write_index", "write_less"} => Scan \subseteq index[p]
            /\ pc[p] \in {"unlist", "unlist_only", "write_less"} => files[key[p]] = Absent

-----------------------------------------------------------------------------

\* What the assumption says of the bounds, and of what is not a value.
LEMMA BoundsAreNumbers ==
    MaxOps \in Nat /\ MaxDamage \in Nat /\ MaxFaults \in Nat /\ MaxKills \in Nat
BY CacheAssumption

LEMMA NoValues ==
    /\ Absent \notin Values /\ Partial \notin Values /\ Corrupt \notin Values
    /\ Absent # Partial /\ Partial # Corrupt /\ Absent # Corrupt
BY CacheAssumption

LEMMA NotValues ==
    /\ "none" \notin Values /\ "miss" \notin Values /\ "done" \notin Values
    /\ "deleted" \notin Values /\ "not deleted" \notin Values
<1>1. {"none", "miss", "done", "deleted", "not deleted"} \cap Values = {}
  BY CacheAssumption
<1> QED
  BY <1>1

\* SetFile keeps the types of what it changes.
LEMMA SetFileTypes ==
    ASSUME CacheTypes, NEW k \in Keys, NEW c \in Content, SetFile(k, c)
    PROVE  files' \in [Keys -> Content] /\ seen' \in [Procs -> SUBSET Content]
BY DEF SetFile, CacheTypes, CacheTypeOK

LEMMA Outcomes ==
    /\ "none" \in Outcome /\ "miss" \in Outcome /\ "done" \in Outcome /\ "deleted" \in Outcome
    /\ "not deleted" \in Outcome /\ Values \subseteq Outcome
BY DEF Outcome

LEMMA GotoTypes ==
    ASSUME CacheTypes, NEW p \in Procs, NEW l \in Label, Goto(p, l)
    PROVE  pc' = [pc EXCEPT ![p] = l] /\ pc' \in [Procs -> Label]
BY DEF Goto, CacheTypes, CacheTypeOK

LEMMA ReturnTypes ==
    ASSUME CacheTypes, NEW p \in Procs, NEW r \in Outcome, Return(p, r)
    PROVE  /\ pc' = [pc EXCEPT ![p] = "idle"] /\ pc' \in [Procs -> Label]
           /\ result' \in [Procs -> Outcome]
BY DEF Return, Goto, CacheTypes, CacheTypeOK, Label

LEMMA BeginTypes ==
    ASSUME CacheTypes, NEW p \in Procs, NEW k \in Keys, NEW v \in Values \cup {NoValue},
           NEW l \in Label, Begin(p, k, v, l)
    PROVE  /\ pc[p] = "idle" /\ pc' = [pc EXCEPT ![p] = l] /\ pc' \in [Procs -> Label]
           /\ key' \in [Procs -> Keys \cup {NoKey}] /\ value' \in [Procs -> Values \cup {NoValue}]
           /\ result' \in [Procs -> Outcome]
           /\ ops' \in 0..MaxOps
<1>1. pc[p] = "idle" /\ pc' = [pc EXCEPT ![p] = l] /\ ops' \in 0..MaxOps
  BY BoundsAreNumbers DEF Begin, Goto, CacheTypes, CacheTypeOK
<1>2. /\ key' \in [Procs -> Keys \cup {NoKey}]
      /\ value' \in [Procs -> Values \cup {NoValue}]
  BY DEF Begin, CacheTypes, CacheTypeOK
<1>3. result' = [result EXCEPT ![p] = "none"]
  BY DEF Begin
<1> QED
  BY <1>1, <1>2, <1>3, Outcomes DEF CacheTypes, CacheTypeOK

\* What a step leaves alone, and what it changes: the disk, the calls, and the bounds.
DiskTypes ==
    /\ files \in [Keys -> Content] /\ corrupt \in [Keys -> Content]
    /\ manifest = NoIndex \/ manifest \in SUBSET Keys
    /\ seen \in [Procs -> SUBSET Content]

CallTypes ==
    /\ pc \in [Procs -> Label] /\ result \in [Procs -> Outcome]
    /\ key \in [Procs -> Keys \cup {NoKey}] /\ value \in [Procs -> Values \cup {NoValue}]
    /\ index \in [Procs -> SUBSET Keys]

TmpTypes ==
    /\ tmp \in [Procs -> Values \cup {Absent, Partial}]
    /\ \A p \in Procs : pc[p] \in {"write", "replace"} => tmp[p] # Absent

Bounded ==
    /\ ops \in 0..MaxOps /\ damage \in 0..MaxDamage
    /\ faults \in 0..MaxFaults /\ kills \in 0..MaxKills

LEMMA TypesInParts == CacheTypes <=> DiskTypes /\ CallTypes /\ TmpTypes /\ Bounded
BY DEF CacheTypes, CacheTypeOK, DiskTypes, CallTypes, TmpTypes, Bounded

LEMMA BoundedInductive ==
    Bounded /\ [CacheNext]_cacheVars
    => Bounded'
<1> SUFFICES ASSUME Bounded, [CacheNext]_cacheVars
             PROVE  Bounded'
  OBVIOUS
<1> USE BoundsAreNumbers DEF Bounded, bounds, asked, outside
<1>1. ASSUME NEW p \in Procs, NEW k \in Keys, NEW v \in Values, Put(p, k, v)
      PROVE  Bounded'
  BY <1>1 DEF Put, Begin
<1>2. ASSUME NEW p \in Procs, NEW k \in Keys, Get(p, k)
      PROVE  Bounded'
  BY <1>2 DEF Get, Begin
<1>3. ASSUME NEW p \in Procs, NEW k \in Keys, Delete(p, k)
      PROVE  Bounded'
  BY <1>3 DEF Delete, Begin
<1>4. ASSUME NEW p \in Procs, WriteTmp(p) \/ Replace(p) \/ PutFails(p) \/ ReadIndex(p)
      PROVE  Bounded'
  BY <1>4 DEF WriteTmp, Replace, PutFails, ReadIndex
<1>5. ASSUME NEW p \in Procs, WriteIndex(p) \/ Exists(p) \/ Read(p) \/ Quarantine(p)
      PROVE  Bounded'
  BY <1>5 DEF WriteIndex, Exists, Read, Quarantine
<1>6. ASSUME NEW p \in Procs, Existed(p) \/ Unlink(p) \/ Unlist(p)
      PROVE  Bounded'
  BY <1>6 DEF Existed, Unlink, Unlist
<1>7. ASSUME NEW p \in Procs, Crash(p)
      PROVE  Bounded'
  BY <1>7 DEF Crash
<1>8. ASSUME NEW k \in Keys, DamageEntry(k)
      PROVE  Bounded'
  BY <1>8 DEF DamageEntry
<1>9. ASSUME DamageIndex
      PROVE  Bounded'
  BY <1>9 DEF DamageIndex
<1>10. CASE UNCHANGED cacheVars
  BY <1>10 DEF cacheVars
<1> QED
  BY <1>1, <1>2, <1>3, <1>4, <1>5, <1>6, <1>7, <1>8, <1>9, <1>10 DEF CacheNext

\* A step of a call that has no temporary file and makes none.
LEMMA TmpAlone ==
    ASSUME CacheTypes, NEW p \in Procs, NEW l, pc' = [pc EXCEPT ![p] = l],
           pc[p] \notin {"write", "replace"}, l \notin {"write", "replace"}, UNCHANGED tmp
    PROVE  TmpTypes'
BY DEF CacheTypes, CacheTypeOK, TmpTypes

LEMMA TmpInductive ==
    CacheTypes /\ CallInv /\ [CacheNext]_cacheVars
    => TmpTypes'
<1> SUFFICES ASSUME CacheTypes, CallInv, [CacheNext]_cacheVars
             PROVE  TmpTypes'
  OBVIOUS
<1>1. ASSUME NEW p \in Procs, NEW k \in Keys, NEW v \in Values, Put(p, k, v)
      PROVE  TmpTypes'
  BY <1>1, NoValues DEF Put, Begin, Goto, CacheTypes, CacheTypeOK, TmpTypes, CallInv
<1>2. ASSUME NEW p \in Procs, NEW k \in Keys, Get(p, k)
      PROVE  TmpTypes'
  BY <1>2, TmpAlone DEF Get, Begin, Goto
<1>3. ASSUME NEW p \in Procs, NEW k \in Keys, Delete(p, k)
      PROVE  TmpTypes'
  BY <1>3, TmpAlone DEF Delete, Begin, Goto
<1>4. ASSUME NEW p \in Procs, WriteTmp(p)
      PROVE  TmpTypes'
  BY <1>4, NoValues DEF WriteTmp, Return, Goto, CacheTypes, CacheTypeOK, TmpTypes, CallInv
<1>5. ASSUME NEW p \in Procs, Replace(p)
      PROVE  TmpTypes'
  BY <1>5, NoValues DEF Replace, Return, Goto, CacheTypes, CacheTypeOK, TmpTypes, CallInv
<1>6. ASSUME NEW p \in Procs, PutFails(p)
      PROVE  TmpTypes'
  BY <1>6, NoValues DEF PutFails, Return, Goto, CacheTypes, CacheTypeOK, TmpTypes, CallInv
<1>7. ASSUME NEW p \in Procs, ReadIndex(p)
      PROVE  TmpTypes'
  BY <1>7, TmpAlone DEF ReadIndex, Return, Goto
<1>8. ASSUME NEW p \in Procs, WriteIndex(p)
      PROVE  TmpTypes'
  BY <1>8, TmpAlone DEF WriteIndex, Return, Goto
<1>9. ASSUME NEW p \in Procs, Exists(p)
      PROVE  TmpTypes'
  BY <1>9, TmpAlone DEF Exists, Return, Goto
<1>10. ASSUME NEW p \in Procs, Read(p)
       PROVE  TmpTypes'
  BY <1>10, TmpAlone DEF Read, Return, Goto
<1>11. ASSUME NEW p \in Procs, Quarantine(p)
       PROVE  TmpTypes'
  BY <1>11 DEF Quarantine, Return, Goto, CacheTypes, CacheTypeOK, TmpTypes, CallInv
<1>12. ASSUME NEW p \in Procs, Existed(p)
       PROVE  TmpTypes'
  BY <1>12 DEF Existed, Return, Goto, CacheTypes, CacheTypeOK, TmpTypes, CallInv
<1>13. ASSUME NEW p \in Procs, Unlink(p)
       PROVE  TmpTypes'
  BY <1>13 DEF Unlink, Return, Goto, CacheTypes, CacheTypeOK, TmpTypes, CallInv
<1>14. ASSUME NEW p \in Procs, Unlist(p)
       PROVE  TmpTypes'
  BY <1>14 DEF Unlist, Return, Goto, CacheTypes, CacheTypeOK, TmpTypes, CallInv
<1>15. ASSUME NEW p \in Procs, Crash(p)
       PROVE  TmpTypes'
  BY <1>15, NoValues DEF Crash, Return, Goto, CacheTypes, CacheTypeOK, TmpTypes, CallInv
<1>16. ASSUME NEW k \in Keys, DamageEntry(k)
       PROVE  TmpTypes'
  BY <1>16 DEF DamageEntry, CacheTypes, CacheTypeOK, TmpTypes, CallInv
<1>17. ASSUME DamageIndex
       PROVE  TmpTypes'
  BY <1>17 DEF DamageIndex, CacheTypes, CacheTypeOK, TmpTypes, CallInv
<1>18. CASE UNCHANGED cacheVars
  BY <1>18 DEF CacheTypes, CacheTypeOK, TmpTypes, CallInv, cacheVars
<1> QED
  BY <1>1, <1>2, <1>3, <1>4, <1>5, <1>6, <1>7, <1>8, <1>9, <1>10, <1>11, <1>12, <1>13, <1>14,
     <1>15, <1>16, <1>17, <1>18 DEF CacheNext

LEMMA DiskInductive ==
    CacheTypes /\ CallInv /\ [CacheNext]_cacheVars
    => DiskTypes'
<1> SUFFICES ASSUME CacheTypes, CallInv, [CacheNext]_cacheVars
             PROVE  DiskTypes'
  OBVIOUS
<1> USE DEF CacheTypes, CacheTypeOK, DiskTypes, CallInv, disk, history
<1>1. ASSUME NEW p \in Procs, NEW k \in Keys, NEW v \in Values, Put(p, k, v)
      PROVE  DiskTypes'
  BY <1>1 DEF Put
<1>2. ASSUME NEW p \in Procs, NEW k \in Keys, Get(p, k)
      PROVE  DiskTypes'
  BY <1>2 DEF Get
<1>3. ASSUME NEW p \in Procs, NEW k \in Keys, Delete(p, k)
      PROVE  DiskTypes'
  BY <1>3 DEF Delete
<1>4. ASSUME NEW p \in Procs,
             \/ WriteTmp(p) \/ PutFails(p) \/ ReadIndex(p) \/ WriteIndex(p) \/ Exists(p)
             \/ Read(p) \/ Existed(p) \/ Unlist(p) \/ Crash(p)
      PROVE  DiskTypes'
  BY <1>4 DEF WriteTmp, PutFails, ReadIndex, WriteIndex, Exists, Read, Existed, Unlist, Crash
<1>5. ASSUME NEW p \in Procs, Replace(p)
      PROVE  DiskTypes'
  BY <1>5, SetFileTypes DEF Replace, Content
<1>6. ASSUME NEW p \in Procs, Quarantine(p)
      PROVE  DiskTypes'
  BY <1>6, SetFileTypes DEF Quarantine, Content
<1>7. ASSUME NEW p \in Procs, Unlink(p)
      PROVE  DiskTypes'
  BY <1>7, SetFileTypes DEF Unlink, Content
<1>8. ASSUME NEW k \in Keys, DamageEntry(k)
      PROVE  DiskTypes'
  BY <1>8, SetFileTypes DEF DamageEntry, Content
<1>9. ASSUME DamageIndex
      PROVE  DiskTypes'
  BY <1>9 DEF DamageIndex
<1>10. CASE UNCHANGED cacheVars
  BY <1>10 DEF cacheVars
<1> QED
  BY <1>1, <1>2, <1>3, <1>4, <1>5, <1>6, <1>7, <1>8, <1>9, <1>10 DEF CacheNext

LEMMA CallInductive ==
    CacheTypes /\ CallInv /\ [CacheNext]_cacheVars
    => CallTypes'
<1> SUFFICES ASSUME CacheTypes, CallInv, [CacheNext]_cacheVars
             PROVE  CallTypes'
  OBVIOUS
<1> USE DEF CallTypes, locals
<1>1. ASSUME NEW p \in Procs, NEW k \in Keys, NEW v \in Values, Put(p, k, v)
      PROVE  CallTypes'
  BY <1>1, BeginTypes DEF Put, CacheTypes, CacheTypeOK, Label
<1>2. ASSUME NEW p \in Procs, NEW k \in Keys, Get(p, k)
      PROVE  CallTypes'
  BY <1>2, BeginTypes DEF Get, CacheTypes, CacheTypeOK, Label
<1>3. ASSUME NEW p \in Procs, NEW k \in Keys, Delete(p, k)
      PROVE  CallTypes'
  BY <1>3, BeginTypes DEF Delete, CacheTypes, CacheTypeOK, Label
<1>4. ASSUME NEW p \in Procs, WriteTmp(p)
      PROVE  CallTypes'
  BY <1>4, Outcomes, GotoTypes, ReturnTypes DEF WriteTmp, CacheTypes, CacheTypeOK, Label
<1>5. ASSUME NEW p \in Procs, Replace(p)
      PROVE  CallTypes'
  BY <1>5, Outcomes, GotoTypes, ReturnTypes DEF Replace, CacheTypes, CacheTypeOK, Label
<1>6. ASSUME NEW p \in Procs, PutFails(p)
      PROVE  CallTypes'
  BY <1>6, Outcomes, GotoTypes, ReturnTypes DEF PutFails, CacheTypes, CacheTypeOK, Label
<1>7. ASSUME NEW p \in Procs, ReadIndex(p)
      PROVE  CallTypes'
  <2>1. Index \cup {key[p]} \in SUBSET Keys
    BY <1>7 DEF ReadIndex, CacheTypes, CacheTypeOK, CallInv, Index, Scan
  <2> QED
    BY <1>7, <2>1, GotoTypes DEF ReadIndex, CacheTypes, CacheTypeOK, Label
<1>8. ASSUME NEW p \in Procs, WriteIndex(p)
      PROVE  CallTypes'
  BY <1>8, Outcomes, GotoTypes, ReturnTypes DEF WriteIndex, CacheTypes, CacheTypeOK, Label
<1>9. ASSUME NEW p \in Procs, Exists(p)
      PROVE  CallTypes'
  BY <1>9, Outcomes, GotoTypes, ReturnTypes DEF Exists, CacheTypes, CacheTypeOK, Label
<1>10. ASSUME NEW p \in Procs, Read(p)
       PROVE  CallTypes'
  BY <1>10, Outcomes, GotoTypes, ReturnTypes DEF Read, CacheTypes, CacheTypeOK, Label
<1>11. ASSUME NEW p \in Procs, Quarantine(p)
       PROVE  CallTypes'
  BY <1>11, Outcomes, GotoTypes, ReturnTypes DEF Quarantine, CacheTypes, CacheTypeOK, Label
<1>12. ASSUME NEW p \in Procs, Existed(p)
       PROVE  CallTypes'
  BY <1>12, Outcomes, GotoTypes, ReturnTypes DEF Existed, CacheTypes, CacheTypeOK, Label
<1>13. ASSUME NEW p \in Procs, Unlink(p)
       PROVE  CallTypes'
  BY <1>13, Outcomes, GotoTypes, ReturnTypes DEF Unlink, CacheTypes, CacheTypeOK, Label
<1>14. ASSUME NEW p \in Procs, Unlist(p)
       PROVE  CallTypes'
  <2>1. CASE manifest # NoIndex /\ key[p] \in manifest
    <3>1. manifest \ {key[p]} \in SUBSET Keys
      BY <2>1 DEF CacheTypes, CacheTypeOK
    <3>2. /\ UNCHANGED <<key, value, result>>
          /\ index' = [index EXCEPT ![p] = manifest \ {key[p]}]
          /\ \E l \in {"write_less", "write_index"} : Goto(p, l)
      BY <1>14, <2>1 DEF Unlist
    <3> QED
      BY <3>1, <3>2, GotoTypes DEF CacheTypes, CacheTypeOK, Label
  <2>2. CASE ~ (manifest # NoIndex /\ key[p] \in manifest)
    BY <1>14, <2>2, Outcomes, ReturnTypes DEF Unlist, CacheTypes, CacheTypeOK
  <2> QED
    BY <2>1, <2>2
<1>15. ASSUME NEW p \in Procs, Crash(p)
       PROVE  CallTypes'
  BY <1>15, Outcomes, GotoTypes, ReturnTypes DEF Crash, CacheTypes, CacheTypeOK, Label
<1>16. ASSUME NEW k \in Keys, DamageEntry(k)
       PROVE  CallTypes'
  BY <1>16 DEF DamageEntry, CacheTypes, CacheTypeOK
<1>17. ASSUME DamageIndex
       PROVE  CallTypes'
  BY <1>17 DEF DamageIndex, CacheTypes, CacheTypeOK
<1>18. CASE UNCHANGED cacheVars
  BY <1>18 DEF CacheTypes, CacheTypeOK, cacheVars
<1> QED
  BY <1>1, <1>2, <1>3, <1>4, <1>5, <1>6, <1>7, <1>8, <1>9, <1>10, <1>11, <1>12, <1>13, <1>14,
     <1>15, <1>16, <1>17, <1>18 DEF CacheNext

LEMMA TypesInductive == CacheTypes /\ CallInv /\ [CacheNext]_cacheVars => CacheTypes'
BY TypesInParts, DiskInductive, CallInductive, TmpInductive, BoundedInductive, PTL

LEMMA CallInvInductive ==
    CacheTypes /\ CallInv /\ [CacheNext]_cacheVars
    => CallInv'
<1> SUFFICES ASSUME CacheTypes, CallInv, [CacheNext]_cacheVars
             PROVE  CallInv'
  OBVIOUS
<1> USE DEF CacheTypes, CacheTypeOK, CallInv
<1>1. ASSUME NEW p \in Procs, NEW k \in Keys, NEW v \in Values, Put(p, k, v)
      PROVE  CallInv'
  BY <1>1 DEF Put, Begin, Goto
<1>2. ASSUME NEW p \in Procs, NEW k \in Keys, Get(p, k)
      PROVE  CallInv'
  BY <1>2 DEF Get, Begin, Goto
<1>3. ASSUME NEW p \in Procs, NEW k \in Keys, Delete(p, k)
      PROVE  CallInv'
  BY <1>3 DEF Delete, Begin, Goto
<1>4. ASSUME NEW p \in Procs, WriteTmp(p) \/ Replace(p)
      PROVE  CallInv'
  BY <1>4 DEF WriteTmp, Replace, Return, Goto, locals
<1>5. ASSUME NEW p \in Procs, PutFails(p) \/ ReadIndex(p)
      PROVE  CallInv'
  BY <1>5 DEF PutFails, ReadIndex, Return, Goto, locals
<1>6. ASSUME NEW p \in Procs, WriteIndex(p) \/ Exists(p)
      PROVE  CallInv'
  BY <1>6 DEF WriteIndex, Exists, Return, Goto, locals
<1>7. ASSUME NEW p \in Procs, Read(p) \/ Quarantine(p)
      PROVE  CallInv'
  BY <1>7 DEF Read, Quarantine, Return, Goto, locals
<1>8. ASSUME NEW p \in Procs, Existed(p) \/ Crash(p)
      PROVE  CallInv'
  BY <1>8 DEF Existed, Crash, Return, Goto, locals
<1>9. ASSUME NEW p \in Procs, Unlink(p)
      PROVE  CallInv'
  BY <1>9 DEF Unlink, Return, Goto, locals
<1>10. ASSUME NEW p \in Procs, Unlist(p)
       PROVE  CallInv'
  BY <1>10 DEF Unlist, Return, Goto, locals
<1>11. ASSUME NEW k \in Keys, DamageEntry(k)
       PROVE  CallInv'
  BY <1>11 DEF DamageEntry, locals
<1>12. ASSUME DamageIndex
       PROVE  CallInv'
  BY <1>12 DEF DamageIndex, locals
<1>13. CASE UNCHANGED cacheVars
  BY <1>13 DEF locals, cacheVars
<1> QED
  BY <1>1, <1>2, <1>3, <1>4, <1>5, <1>6, <1>7, <1>8, <1>9, <1>10, <1>11, <1>12, <1>13 DEF CacheNext

LEMMA NoPartialInductive ==
    CacheTypes /\ CallInv /\ NoPartialEntry /\ [CacheNext]_cacheVars
    => NoPartialEntry'
<1> SUFFICES ASSUME CacheTypes, CallInv, NoPartialEntry, [CacheNext]_cacheVars
             PROVE  NoPartialEntry'
  OBVIOUS
<1> USE NoValues DEF CacheTypes, CacheTypeOK, CallInv, NoPartialEntry, disk
<1>1. ASSUME NEW p \in Procs, NEW k \in Keys, NEW v \in Values, Put(p, k, v)
      PROVE  NoPartialEntry'
  BY <1>1 DEF Put
<1>2. ASSUME NEW p \in Procs, NEW k \in Keys, Get(p, k)
      PROVE  NoPartialEntry'
  BY <1>2 DEF Get
<1>3. ASSUME NEW p \in Procs, NEW k \in Keys, Delete(p, k)
      PROVE  NoPartialEntry'
  BY <1>3 DEF Delete
<1>4. ASSUME NEW p \in Procs,
             \/ WriteTmp(p) \/ PutFails(p) \/ ReadIndex(p) \/ WriteIndex(p) \/ Exists(p)
             \/ Read(p) \/ Existed(p) \/ Unlist(p) \/ Crash(p)
      PROVE  NoPartialEntry'
  BY <1>4 DEF WriteTmp, PutFails, ReadIndex, WriteIndex, Exists, Read, Existed, Unlist, Crash
<1>5. ASSUME NEW p \in Procs, Replace(p)
      PROVE  NoPartialEntry'
  BY <1>5 DEF Replace, SetFile
<1>6. ASSUME NEW p \in Procs, Quarantine(p)
      PROVE  NoPartialEntry'
  BY <1>6 DEF Quarantine, SetFile
<1>7. ASSUME NEW p \in Procs, Unlink(p)
      PROVE  NoPartialEntry'
  BY <1>7 DEF Unlink, SetFile
<1>8. ASSUME NEW k \in Keys, DamageEntry(k)
      PROVE  NoPartialEntry'
  BY <1>8 DEF DamageEntry, SetFile
<1>9. ASSUME DamageIndex
      PROVE  NoPartialEntry'
  BY <1>9 DEF DamageIndex
<1>10. CASE UNCHANGED cacheVars
  BY <1>10 DEF cacheVars
<1> QED
  BY <1>1, <1>2, <1>3, <1>4, <1>5, <1>6, <1>7, <1>8, <1>9, <1>10 DEF CacheNext

\* A call that returns while files and what gets have seen stay as they are.
LEMMA TruthfulReturn ==
    ASSUME CacheTypes, TruthInv, NEW p \in Procs, NEW r, Return(p, r),
           UNCHANGED <<files, key, seen>>,
           r \in Values => r \in seen[p],
           r = "miss" => seen[p] \cap {Absent, Partial, Corrupt} # {}
    PROVE  TruthInv'
<1>1. /\ pc' = [pc EXCEPT ![p] = "idle"] /\ pc \in [Procs -> Label]
      /\ result' = [result EXCEPT ![p] = r] /\ result \in [Procs -> Outcome]
  BY DEF Return, Goto, CacheTypes, CacheTypeOK
<1>2. ReadInv'
  BY <1>1 DEF TruthInv, ReadInv, Reading
<1>3. GetTellsTruth'
  BY <1>1 DEF TruthInv, GetTellsTruth
<1> QED
  BY <1>2, <1>3 DEF TruthInv

\* A call that goes on, likewise.
LEMMA TruthfulStep ==
    ASSUME CacheTypes, TruthInv, NEW p \in Procs, NEW l, Goto(p, l),
           UNCHANGED <<files, key, seen, result>>,
           l \in {"exists", "read", "quarantine"} => Reading(p),
           l = "quarantine" => seen[p] \cap {Absent, Partial, Corrupt} # {}
    PROVE  TruthInv'
BY DEF TruthInv, GetTellsTruth, ReadInv, Reading, Goto, CacheTypes, CacheTypeOK

\* A file changes: the gets that may still find what it holds have seen it.
LEMMA TruthfulFile ==
    ASSUME CacheTypes, TruthInv, NEW k \in Keys, NEW c \in Content, SetFile(k, c),
           UNCHANGED <<pc, key, result>>
    PROVE  TruthInv'
<1>1. /\ files' = [files EXCEPT ![k] = c] /\ files \in [Keys -> Content]
      /\ \A p \in Procs :
            /\ seen[p] \subseteq seen'[p]
            /\ Reading(p) /\ key[p] = k => c \in seen'[p]
  BY DEF SetFile, CacheTypes, CacheTypeOK
<1>2. ReadInv'
  BY <1>1 DEF TruthInv, ReadInv, Reading
<1>3. GetTellsTruth'
  BY <1>1 DEF TruthInv, GetTellsTruth
<1> QED
  BY <1>2, <1>3 DEF TruthInv

LEMMA TruthInductive ==
    CacheTypes /\ CallInv /\ TruthInv /\ [CacheNext]_cacheVars
    => TruthInv'
<1> SUFFICES ASSUME CacheTypes, CallInv, TruthInv, [CacheNext]_cacheVars
             PROVE  TruthInv'
  OBVIOUS
<1>1. ASSUME NEW p \in Procs, NEW k \in Keys, NEW v \in Values, Put(p, k, v)
      PROVE  TruthInv'
  BY <1>1, NotValues
     DEF Put, Begin, Goto, TruthInv, ReadInv, Reading, GetTellsTruth, CacheTypes, CacheTypeOK, disk,
         locals, history
<1>2. ASSUME NEW p \in Procs, NEW k \in Keys, Get(p, k)
      PROVE  TruthInv'
  BY <1>2, NotValues
     DEF Get, Begin, Goto, TruthInv, ReadInv, Reading, GetTellsTruth, CacheTypes, CacheTypeOK, disk,
         locals, history
<1>3. ASSUME NEW p \in Procs, NEW k \in Keys, Delete(p, k)
      PROVE  TruthInv'
  BY <1>3, NotValues
     DEF Delete, Begin, Goto, TruthInv, ReadInv, Reading, GetTellsTruth, CacheTypes, CacheTypeOK,
         disk, locals, history
<1>4. ASSUME NEW p \in Procs, WriteTmp(p)
      PROVE  TruthInv'
  BY <1>4, TruthfulStep DEF WriteTmp, CacheTypes, CacheTypeOK, disk, locals, history
<1>5. ASSUME NEW p \in Procs, Replace(p)
      PROVE  TruthInv'
  BY <1>5, NoValues
     DEF Replace, CallInv, TruthInv, ReadInv, Reading, GetTellsTruth, SetFile, Goto, Return,
         CacheTypes, CacheTypeOK, disk, locals, history
<1>6. ASSUME NEW p \in Procs, PutFails(p)
      PROVE  TruthInv'
  BY <1>6, NotValues, NoValues, TruthfulReturn
     DEF PutFails, CacheTypes, CacheTypeOK, disk, locals, history
<1>7. ASSUME NEW p \in Procs, ReadIndex(p)
      PROVE  TruthInv'
  BY <1>7, TruthfulStep DEF ReadIndex, CacheTypes, CacheTypeOK, disk, locals, history
<1>8. ASSUME NEW p \in Procs, WriteIndex(p)
      PROVE  TruthInv'
  BY <1>8, NotValues, NoValues, TruthfulReturn
     DEF WriteIndex, CacheTypes, CacheTypeOK, disk, locals, history
<1>9. ASSUME NEW p \in Procs, Exists(p)
      PROVE  TruthInv'
  <2>1. CASE files[key[p]] = Absent
    BY <1>9, <2>1, NoValues, NotValues, TruthfulReturn
       DEF Exists, CacheTypes, CacheTypeOK, disk, locals, history, TruthInv, ReadInv, Reading
  <2>2. CASE files[key[p]] # Absent
    BY <1>9, <2>2, TruthfulStep DEF Exists, Reading, CacheTypes, CacheTypeOK, disk, locals, history
  <2> QED
    BY <2>1, <2>2
<1>10. ASSUME NEW p \in Procs, Read(p)
       PROVE  TruthInv'
  <2>1. files[key[p]] \in seen[p] /\ files[key[p]] \in Content
    BY <1>10 DEF Read, TruthInv, ReadInv, Reading, CallInv, CacheTypes, CacheTypeOK
  <2>2. CASE files[key[p]] \in Values
    BY <1>10, <2>1, <2>2, NotValues, TruthfulReturn
       DEF Read, CacheTypes, CacheTypeOK, disk, locals, history
  <2>3. CASE files[key[p]] = Absent
    BY <1>10, <2>1, <2>3, NotValues, NoValues, TruthfulReturn
       DEF Read, CacheTypes, CacheTypeOK, disk, locals, history
  <2>4. CASE files[key[p]] \in {Partial, Corrupt}
    BY <1>10, <2>1, <2>4, NoValues, TruthfulStep
       DEF Read, Reading, CacheTypes, CacheTypeOK, disk, locals, history
  <2> QED
    BY <2>1, <2>2, <2>3, <2>4 DEF Content
<1>11. ASSUME NEW p \in Procs, Quarantine(p)
       PROVE  TruthInv'
  <2>1. CASE files[key[p]] = Absent
    BY <1>11, <2>1, NoValues, NotValues, TruthfulReturn
       DEF Quarantine, TruthInv, ReadInv, CacheTypes, CacheTypeOK, disk, locals, history
  <2>2. CASE files[key[p]] # Absent
    <3>1. /\ files' = [files EXCEPT ![key[p]] = Absent] /\ key' = key
          /\ pc' = [pc EXCEPT ![p] = "idle"] /\ result' = [result EXCEPT ![p] = "miss"]
          /\ pc[p] = "quarantine" /\ key[p] \in Keys
      BY <1>11, <2>2 DEF Quarantine, SetFile, Return, Goto, locals, CallInv
    <3>2. \A q \in Procs :
              /\ seen[q] \subseteq seen'[q]
              /\ Reading(q) /\ key[q] = key[p] => Absent \in seen'[q]
      BY <1>11, <2>2 DEF Quarantine, SetFile, CacheTypes, CacheTypeOK
    <3>3. ReadInv'
      BY <3>1, <3>2 DEF TruthInv, ReadInv, Reading, CacheTypes, CacheTypeOK
    <3>4. GetTellsTruth'
      BY <3>1, <3>2, NotValues DEF TruthInv, ReadInv, GetTellsTruth, CacheTypes
    <3> QED
      BY <3>3, <3>4 DEF TruthInv
  <2> QED
    BY <2>1, <2>2
<1>12. ASSUME NEW p \in Procs, Existed(p)
       PROVE  TruthInv'
  BY <1>12, TruthfulStep DEF Existed, CacheTypes, CacheTypeOK, disk, locals, history
<1>13. ASSUME NEW p \in Procs, Unlink(p)
       PROVE  TruthInv'
  <2>1. CASE files[key[p]] = Absent
    BY <1>13, <2>1, NoValues, NotValues, TruthfulReturn
       DEF Unlink, CacheTypes, CacheTypeOK, disk, locals, history
  <2>2. CASE files[key[p]] # Absent
    BY <1>13, <2>2, NoValues
       DEF Unlink, CallInv, TruthInv, ReadInv, Reading, GetTellsTruth, SetFile, Goto, Return,
           CacheTypes, CacheTypeOK, disk, locals, history
  <2> QED
    BY <2>1, <2>2
<1>14. ASSUME NEW p \in Procs, Unlist(p)
       PROVE  TruthInv'
  <2>1. CASE manifest # NoIndex /\ key[p] \in manifest
    BY <1>14, <2>1, TruthfulStep DEF Unlist, CacheTypes, CacheTypeOK, disk, locals, history
  <2>2. CASE ~ (manifest # NoIndex /\ key[p] \in manifest)
    BY <1>14, <2>2, NotValues, TruthfulReturn
       DEF Unlist, CacheTypes, CacheTypeOK, disk, locals, history
  <2> QED
    BY <2>1, <2>2
<1>15. ASSUME NEW p \in Procs, Crash(p)
       PROVE  TruthInv'
  BY <1>15, NotValues, NoValues, TruthfulReturn
     DEF Crash, CacheTypes, CacheTypeOK, disk, locals, history
<1>16. ASSUME NEW k \in Keys, DamageEntry(k)
       PROVE  TruthInv'
  BY <1>16, TruthfulFile DEF DamageEntry, Content, locals
<1>17. ASSUME DamageIndex
       PROVE  TruthInv'
  BY <1>17 DEF DamageIndex, TruthInv, ReadInv, Reading, GetTellsTruth, locals, history
<1>18. CASE UNCHANGED cacheVars
  BY <1>18 DEF TruthInv, ReadInv, Reading, GetTellsTruth, disk, locals, cacheVars
<1> QED
  BY <1>1, <1>2, <1>3, <1>4, <1>5, <1>6, <1>7, <1>8, <1>9, <1>10, <1>11, <1>12, <1>13, <1>14,
     <1>15, <1>16, <1>17, <1>18 DEF CacheNext

\* The types of the histories that stand alone.
HistoryTypes == kept \in [Keys -> BOOLEAN] /\ overlapped \in BOOLEAN

LEMMA HistoryInductive ==
    CacheTypes /\ CallInv /\ HistoryTypes /\ [CacheNext]_cacheVars
    => HistoryTypes'
<1> SUFFICES ASSUME CacheTypes, CallInv, HistoryTypes, [CacheNext]_cacheVars
             PROVE  HistoryTypes'
  OBVIOUS
<1> USE DEF HistoryTypes, CacheTypes, CacheTypeOK, CallInv, asked, bounds, history
<1>1. ASSUME NEW p \in Procs, NEW k \in Keys, NEW v \in Values, Put(p, k, v)
      PROVE  HistoryTypes'
  BY <1>1 DEF Put, Begin
<1>2. ASSUME NEW p \in Procs, NEW k \in Keys, Get(p, k)
      PROVE  HistoryTypes'
  BY <1>2 DEF Get, Begin
<1>3. ASSUME NEW p \in Procs, NEW k \in Keys, Delete(p, k)
      PROVE  HistoryTypes'
  BY <1>3 DEF Delete, Begin
<1>4. ASSUME NEW p \in Procs,
             \/ WriteTmp(p) \/ Replace(p) \/ PutFails(p) \/ ReadIndex(p) \/ WriteIndex(p)
             \/ Exists(p) \/ Read(p) \/ Quarantine(p) \/ Existed(p) \/ Unlink(p)
             \/ Unlist(p) \/ Crash(p)
      PROVE  HistoryTypes'
  BY <1>4
     DEF WriteTmp, Replace, PutFails, ReadIndex, WriteIndex, Exists, Read, Quarantine, Existed,
         Unlink, Unlist, Crash
<1>5. ASSUME NEW k \in Keys, DamageEntry(k)
      PROVE  HistoryTypes'
  BY <1>5 DEF DamageEntry
<1>6. ASSUME DamageIndex
      PROVE  HistoryTypes'
  BY <1>6 DEF DamageIndex
<1>7. CASE UNCHANGED cacheVars
  BY <1>7 DEF cacheVars
<1> QED
  BY <1>1, <1>2, <1>3, <1>4, <1>5, <1>6, <1>7 DEF CacheNext

\* A call goes on or returns, and leaves the entries alone.
LEMMA SoloStep ==
    ASSUME CacheTypes, SoloInv, RecordedStays, NEW p \in Procs, NEW l, pc[p] # "idle",
           pc' = [pc EXCEPT ![p] = l], l # "quarantine",
           UNCHANGED <<files, key, kept, overlapped>>
    PROVE  (SoloInv /\ RecordedStays)'
BY DEF SoloInv, RecordedStays, CacheTypes, CacheTypeOK

LEMMA SoloInductive ==
    CacheTypes /\ CallInv /\ HistoryTypes /\ SoloInv /\ RecordedStays /\ [CacheNext]_cacheVars
    => (SoloInv /\ RecordedStays)'
<1> SUFFICES ASSUME CacheTypes, CallInv, HistoryTypes, SoloInv, RecordedStays, [CacheNext]_cacheVars
             PROVE  (SoloInv /\ RecordedStays)'
  OBVIOUS
<1>1. ASSUME NEW p \in Procs, NEW k \in Keys, NEW v \in Values, Put(p, k, v)
      PROVE  (SoloInv /\ RecordedStays)'
  BY <1>1
     DEF Put, Begin, Goto, SoloInv, RecordedStays, CacheTypes, CacheTypeOK, CallInv, asked, bounds,
         locals, history, disk
<1>2. ASSUME NEW p \in Procs, NEW k \in Keys, Get(p, k)
      PROVE  (SoloInv /\ RecordedStays)'
  BY <1>2
     DEF Get, Begin, Goto, SoloInv, RecordedStays, CacheTypes, CacheTypeOK, CallInv, asked, bounds,
         locals, history, disk
<1>3. ASSUME NEW p \in Procs, NEW k \in Keys, Delete(p, k)
      PROVE  (SoloInv /\ RecordedStays)'
  BY <1>3
     DEF Delete, Begin, Goto, SoloInv, RecordedStays, CacheTypes, CacheTypeOK, CallInv, asked,
         bounds, locals, history, disk
<1>4. ASSUME NEW p \in Procs, WriteTmp(p)
      PROVE  (SoloInv /\ RecordedStays)'
  BY <1>4, SoloStep DEF WriteTmp, Return, Goto, asked, bounds, locals, history, disk
<1>5. ASSUME NEW p \in Procs, Replace(p)
      PROVE  (SoloInv /\ RecordedStays)'
  BY <1>5, NoValues
     DEF Replace, SetFile, Return, Goto, SoloInv, RecordedStays, CacheTypes, CacheTypeOK, CallInv,
         asked, bounds, locals, history, disk
<1>6. ASSUME NEW p \in Procs, PutFails(p)
      PROVE  (SoloInv /\ RecordedStays)'
  BY <1>6, SoloStep DEF PutFails, Return, Goto, asked, bounds, locals, history, disk
<1>7. ASSUME NEW p \in Procs, ReadIndex(p)
      PROVE  (SoloInv /\ RecordedStays)'
  BY <1>7, SoloStep DEF ReadIndex, Return, Goto, asked, bounds, locals, history, disk
<1>8. ASSUME NEW p \in Procs, WriteIndex(p)
      PROVE  (SoloInv /\ RecordedStays)'
  BY <1>8, SoloStep DEF WriteIndex, Return, Goto, asked, bounds, locals, history, disk
<1>9. ASSUME NEW p \in Procs, Exists(p)
      PROVE  (SoloInv /\ RecordedStays)'
  BY <1>9, SoloStep DEF Exists, Return, Goto, asked, bounds, locals, history, disk
<1>10. ASSUME NEW p \in Procs, Read(p)
       PROVE  (SoloInv /\ RecordedStays)'
  BY <1>10, NoValues
     DEF Read, SetFile, Return, Goto, SoloInv, RecordedStays, CacheTypes, CacheTypeOK, CallInv,
         asked, bounds, locals, history, disk
<1>11. ASSUME NEW p \in Procs, Quarantine(p)
       PROVE  (SoloInv /\ RecordedStays)'
  BY <1>11, NoValues
     DEF Quarantine, SetFile, Return, Goto, SoloInv, RecordedStays, CacheTypes, CacheTypeOK,
         CallInv, asked, bounds, locals, history, disk
<1>12. ASSUME NEW p \in Procs, Existed(p)
       PROVE  (SoloInv /\ RecordedStays)'
  BY <1>12, SoloStep DEF Existed, Return, Goto, asked, bounds, locals, history, disk
<1>13. ASSUME NEW p \in Procs, Unlink(p)
       PROVE  (SoloInv /\ RecordedStays)'
  <2>1. CASE files[key[p]] = Absent
    <3>1. /\ UNCHANGED <<files, kept, key, overlapped>> /\ pc[p] = "unlink"
          /\ pc' = [pc EXCEPT ![p] = "idle"]
      BY <1>13, <2>1 DEF Unlink, Return, Goto, bounds, asked, locals
    <3> QED
      BY <3>1, SoloStep
  <2>2. CASE files[key[p]] # Absent
    BY <1>13, <2>2, NoValues
       DEF Unlink, SetFile, Goto, HistoryTypes, SoloInv, RecordedStays, CacheTypes, CacheTypeOK,
           CallInv, asked, bounds, locals, history, disk
  <2> QED
    BY <2>1, <2>2
<1>14. ASSUME NEW p \in Procs, Unlist(p)
       PROVE  (SoloInv /\ RecordedStays)'
  BY <1>14, SoloStep DEF Unlist, Return, Goto, asked, bounds, locals, history, disk
<1>15. ASSUME NEW p \in Procs, Crash(p)
       PROVE  (SoloInv /\ RecordedStays)'
  BY <1>15, SoloStep DEF Crash, Return, Goto, asked, bounds, locals, history, disk
<1>16. ASSUME NEW k \in Keys, DamageEntry(k)
       PROVE  (SoloInv /\ RecordedStays)'
  BY <1>16, NoValues
     DEF DamageEntry, SetFile, HistoryTypes, SoloInv, RecordedStays, CacheTypes, CacheTypeOK,
         CallInv, asked, bounds, locals, history, disk
<1>17. ASSUME DamageIndex
       PROVE  (SoloInv /\ RecordedStays)'
  BY <1>17
     DEF DamageIndex, SoloInv, RecordedStays, CacheTypes, CacheTypeOK, CallInv, asked, bounds,
         locals, history, disk
<1>18. CASE UNCHANGED cacheVars
  BY <1>18
     DEF SoloInv, RecordedStays, CacheTypes, CacheTypeOK, CallInv, asked, bounds, locals, history,
         disk, cacheVars
<1> QED
  BY <1>1, <1>2, <1>3, <1>4, <1>5, <1>6, <1>7, <1>8, <1>9, <1>10, <1>11, <1>12, <1>13, <1>14,
     <1>15, <1>16, <1>17, <1>18 DEF CacheNext

LEMMA ListInductive ==
    CacheTypes /\ CallInv /\ SoloInv /\ ListInv /\ [CacheNext]_cacheVars
    => ListInv'
<1> SUFFICES ASSUME CacheTypes, CallInv, SoloInv, ListInv, [CacheNext]_cacheVars
             PROVE  ListInv'
  OBVIOUS
<1>1. ASSUME NEW p \in Procs, NEW k \in Keys, NEW v \in Values, Put(p, k, v)
      PROVE  ListInv'
  BY <1>1
     DEF Put, Begin, Goto, ListInv, CacheTypes, CacheTypeOK, CallInv, asked, bounds, locals,
         history, disk, outside, Index, Scan
<1>2. ASSUME NEW p \in Procs, NEW k \in Keys, Get(p, k)
      PROVE  ListInv'
  BY <1>2
     DEF Get, Begin, Goto, ListInv, CacheTypes, CacheTypeOK, CallInv, asked, bounds, locals,
         history, disk, outside, Index, Scan
<1>3. ASSUME NEW p \in Procs, NEW k \in Keys, Delete(p, k)
      PROVE  ListInv'
  BY <1>3
     DEF Delete, Begin, Goto, ListInv, CacheTypes, CacheTypeOK, CallInv, asked, bounds, locals,
         history, disk, outside, Index, Scan
<1>4. ASSUME NEW p \in Procs, WriteTmp(p)
      PROVE  ListInv'
  BY <1>4, BoundsAreNumbers
     DEF WriteTmp, Return, Goto, SoloInv, ListInv, CacheTypes, CacheTypeOK, CallInv, asked, bounds,
         locals, history, disk, outside, Index, Scan
<1>5. ASSUME NEW p \in Procs, Replace(p)
      PROVE  ListInv'
  BY <1>5, NoValues
     DEF Replace, SetFile, Return, Goto, SoloInv, ListInv, CacheTypes, CacheTypeOK, CallInv, asked,
         bounds, locals, history, disk, outside, Index, Scan
<1>6. ASSUME NEW p \in Procs, PutFails(p)
      PROVE  ListInv'
  BY <1>6, BoundsAreNumbers
     DEF PutFails, Return, Goto, SoloInv, ListInv, CacheTypes, CacheTypeOK, CallInv, asked, bounds,
         locals, history, disk, outside, Index, Scan
<1>7. ASSUME NEW p \in Procs, ReadIndex(p)
      PROVE  ListInv'
  BY <1>7, BoundsAreNumbers
     DEF ReadIndex, Return, Goto, SoloInv, ListInv, CacheTypes, CacheTypeOK, CallInv, asked, bounds,
         locals, history, disk, outside, Index, Scan
<1>8. ASSUME NEW p \in Procs, WriteIndex(p)
      PROVE  ListInv'
  BY <1>8, BoundsAreNumbers
     DEF WriteIndex, Return, Goto, SoloInv, ListInv, CacheTypes, CacheTypeOK, CallInv, asked,
         bounds, locals, history, disk, outside, Index, Scan
<1>9. ASSUME NEW p \in Procs, Exists(p)
      PROVE  ListInv'
  BY <1>9, BoundsAreNumbers
     DEF Exists, Return, Goto, SoloInv, ListInv, CacheTypes, CacheTypeOK, CallInv, asked, bounds,
         locals, history, disk, outside, Index, Scan
<1>10. ASSUME NEW p \in Procs, Read(p)
       PROVE  ListInv'
  BY <1>10, BoundsAreNumbers
     DEF Read, Return, Goto, SoloInv, ListInv, CacheTypes, CacheTypeOK, CallInv, asked, bounds,
         locals, history, disk, outside, Index, Scan
<1>11. ASSUME NEW p \in Procs, Quarantine(p)
       PROVE  ListInv'
  BY <1>11, NoValues
     DEF Quarantine, SetFile, Return, Goto, SoloInv, ListInv, CacheTypes, CacheTypeOK, CallInv,
         asked, bounds, locals, history, disk, outside, Index, Scan
<1>12. ASSUME NEW p \in Procs, Existed(p)
       PROVE  ListInv'
  BY <1>12, BoundsAreNumbers
     DEF Existed, Return, Goto, SoloInv, ListInv, CacheTypes, CacheTypeOK, CallInv, asked, bounds,
         locals, history, disk, outside, Index, Scan
<1>13. ASSUME NEW p \in Procs, Unlink(p)
       PROVE  ListInv'
  <2>1. UNCHANGED <<manifest, index, key, overlapped, faults, kills>> /\ pc[p] = "unlink"
    BY <1>13 DEF Unlink, bounds, asked, locals
  <2>2. CASE files[key[p]] = Absent
    <3>1. UNCHANGED files /\ pc' = [pc EXCEPT ![p] = "idle"]
      BY <1>13, <2>2 DEF Unlink, Return, Goto
    <3> QED
      BY <2>1, <3>1 DEF ListInv, CacheTypes, CacheTypeOK, Index, Scan
  <2>3. CASE files[key[p]] # Absent
    <3>1. /\ files' = [files EXCEPT ![key[p]] = Absent]
          /\ pc' = [pc EXCEPT ![p] = "unlist"]
      BY <1>13, <2>3 DEF Unlink, SetFile, Goto
    <3> QED
      BY <2>1, <3>1 DEF ListInv, SoloInv, CacheTypes, CacheTypeOK, CallInv, Index, Scan
  <2> QED
    BY <2>2, <2>3
<1>14. ASSUME NEW p \in Procs, Unlist(p)
       PROVE  ListInv'
  <2>1. /\ UNCHANGED <<files, manifest, key, overlapped, faults, kills>>
        /\ pc[p] \in {"unlist", "unlist_only"}
    BY <1>14 DEF Unlist, bounds, asked, disk
  <2>2. CASE manifest # NoIndex /\ key[p] \in manifest
    <3>1. /\ index' = [index EXCEPT ![p] = manifest \ {key[p]}]
          /\ \E l \in {"write_less", "write_index"} : pc' = [pc EXCEPT ![p] = l]
      BY <1>14, <2>2 DEF Unlist, Goto
    <3> QED
      BY <2>1, <2>2, <3>1 DEF ListInv, SoloInv, CacheTypes, CacheTypeOK, Index, Scan
  <2>3. CASE ~ (manifest # NoIndex /\ key[p] \in manifest)
    <3>1. UNCHANGED index /\ pc' = [pc EXCEPT ![p] = "idle"]
      BY <1>14, <2>3 DEF Unlist, Return, Goto
    <3> QED
      BY <2>1, <3>1 DEF ListInv, CacheTypes, CacheTypeOK, Index, Scan
  <2> QED
    BY <2>2, <2>3
<1>15. ASSUME NEW p \in Procs, Crash(p)
       PROVE  ListInv'
  BY <1>15, BoundsAreNumbers
     DEF Crash, Return, Goto, SoloInv, ListInv, CacheTypes, CacheTypeOK, CallInv, asked, bounds,
         locals, history, disk, outside, Index, Scan
<1>16. ASSUME NEW k \in Keys, DamageEntry(k)
       PROVE  ListInv'
  BY <1>16, NoValues
     DEF DamageEntry, SetFile, ListInv, CacheTypes, CacheTypeOK, CallInv, asked, bounds, locals,
         history, disk, outside, Index, Scan
<1>17. ASSUME DamageIndex
       PROVE  ListInv'
  BY <1>17
     DEF DamageIndex, ListInv, CacheTypes, CacheTypeOK, CallInv, asked, bounds, locals, history,
         disk, outside, Index, Scan
<1>18. CASE UNCHANGED cacheVars
  BY <1>18
     DEF ListInv, CacheTypes, CacheTypeOK, CallInv, asked, bounds, locals, history, disk, outside,
         Index, Scan, cacheVars
<1> QED
  BY <1>1, <1>2, <1>3, <1>4, <1>5, <1>6, <1>7, <1>8, <1>9, <1>10, <1>11, <1>12, <1>13, <1>14,
     <1>15, <1>16, <1>17, <1>18 DEF CacheNext

-----------------------------------------------------------------------------

CacheInv ==
    /\ CacheTypes /\ HistoryTypes /\ CallInv
    /\ NoPartialEntry
    /\ TruthInv
    /\ SoloInv /\ RecordedStays
    /\ ListInv

LEMMA CacheInvHolds == CacheSpec => []CacheInv
<1>1. CacheInit => CacheInv
  <2> SUFFICES ASSUME CacheInit
               PROVE  CacheInv
    OBVIOUS
  <2>1. CacheTypes
    <3>1. DiskTypes
      BY DEF CacheInit, DiskTypes, Content
    <3>2. CallTypes
      BY Outcomes DEF CacheInit, CallTypes, Label
    <3>3. TmpTypes
      BY DEF CacheInit, TmpTypes
    <3>4. Bounded
      BY BoundsAreNumbers DEF CacheInit, Bounded
    <3> QED
      BY <3>1, <3>2, <3>3, <3>4, TypesInParts
  <2>2. HistoryTypes /\ CallInv /\ SoloInv
    BY DEF CacheInit, HistoryTypes, CallInv, SoloInv
  <2>3. NoPartialEntry /\ TruthInv /\ RecordedStays
    BY NoValues, NotValues
       DEF CacheInit, NoPartialEntry, TruthInv, ReadInv, Reading, GetTellsTruth, RecordedStays
  <2>4. ListInv
    BY DEF CacheInit, ListInv, Scan
  <2> QED
    BY <2>1, <2>2, <2>3, <2>4 DEF CacheInv
<1>2. CacheInv /\ [CacheNext]_cacheVars => CacheInv'
  BY TypesInductive, HistoryInductive, CallInvInductive, NoPartialInductive, TruthInductive,
     SoloInductive, ListInductive DEF CacheInv
<1> QED
  BY <1>1, <1>2, PTL DEF CacheSpec

\* Every variable of the cache keeps its type, and a process that lives has a temporary
\* file exactly while it writes one (put removes it when it fails).
THEOREM CacheKeepsTypes == CacheSpec => []CacheTypeOK
<1>1. CacheInv => CacheTypeOK
  BY DEF CacheInv, CacheTypes
<1> QED
  BY <1>1, CacheInvHolds, PTL

\* put writes a temporary file and renames it: whoever writes at the same time, fails or
\* dies, no entry and no quarantined file ever holds part of a value.
THEOREM WritesAreAtomic == CacheSpec => []NoPartialEntry
<1>1. CacheInv => NoPartialEntry
  BY DEF CacheInv
<1> QED
  BY <1>1, CacheInvHolds, PTL

\* Whatever happens between exists, open and the quarantine of get, what it returns was
\* true of the entry at some moment of the call.
THEOREM GetsTellTheTruth == CacheSpec => []GetTellsTruth
<1>1. CacheInv => GetTellsTruth
  BY DEF CacheInv, TruthInv
<1> QED
  BY <1>1, CacheInvHolds, PTL

\* As long as calls take turns, put, get and delete lose no entry that was kept.
THEOREM RecordedEntriesStay == CacheSpec => []RecordedStays
<1>1. CacheInv => RecordedStays
  BY DEF CacheInv
<1> QED
  BY <1>1, CacheInvHolds, PTL

\* As long as calls take turns and none is cut short, the manifest, or the scan that
\* stands in for it, shows every entry there is.
THEOREM ListShowsEveryEntry == CacheSpec => []EntriesAreListed
<1>1. CacheInv => EntriesAreListed
  <2> SUFFICES ASSUME CacheInv, ~overlapped, faults = 0, kills = 0, Quiet
               PROVE  Scan \subseteq Index
    BY DEF EntriesAreListed
  <2> QED
    BY DEF CacheInv, ListInv, Quiet
<1> QED
  BY <1>1, CacheInvHolds, PTL

-----------------------------------------------------------------------------
(***************************************************************************)
(* CostStore.                                                              *)
(***************************************************************************)

EdgeInv ==
    /\ heard \in [Crossings -> Nat]
    /\ \A k \in Crossings : heard[k] <= 1
    /\ \A k \in Crossings \cap fresh : heard[k] = 0

CallbackInv ==
    /\ stage \in [Wrappers -> {"idle", "check", "warn"}]
    /\ warnings \in [Wrappers -> SUBSET Crossings]
    /\ wrapperFired \in [Wrappers -> SUBSET Crossings]
    /\ active \in [Wrappers -> SUBSET Crossings]
    /\ \A w \in Wrappers : active[w] \subseteq wrapperFired[w] \cup warnings[w]
    /\ \A w \in Wrappers : stage[w] # "warn" => warnings[w] = {}

-----------------------------------------------------------------------------

\* A check of the budgets starts every edge it finds at zero and makes nothing else fresh.
LEMMA EdgesStartUnheard ==
    ASSUME EdgeInv, NEW limits, UpdateEdges(limits)
    PROVE  EdgeInv'
BY DEF EdgeInv, UpdateEdges

\* A step that leaves what was heard alone, and makes nothing fresh, keeps the invariant.
LEMMA NothingHeard ==
    ASSUME EdgeInv, UNCHANGED heard, fresh' \subseteq fresh
    PROVE  EdgeInv'
BY DEF EdgeInv

\* emit_warning takes the edge away as the listeners hear of it.
LEMMA HeardIsNotFresh ==
    ASSUME EdgeInv, NEW k \in Crossings, EmitWarning(k)
    PROVE  EdgeInv'
<1>1. CASE k \in fresh
  BY <1>1 DEF EdgeInv, EmitWarning
<1>2. CASE k \notin fresh
  BY <1>2 DEF EdgeInv, EmitWarning
<1> QED
  BY <1>1, <1>2

LEMMA EdgeInvInductive == EdgeInv /\ [CostNext]_costVars => EdgeInv'
<1> SUFFICES ASSUME EdgeInv, [CostNext]_costVars
             PROVE  EdgeInv'
  OBVIOUS
<1>1. ASSUME NEW w \in Wrappers, NEW units \in Units, MeterSuccess(w, units)
      PROVE  EdgeInv'
  BY <1>1, NothingHeard DEF MeterSuccess
<1>2. ASSUME NEW w \in Wrappers, MeterFailure(w)
      PROVE  EdgeInv'
  BY <1>2, NothingHeard DEF MeterFailure
<1>3. ASSUME NEW w \in Wrappers, CheckBudget(w)
      PROVE  EdgeInv'
  BY <1>3, EdgesStartUnheard DEF CheckBudget
<1>4. ASSUME NEW w \in Wrappers, Metered(w)
      PROVE  EdgeInv'
  BY <1>4, NothingHeard DEF Metered
<1>5. ASSUME NEW w \in Wrappers, NEW k \in Crossings, Warn(w, k)
      PROVE  EdgeInv'
  <2>1. CASE k \in wrapperFired[w]
    BY <1>5, <2>1, NothingHeard DEF Warn
  <2>2. CASE k \notin wrapperFired[w]
    BY <1>5, <2>2, HeardIsNotFresh DEF Warn
  <2> QED
    BY <2>1, <2>2
<1>6. ASSUME RenderSummary
      PROVE  EdgeInv'
  BY <1>6, EdgesStartUnheard DEF RenderSummary
<1>7. ASSUME NEW k \in Crossings, Acknowledge(k)
      PROVE  EdgeInv'
  BY <1>7, NothingHeard DEF Acknowledge
<1>8. ASSUME Reset
      PROVE  EdgeInv'
  BY <1>8, NothingHeard DEF Reset
<1>9. CASE UNCHANGED costVars
  BY <1>9, NothingHeard DEF costVars
<1> QED
  BY <1>1, <1>2, <1>3, <1>4, <1>5, <1>6, <1>7, <1>8, <1>9 DEF CostNext

\* Wrappers and summaries check the budgets and pass warnings on in any order: the
\* listeners of the store (emit_warning) hear of one crossing at most once.
THEOREM ListenersHearAtMostOnce == CostSpec => []ListenersHearOnce
<1>1. CostInit => EdgeInv
  BY DEF CostInit, EdgeInv
<1>2. EdgeInv => ListenersHearOnce
  BY DEF EdgeInv, ListenersHearOnce
<1> QED
  BY <1>1, <1>2, EdgeInvInductive, PTL DEF CostSpec

-----------------------------------------------------------------------------

\* A step that leaves what wrappers do alone keeps the invariant.
LEMMA WrappersAlone ==
    ASSUME CallbackInv, UNCHANGED <<stage, warnings, wrapperFired, active>>
    PROVE  CallbackInv'
BY DEF CallbackInv

LEMMA CallbackInvInductive == CallbackInv /\ [CostNext]_costVars => CallbackInv'
<1> SUFFICES ASSUME CallbackInv, [CostNext]_costVars
             PROVE  CallbackInv'
  OBVIOUS
<1>1. ASSUME NEW w \in Wrappers, NEW units \in Units, MeterSuccess(w, units)
      PROVE  CallbackInv'
  BY <1>1 DEF MeterSuccess, CallbackInv
<1>2. ASSUME NEW w \in Wrappers, MeterFailure(w)
      PROVE  CallbackInv'
  BY <1>2, WrappersAlone DEF MeterFailure
<1>3. ASSUME NEW w \in Wrappers, CheckBudget(w)
      PROVE  CallbackInv'
  <2>1. Crossed(Limits[w]) \subseteq Crossings
    BY DEF Crossed
  <2>2. /\ warnings' = [warnings EXCEPT ![w] = Crossed(Limits[w])]
        /\ active' = [active EXCEPT ![w] = Crossed(Limits[w])]
        /\ stage' = [stage EXCEPT ![w] = "warn"]
        /\ UNCHANGED wrapperFired
    BY <1>3 DEF CheckBudget
  <2>3. \A v \in Wrappers : active'[v] \subseteq wrapperFired'[v] \cup warnings'[v]
    BY <2>2 DEF CallbackInv
  <2> QED
    BY <2>1, <2>2, <2>3 DEF CallbackInv
<1>4. ASSUME NEW w \in Wrappers, Metered(w)
      PROVE  CallbackInv'
  BY <1>4 DEF Metered, CallbackInv
<1>5. ASSUME NEW w \in Wrappers, NEW k \in Crossings, Warn(w, k)
      PROVE  CallbackInv'
  <2>1. /\ warnings' = [warnings EXCEPT ![w] = @ \ {k}]
        /\ wrapperFired' = [wrapperFired EXCEPT ![w] = @ \cup {k}]
        /\ UNCHANGED <<stage, active>>
    <3>1. CASE k \in wrapperFired[w]
      BY <1>5, <3>1 DEF Warn, CallbackInv
    <3>2. CASE k \notin wrapperFired[w]
      BY <1>5, <3>2 DEF Warn
    <3> QED
      BY <3>1, <3>2
  <2>2. \A v \in Wrappers : active'[v] \subseteq wrapperFired'[v] \cup warnings'[v]
    BY <2>1 DEF CallbackInv
  <2>3. \A v \in Wrappers : stage'[v] # "warn" => warnings'[v] = {}
    BY <2>1 DEF CallbackInv
  <2> QED
    BY <2>1, <2>2, <2>3 DEF CallbackInv
<1>6. ASSUME RenderSummary
      PROVE  CallbackInv'
  BY <1>6, WrappersAlone DEF RenderSummary
<1>7. ASSUME NEW k \in Crossings, Acknowledge(k)
      PROVE  CallbackInv'
  BY <1>7, WrappersAlone DEF Acknowledge
<1>8. ASSUME Reset
      PROVE  CallbackInv'
  BY <1>8, WrappersAlone DEF Reset
<1>9. CASE UNCHANGED costVars
  BY <1>9, WrappersAlone DEF costVars
<1> QED
  BY <1>1, <1>2, <1>3, <1>4, <1>5, <1>6, <1>7, <1>8, <1>9 DEF CostNext

\* Whatever other wrappers, summaries and resets do to the store's edges, a wrapper that
\* is done with a call has told its callback of every crossing its check found.
THEOREM CallbacksAreTold == CostSpec => []CallbackKnows
<1>1. CostInit => CallbackInv
  BY DEF CostInit, CallbackInv
<1>2. CallbackInv => CallbackKnows
  BY DEF CallbackInv, CallbackKnows
<1> QED
  BY <1>1, <1>2, CallbackInvInductive, PTL DEF CostSpec

-----------------------------------------------------------------------------

\* The store's own variables, and the bounds; those of the wrappers are CallbackInv's.
StoreTypes ==
    /\ used \in [Scopes -> Nat]
    /\ fresh \subseteq fired /\ fired \subseteq Crossings
    /\ records \in 0..MaxRecords /\ resets \in 0..MaxResets

LEMMA Bounds ==
    MaxRecords \in Nat /\ MaxResets \in Nat /\ FailureUnits \in Nat /\ Units \subseteq Nat
BY CostAssumption

\* A record is added to its provider and to the total.
LEMMA AddKeepsTypes ==
    ASSUME StoreTypes, NEW w \in Wrappers, NEW units \in Nat, Add(w, units)
    PROVE  /\ used' \in [Scopes -> Nat] /\ records' \in 0..MaxRecords
           /\ \A s \in Scopes : used'[s] >= used[s]
<1>1. used' = [s \in Scopes |-> used[s] + (IF s \in Counted(w) THEN units ELSE 0)]
  BY DEF Add
<1>2. \A s \in Scopes : used[s] \in Nat
  BY DEF StoreTypes
<1>3. records' \in 0..MaxRecords
  BY Bounds DEF Add, StoreTypes
<1> QED
  BY <1>1, <1>2, <1>3

\* What a check calls fresh has fired.
LEMMA EdgesHaveFired ==
    ASSUME StoreTypes, NEW limits, UpdateEdges(limits)
    PROVE  fresh' \subseteq fired' /\ fired' \subseteq Crossings
<1>1. Crossed(limits) \subseteq Crossings
  BY DEF Crossed
<1>2. /\ fresh' = Crossed(limits) \ fired
      /\ fired' = (fired \ {k \in Crossings : limits[k] > 0}) \cup Crossed(limits)
  BY DEF UpdateEdges
<1> QED
  BY <1>1, <1>2 DEF StoreTypes

LEMMA StoreTypesInductive == StoreTypes /\ [CostNext]_costVars => StoreTypes'
<1> SUFFICES ASSUME StoreTypes, [CostNext]_costVars
             PROVE  StoreTypes'
  OBVIOUS
<1>1. ASSUME NEW w \in Wrappers, NEW units \in Units, MeterSuccess(w, units)
      PROVE  StoreTypes'
  BY <1>1, Bounds, AddKeepsTypes DEF MeterSuccess, StoreTypes
<1>2. ASSUME NEW w \in Wrappers, MeterFailure(w)
      PROVE  StoreTypes'
  BY <1>2, Bounds, AddKeepsTypes DEF MeterFailure, StoreTypes
<1>3. ASSUME NEW w \in Wrappers, CheckBudget(w)
      PROVE  StoreTypes'
  BY <1>3, EdgesHaveFired DEF CheckBudget, StoreTypes
<1>4. ASSUME NEW w \in Wrappers, Metered(w)
      PROVE  StoreTypes'
  BY <1>4 DEF Metered, StoreTypes
<1>5. ASSUME NEW w \in Wrappers, NEW k \in Crossings, Warn(w, k)
      PROVE  StoreTypes'
  BY <1>5 DEF Warn, EmitWarning, StoreTypes
<1>6. ASSUME RenderSummary
      PROVE  StoreTypes'
  BY <1>6, EdgesHaveFired DEF RenderSummary, StoreTypes
<1>7. ASSUME NEW k \in Crossings, Acknowledge(k)
      PROVE  StoreTypes'
  BY <1>7, Bounds DEF Acknowledge, StoreTypes
<1>8. ASSUME Reset
      PROVE  StoreTypes'
  BY <1>8, Bounds DEF Reset, StoreTypes
<1>9. CASE UNCHANGED costVars
  BY <1>9 DEF costVars, StoreTypes
<1> QED
  BY <1>1, <1>2, <1>3, <1>4, <1>5, <1>6, <1>7, <1>8, <1>9 DEF CostNext

\* Every variable of the store and of the wrappers keeps its type; in particular an edge
\* that may still be passed on (_fresh_edges) is one that counts as fired.
THEOREM CostKeepsTypes == CostSpec => []CostTypeOK
<1>1. CostInit => StoreTypes /\ CallbackInv /\ EdgeInv
  BY Bounds DEF CostInit, StoreTypes, CallbackInv, EdgeInv
<1>2. StoreTypes /\ CallbackInv /\ EdgeInv => CostTypeOK
  BY DEF StoreTypes, CallbackInv, EdgeInv, CostTypeOK
<1> QED
  BY <1>1, <1>2, StoreTypesInductive, CallbackInvInductive, EdgeInvInductive, PTL DEF CostSpec

-----------------------------------------------------------------------------

\* As long as no edge was forgotten, warnings were neither acknowledged nor reset, and the
\* budgets agree: what has fired stays crossed in every budget that limits it, what
\* wrappers have or had to pass on has fired, and a fired crossing that the listeners
\* have not heard of is fresh and in the hands of a wrapper that will pass it on.
HearingInv ==
    OneLimit /\ ~swallowed /\ resets = 0 =>
        /\ \A k \in fired, b \in CheckedBudgets : b[k] > 0 => used[k[1]] >= b[k]
        /\ \A w \in Wrappers : warnings[w] \cup wrapperFired[w] \subseteq fired
        /\ \A k \in fired : \/ heard[k] >= 1
                            \/ /\ k \in fresh
                               /\ \E w \in Wrappers : k \in warnings[w] \ wrapperFired[w]

CostInv == StoreTypes /\ CallbackInv /\ EdgeInv

\* A limit is a number, and so is what is counted in its scope.
LEMMA LimitsAreNumbers ==
    ASSUME StoreTypes, NEW k \in Crossings
    PROVE  /\ k[1] \in Scopes /\ used[k[1]] \in Nat
           /\ \A b \in CheckedBudgets : b[k] \in Nat
<1>1. k[1] \in Scopes
  BY DEF Crossings
<1> QED
  BY <1>1, CostAssumption DEF StoreTypes, CheckedBudgets

\* A check under budgets that agree makes nothing count as not fired any more.
LEMMA CheckAddsOnly ==
    ASSUME CostInv, HearingInv, OneLimit, ~swallowed, resets = 0,
           NEW b \in CheckedBudgets, UpdateEdges(b), UNCHANGED used
    PROVE  /\ fired' = fired \cup Crossed(b)
           /\ \A k \in fired', c \in CheckedBudgets : c[k] > 0 => used'[k[1]] >= c[k]
<1>1. fired \subseteq Crossings /\ Crossed(b) \subseteq Crossings
  BY DEF CostInv, StoreTypes, Crossed
<1>2. \A k \in fired : b[k] > 0 => k \in Crossed(b)
  BY <1>1 DEF HearingInv, Crossed
<1>3. fired' = fired \cup Crossed(b)
  BY <1>1, <1>2 DEF UpdateEdges
<1>4. ASSUME NEW k \in Crossed(b), NEW c \in CheckedBudgets, c[k] > 0
      PROVE  used[k[1]] >= c[k]
  BY <1>4, <1>1 DEF Crossed, OneLimit
<1> QED
  BY <1>3, <1>4 DEF HearingInv

\* Every action keeps unheard crossings in the hands of a wrapper.
LEMMA HearingInvInductive == CostInv /\ HearingInv /\ [CostNext]_costVars => HearingInv'
<1> SUFFICES ASSUME CostInv, HearingInv, [CostNext]_costVars
             PROVE  HearingInv'
  OBVIOUS
<1>o. OneLimit' = OneLimit /\ CheckedBudgets' = CheckedBudgets
  OBVIOUS
<1>a. ASSUME UNCHANGED <<fired, fresh, warnings, wrapperFired, heard, swallowed, resets>>,
             \A s \in Scopes : used'[s] >= used[s], used' \in [Scopes -> Nat]
      PROVE  HearingInv'
  <2>1. \A k \in fired, b \in CheckedBudgets : used[k[1]] >= b[k] => used'[k[1]] >= b[k]
    BY <1>a, LimitsAreNumbers DEF CostInv, StoreTypes
  <2> QED
    BY <1>a, <1>o, <2>1 DEF HearingInv
<1>1. ASSUME NEW w \in Wrappers, NEW units \in Units, MeterSuccess(w, units)
      PROVE  HearingInv'
  BY <1>1, <1>a, Bounds, AddKeepsTypes DEF MeterSuccess, CostInv
<1>2. ASSUME NEW w \in Wrappers, MeterFailure(w)
      PROVE  HearingInv'
  BY <1>2, <1>a, Bounds, AddKeepsTypes DEF MeterFailure, CostInv
<1>3. ASSUME NEW w \in Wrappers, CheckBudget(w)
      PROVE  HearingInv'
  <2>0. SUFFICES ASSUME OneLimit, ~swallowed', resets' = 0
                 PROVE  HearingInv'
    BY <1>o DEF HearingInv
  <2>1. /\ ~swallowed /\ resets = 0 /\ fresh = {}
        /\ UpdateEdges(Limits[w]) /\ Limits[w] \in CheckedBudgets
        /\ warnings' = [warnings EXCEPT ![w] = Crossed(Limits[w])]
        /\ UNCHANGED <<used, wrapperFired>>
    BY <1>3, <2>0 DEF CheckBudget, CheckedBudgets
  <2>2. /\ fired' = fired \cup Crossed(Limits[w])
        /\ \A k \in fired', b \in CheckedBudgets : b[k] > 0 => used'[k[1]] >= b[k]
    BY <2>0, <2>1, CheckAddsOnly
  <2>3. \A k \in fired : heard[k] >= 1
    BY <2>0, <2>1 DEF HearingInv
  <2>4. \A v \in Wrappers : warnings[v] \cup wrapperFired[v] \subseteq fired
    BY <2>0, <2>1 DEF HearingInv
  <2>5. /\ warnings'[w] = Crossed(Limits[w])
        /\ \A v \in Wrappers : warnings'[v] \cup wrapperFired'[v] \subseteq fired'
    BY <2>1, <2>2, <2>4 DEF CostInv, CallbackInv
  <2>6. ASSUME NEW k \in fired'
        PROVE  \/ heard'[k] >= 1
               \/ k \in fresh' /\ \E v \in Wrappers : k \in warnings'[v] \ wrapperFired'[v]
    <3>1. k \in Crossings
      BY <2>2 DEF CostInv, StoreTypes, Crossed
    <3>2. CASE k \in fired
      <4>1. heard'[k] = heard[k]
        BY <2>1, <3>1, <3>2 DEF UpdateEdges
      <4> QED
        BY <2>3, <3>2, <4>1
    <3>3. CASE k \notin fired
      <4>1. k \in Crossed(Limits[w]) /\ k \in fresh'
        BY <2>1, <2>2, <3>3 DEF UpdateEdges
      <4>2. k \notin wrapperFired'[w]
        BY <2>1, <2>4, <3>3
      <4> QED
        BY <2>5, <4>1, <4>2
    <3> QED
      BY <3>2, <3>3
  <2> QED
    BY <1>o, <2>2, <2>5, <2>6 DEF HearingInv
<1>4. ASSUME NEW w \in Wrappers, Metered(w)
      PROVE  HearingInv'
  BY <1>4, <1>o DEF Metered, HearingInv
<1>5. ASSUME NEW w \in Wrappers, NEW k \in Crossings, Warn(w, k)
      PROVE  HearingInv'
  <2>0. SUFFICES ASSUME OneLimit, ~swallowed, resets = 0
                 PROVE  HearingInv'
    BY <1>5, <1>o DEF HearingInv, Warn
  <2>1. /\ k \in warnings[w]
        /\ warnings' = [warnings EXCEPT ![w] = @ \ {k}]
        /\ UNCHANGED <<used, fired, swallowed, resets>>
    BY <1>5 DEF Warn
  <2>2. /\ k \in fired /\ fired \subseteq Crossings
        /\ \A v \in Wrappers : warnings[v] \cup wrapperFired[v] \subseteq fired
    BY <2>0, <2>1 DEF HearingInv, CostInv, StoreTypes
  <2>3. \A v \in Wrappers : warnings'[v] = IF v = w THEN warnings[v] \ {k} ELSE warnings[v]
    BY <2>1 DEF CostInv, CallbackInv
  <2>4. CASE k \in wrapperFired[w]
    <3>1. UNCHANGED <<wrapperFired, heard, fresh>>
      BY <1>5, <2>4 DEF Warn
    <3>2. \A j \in fired, v \in Wrappers :
            j \in warnings[v] \ wrapperFired[v] => j \in warnings'[v] \ wrapperFired'[v]
      BY <2>3, <2>4, <3>1
    <3> QED
      BY <1>o, <2>0, <2>1, <2>2, <2>3, <3>1, <3>2 DEF HearingInv
  <2>5. CASE k \notin wrapperFired[w]
    <3>1. /\ wrapperFired' = [wrapperFired EXCEPT ![w] = @ \cup {k}]
          /\ heard' = IF k \in fresh THEN [heard EXCEPT ![k] = @ + 1] ELSE heard
          /\ fresh' = fresh \ {k}
      BY <1>5, <2>5 DEF Warn, EmitWarning
    <3>2. \A v \in Wrappers : wrapperFired'[v]
                                 = IF v = w THEN wrapperFired[v] \cup {k} ELSE wrapperFired[v]
      BY <3>1 DEF CostInv, CallbackInv
    <3>3. \A v \in Wrappers : warnings'[v] \cup wrapperFired'[v] \subseteq fired'
      <4>1. SUFFICES ASSUME NEW v \in Wrappers, NEW j \in warnings'[v] \cup wrapperFired'[v]
                     PROVE  j \in fired
        BY <2>1
      <4>2. j \in warnings[v] \cup wrapperFired[v] \cup {k}
        BY <2>3, <3>2
      <4> QED
        BY <2>2, <4>2
    <3>4. heard'[k] >= 1
      BY <2>0, <2>2, <3>1 DEF HearingInv, CostInv, EdgeInv
    <3>5. ASSUME NEW j \in fired, j # k
          PROVE  /\ heard'[j] = heard[j] /\ (j \in fresh => j \in fresh')
                 /\ \A v \in Wrappers : j \in warnings[v] \ wrapperFired[v]
                                          => j \in warnings'[v] \ wrapperFired'[v]
      <4>1. heard'[j] = heard[j] /\ (j \in fresh => j \in fresh')
        BY <2>2, <3>1, <3>5 DEF CostInv, EdgeInv
      <4>2. ASSUME NEW v \in Wrappers, j \in warnings[v], j \notin wrapperFired[v]
            PROVE  j \in warnings'[v] /\ j \notin wrapperFired'[v]
        BY <2>3, <3>2, <3>5, <4>2
      <4> QED
        BY <4>1, <4>2
    <3> QED
      BY <1>o, <2>0, <2>1, <3>3, <3>4, <3>5 DEF HearingInv
  <2> QED
    BY <2>4, <2>5
<1>6. ASSUME RenderSummary
      PROVE  HearingInv'
  <2>0. SUFFICES ASSUME OneLimit, ~swallowed', resets' = 0
                 PROVE  HearingInv'
    BY <1>o DEF HearingInv
  <2>1. /\ ~swallowed /\ resets = 0 /\ fresh = {} /\ Crossed(Default) \ fired = {}
        /\ UpdateEdges(Default) /\ Default \in CheckedBudgets
        /\ UNCHANGED <<used, warnings, wrapperFired>>
    BY <1>6, <2>0 DEF RenderSummary, CheckedBudgets
  <2>2. /\ fired' = fired \cup Crossed(Default)
        /\ \A k \in fired', b \in CheckedBudgets : b[k] > 0 => used'[k[1]] >= b[k]
    BY <2>0, <2>1, CheckAddsOnly
  <2>3. fired' = fired
    BY <2>1, <2>2
  <2>4. \A k \in fired : heard'[k] = heard[k] /\ heard[k] >= 1
    BY <2>0, <2>1 DEF HearingInv, UpdateEdges, CostInv, StoreTypes
  <2> QED
    BY <1>o, <2>0, <2>1, <2>2, <2>3, <2>4 DEF HearingInv
<1>7. ASSUME NEW k \in Crossings, Acknowledge(k)
      PROVE  HearingInv'
  BY <1>7, Bounds DEF Acknowledge, HearingInv, CostInv, StoreTypes
<1>8. ASSUME Reset
      PROVE  HearingInv'
  BY <1>8, Bounds DEF Reset, HearingInv, CostInv, StoreTypes
<1>9. CASE UNCHANGED costVars
  BY <1>9, <1>o DEF costVars, HearingInv
<1> QED
  BY <1>1, <1>2, <1>3, <1>4, <1>5, <1>6, <1>7, <1>8, <1>9 DEF CostNext

\* Wrappers and summaries check the budgets in any order; as long as none forgot another's
\* edge, the budgets agree and nothing was acknowledged or reset, the listeners have heard
\* of every crossing a wrapper found by the time no wrapper is at work (emit_warning).
THEOREM ListenersHearOfCrossings == CostSpec => []CrossingsAreHeard
<1>1. CostInit => CostInv /\ HearingInv
  BY Bounds DEF CostInit, CostInv, StoreTypes, CallbackInv, EdgeInv, HearingInv
<1>2. CostInv /\ HearingInv => CrossingsAreHeard
  BY DEF CostInv, CallbackInv, HearingInv, CrossingsAreHeard
<1>3. CostInv /\ [CostNext]_costVars => CostInv'
  BY StoreTypesInductive, CallbackInvInductive, EdgeInvInductive DEF CostInv
<1> QED
  BY <1>1, <1>2, <1>3, HearingInvInductive, PTL DEF CostSpec

(***************************************************************************)
(* CostSnapshot, with one thread.                                          *)
(***************************************************************************)

Writing == {"write", "write_rest"}

\* The shapes the updates rely on.
SnapshotShapes ==
    /\ inMemory \in Nat /\ restarts \in Nat
    /\ names \in [{"tmp", "path"} -> Inodes \cup {None}]
    /\ content \in [Inodes -> [length : Nat, whole : BOOLEAN]]
    /\ step \in [Threads -> {"idle", "take", "open", "replace"} \cup Writing]
    /\ snap \in [Threads -> Nat] /\ open \in [Threads -> Inodes \cup {None}]

\* The file under the path is whole and no other's; the one being written is empty until
\* its last write, and then holds the snapshot.
FilesInv(t) ==
    /\ names["path"] # None => content[names["path"]].whole
    /\ names["tmp"] # None => names["tmp"] # names["path"]
    /\ step[t] \in Writing => /\ open[t] # None /\ open[t] = names["tmp"]
                              /\ content[open[t]].length = 0
    /\ step[t] \notin Writing => open[t] = None
    /\ step[t] = "replace" => names["tmp"] # None /\ content[names["tmp"]] = Whole(snap[t])
    /\ step[t] \in {"open", "replace"} \cup Writing => snap[t] = inMemory

\* After a persist that did not fail the file holds what is in memory, or what was there
\* before the change that is being persisted.
SavedInv(t) ==
    saved => /\ names["path"] # None
             /\ \/ Stored = inMemory
                \/ step[t] # "idle" /\ (Stored = inMemory - 1 \/ inMemory = 0)

SnapshotInv(t) == SnapshotShapes /\ FilesInv(t) /\ SavedInv(t)

\* A change is made, and its snapshot taken.
LEMMA ChangesKeepFiles ==
    ASSUME NEW t, Threads = {t}, SnapshotInv(t), AppendRecord(t) \/ ResetRecords(t) \/ Take(t)
    PROVE  SnapshotInv(t)'
<1>1. UNCHANGED <<names, content, open, saved, restarts>> /\ Stored' = Stored
  BY DEF AppendRecord, ResetRecords, Take, Stored
<1>2. CASE Take(t)
  <2>1. step' = [step EXCEPT ![t] = "open"] /\ snap' = [snap EXCEPT ![t] = inMemory] /\ inMemory' = inMemory
        /\ step[t] = "take"
    BY <1>2 DEF Take, StepTo
  <2> QED
    BY <1>1, <2>1 DEF SnapshotInv, SnapshotShapes, FilesInv, SavedInv, Writing
<1>3. CASE AppendRecord(t) \/ ResetRecords(t)
  <2>1. step' = [step EXCEPT ![t] = "take"] /\ snap' = snap /\ step[t] = "idle"
        /\ (inMemory' = inMemory + 1 \/ inMemory' = 0)
    BY <1>3 DEF AppendRecord, ResetRecords, StepTo
  <2>2. saved => Stored = inMemory /\ names["path"] # None
    BY <2>1 DEF SnapshotInv, SavedInv
  <2>3. SnapshotShapes' /\ step'[t] = "take"
    BY <1>1, <2>1 DEF SnapshotInv, SnapshotShapes, Writing
  <2>4. FilesInv(t)'
    BY <1>1, <2>1, <2>3 DEF SnapshotInv, FilesInv, Writing
  <2>5. saved => inMemory' - 1 = Stored \/ inMemory' = 0
    BY <2>1, <2>2 DEF SnapshotInv, SnapshotShapes
  <2>6. SavedInv(t)'
    BY <1>1, <2>2, <2>3, <2>5 DEF SavedInv
  <2> QED
    BY <2>3, <2>4, <2>6 DEF SnapshotInv
<1> QED
  BY <1>2, <1>3

\* A temporary file is opened.
LEMMA OpenKeepsFiles ==
    ASSUME NEW t, Threads = {t}, SnapshotInv(t), Open(t)
    PROVE  SnapshotInv(t)'
<1>1. step[t] = "open" /\ open[t] = None /\ snap[t] = inMemory
  BY DEF Open, SnapshotInv, FilesInv, Writing
<1>2. InUse = {names["tmp"], names["path"], None}
  BY <1>1 DEF InUse
<1> DEFINE i == IF names["tmp"] # None THEN names["tmp"] ELSE CHOOSE j \in Inodes \ InUse : TRUE
<1>3. /\ names' = [names EXCEPT !["tmp"] = i]
      /\ content' = [content EXCEPT ![i] = [length |-> 0, whole |-> FALSE]]
      /\ open' = [open EXCEPT ![t] = i]
  BY DEF Open
<1>4. i \in Inodes /\ i # names["path"] /\ i # None
  <2>1. CASE names["tmp"] # None
    BY <2>1, SnapshotAssumption DEF SnapshotInv, SnapshotShapes, FilesInv
  <2>2. CASE names["tmp"] = None
    <3>1. Inodes \ InUse # {}
      BY <1>2, <2>2, SnapshotAssumption
    <3>2. i \in Inodes \ InUse
      BY <2>2, <3>1
    <3> QED
      BY <1>2, <3>2, SnapshotAssumption
  <2> QED
    BY <2>1, <2>2
<1> HIDE DEF i
<1>5. step' = [step EXCEPT ![t] = "write"] /\ UNCHANGED <<inMemory, snap, saved, restarts>>
  BY DEF Open, StepTo
<1>6. names'["path"] = names["path"] /\ names'["tmp"] = i /\ open'[t] = i /\ step'[t] = "write"
  BY <1>3, <1>5 DEF SnapshotInv, SnapshotShapes
<1>7. names["path"] # None => content'[names["path"]] = content[names["path"]]
  BY <1>3, <1>4 DEF SnapshotInv, SnapshotShapes
<1>8. content'[i] = [length |-> 0, whole |-> FALSE]
  BY <1>3, <1>4 DEF SnapshotInv, SnapshotShapes
<1>9. SnapshotShapes'
  BY <1>3, <1>4, <1>5 DEF SnapshotInv, SnapshotShapes, Writing
<1>10. FilesInv(t)'
  BY <1>1, <1>4, <1>5, <1>6, <1>7, <1>8 DEF SnapshotInv, FilesInv, Writing
<1>11. SavedInv(t)'
  BY <1>1, <1>5, <1>6, <1>7 DEF SnapshotInv, SavedInv, Stored
<1> QED
  BY <1>9, <1>10, <1>11 DEF SnapshotInv

\* It is written, in one part or two, or the write fails.
LEMMA WritesKeepFiles ==
    ASSUME NEW t, Threads = {t}, SnapshotInv(t), WritePart(t) \/ WriteRest(t) \/ PersistFails(t)
    PROVE  SnapshotInv(t)'
<1>1. step[t] \in Writing
  BY DEF WritePart, WriteRest, PersistFails, Writing
<1>2. PICK i \in Inodes : open[t] = i /\ names["tmp"] = i /\ names["path"] # i /\ content[i].length = 0
  BY <1>1, SnapshotAssumption DEF SnapshotInv, SnapshotShapes, FilesInv
<1>3. UNCHANGED <<inMemory, names, snap, restarts>> /\ snap[t] = inMemory
  BY <1>1 DEF WritePart, WriteRest, PersistFails, SnapshotInv, FilesInv
<1>4. CASE WritePart(t)
  <2>1. step' = [step EXCEPT ![t] = "write_rest"] /\ content' = [content EXCEPT ![i].whole = FALSE]
        /\ UNCHANGED <<open, saved>>
    BY <1>2, <1>4 DEF WritePart, StepTo
  <2>2. content'[i] = [length |-> 0, whole |-> FALSE] /\ content' \in [Inodes -> [length : Nat, whole : BOOLEAN]]
        /\ \A j \in Inodes : j # i => content'[j] = content[j]
    BY <1>2, <2>1 DEF SnapshotInv, SnapshotShapes
  <2> QED
    BY <1>1, <1>2, <1>3, <2>1, <2>2 DEF SnapshotInv, SnapshotShapes, FilesInv, SavedInv, Stored, Writing
<1>5. CASE WriteRest(t)
  <2>1. step' = [step EXCEPT ![t] = "replace"] /\ open' = [open EXCEPT ![t] = None] /\ saved' = saved
    BY <1>5 DEF WriteRest, StepTo
  <2>2. content' = [content EXCEPT ![i] = Whole(snap[t])]
    <3>1. snap[t] \in Nat
      BY DEF SnapshotInv, SnapshotShapes
    <3>2. content' = [content EXCEPT ![open[t]] = IF content[open[t]].length > snap[t]
                        THEN [content[open[t]] EXCEPT !.whole = FALSE] ELSE Whole(snap[t])]
      BY <1>5 DEF WriteRest
    <3>3. ~(content[open[t]].length > snap[t])
      BY <1>2, <3>1
    <3> QED
      BY <1>2, <3>2, <3>3
  <2>3. content'[i] = Whole(snap[t]) /\ content' \in [Inodes -> [length : Nat, whole : BOOLEAN]]
        /\ \A j \in Inodes : j # i => content'[j] = content[j]
    BY <1>2, <2>2 DEF SnapshotInv, SnapshotShapes, Whole
  <2> QED
    BY <1>1, <1>2, <1>3, <2>1, <2>3, SnapshotAssumption
       DEF SnapshotInv, SnapshotShapes, FilesInv, SavedInv, Stored, Writing
<1>6. CASE PersistFails(t)
  <2>1. step' = [step EXCEPT ![t] = "idle"] /\ open' = [open EXCEPT ![t] = None] /\ saved' = FALSE
        /\ content' = content
    BY <1>6 DEF PersistFails, StepTo
  <2> QED
    BY <1>1, <1>2, <1>3, <2>1 DEF SnapshotInv, SnapshotShapes, FilesInv, SavedInv, Writing
<1> QED
  BY <1>4, <1>5, <1>6

\* It takes the place of the file.
LEMMA RenameKeepsFiles ==
    ASSUME NEW t, Threads = {t}, SnapshotInv(t), Rename(t)
    PROVE  SnapshotInv(t)'
<1>1. step[t] = "replace" /\ names["tmp"] # None /\ content[names["tmp"]] = Whole(snap[t])
      /\ snap[t] = inMemory
  BY DEF Rename, SnapshotInv, FilesInv
<1>2. names' = [f \in {"tmp", "path"} |-> IF f = "path" THEN names["tmp"] ELSE None] /\ saved' = TRUE
      /\ step' = [step EXCEPT ![t] = "idle"] /\ UNCHANGED <<inMemory, content, snap, open, restarts>>
  BY <1>1 DEF Rename, StepTo
<1>3. names'["path"] = names["tmp"] /\ names'["tmp"] = None
  BY <1>2
<1>4. content'[names'["path"]] = [length |-> inMemory, whole |-> TRUE]
  BY <1>1, <1>2, <1>3 DEF Whole
<1>5. SnapshotShapes'
  BY <1>2 DEF SnapshotInv, SnapshotShapes
<1>6. FilesInv(t)'
  BY <1>1, <1>2, <1>3, <1>4 DEF SnapshotInv, SnapshotShapes, FilesInv, Writing
<1>7. SavedInv(t)'
  BY <1>1, <1>2, <1>3, <1>4 DEF SavedInv, Stored
<1> QED
  BY <1>5, <1>6, <1>7 DEF SnapshotInv

\* The process is replaced.
LEMMA RestartKeepsFiles ==
    ASSUME NEW t, Threads = {t}, SnapshotInv(t), Restart(t)
    PROVE  SnapshotInv(t)'
<1>1. step' = [u \in Threads |-> IF u = t /\ Loadable THEN "take" ELSE "idle"]
      /\ open' = [u \in Threads |-> None] /\ saved' = FALSE /\ UNCHANGED <<names, content, snap>>
      /\ inMemory' = (IF Loadable THEN Stored ELSE 0) /\ restarts' = restarts + 1
  BY DEF Restart
<1>2. inMemory' \in Nat
  BY <1>1, SnapshotAssumption DEF SnapshotInv, SnapshotShapes, Loadable, Stored
<1>3. step'[t] \in {"take", "idle"} /\ step' \in [Threads -> {"idle", "take", "open", "replace"} \cup Writing]
      /\ open'[t] = None /\ open' \in [Threads -> Inodes \cup {None}]
  BY <1>1
<1> QED
  BY <1>1, <1>2, <1>3 DEF SnapshotInv, SnapshotShapes, FilesInv, SavedInv, Writing

LEMMA SnapshotInvHolds ==
    ASSUME NEW t, Threads = {t}
    PROVE  SnapshotSpec => []SnapshotInv(t)
<1>1. SnapshotInit => SnapshotInv(t)
  BY DEF SnapshotInit, SnapshotInv, SnapshotShapes, FilesInv, SavedInv, Writing
<1>2. SnapshotInv(t) /\ [SnapshotNext]_snapshotVars => SnapshotInv(t)'
  <2> SUFFICES ASSUME SnapshotInv(t), [SnapshotNext]_snapshotVars PROVE SnapshotInv(t)'
    OBVIOUS
  <2>1. CASE UNCHANGED snapshotVars
    BY <2>1 DEF snapshotVars, SnapshotInv, SnapshotShapes, FilesInv, SavedInv, Stored
  <2>2. CASE SnapshotNext
    BY <2>2, ChangesKeepFiles, OpenKeepsFiles, WritesKeepFiles, RenameKeepsFiles, RestartKeepsFiles
       DEF SnapshotNext
  <2> QED
    BY <2>1, <2>2
<1> QED
  BY <1>1, <1>2, PTL DEF SnapshotSpec

\* SnapshotWhole for one thread, any number of changes, failed writes and restarts: what is
\* under the path can be loaded at every moment.
THEOREM SnapshotsAreWhole ==
    ASSUME NEW t, Threads = {t}
    PROVE  SnapshotSpec => []SnapshotWhole
<1>1. SnapshotInv(t) => SnapshotWhole
  BY DEF SnapshotInv, FilesInv, SnapshotWhole, Loadable
<1> QED
  BY <1>1, SnapshotInvHolds, PTL

\* RestartKeepsRecords for one thread: whatever step a crash interrupts, the next process
\* has the records there were, but for the one change that was being persisted.
THEOREM RestartsKeepRecords ==
    ASSUME NEW t, Threads = {t}
    PROVE  SnapshotSpec => RestartKeepsRecords
<1>1. ASSUME SnapshotInv(t), [SnapshotNext]_snapshotVars, restarts' = restarts + 1, saved
      PROVE  inMemory' \in {inMemory - 1, inMemory} \/ inMemory = 0
  <2>1. CASE Restart(t)
    <3>1. Loadable
      BY <1>1 DEF SnapshotInv, FilesInv, SavedInv, Loadable
    <3> QED
      BY <1>1, <2>1, <3>1 DEF Restart, SnapshotInv, SavedInv
  <2>2. CASE ~Restart(t)
    <3>1. restarts' = restarts
      BY <1>1, <2>2 DEF SnapshotNext, snapshotVars, AppendRecord, ResetRecords, Take, Open, WritePart, WriteRest,
         Rename, PersistFails
    <3> QED
      BY <1>1, <3>1 DEF SnapshotInv, SnapshotShapes
  <2> QED
    BY <2>1, <2>2
<1> QED
  BY <1>1, SnapshotInvHolds, PTL DEF SnapshotSpec, RestartKeepsRecords
=============================================================================
