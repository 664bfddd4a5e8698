---------------------------- MODULE Records_proofs -----------------------------
(***************************************************************************)
(* Theorems about what the service keeps: DecisionStore and AuditTrail.    *)
(*                                                                         *)
(* DecisionStore, for every value of its constants.  The inductive         *)
(* invariant is StoreInv: an ask that is pending twice would let the scan  *)
(* of add_decision return the wrong card, so OnePendingPerAsk is what      *)
(* makes the type of the scan's result, and then the rest, inductive.      *)
(*                                                                         *)
(* AuditTrail, for any number of threads, lines, entries and restarts. The *)
(* mirror keeps its promises by itself; the file needs to know where every *)
(* entry is on its way.                                                    *)
(***************************************************************************)
EXTENDS DecisionStore, AuditTrail, SequenceTheorems, FiniteSetTheorems, TLAPS

(***************************************************************************)
(* DecisionStore.                                                          *)
(***************************************************************************)

StoreInv ==
    /\ StoreTypeOK
    /\ OnePendingPerAsk
    /\ AnswerCarriesText
    /\ RunAgreesWithCycle

-----------------------------------------------------------------------------

\* The scan returns a pending card of the ask it scans for, whenever there is one.
LEMMA ScanFindsPending ==
    ASSUME StoreTypeOK, OnePendingPerAsk,
           NEW b \in Booking, NEW k \in Kind, PendingFor(b, k) # {}
    PROVE  NewestPending(b, k) \in PendingFor(b, k)
<1>1. PICK i \in PendingFor(b, k) : TRUE
  OBVIOUS
<1>2. \A j \in PendingFor(b, k) : j = i
  BY <1>1 DEF PendingFor, OnePendingPerAsk
<1>3. i \in Nat
  BY <1>1 DEF PendingFor, StoreTypeOK
<1>4. \A j \in PendingFor(b, k) : j <= i
  BY <1>2, <1>3
<1> QED
  BY <1>1, <1>4 DEF NewestPending

\* The domains of the three sequences, as intervals.
LEMMA StoreDomains ==
    ASSUME StoreTypeOK
    PROVE  /\ Len(runs) \in Nat /\ DOMAIN runs = 1..Len(runs)
           /\ Len(decisions) \in Nat /\ DOMAIN decisions = 1..Len(decisions)
           /\ DOMAIN raised = 1..Len(runs)
           /\ \A r \in DOMAIN runs : runs[r] \in Run /\ raised[r] \in SUBSET Nat
           /\ \A i \in DOMAIN decisions : decisions[i] \in Decision
BY DEF StoreTypeOK

\* The empty store of a new process satisfies the invariant.
LEMMA InitStoreInv == StoreInit => StoreInv
BY DEF StoreInit, StoreInv, StoreTypeOK, OnePendingPerAsk, AnswerCarriesText,
       RunAgreesWithCycle

\* create_run keeps the invariant: a new run lists nothing.
LEMMA CreateRunStep ==
    ASSUME StoreInv, NEW t \in Trace, CreateRun(t)
    PROVE  StoreInv'
<1> USE DEF StoreInv
<1> DEFINE new == [trace |-> t, status |-> "running", decisions |-> {}]
<1>1. new \in Run /\ {} \in SUBSET Nat
  BY DEF Run
<1>2. runs' = Append(runs, new) /\ raised' = Append(raised, {}) /\ decisions' = decisions
  BY DEF CreateRun
<1>3. StoreTypeOK'
  BY <1>1, <1>2 DEF StoreTypeOK
<1>4. RunAgreesWithCycle'
  <2> SUFFICES ASSUME NEW r \in DOMAIN runs'
               PROVE  /\ runs'[r].decisions = raised'[r]
                      /\ raised'[r] \subseteq DOMAIN decisions'
    BY DEF RunAgreesWithCycle
  <2>1. CASE r \in DOMAIN runs
    BY <1>2, <2>1, StoreDomains DEF RunAgreesWithCycle, StoreTypeOK
  <2>2. CASE r \notin DOMAIN runs
    BY <1>2, <2>2, StoreDomains DEF StoreTypeOK
  <2> QED
    BY <2>1, <2>2
<1>5. OnePendingPerAsk' /\ AnswerCarriesText'
  BY <1>2 DEF OnePendingPerAsk, AnswerCarriesText
<1> QED
  BY <1>3, <1>4, <1>5

\* add_decision on an ask that is pending: only the run's list grows, by a card there is.
LEMMA RaiseAgainStep ==
    ASSUME StoreInv, NEW r \in DOMAIN runs, NEW b \in Booking, NEW k \in Kind,
           RaiseAgain(r, b, k)
    PROVE  StoreInv'
<1> USE DEF StoreInv
<1> DEFINE i == NewestPending(b, k)
<1>1. i \in DOMAIN decisions /\ i \in Nat
  BY ScanFindsPending, StoreDomains DEF RaiseAgain, PendingFor
<1> HIDE DEF i
<1>2. /\ runs' = [runs EXCEPT ![r].decisions = @ \cup {i}]
      /\ raised' = [raised EXCEPT ![r] = @ \cup {i}]
      /\ decisions' = decisions
  BY DEF RaiseAgain, i
<1>3. /\ [runs[r] EXCEPT !.decisions = @ \cup {i}] \in Run
      /\ raised[r] \cup {i} \in SUBSET Nat
  BY <1>1, StoreDomains DEF Run
<1>4. StoreTypeOK'
  BY <1>2, <1>3, StoreDomains DEF StoreTypeOK
<1>5. RunAgreesWithCycle'
  BY <1>1, <1>2, StoreDomains DEF RunAgreesWithCycle, Run
<1>6. OnePendingPerAsk' /\ AnswerCarriesText'
  BY <1>2 DEF OnePendingPerAsk, AnswerCarriesText
<1> QED
  BY <1>4, <1>5, <1>6

\* add_decision on an ask that is not pending: the new card is the only one for it.
LEMMA RaiseNewStep ==
    ASSUME StoreInv, NEW r \in DOMAIN runs, NEW b \in Booking, NEW k \in Kind,
           NEW x \in Text, RaiseNew(r, b, k, x)
    PROVE  StoreInv'
<1> USE DEF StoreInv
<1> DEFINE n == Len(decisions) + 1
           new == [run |-> r, booking |-> b, kind |-> k, draft |-> x,
                   status |-> "pending", final |-> NoText]
<1>1. /\ decisions' = Append(decisions, new)
      /\ runs' = [runs EXCEPT ![r].decisions = @ \cup {n}]
      /\ raised' = [raised EXCEPT ![r] = @ \cup {n}]
  BY DEF RaiseNew
<1>2. new \in Decision
  BY StoreDomains DEF Decision
<1>3. n \in Nat
  BY StoreDomains
<1>4. /\ DOMAIN decisions' = 1..n
      /\ decisions'[n] = new
      /\ \A i \in DOMAIN decisions : decisions'[i] = decisions[i]
  BY <1>1, StoreDomains DEF StoreTypeOK
<1>5. [runs[r] EXCEPT !.decisions = @ \cup {n}] \in Run /\ raised[r] \cup {n} \in SUBSET Nat
  BY <1>3, StoreDomains DEF Run
<1>6. StoreTypeOK'
  <2>1. decisions' \in Seq(Decision)
    BY <1>1, <1>2 DEF StoreTypeOK
  <2>2. runs' \in Seq(Run) /\ raised' \in Seq(SUBSET Nat) /\ Len(raised') = Len(runs')
    BY <1>1, <1>5, StoreDomains DEF StoreTypeOK
  <2> QED
    BY <2>1, <2>2 DEF StoreTypeOK
<1>7. OnePendingPerAsk'
  <2>1. \A i \in DOMAIN decisions : ~ (/\ decisions[i].status = "pending"
                                       /\ decisions[i].booking = b
                                       /\ decisions[i].kind = k)
    BY DEF RaiseNew, PendingFor
  <2> QED
    BY <1>4, <2>1, StoreDomains DEF OnePendingPerAsk
<1>8. AnswerCarriesText'
  BY <1>4, StoreDomains DEF AnswerCarriesText
<1>9. RunAgreesWithCycle'
  <2>1. /\ DOMAIN runs' = DOMAIN runs
        /\ \A q \in DOMAIN runs :
             /\ runs'[q].decisions = IF q = r THEN runs[q].decisions \cup {n}
                                             ELSE runs[q].decisions
             /\ raised'[q] = IF q = r THEN raised[q] \cup {n} ELSE raised[q]
    BY <1>1, StoreDomains DEF Run
  <2>2. n \in DOMAIN decisions' /\ DOMAIN decisions \subseteq DOMAIN decisions'
    BY <1>4, StoreDomains
  <2> HIDE DEF n
  <2> QED
    BY <2>1, <2>2 DEF RunAgreesWithCycle
<1> QED
  BY <1>6, <1>7, <1>8, <1>9

\* finish_run keeps the invariant: the list written is the list gathered.
LEMMA FinishStep ==
    ASSUME StoreInv, NEW r \in DOMAIN runs, FinishDone(r) \/ FinishError(r)
    PROVE  StoreInv'
<1> USE DEF StoreInv
<1>1. raised' = raised /\ decisions' = decisions
  BY DEF FinishDone, FinishError
<1>2. PICK s \in {"done", "error"} : runs' = [runs EXCEPT ![r].status = s]
  <2>1. CASE FinishError(r)
    BY <2>1 DEF FinishError
  <2>2. CASE FinishDone(r)
    <3>1. runs[r].decisions = raised[r]
      BY DEF RunAgreesWithCycle
    <3>2. runs[r] = [trace |-> runs[r].trace, status |-> runs[r].status,
                     decisions |-> runs[r].decisions]
      BY StoreDomains DEF Run
    <3>3. runs' = [runs EXCEPT ![r].status = "done"]
      BY <2>2, <3>1, <3>2, StoreDomains DEF FinishDone, Run
    <3> QED
      BY <3>3
  <2> QED
    BY <2>1, <2>2
<1>3. [runs[r] EXCEPT !.status = s] \in Run
  BY StoreDomains DEF Run
<1>4. StoreTypeOK'
  BY <1>1, <1>2, <1>3, StoreDomains DEF StoreTypeOK
<1>5. RunAgreesWithCycle'
  BY <1>1, <1>2, StoreDomains DEF RunAgreesWithCycle, Run
<1>6. OnePendingPerAsk' /\ AnswerCarriesText'
  BY <1>1 DEF OnePendingPerAsk, AnswerCarriesText
<1> QED
  BY <1>4, <1>5, <1>6

\* resolve_decision keeps the invariant: a card leaves "pending" with its text.
LEMMA ResolveStep ==
    ASSUME StoreInv, StoreAssumption, NEW i \in DOMAIN decisions, NEW a \in HostAction,
           NEW x \in Text \cup {NoText}, ResolveDecision(i, a, x)
    PROVE  StoreInv'
<1> USE DEF StoreInv
<1> DEFINE st == IF a = "approve" THEN "approved" ELSE "edited"
           fi == IF a = "approve" THEN decisions[i].draft ELSE x
<1>1. /\ decisions' = [decisions EXCEPT ![i].status = st, ![i].final = fi]
      /\ runs' = runs /\ raised' = raised
      /\ decisions[i].status = "pending"
      /\ a # "approve" => x # NoText
  BY DEF ResolveDecision, IsAnswer
<1>2. /\ st \in {"approved", "edited"}
      /\ fi \in Text
      /\ st = "approved" => fi = decisions[i].draft
  BY <1>1, StoreDomains DEF Decision
<1> HIDE DEF st, fi
<1>3. [decisions[i] EXCEPT !.status = st, !.final = fi] \in Decision
  BY <1>2, StoreDomains DEF Decision
<1>4. /\ DOMAIN decisions' = DOMAIN decisions
      /\ \A j \in DOMAIN decisions :
            /\ decisions'[j].booking = decisions[j].booking
            /\ decisions'[j].kind = decisions[j].kind
            /\ decisions'[j].draft = decisions[j].draft
            /\ decisions'[j].status = IF j = i THEN st ELSE decisions[j].status
            /\ decisions'[j].final = IF j = i THEN fi ELSE decisions[j].final
  BY <1>1, StoreDomains DEF Decision
<1>5. StoreTypeOK'
  <2> DEFINE settled == [decisions[i] EXCEPT !.status = st, !.final = fi]
  <2>1. decisions' = [decisions EXCEPT ![i] = settled]
    BY <1>1, StoreDomains DEF Decision
  <2>2. decisions' \in Seq(Decision)
    BY <1>3, <2>1, StoreDomains, ExceptSeq DEF StoreTypeOK
  <2> QED
    BY <1>1, <2>2 DEF StoreTypeOK
<1>6. OnePendingPerAsk'
  BY <1>2, <1>4 DEF OnePendingPerAsk
<1>7. AnswerCarriesText'
  <2>1. NoText \notin Text
    BY DEF StoreAssumption
  <2> QED
    BY <1>2, <1>4, <2>1 DEF AnswerCarriesText
<1>8. RunAgreesWithCycle'
  BY <1>1, <1>4 DEF RunAgreesWithCycle
<1> QED
  BY <1>5, <1>6, <1>7, <1>8

-----------------------------------------------------------------------------

\* Every step of a cycle or of the host keeps the invariant, one lemma per operation.
LEMMA StoreInvStep ==
    ASSUME StoreInv, [StoreNext]_storeVars
    PROVE  StoreInv'
<1>1. ASSUME NEW t \in Trace, CreateRun(t) PROVE StoreInv'
  BY <1>1, CreateRunStep
<1>2. ASSUME NEW r \in DOMAIN runs, CycleStep(r) PROVE StoreInv'
  <2>1. ASSUME NEW b \in Booking, NEW k \in Kind, NEW x \in Text, AddDecision(r, b, k, x)
        PROVE  StoreInv'
    BY <2>1, RaiseAgainStep, RaiseNewStep DEF AddDecision
  <2>2. ASSUME FinishDone(r) \/ FinishError(r) PROVE StoreInv'
    BY <2>2, FinishStep
  <2> QED
    BY <1>2, <2>1, <2>2 DEF CycleStep
<1>3. ASSUME NEW i \in DOMAIN decisions, NEW a \in HostAction, NEW x \in Text \cup {NoText},
             ResolveDecision(i, a, x)
      PROVE  StoreInv'
  BY <1>3, ResolveStep, StoreAssumption
<1>4. CASE UNCHANGED storeVars
  BY <1>4 DEF storeVars, StoreInv, StoreTypeOK, OnePendingPerAsk, AnswerCarriesText,
              RunAgreesWithCycle
<1> QED
  BY <1>1, <1>2, <1>3, <1>4 DEF StoreNext

\* The store's invariants hold in every reachable state, for any number of runs,
\* bookings, kinds and texts, and any interleaving of cycles and host.
THEOREM StoreInvariant == StoreSpec => []StoreInv
<1>1. StoreInit => StoreInv
  BY InitStoreInv
<1>2. StoreInv /\ [StoreNext]_storeVars => StoreInv'
  BY StoreInvStep
<1> QED
  BY <1>1, <1>2, PTL DEF StoreSpec

\* No operation of the store leaves a run, a decision or a cycle's list out of shape.
THEOREM StoreTypes == StoreSpec => []StoreTypeOK
BY StoreInvariant, PTL DEF StoreInv

\* The text that stands is the draft that was approved or the host's own words.
THEOREM AnswersCarryTheirText == StoreSpec => []AnswerCarriesText
BY StoreInvariant, PTL DEF StoreInv

\* add_decision never lets the same ask be pending twice.
THEOREM NeverAskedTwice == StoreSpec => []OnePendingPerAsk
BY StoreInvariant, PTL DEF StoreInv

\* finish_run never loses or invents a decision of its run.
THEOREM RunKeepsItsDecisions == StoreSpec => []RunAgreesWithCycle
BY StoreInvariant, PTL DEF StoreInv

-----------------------------------------------------------------------------

\* An answered decision is never touched again: add_decision only appends to the
\* decisions, and resolve_decision only changes a pending one.
THEOREM AnswersAreFinal == StoreSpec => AnswerIsFinal
<1>1. StoreInv /\ [StoreNext]_storeVars => [AnsweredStay]_storeVars
  <2> SUFFICES ASSUME StoreInv, StoreNext PROVE AnsweredStay
    OBVIOUS
  <2> USE StoreDomains DEF StoreInv, AnsweredStay
  <2>1. ASSUME NEW t \in Trace, CreateRun(t) PROVE AnsweredStay
    BY <2>1 DEF CreateRun
  <2>2. ASSUME NEW r \in DOMAIN runs, CycleStep(r) PROVE AnsweredStay
    <3>1. ASSUME NEW b \in Booking, NEW k \in Kind, NEW x \in Text, RaiseAgain(r, b, k)
          PROVE  AnsweredStay
      BY <3>1 DEF RaiseAgain
    <3>2. ASSUME NEW b \in Booking, NEW k \in Kind, NEW x \in Text, RaiseNew(r, b, k, x)
          PROVE  AnsweredStay
      BY <3>2 DEF RaiseNew, StoreTypeOK
    <3>3. ASSUME FinishDone(r) \/ FinishError(r) PROVE AnsweredStay
      BY <3>3 DEF FinishDone, FinishError
    <3> QED
      BY <2>2, <3>1, <3>2, <3>3 DEF CycleStep, AddDecision
  <2>3. ASSUME NEW i \in DOMAIN decisions, NEW a \in HostAction,
               NEW x \in Text \cup {NoText}, ResolveDecision(i, a, x)
        PROVE  AnsweredStay
    BY <2>3 DEF ResolveDecision
  <2> QED
    BY <2>1, <2>2, <2>3 DEF StoreNext
<1> QED
  BY <1>1, StoreInvariant, PTL DEF StoreSpec, AnswerIsFinal

-----------------------------------------------------------------------------
\* The refinement: what each step of the store does to the cards of the desk.

\* What leaves the decisions alone leaves the desk alone.
LEMMA SameDecisionsSameCards ==
    ASSUME decisions' = decisions
    PROVE  UNCHANGED <<OpenCards, SettledCards>>
BY DEF OpenCards, SettledCards

\* A new decision puts one card on the desk.
LEMMA RaiseNewPuts ==
    ASSUME StoreInv, NEW r \in DOMAIN runs, NEW b \in Booking, NEW k \in Kind,
           NEW x \in Text, RaiseNew(r, b, k, x)
    PROVE  Desk!Put(Len(decisions) + 1, <<b, k>>, x)
<1> USE StoreDomains DEF StoreInv
<1> DEFINE n == Len(decisions) + 1
<1>1. /\ DOMAIN decisions' = DOMAIN decisions \cup {n}
      /\ n \notin DOMAIN decisions
      /\ decisions'[n] = [run |-> r, booking |-> b, kind |-> k, draft |-> x,
                          status |-> "pending", final |-> NoText]
      /\ \A i \in DOMAIN decisions : decisions'[i] = decisions[i]
  BY DEF RaiseNew, StoreTypeOK
<1> HIDE DEF n
<1>2. \A c \in OpenCards : c.ask # <<b, k>>
  BY DEF OpenCards, RaiseNew, PendingFor
<1>3. \A c \in OpenCards \cup SettledCards : c.id # n
  BY <1>1 DEF OpenCards, SettledCards
<1>4. OpenCards' = OpenCards \cup {[id |-> n, ask |-> <<b, k>>, text |-> x]}
  BY <1>1 DEF OpenCards
<1>5. SettledCards' = SettledCards
  BY <1>1 DEF SettledCards
<1> QED
  BY <1>2, <1>3, <1>4, <1>5 DEF Desk!Put, n

\* An answer moves one card from the open ones to the settled ones.
LEMMA ResolveSettles ==
    ASSUME StoreInv, NEW i \in DOMAIN decisions, NEW a \in HostAction,
           NEW x \in Text \cup {NoText}, ResolveDecision(i, a, x)
    PROVE  Desk!Next
<1> USE StoreDomains DEF StoreInv
<1> DEFINE card(j) == [id |-> j, ask |-> <<decisions[j].booking, decisions[j].kind>>,
                       text |-> decisions[j].draft]
           st == IF a = "approve" THEN "approved" ELSE "edited"
           fi == IF a = "approve" THEN decisions[i].draft ELSE x
           gone == [id |-> i, ask |-> <<decisions[i].booking, decisions[i].kind>>,
                    answer |-> st, text |-> fi]
<1>1. /\ decisions[i].status = "pending"
      /\ DOMAIN decisions' = DOMAIN decisions
      /\ \A j \in DOMAIN decisions \ {i} : decisions'[j] = decisions[j]
      /\ decisions'[i].booking = decisions[i].booking
      /\ decisions'[i].kind = decisions[i].kind
      /\ decisions'[i].draft = decisions[i].draft
      /\ decisions'[i].status = st /\ st # "pending"
      /\ decisions'[i].final = fi
  BY DEF ResolveDecision, Decision
<1> HIDE DEF st, fi
<1>2. card(i) \in OpenCards
  BY <1>1 DEF OpenCards
<1>3. OpenCards' = OpenCards \ {card(i)}
  BY <1>1 DEF OpenCards
<1>4. SettledCards' = SettledCards \cup {gone}
  BY <1>1 DEF SettledCards
<1>5. CASE a = "approve"
  BY <1>2, <1>3, <1>4, <1>5 DEF Desk!Next, Desk!Approve, st, fi
<1>6. CASE a # "approve"
  <2>1. x \in Text
    BY <1>6 DEF ResolveDecision, IsAnswer
  <2>2. Desk!Edit(card(i), x)
    BY <1>3, <1>4, <1>6 DEF Desk!Edit, st, fi
  <2> QED
    BY <1>2, <2>1, <2>2 DEF Desk!Next
<1> QED
  BY <1>5, <1>6

\* The store implements the decision desk: the runs, the scan and the lists are
\* detail that the host never sees.
THEOREM StoreIsADesk == StoreSpec => ImplementsDesk
<1>1. StoreInit => Desk!Init
  BY DEF StoreInit, Desk!Init, OpenCards, SettledCards
<1>2. StoreInv /\ [StoreNext]_storeVars => [Desk!Next]_(Desk!deskVars)
  <2> SUFFICES ASSUME StoreInv, [StoreNext]_storeVars
               PROVE  Desk!Next \/ UNCHANGED <<OpenCards, SettledCards>>
    BY DEF Desk!deskVars
  <2>1. ASSUME NEW t \in Trace, CreateRun(t)
        PROVE  UNCHANGED <<OpenCards, SettledCards>>
    BY <2>1, SameDecisionsSameCards DEF CreateRun
  <2>2. ASSUME NEW r \in DOMAIN runs, CycleStep(r)
        PROVE  Desk!Next \/ UNCHANGED <<OpenCards, SettledCards>>
    <3>1. ASSUME NEW b \in Booking, NEW k \in Kind, RaiseAgain(r, b, k)
          PROVE  UNCHANGED <<OpenCards, SettledCards>>
      BY <3>1, SameDecisionsSameCards DEF RaiseAgain
    <3>2. ASSUME NEW b \in Booking, NEW k \in Kind, NEW x \in Text,
                 Len(decisions) < MaxDecisions, RaiseNew(r, b, k, x)
          PROVE  Desk!Next
      <4>1. Len(decisions) + 1 \in 1..MaxDecisions /\ <<b, k>> \in Booking \X Kind
        BY <3>2, StoreDomains, StoreAssumption DEF StoreInv, StoreAssumption
      <4> QED
        BY <3>2, <4>1, RaiseNewPuts DEF Desk!Next
    <3>3. ASSUME FinishDone(r) \/ FinishError(r)
          PROVE  UNCHANGED <<OpenCards, SettledCards>>
      BY <3>3, SameDecisionsSameCards DEF FinishDone, FinishError
    <3> QED
      BY <2>2, <3>1, <3>2, <3>3 DEF CycleStep, AddDecision
  <2>3. ASSUME NEW i \in DOMAIN decisions, NEW a \in HostAction,
               NEW x \in Text \cup {NoText}, ResolveDecision(i, a, x)
        PROVE  Desk!Next
    BY <2>3, ResolveSettles
  <2>4. CASE UNCHANGED storeVars
    BY <2>4, SameDecisionsSameCards DEF storeVars
  <2> QED
    BY <2>1, <2>2, <2>3, <2>4 DEF StoreNext
<1> QED
  BY <1>1, <1>2, StoreInvariant, PTL DEF StoreSpec, ImplementsDesk, Desk!Spec

(***************************************************************************)
(* AuditTrail.                                                             *)
(***************************************************************************)

\* What a thread has in hand was recorded.
InHandIsRecorded == \A w \in Writer : writing[w].id <= recorded

MirrorInv ==
    /\ AuditTypeOK
    /\ InHandIsRecorded
    /\ NoRepeatInMirror

-----------------------------------------------------------------------------

\* A step that adds nothing to the mirror leaves it without repeats.
LEMMA MirrorAlone ==
    ASSUME NoRepeatInMirror, UNCHANGED mirror
    PROVE  NoRepeatInMirror'
BY DEF NoRepeatInMirror

\* audit_append keeps the types: its entry is numbered with the next number.
LEMMA AppendKeepsTypes ==
    ASSUME AuditTypeOK, InHandIsRecorded, NEW w \in Writer, NEW l \in Line,
           AuditAppend(w, l)
    PROVE  AuditTypeOK' /\ InHandIsRecorded'
<1>1. CASE ReturnExisting(w, l)
  BY <1>1 DEF ReturnExisting, AuditTypeOK, InHandIsRecorded, auditVars
<1>2. CASE RecordNew(w, l)
  <2> DEFINE e == [id |-> recorded + 1, line |-> l]
  <2>1. e \in Entry
    BY DEF AuditTypeOK, Entry
  <2>2. /\ mirror' = Append(mirror, e)
        /\ writing' = [writing EXCEPT ![w] = e]
        /\ recorded' = recorded + 1
        /\ UNCHANGED <<file, unwritten, crashes>>
    BY <1>2 DEF RecordNew
  <2>5. e.id = recorded + 1
    OBVIOUS
  <2> HIDE DEF e
  <2>3. mirror' \in Seq(Entry) /\ writing' \in [Writer -> Entry \cup {NoEntry}]
    BY <2>1, <2>2 DEF AuditTypeOK
  <2>4. recorded' \in Nat /\ unwritten' \subseteq 1..recorded'
    BY <2>2 DEF AuditTypeOK
  <2>6. \A v \in Writer : writing'[v].id <= recorded'
    <3> SUFFICES ASSUME NEW v \in Writer
                 PROVE  writing'[v].id <= recorded'
      OBVIOUS
    <3>1. writing[v].id \in Nat
      BY DEF AuditTypeOK, Entry, NoEntry
    <3> QED
      BY <2>2, <2>5, <3>1 DEF AuditTypeOK, InHandIsRecorded
  <2> QED
    BY <2>2, <2>3, <2>4, <2>6 DEF AuditTypeOK, InHandIsRecorded
<1> QED
  BY <1>1, <1>2 DEF AuditAppend

\* audit_append adds a deduplicated line only when its scan has not found it.
LEMMA AppendKeepsMirror ==
    ASSUME MirrorInv, NEW w \in Writer, NEW l \in Line, AuditAppend(w, l)
    PROVE  NoRepeatInMirror'
<1>1. CASE ReturnExisting(w, l)
  BY <1>1, MirrorAlone DEF ReturnExisting, MirrorInv, auditVars
<1>2. CASE RecordNew(w, l)
  <2> DEFINE e == [id |-> recorded + 1, line |-> l]
  <2>1. /\ mirror \in Seq(Entry)
        /\ mirror' = Append(mirror, e)
        /\ e \in Entry /\ e.line = l
    BY <1>2 DEF RecordNew, MirrorInv, AuditTypeOK, Entry
  <2>2. l \in Repeating => \A i \in DOMAIN mirror : mirror[i].line # l
    BY <1>2 DEF RecordNew, InMirror
  <2> HIDE DEF e
  <2>3. /\ Len(mirror) \in Nat
        /\ DOMAIN mirror = 1..Len(mirror)
        /\ DOMAIN mirror' = 1..(Len(mirror) + 1)
        /\ \A i \in 1..Len(mirror) : mirror'[i] = mirror[i]
        /\ mirror'[Len(mirror) + 1] = e
    BY <2>1
  <2>4. SUFFICES ASSUME NEW i \in DOMAIN mirror', NEW j \in DOMAIN mirror',
                        mirror'[i].line = mirror'[j].line, mirror'[i].line \in Repeating
                 PROVE  i = j
    BY DEF NoRepeatInMirror
  <2>5. CASE i \in 1..Len(mirror) /\ j \in 1..Len(mirror)
    BY <2>3, <2>4, <2>5 DEF MirrorInv, NoRepeatInMirror
  <2>6. CASE i = Len(mirror) + 1 \/ j = Len(mirror) + 1
    BY <2>1, <2>2, <2>3, <2>4, <2>6
  <2> QED
    BY <2>3, <2>5, <2>6
<1> QED
  BY <1>1, <1>2 DEF AuditAppend

\* What is in a thread's hand is an entry, with one of the numbers given so far.
LEMMA InHand ==
    ASSUME AuditTypeOK, InHandIsRecorded, NEW w \in Writer, ~NotWriting(w)
    PROVE  writing[w] \in Entry /\ writing[w].id \in 1..recorded
<1>1. writing[w] \in Entry
  BY DEF AuditTypeOK, NotWriting
<1> QED
  BY <1>1 DEF AuditTypeOK, Entry, InHandIsRecorded

\* The second half of audit_append, written or failed, keeps the types.
LEMMA FileStepKeepsTypes ==
    ASSUME AuditTypeOK, InHandIsRecorded, NEW w \in Writer, WriteLine(w) \/ WriteFails(w)
    PROVE  AuditTypeOK' /\ InHandIsRecorded' /\ UNCHANGED mirror
<1>1. writing[w] \in Entry /\ writing[w].id \in 1..recorded
  BY InHand DEF WriteLine, WriteFails
<1>2. writing' = [writing EXCEPT ![w] = NoEntry] /\ UNCHANGED <<mirror, recorded, crashes>>
  BY DEF WriteLine, WriteFails
<1>3. writing' \in [Writer -> Entry \cup {NoEntry}]
  BY <1>2 DEF AuditTypeOK
<1>4. InHandIsRecorded'
  BY <1>2 DEF AuditTypeOK, InHandIsRecorded, NoEntry
<1>5. CASE WriteLine(w)
  BY <1>1, <1>2, <1>3, <1>4, <1>5 DEF WriteLine, AuditTypeOK
<1>6. CASE WriteFails(w)
  BY <1>1, <1>2, <1>3, <1>4, <1>6 DEF WriteFails, AuditTypeOK
<1> QED
  BY <1>5, <1>6

\* A restart keeps the types: what was in flight is accounted as unwritten.
LEMMA RestartKeepsTypes ==
    ASSUME AuditTypeOK, InHandIsRecorded, AuditCrash
    PROVE  AuditTypeOK' /\ InHandIsRecorded' /\ mirror' = <<>>
<1>1. /\ mirror' = <<>> /\ writing' = [w \in Writer |-> NoEntry]
      /\ unwritten' = unwritten \cup InFlight
      /\ crashes' = crashes + 1 /\ UNCHANGED <<file, recorded>>
  BY DEF AuditCrash
<1>2. InFlight \subseteq 1..recorded
  BY InHand DEF InFlight
<1>3. InHandIsRecorded'
  BY <1>1 DEF AuditTypeOK, InHandIsRecorded, NoEntry
<1> QED
  BY <1>1, <1>2, <1>3 DEF AuditTypeOK

LEMMA MirrorInvInductive == MirrorInv /\ [AuditNext]_auditVars => MirrorInv'
<1> SUFFICES ASSUME MirrorInv, [AuditNext]_auditVars
             PROVE  MirrorInv'
  OBVIOUS
<1>1. ASSUME NEW w \in Writer, NEW l \in Line, AuditAppend(w, l)
      PROVE  MirrorInv'
  BY <1>1, AppendKeepsTypes, AppendKeepsMirror DEF MirrorInv
<1>2. ASSUME NEW w \in Writer, WriteLine(w) \/ WriteFails(w)
      PROVE  MirrorInv'
  BY <1>2, FileStepKeepsTypes, MirrorAlone DEF MirrorInv
<1>3. CASE AuditCrash
  <2>1. mirror' = <<>> => NoRepeatInMirror'
    BY DEF NoRepeatInMirror
  <2> QED
    BY <1>3, <2>1, RestartKeepsTypes DEF MirrorInv
<1>4. CASE UNCHANGED auditVars
  BY <1>4 DEF auditVars, MirrorInv, AuditTypeOK, InHandIsRecorded, NoRepeatInMirror
<1> QED
  BY <1>1, <1>2, <1>3, <1>4 DEF AuditNext

LEMMA MirrorInvInit == AuditInit => MirrorInv
BY DEF AuditInit, MirrorInv, AuditTypeOK, InHandIsRecorded, NoRepeatInMirror, NoEntry

\* Every variable of the trail keeps its type, and no more is unwritten than was recorded.
THEOREM TrailTypes == AuditSpec => []AuditTypeOK
BY MirrorInvInit, MirrorInvInductive, PTL DEF AuditSpec, MirrorInv

\* audit_append: however many threads write at once, a deduplicated line enters the mirror
\* of a process once.
THEOREM MirrorHasNoRepeat == AuditSpec => []NoRepeatInMirror
BY MirrorInvInit, MirrorInvInductive, PTL DEF AuditSpec, MirrorInv

\* One step of the trail: the mirror grows at its end, with what is recorded, or the
\* process restarts.
LEMMA MirrorGrows ==
    ASSUME MirrorInv, AuditNext
    PROVE  \/ crashes' # crashes
           \/ /\ Len(mirror') = Len(mirror) + (recorded' - recorded)
              /\ SubSeq(mirror', 1, Len(mirror)) = mirror
<1>0. mirror \in Seq(Entry) /\ recorded \in Nat /\ crashes \in Nat
  BY DEF MirrorInv, AuditTypeOK
<1>1. ASSUME UNCHANGED <<mirror, recorded>>
      PROVE  /\ Len(mirror') = Len(mirror) + (recorded' - recorded)
             /\ SubSeq(mirror', 1, Len(mirror)) = mirror
  BY <1>0, <1>1
<1>2. ASSUME NEW w \in Writer, NEW l \in Line, AuditAppend(w, l)
      PROVE  /\ Len(mirror') = Len(mirror) + (recorded' - recorded)
             /\ SubSeq(mirror', 1, Len(mirror)) = mirror
  <2>1. CASE ReturnExisting(w, l)
    BY <1>1, <2>1 DEF ReturnExisting, auditVars
  <2>2. CASE RecordNew(w, l)
    <3> DEFINE e == [id |-> recorded + 1, line |-> l]
    <3>1. mirror' = Append(mirror, e) /\ recorded' = recorded + 1 /\ e \in Entry
      BY <1>0, <2>2 DEF RecordNew, Entry
    <3> HIDE DEF e
    <3> QED
      BY <1>0, <3>1
  <2> QED
    BY <1>2, <2>1, <2>2 DEF AuditAppend
<1>3. ASSUME NEW w \in Writer, WriteLine(w) \/ WriteFails(w)
      PROVE  /\ Len(mirror') = Len(mirror) + (recorded' - recorded)
             /\ SubSeq(mirror', 1, Len(mirror)) = mirror
  BY <1>1, <1>3 DEF WriteLine, WriteFails
<1>4. CASE AuditCrash
  BY <1>0, <1>4 DEF AuditCrash
<1> QED
  BY <1>2, <1>3, <1>4 DEF AuditNext

\* While the process lives its mirror keeps every entry, in order, whatever the disk does
\* ("the UI never loses the trail because the disk is read-only").
THEOREM MirrorKeepsEntries == AuditSpec => MirrorOutlivesTheDisk
<1>1. MirrorInv /\ [AuditNext]_auditVars =>
          [\/ crashes' # crashes
           \/ /\ Len(mirror') = Len(mirror) + (recorded' - recorded)
              /\ SubSeq(mirror', 1, Len(mirror)) = mirror]_auditVars
  BY MirrorGrows
<1> QED
  BY <1>1, MirrorInvInit, MirrorInvInductive, PTL DEF AuditSpec, MirrorOutlivesTheDisk

-----------------------------------------------------------------------------

OnDisk(id) == \E i \in DOMAIN file : file[i].id = id

Held(id) == \E w \in Writer : writing[w].id = id

\* No entry is in two places, or in one place twice.
Apart ==
    /\ \A i, j \in DOMAIN file : file[i].id = file[j].id => i = j
    /\ \A v, w \in Writer : writing[v].id = writing[w].id /\ ~NotWriting(v) => v = w
    /\ \A id \in 1..recorded : ~ (OnDisk(id) /\ Held(id))
    /\ unwritten \cap {id \in 1..recorded : OnDisk(id) \/ Held(id)} = {}

AccountInv ==
    /\ \A i \in DOMAIN file : file[i].id \in 1..recorded
    /\ \A id \in 1..recorded : OnDisk(id) \/ Held(id) \/ id \in unwritten
    /\ Apart

\* A thread that writes holds a recorded entry; one that does not holds none.
LEMMA HeldEntry ==
    ASSUME AuditTypeOK, InHandIsRecorded, NEW w \in Writer
    PROVE  /\ ~NotWriting(w) => writing[w].id \in 1..recorded /\ writing[w] \in Entry
           /\ NotWriting(w) => writing[w].id = 0
BY DEF AuditTypeOK, InHandIsRecorded, NotWriting, Entry, NoEntry

LEMMA RecordKeepsAccount ==
    ASSUME AuditTypeOK, InHandIsRecorded, AccountInv, NEW w \in Writer, NEW l \in Line,
           NotWriting(w), RecordNew(w, l)
    PROVE  AccountInv'
<1> DEFINE e == [id |-> recorded + 1, line |-> l]
<1>1. /\ writing' = [writing EXCEPT ![w] = e] /\ recorded' = recorded + 1
      /\ UNCHANGED <<file, unwritten>>
  BY DEF RecordNew
<1>2. e.id = recorded + 1 /\ recorded \in Nat
  BY DEF AuditTypeOK
<1> HIDE DEF e
<1>3. writing'[w].id = recorded + 1 /\ \A v \in Writer \ {w} : writing'[v] = writing[v]
  BY <1>1, <1>2 DEF AuditTypeOK
<1>4. \A v \in Writer : writing[v].id \in 0..recorded
  BY HeldEntry DEF AuditTypeOK
<1>5. \A id \in 1..recorded : OnDisk(id)' = OnDisk(id) /\ (Held(id) => Held(id)')
  BY <1>1, <1>3, HeldEntry DEF OnDisk, Held
<1>6. \A id \in 1..recorded : Held(id)' => Held(id)
  BY <1>1, <1>2, <1>3 DEF Held
<1>7. ASSUME NEW id, id = recorded + 1
      PROVE  Held(id)' /\ ~OnDisk(id)' /\ id \notin unwritten
  BY <1>1, <1>2, <1>3, <1>7 DEF Held, OnDisk, AccountInv, AuditTypeOK
<1>8. \A id \in 1..recorded' : id \in 1..recorded \/ id = recorded + 1
  BY <1>1, <1>2
<1>9. Apart'
  <2>1. \A i, j \in DOMAIN file' : file'[i].id = file'[j].id => i = j
    BY <1>1 DEF AccountInv, Apart
  <2>2. \A u, v \in Writer : writing'[u].id = writing'[v].id /\ writing'[u] # NoEntry => u = v
    BY <1>2, <1>3, <1>4 DEF AccountInv, Apart, NotWriting
  <2>3. \A id \in 1..recorded' : ~ (OnDisk(id)' /\ Held(id)')
    BY <1>5, <1>6, <1>7, <1>8 DEF AccountInv, Apart
  <2>4. unwritten' \cap {id \in 1..recorded' : OnDisk(id)' \/ Held(id)'} = {}
    BY <1>1, <1>2, <1>5, <1>6, <1>8 DEF AccountInv, Apart, AuditTypeOK
  <2> QED
    BY <2>1, <2>2, <2>3, <2>4 DEF Apart, NotWriting
<1>10. \A i \in DOMAIN file' : file'[i].id \in 1..recorded'
  BY <1>1, <1>2 DEF AccountInv
<1>11. \A id \in 1..recorded' : OnDisk(id)' \/ Held(id)' \/ id \in unwritten'
  BY <1>1, <1>5, <1>7, <1>8 DEF AccountInv
<1> QED
  BY <1>9, <1>10, <1>11 DEF AccountInv

\* The entry of a thread goes to the file, or is known not to.
LEMMA FileStepKeepsAccount ==
    ASSUME AuditTypeOK, InHandIsRecorded, AccountInv, NEW w \in Writer,
           WriteLine(w) \/ WriteFails(w)
    PROVE  AccountInv'
<1> DEFINE x == writing[w].id
<1>1. /\ writing' = [writing EXCEPT ![w] = NoEntry] /\ UNCHANGED recorded
      /\ writing[w] \in Entry /\ x \in 1..recorded /\ recorded \in Nat /\ ~NotWriting(w)
  BY HeldEntry DEF WriteLine, WriteFails, AuditTypeOK
<1>2. writing'[w].id = 0 /\ \A v \in Writer \ {w} : writing'[v] = writing[v] /\ writing[v].id # x
  BY <1>1 DEF AuditTypeOK, AccountInv, Apart, NoEntry
<1>3. \A id \in 1..recorded : Held(id)' <=> Held(id) /\ id # x
  BY <1>1, <1>2 DEF Held
<1>4. \A u, v \in Writer : writing'[u].id = writing'[v].id /\ writing'[u] # NoEntry => u = v
  <2> SUFFICES ASSUME NEW u \in Writer, NEW v \in Writer,
                      writing'[u].id = writing'[v].id, writing'[u] # NoEntry
               PROVE  u = v
    OBVIOUS
  <2>1. u # w /\ ~NotWriting(u) /\ writing[u].id \in 1..recorded
    BY <1>1, <1>2, HeldEntry DEF AuditTypeOK, NotWriting
  <2>2. v # w
    BY <1>2, <2>1
  <2> QED
    BY <1>2, <2>1, <2>2 DEF AccountInv, Apart
<1>5. Held(x) /\ ~OnDisk(x) /\ x \notin unwritten
  BY <1>1 DEF Held, AccountInv, Apart
<1>6. CASE WriteLine(w)
  <2>1. file' = Append(file, writing[w]) /\ UNCHANGED unwritten
    BY <1>6 DEF WriteLine
  <2>2. /\ DOMAIN file = 1 .. Len(file) /\ DOMAIN file' = 1 .. Len(file) + 1 /\ Len(file) \in Nat
        /\ \A i \in DOMAIN file : file'[i] = file[i]
        /\ file'[Len(file) + 1].id = x
    BY <1>1, <2>1 DEF AuditTypeOK
  <2>3. \A id \in 1..recorded : OnDisk(id)' <=> OnDisk(id) \/ id = x
    BY <2>2 DEF OnDisk
  <2>4. \A i, j \in DOMAIN file' : file'[i].id = file'[j].id => i = j
    BY <1>5, <2>2 DEF OnDisk, AccountInv, Apart
  <2>5. \A i \in DOMAIN file' : file'[i].id \in 1..recorded'
    BY <1>1, <2>2 DEF AccountInv
  <2>6. Apart'
    BY <1>1, <1>3, <1>4, <1>5, <2>1, <2>3, <2>4 DEF AccountInv, Apart, NotWriting
  <2> QED
    BY <1>1, <1>3, <2>1, <2>3, <2>5, <2>6 DEF AccountInv
<1>7. CASE WriteFails(w)
  <2>1. unwritten' = unwritten \cup {x} /\ UNCHANGED file
    BY <1>7 DEF WriteFails
  <2>2. \A id \in 1..recorded : OnDisk(id)' <=> OnDisk(id)
    BY <2>1 DEF OnDisk
  <2>3. Apart'
    BY <1>1, <1>3, <1>4, <1>5, <2>1, <2>2 DEF AccountInv, Apart, NotWriting
  <2> QED
    BY <1>1, <1>3, <2>1, <2>2, <2>3 DEF AccountInv
<1> QED
  BY <1>6, <1>7

\* A restart: what was in flight is known not to be written.
LEMMA RestartKeepsAccount ==
    ASSUME AuditTypeOK, InHandIsRecorded, AccountInv, AuditCrash
    PROVE  AccountInv'
<1>1. /\ writing' = [w \in Writer |-> NoEntry]
      /\ unwritten' = unwritten \cup InFlight /\ UNCHANGED <<file, recorded>>
  BY DEF AuditCrash
<1>2. \A id \in 1..recorded : Held(id) <=> id \in InFlight
  BY HeldEntry DEF Held, InFlight
<1>3. \A id \in 1..recorded : ~Held(id)' /\ (OnDisk(id)' <=> OnDisk(id))
  BY <1>1 DEF Held, OnDisk, NoEntry
<1>4. Apart'
  BY <1>1, <1>2, <1>3 DEF AccountInv, Apart, NotWriting
<1> QED
  BY <1>1, <1>2, <1>3, <1>4 DEF AccountInv

LEMMA AccountInvInductive == MirrorInv /\ AccountInv /\ [AuditNext]_auditVars => AccountInv'
<1> SUFFICES ASSUME MirrorInv, AccountInv, [AuditNext]_auditVars
             PROVE  AccountInv'
  OBVIOUS
<1>a. ASSUME UNCHANGED auditVars
      PROVE  AccountInv'
  BY <1>a DEF auditVars, AccountInv, Apart, OnDisk, Held, NotWriting
<1>1. ASSUME NEW w \in Writer, NEW l \in Line, AuditAppend(w, l)
      PROVE  AccountInv'
  BY <1>1, <1>a, RecordKeepsAccount DEF AuditAppend, ReturnExisting, MirrorInv
<1>2. ASSUME NEW w \in Writer, WriteLine(w) \/ WriteFails(w)
      PROVE  AccountInv'
  BY <1>2, FileStepKeepsAccount DEF MirrorInv
<1>3. CASE AuditCrash
  BY <1>3, RestartKeepsAccount DEF MirrorInv
<1> QED
  BY <1>a, <1>1, <1>2, <1>3 DEF AuditNext

\* Counted: one place has the entry, and once.
LEMMA AccountCounts == MirrorInv /\ AccountInv => EachEntryAccountedFor
<1> SUFFICES ASSUME MirrorInv, AccountInv, NEW id \in 1..recorded
             PROVE  LET onDisk == {i \in DOMAIN file : file[i].id = id}
                        inHand == {w \in Writer : writing[w].id = id}
                    IN  Cardinality(onDisk) + Cardinality(inHand)
                            + (IF id \in unwritten THEN 1 ELSE 0) = 1
  BY DEF EachEntryAccountedFor
<1> DEFINE onDisk == {i \in DOMAIN file : file[i].id = id}
           inHand == {w \in Writer : writing[w].id = id}
<1>0. \A w \in inHand : ~NotWriting(w)
  BY HeldEntry DEF MirrorInv, AuditTypeOK
<1>1. CASE OnDisk(id)
  <2>1. PICK i \in DOMAIN file : file[i].id = id
    BY <1>1 DEF OnDisk
  <2>2. onDisk = {i}
    BY <2>1 DEF AccountInv, Apart
  <2>3. inHand = {} /\ id \notin unwritten
    BY <1>1 DEF AccountInv, Apart, Held
  <2>4. Cardinality(onDisk) = 1 /\ Cardinality(inHand) = 0
    BY <2>2, <2>3, FS_Singleton, FS_EmptySet
  <2> QED
    BY <2>3, <2>4
<1>2. CASE Held(id)
  <2>1. PICK w \in Writer : writing[w].id = id
    BY <1>2 DEF Held
  <2>2. inHand = {w}
    BY <1>0, <2>1 DEF AccountInv, Apart
  <2>3. onDisk = {} /\ id \notin unwritten
    BY <1>2 DEF AccountInv, Apart, OnDisk
  <2>4. Cardinality(onDisk) = 0 /\ Cardinality(inHand) = 1
    BY <2>2, <2>3, FS_Singleton, FS_EmptySet
  <2> QED
    BY <2>3, <2>4
<1>3. CASE ~OnDisk(id) /\ ~Held(id)
  <2>1. onDisk = {} /\ inHand = {} /\ id \in unwritten
    BY <1>3 DEF OnDisk, Held, AccountInv
  <2>2. Cardinality({}) = 0
    BY FS_EmptySet
  <2>3. Cardinality(onDisk) = 0 /\ Cardinality(inHand) = 0
    <3> HIDE DEF onDisk, inHand
    <3> QED
      BY <2>1, <2>2
  <2> QED
    BY <2>1, <2>3
<1> QED
  BY <1>1, <1>2, <1>3

\* Overlapping calls of audit_append, failed writes and restarts: every entry ever recorded
\* is on disk once, in the hands of one thread, or known to be unwritten.
THEOREM EveryEntryHasItsPlace == AuditSpec => []EachEntryAccountedFor
<1>1. AuditInit => MirrorInv /\ AccountInv
  BY MirrorInvInit DEF AuditInit, AccountInv, Apart, OnDisk, Held, NotWriting
<1> QED
  BY <1>1, MirrorInvInductive, AccountInvInductive, AccountCounts, PTL DEF AuditSpec
=============================================================================
