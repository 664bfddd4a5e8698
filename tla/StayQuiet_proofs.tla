--------------------------- MODULE StayQuiet_proofs ---------------------------
(***************************************************************************)
(* Theorems about StayQuiet for every value of its constants: any number   *)
(* of request threads, bookings and cycles.                                *)
(*                                                                         *)
(* The cycle lock is a matter of the service alone (LockInv): the position *)
(* of every thread agrees with the holder of the lock.  Everything else    *)
(* holds under AgentCore too, where cycles overlap, and rests on CycleInv: *)
(* what the locals of run_cycle are worth at each place (PlaceInv), how    *)
(* many cycles have begun (CountInv), whose each running run is (RunInv),  *)
(* that a cycle asks once about each booking (SlotInv), and what the       *)
(* handler of an answer holds (LoopInv).  With it every step of the        *)
(* service is shown to be a step DecisionStore allows, so the theorems of  *)
(* Records_proofs carry over to the service, and what relates the store to *)
(* the trail is proved on top of them.                                     *)
(* ContextInv, of the service alone again, ties the module variables of    *)
(* ctx.py and the ring to the one cycle that runs.                         *)
(* StateInv is about GET /api/state, whose reads have cycles in between:   *)
(* since its first read cards were added and none was answered.            *)
(***************************************************************************)
EXTENDS StayQuiet, Selection_proofs, Functions, FunctionTheorems, FiniteSetTheorems,
        SequenceTheorems, TLAPS

\* The places of the threads, all in a label of theirs, and the lock agree.
LockInv ==
    /\ pc \in [Thread -> Label]
    /\ LockTells

\* Under AgentCore nobody takes the lock, and nothing is claimed.
ServiceInv == Service => LockInv

InCycleLabel == Label \ {"idle", "queued"}

-----------------------------------------------------------------------------

\* A thread that goes from one place of its cycle to another, with the lock as it is,
\* keeps the invariant.
LEMMA StepInside ==
    ASSUME LockInv, NEW w \in Thread, InCycle(w),
           NEW l \in InCycleLabel, Goto(w, l), UNCHANGED lock
    PROVE  LockInv'
<1>1. pc' \in [Thread -> Label]
  BY DEF LockInv, Goto, InCycleLabel
<1>2. \A v \in Thread : InCycle(v)' <=> InCycle(v)
  BY DEF LockInv, Goto, InCycle, InCycleLabel, Label
<1> QED
  BY <1>1, <1>2 DEF LockInv, LockTells

\* Nothing about the threads changes in a step that leaves pc and lock alone.
LEMMA StepOutside ==
    ASSUME LockInv, UNCHANGED <<pc, lock>>
    PROVE  LockInv'
BY DEF LockInv, LockTells, InCycle

\* A thread outside its cycle that is sent to, or called back from, the queue keeps the
\* invariant: queued is not in the cycle.
LEMMA StepInQueue ==
    ASSUME LockInv, NEW w \in Thread, ~InCycle(w),
           NEW l \in {"idle", "queued"}, Goto(w, l), UNCHANGED lock
    PROVE  LockInv'
<1>1. pc' \in [Thread -> Label]
  BY DEF LockInv, Goto, Label
<1>2. \A v \in Thread : InCycle(v)' <=> InCycle(v)
  BY DEF LockInv, Goto, InCycle
<1> QED
  BY <1>1, <1>2 DEF LockInv, LockTells

\* start_cycle_sync keeps the invariant: it enters the cycle with the lock it took, or
\* leaves with what it found.
LEMMA AcquireStep ==
    ASSUME LockInv, ServiceAssumption, NEW w \in Thread, Acquire(w)
    PROVE  LockInv'
<1>1. ~InCycle(w)
  BY DEF Acquire, InCycle
<1>2. CASE lock = NoThread /\ lock' = w /\ Goto(w, "begin")
  <2>1. \A v \in Thread : ~InCycle(v)
    BY <1>2 DEF LockInv, LockTells, ServiceAssumption
  <2>2. pc' \in [Thread -> Label] /\ pc' = [pc EXCEPT ![w] = "begin"]
    BY <1>2 DEF LockInv, Goto, Label
  <2>3. \A v \in Thread : InCycle(v)' <=> v = w
    BY <2>1, <2>2 DEF LockInv, InCycle
  <2> QED
    BY <1>2, <2>2, <2>3 DEF LockInv, LockTells
<1>3. CASE lock' = lock /\ Goto(w, "idle")
  BY <1>1, <1>3, StepInQueue
<1> QED
  BY <1>2, <1>3 DEF Acquire

\* The finally of start_cycle_sync: the thread that leaves is the one that held the lock.
LEMMA ReleaseStep ==
    ASSUME LockInv, ServiceAssumption, NEW w \in Thread, Release(w)
    PROVE  LockInv'
<1>1. InCycle(w) /\ lock = w
  BY DEF LockInv, LockTells, Release, InCycle
<1>2. pc' = [pc EXCEPT ![w] = "idle"] /\ lock' = NoThread /\ NoThread \notin Thread
  BY DEF Release, Goto, ServiceAssumption
<1>3. pc' \in [Thread -> Label]
  BY <1>2 DEF LockInv, Label
<1>4. \A v \in Thread : ~InCycle(v)'
  BY <1>1, <1>2 DEF LockInv, LockTells, InCycle
<1> QED
  BY <1>2, <1>3, <1>4 DEF LockInv, LockTells

\* Every other step of a thread stays inside the cycle and keeps its hands off the lock.
LEMMA CycleStepInside ==
    ASSUME LockInv, NEW w \in Thread, CycleThread(w), ~Acquire(w), ~Release(w)
    PROVE  LockInv'
<1>1. CASE AuditFile(w)
  BY <1>1, StepOutside DEF AuditFile
<1>2. CASE ~AuditFile(w)
  <2>1. /\ InCycle(w)
        /\ UNCHANGED lock
        /\ \E l \in InCycleLabel : Goto(w, l)
    <3>1. CASE Begin(w) \/ OpenRun(w) \/ EmitStarted(w) \/ AuditPolicy(w) \/ EmitScan(w)
                 \/ BuildAgent(w)
      BY <3>1 DEF Begin, OpenRun, EmitStarted, AuditPolicy, EmitScan, BuildAgent, At,
                  InCycle, InCycleLabel, Label
    <3>2. CASE PolicyTool(w) \/ AgentTool(w) \/ AgentLogs(w)
      BY <3>2 DEF PolicyTool, AgentTool, AgentLogs, At, InCycle, InCycleLabel, Label
    <3>3. CASE EmitTurnStarted(w) \/ TurnEnds(w) \/ EmitTriage(w)
      BY <3>3 DEF EmitTurnStarted, TurnEnds, EmitTriage, At, InCycle, InCycleLabel, Label
    <3>4. CASE Drain(w)
      BY <3>4 DEF Drain, InCycle, InCycleLabel, Label
    <3>5. CASE FileQuietly(w) \/ RaiseDecision(w) \/ AuditEscalation(w)
      BY <3>5 DEF FileQuietly, RaiseDecision, AuditEscalation, InCycle, InCycleLabel, Label
    <3>6. CASE FinishRun(w) \/ EmitDone(w) \/ AuditFailure(w) \/ FinishFailed(w)
      BY <3>6 DEF FinishRun, EmitDone, AuditFailure, FinishFailed, At, InCycle,
                  InCycleLabel, Label
    <3>7. CASE Fail(w)
      BY <3>7 DEF Fail, Raises, At, InCycle, InCycleLabel, Label
    <3> QED
      BY <1>2, <3>1, <3>2, <3>3, <3>4, <3>5, <3>6, <3>7 DEF CycleThread
  <2> QED
    BY <2>1, StepInside
<1> QED
  BY <1>1, <1>2

\* In the service, every step keeps the invariant.
LEMMA LockInvStep ==
    ASSUME LockInv, ServiceAssumption, Service, [Next]_vars
    PROVE  LockInv'
<1>1. ASSUME NEW w \in Poster, PostRun(w) PROVE LockInv'
  BY <1>1, StepInQueue DEF PostRun, InCycle, Thread
<1>2. ASSUME NEW w \in Thread, Invoke(w) PROVE LockInv'
  BY <1>2 DEF Invoke
<1>3. CASE Tick
  BY <1>3, StepInQueue DEF Tick, InCycle, Thread
<1>4. ASSUME NEW w \in Thread, CycleThread(w) PROVE LockInv'
  BY <1>4, AcquireStep, ReleaseStep, CycleStepInside
<1>5. ASSUME NEW i \in DOMAIN decisions, NEW a \in Store!HostAction,
             NEW x \in Text \cup {NoText}, HostAnswers(i, a, x)
      PROVE  LockInv'
  BY <1>5, StepOutside DEF HostAnswers
<1>6. CASE ReadPending
  BY <1>6, StepOutside DEF ReadPending
<1>7. CASE HandlerStep
  BY <1>7, StepOutside DEF HandlerStep, AuditAnswer, EmitAnswer, AuditFile, ReadResolved,
                           ReadEvents, ReadTrail, Reply
<1>8. CASE UNCHANGED vars
  BY <1>8, StepOutside DEF vars
<1> QED
  BY <1>1, <1>2, <1>3, <1>4, <1>5, <1>6, <1>7, <1>8 DEF Next

\* No step of a cycle thread touches the event loop.
LEMMA ThreadsLeaveTheLoop ==
    ASSUME NEW w \in Thread, CycleThread(w)
    PROVE  UNCHANGED <<loop, answers>>
<1>1. CASE Acquire(w) \/ Release(w) \/ Begin(w) \/ OpenRun(w) \/ EmitStarted(w)
  BY <1>1 DEF Acquire, Release, Begin, OpenRun, EmitStarted, apiVars
<1>2. CASE PolicyTool(w) \/ AuditPolicy(w) \/ EmitScan(w) \/ BuildAgent(w)
  BY <1>2 DEF PolicyTool, AuditPolicy, EmitScan, BuildAgent, apiVars
<1>3. CASE EmitTurnStarted(w) \/ AgentTool(w) \/ AgentLogs(w) \/ TurnEnds(w) \/ Drain(w)
  BY <1>3 DEF EmitTurnStarted, AgentTool, AgentLogs, TurnEnds, Drain, apiVars
<1>4. CASE EmitTriage(w) \/ FileQuietly(w) \/ RaiseDecision(w) \/ AuditEscalation(w)
  BY <1>4 DEF EmitTriage, FileQuietly, RaiseDecision, AuditEscalation, apiVars
<1>5. CASE FinishRun(w) \/ EmitDone(w) \/ Fail(w) \/ AuditFailure(w) \/ FinishFailed(w)
  BY <1>5 DEF FinishRun, EmitDone, Fail, AuditFailure, FinishFailed, apiVars
<1>6. CASE AuditFile(w)
  BY <1>6 DEF AuditFile, apiVars
<1> QED
  BY <1>1, <1>2, <1>3, <1>4, <1>5, <1>6 DEF CycleThread

\* A deployment stays what it is: without an event loop no handler begins.
LEMMA NoLoopNoHandler ==
    ASSUME ~Service, Next
    PROVE  ~Service'
<1>1. UNCHANGED loop => ~Service'
  BY DEF Service
<1>2. ASSUME NEW w \in Poster, PostRun(w) PROVE ~Service'
  BY <1>2 DEF PostRun, Service
<1>3. ASSUME NEW w \in Thread, Invoke(w) PROVE ~Service'
  BY <1>1, <1>3 DEF Invoke, apiVars
<1>4. CASE Tick
  BY <1>4 DEF Tick, Service
<1>5. ASSUME NEW w \in Thread, CycleThread(w) PROVE ~Service'
  BY <1>1, <1>5, ThreadsLeaveTheLoop
<1>6. ASSUME NEW i \in DOMAIN decisions, NEW a \in Store!HostAction,
             NEW x \in Text \cup {NoText}, HostAnswers(i, a, x)
      PROVE  ~Service'
  BY <1>6 DEF HostAnswers, Service
<1>7. CASE ReadPending
  BY <1>7 DEF ReadPending, Service
<1>8. CASE HandlerStep
  BY <1>1, <1>8 DEF HandlerStep, AuditAnswer, EmitAnswer, AuditFile, ReadResolved,
                    ReadEvents, ReadTrail, Reply, Service, apiVars
<1> QED
  BY <1>2, <1>3, <1>4, <1>5, <1>6, <1>7, <1>8 DEF Next

\* The cycle lock of the service is sound, whatever the requests, the answers and the
\* scheduler do, and wherever a cycle fails.
THEOREM CycleLockInvariant == Spec => []ServiceInv
<1>1. Init => ServiceInv
  BY ServiceAssumption DEF Init, ServiceInv, LockInv, LockTells, InCycle, Label,
                           ServiceAssumption
<1>2. ServiceInv /\ [Next]_vars => ServiceInv'
  <2> SUFFICES ASSUME ServiceInv, [Next]_vars, Service'
               PROVE  LockInv'
    BY DEF ServiceInv
  <2>1. Service
    BY NoLoopNoHandler DEF vars, apiVars, Service
  <2> QED
    BY <2>1, ServiceAssumption, LockInvStep DEF ServiceInv
<1> QED
  BY <1>1, <1>2, PTL DEF Spec

\* _cycle_lock: only one cycle runs at a time, and cycle_running tells the truth.
THEOREM OnlyOneCycle == Spec => []OneCycleAtATime
<1>1. ServiceInv => OneCycleAtATime
  BY DEF ServiceInv, LockInv, OneCycleAtATime
<1> QED
  BY <1>1, CycleLockInvariant, PTL

\* The form a reader of run_cycle relies on: what two cycles would share is not shared.
NoTwoInCycle ==
    Service => \A v, w \in Thread : InCycle(v) /\ InCycle(w) => v = w

\* Two threads of the service are never both between acquire and release.
THEOREM NoTwoCycles == Spec => []NoTwoInCycle
<1>1. ServiceInv => NoTwoInCycle
  BY DEF ServiceInv, LockInv, LockTells, NoTwoInCycle
<1> QED
  BY <1>1, CycleLockInvariant, PTL

-----------------------------------------------------------------------------
(***************************************************************************)
(* The inductive invariant of the cycles.                                  *)
(***************************************************************************)

\* The labels at which a cycle is not yet at its bookings, and those at which it is at one.
BeforeBookings == {"started", "policy", "policyTool", "scan", "agent"}

AtBooking == {"turn", "turnTool", "toolLogged", "drain", "triage", "file", "escalated"}

\* The locals of run_cycle, without the bounds of the instance.
ThreadState == [trace : Nat, run : Nat, todo : Seq(Booking),
                turn : {"draft_reply", "turnover_checklist"}, text : Text \cup {NoText},
                made : Nat]

\* What the locals of run_cycle are worth at each place of it: there is a booking where
\* one is worked on, and a draft where one is judged.
ThreadOK(l, c) ==
    /\ l \in Label /\ c \in ThreadState
    /\ l \in {"idle", "queued", "begin"} => c = NoCycle
    /\ l \in BeforeBookings \cup {"open"} => c.todo = <<>>
    /\ l \in AtBooking => c.todo # <<>>
    /\ Len(c.todo) <= Len(Impacts)
    /\ l \in {"drain", "triage", "file", "escalated"} \/ c.turn = "turnover_checklist"
           => c.text \in Text
    /\ l \in {"triage", "file", "escalated"} => c.turn = "draft_reply"
    /\ l = "escalated" => Triage(Head(c.todo), c.text) # Quiet

\* Every thread has the locals its place needs, and in a cycle the trace of one that has begun.
PlaceInv ==
    /\ pc \in [Thread -> Label] /\ cyc \in [Thread -> ThreadState]
    /\ \A w \in Thread : ThreadOK(pc[w], cyc[w])
    /\ \A w \in Thread : pc[w] \notin {"idle", "queued", "begin"} => cyc[w].trace \in 1..cycles

\* Threads that will begin a cycle, and those that will open a run for one.
Waiting == {w \in Thread : pc[w] \in {"queued", "begin"}}

Opening == {w \in Thread : pc[w] = "open"}

\* No more cycles are begun or asked for than the bound, and each that has begun has opened
\* its run or is about to.
CountInv ==
    /\ IsFiniteSet(Waiting) /\ IsFiniteSet(Opening)
    /\ cycles \in Nat /\ cycles + Cardinality(Waiting) <= MaxCycles
    /\ Len(runs) + Cardinality(Opening) = cycles

\* The places of a thread that works on a run: Working, by the label alone.
AtWork(l) == l \notin {"idle", "queued", "begin", "open", "done", "release"}

\* A thread at work has a running run of its own, and a running run has such a thread.
RunInv ==
    /\ \A w \in Thread : AtWork(pc[w]) =>
           cyc[w].run \in DOMAIN runs /\ runs[cyc[w].run].status = "running"
    /\ \A v, w \in Thread :
           AtWork(pc[v]) /\ AtWork(pc[w]) /\ cyc[v].run = cyc[w].run => v = w
    /\ \A r \in DOMAIN runs : runs[r].status = "running" =>
           \E w \in Thread : AtWork(pc[w]) /\ cyc[w].run = r

\* The bookings a cycle at place l has asked the host about, if it asked about each so far.
HandledAt(l, c) ==
    IF l \in BeforeBookings THEN 0
    ELSE Len(Impacts) - Len(c.todo) + (IF l = "escalated" THEN 1 ELSE 0)

\* A place for every decision among those of its run: no two share one, and none is
\* beyond the booking its cycle has got to.
SlotsOK(slot) ==
    /\ \A i, j \in DOMAIN decisions :
         decisions[i].run = decisions[j].run /\ slot[i] = slot[j] => i = j
    /\ \A w \in Thread, i \in DOMAIN decisions :
         AtWork(pc[w]) /\ decisions[i].run = cyc[w].run
             => slot[i] <= HandledAt(pc[w], cyc[w])

\* A cycle raises a decision at most once for each of its impacts.
SlotInv ==
    /\ \A i \in DOMAIN decisions : decisions[i].run \in DOMAIN runs
    /\ \E slot \in [DOMAIN decisions -> 1..Len(Impacts)] : SlotsOK(slot)

\* The handler of an answer holds a card that is there and has been answered.
LoopInv ==
    /\ loop.at \in {"absent", "free", "answered", "audited", "pending", "events", "audit",
                    "reply"}
    /\ loop.at \in {"answered", "audited"} =>
         /\ loop = [at |-> loop.at, card |-> loop.card]
         /\ loop.card \in DOMAIN decisions
         /\ decisions[loop.card].status # "pending"
    /\ loop.at = "pending" =>
         loop = [at |-> "pending", cards |-> loop.cards, known |-> loop.known]
    /\ answers \in 0..MaxAnswers

-----------------------------------------------------------------------------
(***************************************************************************)
(* PlaceInv: a step of a thread takes it to a place where its locals fit.  *)
(***************************************************************************)

\* The locals of a thread become c.
Puts(w, c) == cyc' = [cyc EXCEPT ![w] = c]

\* One thread moves on, the others stay where they are.
LEMMA MovesTo ==
    ASSUME PlaceInv, CountInv, NEW w \in Thread, NEW l, NEW c, ThreadOK(l, c),
           Goto(w, l), Puts(w, c),
           cycles' \in Nat, cycles <= cycles',
           l \notin {"idle", "queued", "begin"} => c.trace \in 1..cycles'
    PROVE  PlaceInv'
<1>1. l \in Label /\ c \in ThreadState /\ pc' = [pc EXCEPT ![w] = l]
  BY DEF ThreadOK, Goto
<1>2. pc' \in [Thread -> Label] /\ cyc' \in [Thread -> ThreadState]
  BY <1>1 DEF PlaceInv, Puts
<1>3. \A v \in Thread : /\ pc'[v] = IF v = w THEN l ELSE pc[v]
                        /\ cyc'[v] = IF v = w THEN c ELSE cyc[v]
  BY <1>1 DEF PlaceInv, Puts
<1>4. \A v \in Thread : ThreadOK(pc'[v], cyc'[v])
  BY <1>3 DEF PlaceInv
<1>5. ASSUME NEW v \in Thread, pc'[v] \notin {"idle", "queued", "begin"}
      PROVE  cyc'[v].trace \in 1..cycles'
  BY <1>3, <1>5 DEF PlaceInv, CountInv
<1> QED
  BY <1>2, <1>4, <1>5 DEF PlaceInv, ThreadOK

\* The same when its locals stay as they are.
LEMMA WalksTo ==
    ASSUME PlaceInv, CountInv, NEW w \in Thread, NEW l, ThreadOK(l, cyc[w]),
           Goto(w, l), UNCHANGED <<cyc, cycles>>,
           l \in {"idle", "queued", "begin"} \/ pc[w] \notin {"idle", "queued", "begin"}
    PROVE  PlaceInv'
<1>1. Puts(w, cyc[w])
  BY DEF PlaceInv, Puts
<1>2. cycles' \in Nat /\ cycles <= cycles'
  BY DEF CountInv
<1>3. l \notin {"idle", "queued", "begin"} => cyc[w].trace \in 1..cycles'
  BY DEF PlaceInv
<1> QED
  BY <1>1, <1>2, <1>3, MovesTo

\* Every step of a thread takes it to a place where its locals are what that place needs.
LEMMA PlaceStep ==
    ASSUME PlaceInv, CountInv, Len(runs) \in Nat, ServiceAssumption,
           NEW w \in Thread, CycleThread(w)
    PROVE  PlaceInv'
<1>1. /\ pc[w] \in Label /\ cyc[w] \in ThreadState /\ ThreadOK(pc[w], cyc[w])
      /\ pc[w] \notin {"idle", "queued", "begin"} => cyc[w].trace \in 1..cycles
      /\ cycles \in Nat /\ MaxCycles \in Nat /\ Impacts \in Seq(Booking)
  BY DEF PlaceInv, CountInv, ServiceAssumption
<1> USE <1>1
<1>2. CASE Acquire(w)
  <2>1. ThreadOK("begin", cyc[w]) /\ ThreadOK("idle", cyc[w])
    BY <1>2 DEF Acquire, ThreadOK, BeforeBookings, AtBooking, Label, Puts
  <2> QED
    BY <1>2, <2>1, WalksTo DEF Acquire
<1>3. CASE Release(w)
  <2>1. ThreadOK("idle", NoCycle)
    BY DEF ThreadOK, BeforeBookings, AtBooking, Label, NoCycle, ThreadState
  <2>2. Puts(w, NoCycle) /\ Goto(w, "idle") /\ cycles' = cycles
    BY <1>3 DEF Release, Puts
  <2> QED
    BY <2>1, <2>2, MovesTo
<1>4. CASE Begin(w)
  <2>1. cyc[w] = NoCycle /\ cycles' = cycles + 1
    BY <1>4 DEF Begin, ThreadOK
  <2> DEFINE n == cycles + 1
             c == [cyc[w] EXCEPT !.trace = n]
  <2>2. n \in 1..cycles' /\ Puts(w, c) /\ Goto(w, "open")
    BY <1>4 DEF Begin, Puts
  <2>3. n \in Nat
    OBVIOUS
  <2>4. cyc[w].todo = <<>> /\ cyc[w].turn = "draft_reply"
    BY <2>1 DEF NoCycle
  <2> HIDE DEF n
  <2>5. c \in ThreadState /\ c.trace = n /\ c.todo = cyc[w].todo /\ c.turn = cyc[w].turn
    BY <2>3 DEF ThreadState
  <2> HIDE DEF c
  <2>6. c \in ThreadState /\ c.trace = n /\ c.todo = <<>> /\ c.turn = "draft_reply"
    BY <2>4, <2>5
  <2>7. ThreadOK("open", c)
    BY <2>6 DEF ThreadOK, BeforeBookings, AtBooking, Label
  <2> QED
    BY <2>1, <2>6, <2>2, <2>7, MovesTo
<1>5. CASE OpenRun(w)
  <2> DEFINE n == Len(runs) + 1
             c == [cyc[w] EXCEPT !.run = n]
  <2>1. Puts(w, c) /\ Goto(w, "started") /\ cycles' = cycles
        /\ pc[w] = "open"
    BY <1>5 DEF OpenRun, Puts
  <2>2. n \in Nat
    OBVIOUS
  <2> HIDE DEF n
  <2>3. /\ c \in ThreadState /\ c.trace = cyc[w].trace /\ c.todo = cyc[w].todo
        /\ c.turn = cyc[w].turn /\ c.text = cyc[w].text
    BY <2>2 DEF ThreadState
  <2> HIDE DEF c
  <2>4. ThreadOK("started", c)
    BY <2>3, <2>1 DEF ThreadOK, BeforeBookings, AtBooking, Label
  <2> QED
    BY <2>3, <2>1, <2>4, MovesTo
<1>6. CASE EmitStarted(w) \/ AuditPolicy(w) \/ EmitScan(w)
  <2>1. \E l \in {"policy", "scan", "agent"} : Goto(w, l) /\ ThreadOK(l, cyc[w])
    BY <1>6 DEF EmitStarted, AuditPolicy, EmitScan, At, ThreadOK, BeforeBookings, AtBooking,
                Label
  <2>2. UNCHANGED <<cyc, cycles>> /\ pc[w] \notin {"idle", "queued", "begin"}
    BY <1>6 DEF EmitStarted, AuditPolicy, EmitScan, At
  <2> QED
    BY <2>1, <2>2, WalksTo
<1>7. CASE PolicyTool(w) \/ AgentTool(w)
  <2> DEFINE n == cyc[w].made + 1
             c == [cyc[w] EXCEPT !.made = n]
  <2>1. n \in Nat
    BY DEF ThreadState
  <2>2. cyc[w] \in ThreadState => Puts(w, c) <=> cyc' = [cyc EXCEPT ![w].made = @ + 1]
    BY DEF Puts
  <2> HIDE DEF n
  <2>3. /\ c \in ThreadState /\ c.trace = cyc[w].trace /\ c.todo = cyc[w].todo
        /\ c.turn = cyc[w].turn /\ c.text = cyc[w].text
    BY <2>1 DEF ThreadState
  <2>4. /\ cycles' = cycles /\ pc[w] \notin {"idle", "queued", "begin"}
        /\ \E l \in {"policy", "policyTool", "turn", "turnTool"} :
             /\ Goto(w, l)
             /\ (pc[w] \in AtBooking) <=> (l \in AtBooking)
             /\ (pc[w] \in BeforeBookings) <=> (l \in BeforeBookings)
        /\ Puts(w, c) \/ cyc' = cyc
    BY <1>7, <2>2 DEF PolicyTool, AgentTool, ToolBegin, At, AtBooking, BeforeBookings
  <2> HIDE DEF c
  <2>5. PICK l \in {"policy", "policyTool", "turn", "turnTool"} :
             /\ Goto(w, l)
             /\ (pc[w] \in AtBooking) <=> (l \in AtBooking)
             /\ (pc[w] \in BeforeBookings) <=> (l \in BeforeBookings)
    BY <2>4
  <2>6. ThreadOK(l, c) /\ ThreadOK(l, cyc[w])
    BY <2>3, <2>4, <2>5 DEF ThreadOK, Label, BeforeBookings, AtBooking
  <2> QED
    BY <2>3, <2>4, <2>5, <2>6, MovesTo, WalksTo
<1>8. CASE BuildAgent(w)
  <2> DEFINE c == [cyc[w] EXCEPT !.todo = Impacts, !.made = 0]
  <2>1. /\ c \in ThreadState /\ c.trace = cyc[w].trace /\ c.todo = Impacts
        /\ c.turn = cyc[w].turn /\ c.text = cyc[w].text
    BY DEF ThreadState
  <2>2. Puts(w, c) /\ Goto(w, "next") /\ cycles' = cycles
        /\ pc[w] = "agent"
    BY <1>8 DEF BuildAgent, Puts
  <2> HIDE DEF c
  <2>3. ThreadOK("next", c)
    BY <2>1, <2>2 DEF ThreadOK, BeforeBookings, AtBooking, Label
  <2> QED
    BY <2>1, <2>2, <2>3, MovesTo
<1>9. CASE EmitTurnStarted(w) \/ EmitTriage(w) \/ AgentLogs(w)
  <2>1. \E l \in {"turn", "file", "toolLogged"} : Goto(w, l) /\ ThreadOK(l, cyc[w])
    BY <1>9 DEF EmitTurnStarted, EmitTriage, AgentLogs, At, ThreadOK, BeforeBookings, AtBooking,
                Label
  <2>2. UNCHANGED <<cyc, cycles>> /\ pc[w] \notin {"idle", "queued", "begin"}
    BY <1>9 DEF EmitTurnStarted, EmitTriage, AgentLogs, At
  <2> QED
    BY <2>1, <2>2, WalksTo
<1>10. CASE TurnEnds(w)
  <2>1. CASE cyc[w].turn = "draft_reply"
    <3>1. PICK x \in Text : cyc' = [cyc EXCEPT ![w].text = x]
      BY <1>10, <2>1 DEF TurnEnds
    <3> DEFINE c == [cyc[w] EXCEPT !.text = x]
    <3>2. c \in ThreadState /\ c.trace = cyc[w].trace /\ c.todo = cyc[w].todo /\ c.text = x
      BY DEF ThreadState
    <3>3. Puts(w, c) /\ Goto(w, "drain") /\ cycles' = cycles
          /\ pc[w] = "turn"
      BY <1>10, <3>1 DEF TurnEnds, Puts
    <3> HIDE DEF c
    <3>4. ThreadOK("drain", c)
      BY <3>2, <3>3 DEF ThreadOK, BeforeBookings, AtBooking, Label
    <3> QED
      BY <3>2, <3>3, <3>4, MovesTo
  <2>2. CASE cyc[w].turn # "draft_reply"
    <3>1. ThreadOK("drain", cyc[w])
      BY <1>10, <2>2 DEF TurnEnds, ThreadOK, BeforeBookings, AtBooking, Label, ThreadState
    <3> QED
      BY <1>10, <2>2, <3>1, WalksTo DEF TurnEnds
  <2> QED
    BY <2>1, <2>2
<1>11. CASE Drain(w)
  <2>1. CASE cyc[w].turn = "draft_reply"
    <3> DEFINE c == [cyc[w] EXCEPT !.made = 0, !.turn = "turnover_checklist"]
    <3>1. /\ c \in ThreadState /\ c.trace = cyc[w].trace /\ c.todo = cyc[w].todo
          /\ c.text = cyc[w].text /\ c.turn = "turnover_checklist"
      BY DEF ThreadState
    <3>2. Puts(w, c) /\ Goto(w, "next") /\ cycles' = cycles
          /\ pc[w] = "drain"
      BY <1>11, <2>1 DEF Drain, Puts
    <3> HIDE DEF c
    <3>3. ThreadOK("next", c)
      BY <3>1, <3>2 DEF ThreadOK, BeforeBookings, AtBooking, Label
    <3> QED
      BY <3>1, <3>2, <3>3, MovesTo
  <2>2. CASE cyc[w].turn # "draft_reply"
    <3> DEFINE c == [cyc[w] EXCEPT !.made = 0, !.turn = "draft_reply"]
    <3>1. /\ c \in ThreadState /\ c.trace = cyc[w].trace /\ c.todo = cyc[w].todo
          /\ c.text = cyc[w].text /\ c.turn = "draft_reply"
      BY DEF ThreadState
    <3>2. Puts(w, c) /\ Goto(w, "triage") /\ cycles' = cycles
          /\ pc[w] = "drain"
      BY <1>11, <2>2 DEF Drain, Puts
    <3> HIDE DEF c
    <3>3. ThreadOK("triage", c)
      BY <3>1, <3>2 DEF ThreadOK, BeforeBookings, AtBooking, Label
    <3> QED
      BY <3>1, <3>2, <3>3, MovesTo
  <2> QED
    BY <2>1, <2>2
<1>12. CASE FileQuietly(w) \/ AuditEscalation(w)
  <2> DEFINE c == [cyc[w] EXCEPT !.todo = Tail(@), !.text = NoText]
  <2>1. cyc[w].todo # <<>> /\ pc[w] \in {"file", "escalated"}
    BY <1>12 DEF FileQuietly, AuditEscalation, ThreadOK, AtBooking
  <2>2. Puts(w, c) /\ Goto(w, "next") /\ cycles' = cycles
    BY <1>12 DEF FileQuietly, AuditEscalation, BookingDone, Puts
  <2>3. Tail(cyc[w].todo) \in Seq(Booking) /\ Len(Tail(cyc[w].todo)) <= Len(Impacts)
    BY <2>1 DEF ThreadOK, ThreadState
  <2>4. /\ c \in ThreadState /\ c.trace = cyc[w].trace /\ c.todo = Tail(cyc[w].todo)
        /\ c.turn = cyc[w].turn /\ c.text = NoText
    BY <2>3 DEF ThreadState
  <2> HIDE DEF c
  <2>5. cyc[w].turn = "draft_reply"
    BY <2>1 DEF ThreadOK
  <2>6. ThreadOK("next", c)
    BY <2>3, <2>4, <2>5 DEF ThreadOK, BeforeBookings, AtBooking, Label
  <2> QED
    BY <2>1, <2>2, <2>4, <2>6, MovesTo
<1>13. CASE RaiseDecision(w)
  <2>1. ThreadOK("escalated", cyc[w])
    BY <1>13 DEF RaiseDecision, Verdict, ThreadOK, BeforeBookings, AtBooking, Label
  <2> QED
    BY <1>13, <2>1, WalksTo DEF RaiseDecision
<1>14. CASE FinishRun(w) \/ EmitDone(w) \/ AuditFailure(w) \/ FinishFailed(w) \/ Fail(w)
  <2>1. \E l \in {"done", "release", "failedRun", "failed"} : Goto(w, l)
    BY <1>14 DEF FinishRun, EmitDone, AuditFailure, FinishFailed, Fail
  <2>2. \A l \in {"done", "release", "failedRun", "failed"} : ThreadOK(l, cyc[w])
    BY DEF ThreadOK, BeforeBookings, AtBooking, Label
  <2>3. UNCHANGED <<cyc, cycles>> /\ pc[w] \notin {"idle", "queued", "begin"}
    BY <1>14 DEF FinishRun, EmitDone, AuditFailure, FinishFailed, Fail, Raises, At
  <2> QED
    BY <2>1, <2>2, <2>3, WalksTo
<1>15. CASE AuditFile(w)
  BY <1>15 DEF AuditFile, PlaceInv
<1> QED
  BY <1>2, <1>3, <1>4, <1>5, <1>6, <1>7, <1>8, <1>9, <1>10, <1>11, <1>12, <1>13, <1>14, <1>15
     DEF CycleThread

-----------------------------------------------------------------------------
(***************************************************************************)
(* CountInv: the threads that wait for a cycle, and those about to open    *)
(* the run of theirs.                                                      *)
(***************************************************************************)

\* What is proved of the decision store and of the audit trail, with the parameters the
\* service gives them.
RecordsP == INSTANCE Records_proofs
              WITH MaxRuns <- MaxCycles, MaxDecisions <- MaxCycles * Len(Impacts),
                   Writer <- Thread \cup {EventLoop}, Line <- CycleLine \cup OtherLine,
                   Repeating <- CycleLine, MaxEntries <- MaxLines, MaxCrashes <- 0

-----------------------------------------------------------------------------

\* Where each thread of a step that moves one thread ends up.
LEMMA Moved ==
    ASSUME PlaceInv, NEW w \in Thread, NEW l, Goto(w, l)
    PROVE  \A v \in Thread : pc'[v] = IF v = w THEN l ELSE pc[v]
BY DEF PlaceInv, Goto

\* A thread that moves joins or leaves the two sets that are counted.
LEMMA SetsMove ==
    ASSUME PlaceInv, NEW w \in Thread, NEW l, Goto(w, l)
    PROVE  /\ Waiting' = IF l \in {"queued", "begin"} THEN Waiting \cup {w} ELSE Waiting \ {w}
           /\ Opening' = IF l = "open" THEN Opening \cup {w} ELSE Opening \ {w}
BY Moved DEF Waiting, Opening

\* A step among the other places counts nothing.
LEMMA CountsNothing ==
    ASSUME PlaceInv, CountInv, NEW w \in Thread,
           UNCHANGED cycles, Len(runs') = Len(runs),
           pc' = pc \/ \E l \in Label \ {"queued", "begin", "open"} : Goto(w, l),
           pc' # pc => pc[w] \notin {"queued", "begin", "open"}
    PROVE  CountInv'
<1>1. Waiting' = Waiting /\ Opening' = Opening
  <2>1. CASE pc' = pc
    BY <2>1 DEF Waiting, Opening
  <2>2. CASE pc' # pc
    <3>1. w \notin Waiting /\ w \notin Opening
      BY <2>2 DEF Waiting, Opening
    <3>2. Waiting' = Waiting \ {w} /\ Opening' = Opening \ {w}
      BY <2>2, SetsMove
    <3> QED
      BY <3>1, <3>2
  <2> QED
    BY <2>1, <2>2
<1> QED
  BY <1>1 DEF CountInv

\* A thread that waits for a cycle to begin is within the bound, by the guard Room.
LEMMA RoomIsKept ==
    ASSUME PlaceInv, CountInv, ServiceAssumption, Len(runs) \in Nat, NEW w \in Thread,
           pc[w] = "idle", Room, NEW l \in {"queued", "begin"}, Goto(w, l),
           UNCHANGED <<cycles, runs>>
    PROVE  CountInv'
<1>1. w \notin Waiting /\ w \notin Opening
  BY DEF Waiting, Opening
<1>2. Waiting' = Waiting \cup {w} /\ Opening' = Opening
  <2>1. Waiting' = Waiting \cup {w} /\ Opening' = Opening \ {w}
    BY SetsMove
  <2> QED
    BY <1>1, <2>1
<1>3. IsFiniteSet(Waiting') /\ Cardinality(Waiting') = Cardinality(Waiting) + 1
  BY <1>1, <1>2, FS_AddElement DEF CountInv
<1>4. cycles + Cardinality(Waiting) < MaxCycles /\ MaxCycles \in Nat
  BY DEF Room, Waiting, ServiceAssumption
<1>5. Cardinality(Waiting) \in Nat
  BY FS_CardinalityType DEF CountInv
<1> QED
  BY <1>2, <1>3, <1>4, <1>5 DEF CountInv

\* Each cycle that has begun is about to open its run or has opened it.
LEMMA CountStep ==
    ASSUME PlaceInv, CountInv, ServiceAssumption, Len(runs) \in Nat,
           NEW w \in Thread, Acquire(w) \/ Begin(w) \/ OpenRun(w),
           OpenRun(w) => Len(runs') = Len(runs) + 1
    PROVE  CountInv'
<1>1. /\ Cardinality(Waiting) \in Nat /\ Cardinality(Opening) \in Nat
      /\ IsFiniteSet(Waiting) /\ IsFiniteSet(Opening) /\ cycles \in Nat /\ MaxCycles \in Nat
      /\ cycles + Cardinality(Waiting) <= MaxCycles
      /\ Len(runs) + Cardinality(Opening) = cycles
  BY FS_CardinalityType DEF CountInv, ServiceAssumption
<1>2. CASE Acquire(w)
  <2>1. w \in Waiting /\ w \notin Opening /\ UNCHANGED <<cycles, runs>>
    BY <1>2 DEF Acquire, Waiting, Opening, storeVars
  <2>2. CASE Goto(w, "begin")
    <3>1. Waiting' = Waiting \cup {w} /\ Opening' = Opening \ {w}
      BY <2>2, SetsMove
    <3>2. Waiting' = Waiting /\ Opening' = Opening
      BY <2>1, <3>1
    <3> QED
      BY <2>1, <3>2 DEF CountInv
  <2>3. CASE Goto(w, "idle")
    <3>1. Waiting' = Waiting \ {w} /\ Opening' = Opening \ {w}
      BY <2>3, SetsMove
    <3>2. Waiting' = Waiting \ {w} /\ Opening' = Opening
      BY <2>1, <3>1
    <3>3. IsFiniteSet(Waiting') /\ Cardinality(Waiting') = Cardinality(Waiting) - 1
      BY <1>1, <2>1, <3>2, FS_RemoveElement
    <3> QED
      BY <1>1, <2>1, <3>2, <3>3 DEF CountInv
  <2> QED
    BY <1>2, <2>2, <2>3 DEF Acquire
<1>3. CASE Begin(w)
  <2>1. w \in Waiting /\ w \notin Opening /\ cycles' = cycles + 1 /\ UNCHANGED runs
        /\ Goto(w, "open")
    BY <1>3 DEF Begin, Waiting, Opening, storeVars
  <2>2. Waiting' = Waiting \ {w} /\ Opening' = Opening \cup {w}
    BY <2>1, SetsMove
  <2>3. IsFiniteSet(Waiting') /\ Cardinality(Waiting') = Cardinality(Waiting) - 1
    BY <1>1, <2>1, <2>2, FS_RemoveElement
  <2>4. IsFiniteSet(Opening') /\ Cardinality(Opening') = Cardinality(Opening) + 1
    BY <1>1, <2>1, <2>2, FS_AddElement
  <2> QED
    BY <1>1, <2>1, <2>3, <2>4 DEF CountInv
<1>4. CASE OpenRun(w)
  <2>1. w \notin Waiting /\ w \in Opening /\ UNCHANGED cycles /\ Goto(w, "started")
    BY <1>4 DEF OpenRun, Waiting, Opening
  <2>2. Waiting' = Waiting \ {w} /\ Opening' = Opening \ {w}
    BY <2>1, SetsMove
  <2>3. Waiting' = Waiting /\ Opening' = Opening \ {w}
    BY <2>2, <2>1
  <2>4. IsFiniteSet(Opening') /\ Cardinality(Opening') = Cardinality(Opening) - 1
    BY <1>1, <2>1, <2>3, FS_RemoveElement
  <2>5. Len(runs') = Len(runs) + 1
    BY <1>4
  <2> QED
    BY <1>1, <2>1, <2>3, <2>4, <2>5 DEF CountInv
<1> QED
  BY <1>2, <1>3, <1>4

-----------------------------------------------------------------------------
(***************************************************************************)
(* RunInv and SlotInv: the steps that leave them alone.                    *)
(***************************************************************************)

\* Append, of whatever element.
LEMMA AppendFacts ==
    ASSUME NEW S, NEW s \in Seq(S), NEW e
    PROVE  /\ Len(Append(s, e)) = Len(s) + 1
           /\ DOMAIN Append(s, e) = 1 .. Len(s) + 1
           /\ \A i \in 1..Len(s) : Append(s, e)[i] = s[i]
           /\ Append(s, e)[Len(s) + 1] = e
<1>1. s \in Seq(S \cup {e}) /\ e \in S \cup {e}
  OBVIOUS
<1> QED
  BY <1>1

\* No cycle opens or closes its run, and none raises a new decision.
StoreStill ==
    /\ DOMAIN runs' = DOMAIN runs
    /\ \A r \in DOMAIN runs : runs'[r].status = runs[r].status
    /\ DOMAIN decisions' = DOMAIN decisions
    /\ \A i \in DOMAIN decisions : decisions'[i].run = decisions[i].run

\* No thread begins or ends its work, and none goes back to an earlier booking.
ThreadsStill ==
    \A v \in Thread :
        /\ AtWork(pc'[v]) <=> AtWork(pc[v])
        /\ AtWork(pc[v]) => /\ cyc'[v].run = cyc[v].run
                            /\ HandledAt(pc[v], cyc[v]) <= HandledAt(pc'[v], cyc'[v])

\* The count of bookings asked about is a number.
LEMMA HandledIsInt ==
    ASSUME PlaceInv, ServiceAssumption, NEW v \in Thread
    PROVE  HandledAt(pc[v], cyc[v]) \in Int
BY DEF PlaceInv, HandledAt, ThreadState, ServiceAssumption

\* A thread that moves within its work, or outside it, keeps still.
LEMMA MovesStill ==
    ASSUME PlaceInv, ServiceAssumption, NEW w \in Thread, NEW l, NEW c,
           Goto(w, l), Puts(w, c),
           AtWork(l) <=> AtWork(pc[w]),
           AtWork(l) => c.run = cyc[w].run /\ HandledAt(pc[w], cyc[w]) <= HandledAt(l, c)
    PROVE  ThreadsStill
<1>1. \A v \in Thread : /\ pc'[v] = IF v = w THEN l ELSE pc[v]
                        /\ cyc'[v] = IF v = w THEN c ELSE cyc[v]
  BY DEF PlaceInv, Goto, Puts
<1>2. \A v \in Thread : HandledAt(pc[v], cyc[v]) <= HandledAt(pc[v], cyc[v])
  BY HandledIsInt
<1> HIDE DEF AtWork, HandledAt
<1> QED
  BY <1>1, <1>2 DEF ThreadsStill

\* Every thread where it was.
LEMMA NobodyMoves ==
    ASSUME PlaceInv, ServiceAssumption, UNCHANGED <<pc, cyc>>
    PROVE  ThreadsStill
BY HandledIsInt DEF ThreadsStill

\* A step that leaves the store alone keeps it still.
LEMMA SameStoreIsStill == UNCHANGED storeVars => StoreStill
BY DEF storeVars, StoreStill

\* What HandledAt is, place by place.
LEMMA HandledCases ==
    ASSUME NEW l, NEW c, Len(c.todo) \in Nat, Len(Impacts) \in Nat
    PROVE  /\ l \in BeforeBookings => HandledAt(l, c) = 0
           /\ l \notin BeforeBookings /\ l # "escalated"
                => HandledAt(l, c) = Len(Impacts) - Len(c.todo)
           /\ l = "escalated" => HandledAt(l, c) = Len(Impacts) - Len(c.todo) + 1
<1>1. l \in BeforeBookings => HandledAt(l, c) = 0
  BY DEF HandledAt
<1>2. l \notin BeforeBookings /\ l # "escalated"
                => HandledAt(l, c) = Len(Impacts) - Len(c.todo)
  <2> DEFINE a == Len(Impacts)
             b == Len(c.todo)
  <2>1. a \in Nat /\ b \in Nat
    OBVIOUS
  <2>2. l \notin BeforeBookings /\ l # "escalated" => HandledAt(l,c) = a - b + 0
    BY DEF HandledAt
  <2> HIDE DEF a, b
  <2>3. a - b + 0 = a - b
    BY <2>1
  <2>4. l \notin BeforeBookings /\ l # "escalated" => HandledAt(l,c) = a - b
    BY <2>2, <2>3
  <2> QED
    BY <2>4 DEF a, b
<1>3. l = "escalated" => HandledAt(l, c) = Len(Impacts) - Len(c.todo) + 1
  <2>1. "escalated" \notin BeforeBookings
    BY DEF BeforeBookings
  <2> QED
    BY <2>1 DEF HandledAt
<1> QED
  BY <1>1, <1>2, <1>3

\* Which steps of a thread do not keep still, and which of those that do are not within
\* the counting.
LEMMA QuietStep ==
    ASSUME PlaceInv, ServiceAssumption, NEW w \in Thread, CycleThread(w),
           ~OpenRun(w), ~RaiseDecision(w), ~FinishRun(w), ~FinishFailed(w)
    PROVE  ThreadsStill /\ UNCHANGED storeVars
<1>1. /\ pc[w] \in Label /\ cyc[w] \in ThreadState /\ ThreadOK(pc[w], cyc[w])
      /\ Impacts \in Seq(Booking)
  BY DEF PlaceInv, ServiceAssumption
<1> USE <1>1
<1>2. HandledAt(pc[w], cyc[w]) \in Int
  BY HandledIsInt
<1>3. Puts(w, cyc[w]) <=> cyc' = cyc
  BY DEF PlaceInv, Puts
<1>4. CASE Acquire(w) \/ Begin(w) \/ Release(w)
  <2>1. \E l \in {"begin", "open", "idle"} : Goto(w, l)
    BY <1>4 DEF Acquire, Begin, Release
  <2>2. \E c : Puts(w, c)
    <3>1. CASE Acquire(w)
      BY <1>3, <3>1 DEF Acquire
    <3>2. CASE Begin(w)
      BY <3>2 DEF Begin, Puts
    <3>3. CASE Release(w)
      BY <3>3 DEF Release, Puts
    <3> QED
      BY <1>4, <3>1, <3>2, <3>3
  <2>3. ~AtWork(pc[w]) /\ UNCHANGED storeVars
    BY <1>4 DEF Acquire, Begin, Release, AtWork
  <2>4. \A l \in {"begin", "open", "idle"} : ~AtWork(l)
    BY DEF AtWork
  <2> QED
    BY <2>1, <2>2, <2>3, <2>4, MovesStill
<1>5. CASE EmitStarted(w) \/ AuditPolicy(w) \/ EmitScan(w)
  <2>1. /\ \E l \in BeforeBookings : Goto(w, l)
        /\ pc[w] \in BeforeBookings /\ Puts(w, cyc[w]) /\ UNCHANGED storeVars
    BY <1>5, <1>3 DEF EmitStarted, AuditPolicy, EmitScan, At, BeforeBookings
  <2>2. \A l \in BeforeBookings : AtWork(l) /\ HandledAt(l, cyc[w]) = 0
    BY DEF BeforeBookings, AtWork, HandledAt
  <2> QED
    BY <2>1, <2>2, MovesStill
<1>6. CASE PolicyTool(w) \/ AgentTool(w)
  <2>1. UNCHANGED storeVars
    BY <1>6 DEF PolicyTool, AgentTool
  <2> DEFINE n == cyc[w].made + 1
             c == [cyc[w] EXCEPT !.made = n]
  <2>2. ToolBegin(w) => Puts(w, c)
    BY DEF Puts, ToolBegin
  <2> HIDE DEF n
  <2>3. c.todo = cyc[w].todo /\ c.run = cyc[w].run
    BY DEF ThreadState
  <2> HIDE DEF c
  <2>4. \E l \in {"policy", "policyTool", "turn", "turnTool"} :
             /\ Goto(w, l) /\ AtWork(l) /\ AtWork(pc[w])
             /\ (pc[w] \in BeforeBookings) <=> (l \in BeforeBookings)
             /\ l # "escalated" /\ pc[w] # "escalated"
    BY <1>6 DEF PolicyTool, AgentTool, At, BeforeBookings, AtWork
  <2>5. Puts(w, c) \/ Puts(w, cyc[w])
    BY <1>6, <2>2, <1>3 DEF PolicyTool, AgentTool
  <2>6. PICK l \in {"policy", "policyTool", "turn", "turnTool"} :
             /\ Goto(w, l) /\ AtWork(l) /\ AtWork(pc[w])
             /\ (pc[w] \in BeforeBookings) <=> (l \in BeforeBookings)
             /\ l # "escalated" /\ pc[w] # "escalated"
    BY <2>4
  <2>7. /\ HandledAt(l, c) = HandledAt(pc[w], cyc[w])
        /\ HandledAt(l, cyc[w]) = HandledAt(pc[w], cyc[w])
    BY <2>3, <2>6 DEF HandledAt
  <2> QED
    BY <1>2, <2>1, <2>3, <2>5, <2>6, <2>7, MovesStill
<1>7. CASE BuildAgent(w)
  <2> DEFINE c == [cyc[w] EXCEPT !.todo = Impacts, !.made = 0]
  <2>1. Puts(w, c) /\ Goto(w, "next") /\ pc[w] = "agent" /\ UNCHANGED storeVars
    BY <1>7 DEF BuildAgent, Puts
  <2>2. c.todo = Impacts /\ c.run = cyc[w].run
    BY DEF ThreadState
  <2> HIDE DEF c
  <2>3. HandledAt("next", c) = 0 /\ HandledAt(pc[w], cyc[w]) = 0
    BY <2>1, <2>2 DEF HandledAt, BeforeBookings
  <2>4. AtWork("next") /\ AtWork(pc[w])
    BY <2>1 DEF AtWork
  <2> QED
    BY <2>1, <2>2, <2>3, <2>4, MovesStill
<1>8. CASE EmitTurnStarted(w) \/ EmitTriage(w) \/ AgentLogs(w) \/ Fail(w) \/ AuditFailure(w)
  <2>1. /\ \E l \in {"turn", "file", "toolLogged", "failed", "failedRun"} : Goto(w, l)
        /\ Puts(w, cyc[w]) /\ UNCHANGED storeVars
    BY <1>8, <1>3 DEF EmitTurnStarted, EmitTriage, AgentLogs, Fail, AuditFailure
  <2>2. AtWork(pc[w]) /\ pc[w] # "escalated"
    BY <1>8 DEF EmitTurnStarted, EmitTriage, AgentLogs, Fail, AuditFailure, Raises, At, AtWork
  <2>3. Len(cyc[w].todo) \in Nat /\ Len(Impacts) \in Nat /\ Len(cyc[w].todo) <= Len(Impacts)
    BY DEF ThreadOK, ThreadState
  <2>4. \A l \in {"turn", "file", "toolLogged", "failed", "failedRun"} :
            AtWork(l) /\ HandledAt(l, cyc[w]) = Len(Impacts) - Len(cyc[w].todo)
    BY <2>3, HandledCases DEF AtWork, BeforeBookings
  <2>5. HandledAt(pc[w], cyc[w]) <= Len(Impacts) - Len(cyc[w].todo)
    <3>1. /\ pc[w] \in BeforeBookings => HandledAt(pc[w], cyc[w]) = 0
          /\ pc[w] \notin BeforeBookings /\ pc[w] # "escalated"
               => HandledAt(pc[w], cyc[w]) = Len(Impacts) - Len(cyc[w].todo)
          /\ pc[w] = "escalated"
               => HandledAt(pc[w], cyc[w]) = Len(Impacts) - Len(cyc[w].todo) + 1
      BY <2>2, <2>3, HandledCases
    <3> QED
      BY <2>2, <2>3, <3>1
  <2>6. \A l \in {"turn", "file", "toolLogged", "failed", "failedRun"} :
            AtWork(l) /\ HandledAt(pc[w], cyc[w]) <= HandledAt(l, cyc[w])
    BY <2>4, <2>5
  <2> QED
    BY <2>1, <2>2, <2>6, MovesStill
<1>9. CASE EmitDone(w)
  <2>1. /\ Goto(w, "release") /\ pc[w] = "done" /\ Puts(w, cyc[w]) /\ UNCHANGED storeVars
    BY <1>9, <1>3 DEF EmitDone
  <2>2. ~AtWork("release") /\ ~AtWork("done")
    BY DEF AtWork
  <2> QED
    BY <2>1, <2>2, MovesStill
<1>10. CASE TurnEnds(w)
  <2>1. \E c : /\ Puts(w, c) /\ c.todo = cyc[w].todo /\ c.run = cyc[w].run
    <3>1. CASE cyc[w].turn = "draft_reply"
      <4>1. PICK x \in Text : cyc' = [cyc EXCEPT ![w].text = x]
        BY <1>10, <3>1 DEF TurnEnds
      <4> DEFINE c == [cyc[w] EXCEPT !.text = x]
      <4>2. Puts(w, c) /\ c.todo = cyc[w].todo /\ c.run = cyc[w].run
        BY <4>1 DEF Puts, ThreadState
      <4> QED
        BY <4>2
    <3>2. CASE cyc[w].turn # "draft_reply"
      BY <1>10, <1>3, <3>2 DEF TurnEnds
    <3> QED
      BY <3>1, <3>2
  <2>2. PICK c : /\ Puts(w, c) /\ c.todo = cyc[w].todo /\ c.run = cyc[w].run
    BY <2>1
  <2>3. Goto(w, "drain") /\ pc[w] = "turn" /\ UNCHANGED storeVars
    BY <1>10 DEF TurnEnds
  <2>4. AtWork("drain") /\ AtWork("turn") /\ HandledAt("drain", c) = HandledAt(pc[w], cyc[w])
    BY <2>2, <2>3 DEF AtWork, HandledAt, BeforeBookings
  <2> QED
    BY <1>2, <2>2, <2>3, <2>4, MovesStill
<1>11. CASE Drain(w)
  <2>1. \E c, l : /\ l \in {"next", "triage"}
                  /\ Goto(w, l) /\ Puts(w, c) /\ c.todo = cyc[w].todo /\ c.run = cyc[w].run
    <3>1. CASE cyc[w].turn = "draft_reply"
      <4> DEFINE c == [cyc[w] EXCEPT !.made = 0, !.turn = "turnover_checklist"]
      <4>1. Puts(w, c) /\ c.todo = cyc[w].todo /\ c.run = cyc[w].run /\ Goto(w, "next")
        BY <1>11, <3>1 DEF Puts, ThreadState, Drain
      <4> QED
        BY <4>1
    <3>2. CASE cyc[w].turn # "draft_reply"
      <4> DEFINE c == [cyc[w] EXCEPT !.made = 0, !.turn = "draft_reply"]
      <4>1. Puts(w, c) /\ c.todo = cyc[w].todo /\ c.run = cyc[w].run /\ Goto(w, "triage")
        BY <1>11, <3>2 DEF Puts, ThreadState, Drain
      <4> QED
        BY <4>1
    <3> QED
      BY <3>1, <3>2
  <2>2. PICK c, l : /\ l \in {"next", "triage"}
                    /\ Goto(w, l) /\ Puts(w, c) /\ c.todo = cyc[w].todo /\ c.run = cyc[w].run
    BY <2>1
  <2>3. pc[w] = "drain" /\ UNCHANGED storeVars
    BY <1>11 DEF Drain
  <2>4. AtWork(l) /\ AtWork("drain") /\ HandledAt(l, c) = HandledAt(pc[w], cyc[w])
    BY <2>2, <2>3 DEF AtWork, HandledAt, BeforeBookings
  <2> QED
    BY <1>2, <2>2, <2>3, <2>4, MovesStill
<1>12. CASE FileQuietly(w) \/ AuditEscalation(w)
  <2> DEFINE c == [cyc[w] EXCEPT !.todo = Tail(@), !.text = NoText]
  <2>1. cyc[w].todo # <<>> /\ pc[w] \in {"file", "escalated"}
    BY <1>12 DEF FileQuietly, AuditEscalation, ThreadOK, AtBooking
  <2>2. Puts(w, c) /\ Goto(w, "next") /\ UNCHANGED storeVars
    BY <1>12 DEF FileQuietly, AuditEscalation, BookingDone, Puts
  <2>3. c.todo = Tail(cyc[w].todo) /\ c.run = cyc[w].run
    BY DEF ThreadState
  <2> HIDE DEF c
  <2>4. Len(c.todo) = Len(cyc[w].todo) - 1 /\ Len(cyc[w].todo) \in Nat
    BY <2>1, <2>3 DEF ThreadState
  <2>5. HandledAt("next", c) = Len(Impacts) - Len(cyc[w].todo) + 1 /\ Len(Impacts) \in Nat
    BY <2>4 DEF HandledAt, BeforeBookings
  <2>6. HandledAt(pc[w], cyc[w]) <= Len(Impacts) - Len(cyc[w].todo) + 1
    <3>1. /\ pc[w] \in BeforeBookings => HandledAt(pc[w], cyc[w]) = 0
          /\ pc[w] \notin BeforeBookings /\ pc[w] # "escalated"
               => HandledAt(pc[w], cyc[w]) = Len(Impacts) - Len(cyc[w].todo)
          /\ pc[w] = "escalated"
               => HandledAt(pc[w], cyc[w]) = Len(Impacts) - Len(cyc[w].todo) + 1
      BY <2>1, <2>4, <2>5, HandledCases
    <3>2. pc[w] \notin BeforeBookings
      BY <2>1 DEF BeforeBookings
    <3>3. Len(cyc[w].todo) \in Nat
      BY <2>4
    <3> DEFINE n == Len(Impacts) - Len(cyc[w].todo)
    <3>4. n \in Int
      BY <2>5, <3>3
    <3>5. HandledAt(pc[w], cyc[w]) \in {n, n + 1}
      BY <3>1, <3>2
    <3> HIDE DEF n
    <3>6. HandledAt(pc[w], cyc[w]) <= n + 1
      BY <3>4, <3>5
    <3> QED
      BY <3>6 DEF n
  <2>7. AtWork("next") /\ AtWork(pc[w]) /\ HandledAt(pc[w], cyc[w]) <= HandledAt("next", c)
    BY <2>1, <2>5, <2>6 DEF AtWork
  <2> QED
    BY <2>2, <2>3, <2>7, MovesStill
<1>13. CASE AuditFile(w)
  BY <1>13, NobodyMoves DEF AuditFile
<1> QED
  BY <1>4, <1>5, <1>6, <1>7, <1>8, <1>9, <1>10, <1>11, <1>12, <1>13 DEF CycleThread

\* Within its cycle and out of it, a thread is not among those that wait.
LEMMA StaysInside ==
    ASSUME NEW w \in Thread, CycleThread(w), ~Acquire(w), ~Begin(w), ~OpenRun(w)
    PROVE  /\ UNCHANGED cycles
           /\ pc' = pc \/ \E l \in Label \ {"queued", "begin", "open"} : Goto(w, l)
           /\ pc' # pc => pc[w] \notin {"queued", "begin", "open"}
<1>1. CASE Release(w) \/ EmitStarted(w) \/ PolicyTool(w) \/ AuditPolicy(w) \/ EmitScan(w)
              \/ BuildAgent(w)
  BY <1>1 DEF Release, EmitStarted, PolicyTool, AuditPolicy, EmitScan, BuildAgent, At, Label
<1>2. CASE EmitTurnStarted(w) \/ AgentTool(w) \/ AgentLogs(w) \/ TurnEnds(w)
  BY <1>2 DEF EmitTurnStarted, AgentTool, AgentLogs, TurnEnds, At, Label
<1>3. CASE Drain(w) \/ EmitTriage(w) \/ FileQuietly(w) \/ RaiseDecision(w) \/ AuditEscalation(w)
  BY <1>3 DEF Drain, EmitTriage, FileQuietly, RaiseDecision, AuditEscalation, Label
<1>4. CASE FinishRun(w) \/ EmitDone(w) \/ Fail(w) \/ AuditFailure(w) \/ FinishFailed(w)
  BY <1>4 DEF FinishRun, EmitDone, Fail, AuditFailure, FinishFailed, Raises, At, Label
<1>5. CASE AuditFile(w)
  BY <1>5 DEF AuditFile
<1> QED
  BY <1>1, <1>2, <1>3, <1>4, <1>5 DEF CycleThread

-----------------------------------------------------------------------------
(***************************************************************************)
(* RunInv and SlotInv: the calls of the store that move them.              *)
(***************************************************************************)

\* Where nothing of it moves, the tie between threads and runs stays.
LEMMA StillKeepsRuns ==
    ASSUME RunInv, StoreStill, ThreadsStill
    PROVE  RunInv'
<1>1. ASSUME NEW w \in Thread, AtWork(pc'[w])
      PROVE  AtWork(pc[w]) /\ cyc'[w].run = cyc[w].run
  BY <1>1 DEF ThreadsStill
<1>2. ASSUME NEW w \in Thread, AtWork(pc[w])
      PROVE  AtWork(pc'[w]) /\ cyc'[w].run = cyc[w].run
  BY <1>2 DEF ThreadsStill
<1>3. \A w \in Thread : AtWork(pc'[w]) =>
           cyc'[w].run \in DOMAIN runs' /\ runs'[cyc'[w].run].status = "running"
  BY <1>1 DEF RunInv, StoreStill
<1>4. \A v, w \in Thread :
           AtWork(pc'[v]) /\ AtWork(pc'[w]) /\ cyc'[v].run = cyc'[w].run => v = w
  BY <1>1 DEF RunInv
<1>5. \A r \in DOMAIN runs' : runs'[r].status = "running" =>
           \E w \in Thread : AtWork(pc'[w]) /\ cyc'[w].run = r
  BY <1>2 DEF RunInv, StoreStill
<1> QED
  BY <1>3, <1>4, <1>5 DEF RunInv

\* The places of the decisions too.
LEMMA StillKeepsSlots ==
    ASSUME SlotInv, StoreStill, ThreadsStill, PlaceInv, PlaceInv', ServiceAssumption
    PROVE  SlotInv'
<1>1. PICK slot \in [DOMAIN decisions -> 1..Len(Impacts)] : SlotsOK(slot)
  BY DEF SlotInv
<1>2. slot \in [DOMAIN decisions' -> 1..Len(Impacts)]
  BY <1>1 DEF StoreStill
<1>3. \A i, j \in DOMAIN decisions' :
         decisions'[i].run = decisions'[j].run /\ slot[i] = slot[j] => i = j
  BY <1>1 DEF StoreStill, SlotsOK
<1>4. ASSUME NEW w \in Thread, NEW i \in DOMAIN decisions',
             AtWork(pc'[w]), decisions'[i].run = cyc'[w].run
      PROVE  slot[i] <= HandledAt(pc'[w], cyc'[w])
  <2>1. AtWork(pc[w]) /\ cyc'[w].run = cyc[w].run /\ i \in DOMAIN decisions
        /\ decisions[i].run = cyc[w].run
        /\ HandledAt(pc[w], cyc[w]) <= HandledAt(pc'[w], cyc'[w])
    BY <1>4 DEF ThreadsStill, StoreStill
  <2>2. slot[i] <= HandledAt(pc[w], cyc[w]) /\ slot[i] \in Int
    BY <1>1, <2>1 DEF SlotsOK
  <2>3. HandledAt(pc[w], cyc[w]) \in Int /\ HandledAt(pc'[w], cyc'[w]) \in Int
    BY HandledIsInt DEF PlaceInv, HandledAt, ThreadState, ServiceAssumption
  <2> QED
    BY <2>1, <2>2, <2>3
<1>5. SlotsOK(slot)'
  BY <1>3, <1>4 DEF SlotsOK
<1>6. \A i \in DOMAIN decisions' : decisions'[i].run \in DOMAIN runs'
  BY DEF SlotInv, StoreStill
<1> QED
  BY <1>2, <1>5, <1>6 DEF SlotInv

\* The inductive invariant of the store itself.
StoreInv == RecordsP!StoreInv

\* The two sequences of the store.
LEMMA StoreSeqs ==
    ASSUME StoreInv
    PROVE  /\ runs \in Seq(RecordsP!Run) /\ Len(runs) \in Nat /\ DOMAIN runs = 1..Len(runs)
           /\ decisions \in Seq(RecordsP!Decision) /\ Len(decisions) \in Nat
           /\ DOMAIN decisions = 1..Len(decisions)
           /\ raised \in Seq(SUBSET Nat) /\ Len(raised) = Len(runs)
BY DEF StoreInv, RecordsP!StoreInv, RecordsP!StoreTypeOK

\* create_run: the thread that opens a run is the one at work on it.
LEMMA OpenRunKeepsRuns ==
    ASSUME PlaceInv, RunInv, SlotInv, StoreInv, ServiceAssumption,
           NEW w \in Thread, OpenRun(w)
    PROVE  RunInv' /\ SlotInv' /\ Len(runs') = Len(runs) + 1
<1> DEFINE r == Len(runs) + 1
           e == [trace |-> cyc[w].trace, status |-> "running", decisions |-> {}]
<1>1. /\ runs' = Append(runs, e) /\ decisions' = decisions /\ pc[w] = "open"
      /\ Goto(w, "started") /\ cyc' = [cyc EXCEPT ![w].run = r]
  BY DEF OpenRun, Store!CreateRun
<1>2. /\ DOMAIN runs' = 1..r /\ DOMAIN runs = 1..Len(runs) /\ Len(runs) \in Nat
      /\ \A q \in DOMAIN runs : runs'[q] = runs[q]
      /\ runs'[r] = e /\ Len(runs') = r
  BY <1>1, StoreSeqs, AppendFacts
<1>3. /\ \A v \in Thread : pc'[v] = IF v = w THEN "started" ELSE pc[v]
      /\ \A v \in Thread : v # w => cyc'[v] = cyc[v]
      /\ cyc'[w].run = r
  BY <1>1 DEF PlaceInv, Goto, ThreadState
<1>4. AtWork("started") /\ ~AtWork("open") /\ e.status = "running"
  BY DEF AtWork
<1>5. r \notin DOMAIN runs /\ r \in DOMAIN runs'
  BY <1>2
<1> HIDE DEF r, e
<1>6. \A v \in Thread : AtWork(pc'[v]) /\ v # w =>
          AtWork(pc[v]) /\ cyc'[v].run = cyc[v].run /\ cyc[v].run \in DOMAIN runs
  BY <1>3 DEF RunInv
<1>7. \A q \in DOMAIN runs' : q = r \/ q \in DOMAIN runs
  BY <1>2 DEF r
<1>8. DOMAIN runs \subseteq DOMAIN runs'
  BY <1>2 DEF r
<1>9. RunInv'
  <2>1. ASSUME NEW v \in Thread, AtWork(pc'[v])
        PROVE  cyc'[v].run \in DOMAIN runs' /\ runs'[cyc'[v].run].status = "running"
    BY <1>2, <1>3, <1>4, <1>5, <1>6, <1>8, <2>1 DEF RunInv
  <2>2. ASSUME NEW u \in Thread, NEW v \in Thread, AtWork(pc'[u]), AtWork(pc'[v]),
               cyc'[u].run = cyc'[v].run
        PROVE  u = v
    BY <1>3, <1>5, <1>6, <2>2 DEF RunInv
  <2>3. ASSUME NEW q \in DOMAIN runs', runs'[q].status = "running"
        PROVE  \E v \in Thread : AtWork(pc'[v]) /\ cyc'[v].run = q
    <3>1. CASE q = r
      BY <1>3, <1>4, <3>1
    <3>2. CASE q \in DOMAIN runs
      <4>1. PICK v \in Thread : AtWork(pc[v]) /\ cyc[v].run = q
        BY <1>2, <2>3, <3>2 DEF RunInv
      <4>2. v # w
        BY <1>1, <1>4, <4>1
      <4> QED
        BY <1>3, <4>1, <4>2
    <3> QED
      BY <1>7, <3>1, <3>2
  <2> QED
    BY <2>1, <2>2, <2>3 DEF RunInv
<1>10. SlotInv'
  <2>1. PICK slot \in [DOMAIN decisions -> 1..Len(Impacts)] : SlotsOK(slot)
    BY DEF SlotInv
  <2>2. ASSUME NEW v \in Thread, NEW i \in DOMAIN decisions, AtWork(pc'[v]),
               decisions[i].run = cyc'[v].run
        PROVE  slot[i] <= HandledAt(pc'[v], cyc'[v])
    <3>1. decisions[i].run \in DOMAIN runs
      BY DEF SlotInv
    <3>2. v # w
      BY <1>3, <1>5, <2>2, <3>1
    <3>3. pc'[v] = pc[v] /\ cyc'[v] = cyc[v]
      BY <1>3, <3>2
    <3> QED
      BY <2>1, <2>2, <3>3 DEF SlotsOK
  <2>3. SlotsOK(slot)'
    BY <1>1, <2>1, <2>2 DEF SlotsOK
  <2>4. \A i \in DOMAIN decisions' : decisions'[i].run \in DOMAIN runs'
    BY <1>1, <1>8 DEF SlotInv
  <2> QED
    BY <1>1, <2>1, <2>3, <2>4 DEF SlotInv
<1> QED
  BY <1>2, <1>9, <1>10 DEF r

\* finish_run: the run that is closed is the thread's own, and it stops working on it.
LEMMA FinishKeepsRuns ==
    ASSUME PlaceInv, RunInv, SlotInv, StoreInv, ServiceAssumption,
           NEW w \in Thread, FinishRun(w) \/ FinishFailed(w)
    PROVE  RunInv' /\ SlotInv' /\ Len(runs') = Len(runs)
<1> DEFINE r == cyc[w].run
<1>1. /\ AtWork(pc[w]) /\ decisions' = decisions /\ cyc' = cyc
      /\ \E l \in {"done", "release"} : Goto(w, l)
  BY DEF FinishRun, FinishFailed, At, AtWork, Store!FinishDone, Store!FinishError
<1>2. PICK l \in {"done", "release"} : Goto(w, l)
  BY <1>1
<1>3. \A v \in Thread : pc'[v] = IF v = w THEN l ELSE pc[v]
  BY <1>2 DEF PlaceInv, Goto
<1>4. ~AtWork(l)
  BY DEF AtWork
<1>5. r \in DOMAIN runs
  BY <1>1 DEF RunInv
<1>6. /\ DOMAIN runs' = DOMAIN runs /\ Len(runs') = Len(runs)
      /\ \A q \in DOMAIN runs : q # r => runs'[q] = runs[q]
      /\ runs'[r].status # "running"
  <2>1. \A q \in DOMAIN runs : runs[q] \in RecordsP!Run
    BY StoreSeqs
  <2>2. CASE FinishRun(w)
    BY <1>5, <2>1, <2>2, StoreSeqs DEF FinishRun, Store!FinishDone, RecordsP!Run
  <2>3. CASE FinishFailed(w)
    BY <1>5, <2>1, <2>3, StoreSeqs DEF FinishFailed, Store!FinishError, RecordsP!Run
  <2> QED
    BY <2>2, <2>3
<1> HIDE DEF r
<1>7. \A v \in Thread : AtWork(pc'[v]) => v # w /\ pc'[v] = pc[v] /\ AtWork(pc[v])
  BY <1>3, <1>4
<1>8. RunInv'
  <2>1. ASSUME NEW v \in Thread, AtWork(pc'[v])
        PROVE  cyc'[v].run \in DOMAIN runs' /\ runs'[cyc'[v].run].status = "running"
    <3>1. cyc[v].run # r
      BY <1>1, <1>7, <2>1 DEF RunInv, r
    <3> QED
      BY <1>1, <1>6, <1>7, <2>1, <3>1 DEF RunInv
  <2>2. ASSUME NEW u \in Thread, NEW v \in Thread, AtWork(pc'[u]), AtWork(pc'[v]),
               cyc'[u].run = cyc'[v].run
        PROVE  u = v
    BY <1>1, <1>7, <2>2 DEF RunInv
  <2>3. ASSUME NEW q \in DOMAIN runs', runs'[q].status = "running"
        PROVE  \E v \in Thread : AtWork(pc'[v]) /\ cyc'[v].run = q
    <3>1. q # r /\ q \in DOMAIN runs /\ runs[q].status = "running"
      BY <1>6, <2>3
    <3>2. PICK v \in Thread : AtWork(pc[v]) /\ cyc[v].run = q
      BY <3>1 DEF RunInv
    <3>3. v # w
      BY <3>1, <3>2 DEF r
    <3> QED
      BY <1>1, <1>3, <3>2, <3>3
  <2> QED
    BY <2>1, <2>2, <2>3 DEF RunInv
<1>9. SlotInv'
  <2>1. PICK slot \in [DOMAIN decisions -> 1..Len(Impacts)] : SlotsOK(slot)
    BY DEF SlotInv
  <2>2. SlotsOK(slot)'
    BY <1>1, <1>7, <2>1 DEF SlotsOK
  <2>3. \A i \in DOMAIN decisions' : decisions'[i].run \in DOMAIN runs'
    BY <1>1, <1>6 DEF SlotInv
  <2> QED
    BY <1>1, <2>1, <2>2, <2>3 DEF SlotInv
<1> QED
  BY <1>6, <1>8, <1>9

\* The thread that raises a decision is at work, at a booking it has not asked about.
LEMMA AtTheAsk ==
    ASSUME PlaceInv, ServiceAssumption, NEW w \in Thread, RaiseDecision(w)
    PROVE  /\ AtWork(pc[w]) /\ Goto(w, "escalated") /\ AtWork("escalated") /\ cyc' = cyc
           /\ HandledAt("escalated", cyc[w]) = HandledAt(pc[w], cyc[w]) + 1
           /\ HandledAt(pc[w], cyc[w]) + 1 \in 1..Len(Impacts)
           /\ Head(cyc[w].todo) \in Booking /\ Verdict(w) \in Kind /\ cyc[w].text \in Text
<1>1. /\ pc[w] = "file" /\ Goto(w, "escalated") /\ cyc' = cyc /\ Verdict(w) # Quiet
  BY DEF RaiseDecision
<1>2. /\ cyc[w].todo \in Seq(Booking) /\ cyc[w].todo # <<>> /\ cyc[w].text \in Text
      /\ Len(cyc[w].todo) <= Len(Impacts) /\ Len(cyc[w].todo) \in Nat \ {0}
      /\ Len(Impacts) \in Nat
  BY <1>1 DEF PlaceInv, ThreadOK, AtBooking, ThreadState, ServiceAssumption
<1>3. "file" \notin BeforeBookings /\ "file" # "escalated"
  BY DEF BeforeBookings
<1>4. /\ HandledAt(pc[w], cyc[w]) = Len(Impacts) - Len(cyc[w].todo)
      /\ HandledAt("escalated", cyc[w]) = Len(Impacts) - Len(cyc[w].todo) + 1
  BY <1>1, <1>2, <1>3, HandledCases
<1>5. Head(cyc[w].todo) \in Booking
  BY <1>2
<1>6. Verdict(w) \in Kind
  BY <1>1, <1>5 DEF Verdict, Triage, ServiceAssumption, Kind
<1>7. AtWork(pc[w]) /\ AtWork("escalated")
  BY <1>1 DEF AtWork
<1> DEFINE a == Len(Impacts)
           b == Len(cyc[w].todo)
           h == HandledAt(pc[w], cyc[w])
<1>8. a \in Nat /\ b \in Nat \ {0} /\ b <= a /\ h = a - b
  BY <1>2, <1>4
<1>9. HandledAt("escalated", cyc[w]) = a - b + 1
  BY <1>4
<1> HIDE DEF a, b, h
<1>10. h + 1 \in 1..a /\ a - b + 1 = h + 1
  BY <1>8
<1> QED
  BY <1>1, <1>2, <1>5, <1>6, <1>7, <1>9, <1>10 DEF a, h

\* add_decision that finds the same ask pending: the run's list alone.
LEMMA RaiseAgainIsStill ==
    ASSUME StoreInv, NEW r \in DOMAIN runs, NEW b, NEW k, Store!RaiseAgain(r, b, k)
    PROVE  StoreStill /\ Len(runs') = Len(runs)
<1>1. \A q \in DOMAIN runs : runs[q] \in RecordsP!Run
  BY StoreSeqs
<1> DEFINE ids == runs[r].decisions \cup {Store!NewestPending(b, k)}
<1>2. runs' = [runs EXCEPT ![r].decisions = ids] /\ decisions' = decisions
  BY DEF Store!RaiseAgain
<1> HIDE DEF ids
<1> QED
  BY <1>1, <1>2, StoreSeqs DEF StoreStill, RecordsP!Run

\* add_decision that does not: the new card takes the next place of its run.
LEMMA RaiseNewKeepsRuns ==
    ASSUME PlaceInv, RunInv, SlotInv, StoreInv, ServiceAssumption,
           NEW w \in Thread, RaiseDecision(w),
           Store!RaiseNew(cyc[w].run, Head(cyc[w].todo), Verdict(w), cyc[w].text)
    PROVE  /\ RunInv' /\ SlotInv'
           /\ Len(runs') = Len(runs) /\ Len(decisions') = Len(decisions) + 1
<1> DEFINE r == cyc[w].run
           n == Len(decisions) + 1
           d == [run |-> r, booking |-> Head(cyc[w].todo), kind |-> Verdict(w),
                 draft |-> cyc[w].text, status |-> "pending", final |-> NoText]
           ids == runs[r].decisions \cup {n}
<1>1. r \in DOMAIN runs
  BY AtTheAsk DEF RunInv
<1>2. runs' = [runs EXCEPT ![r].decisions = ids] /\ decisions' = Append(decisions, d)
  BY DEF Store!RaiseNew
<1>3. d.run = r
  OBVIOUS
<1> HIDE DEF d, ids
<1>4. /\ DOMAIN decisions' = 1..n /\ DOMAIN decisions = 1..Len(decisions)
      /\ Len(decisions) \in Nat
      /\ \A i \in DOMAIN decisions : decisions'[i] = decisions[i]
      /\ decisions'[n] = d /\ Len(decisions') = n
  BY <1>2, StoreSeqs, AppendFacts
<1>5. /\ DOMAIN runs' = DOMAIN runs /\ Len(runs') = Len(runs)
      /\ \A q \in DOMAIN runs : runs'[q].status = runs[q].status
  <2>1. \A q \in DOMAIN runs : runs[q] \in RecordsP!Run
    BY StoreSeqs
  <2> QED
    BY <1>1, <1>2, <2>1, StoreSeqs DEF RecordsP!Run
<1>6. /\ \A i \in DOMAIN decisions' : i = n \/ i \in DOMAIN decisions
      /\ n \in DOMAIN decisions' /\ n \notin DOMAIN decisions
      /\ DOMAIN decisions' = DOMAIN decisions \cup {n}
  BY <1>4
<1> DEFINE h == HandledAt(pc[w], cyc[w])
<1>7. /\ AtWork(pc[w]) /\ \A v \in Thread : pc'[v] = IF v = w THEN "escalated" ELSE pc[v]
      /\ AtWork("escalated") /\ cyc' = cyc
      /\ HandledAt("escalated", cyc[w]) = h + 1 /\ h + 1 \in 1..Len(Impacts)
      /\ h \in Int
  BY AtTheAsk, HandledIsInt DEF PlaceInv, Goto
<1> HIDE DEF r, n, h
<1>8. \A v \in Thread : AtWork(pc'[v]) <=> AtWork(pc[v])
  BY <1>7
<1>9. RunInv'
  BY <1>5, <1>7, <1>8 DEF RunInv
<1>10. SlotInv'
  <2>1. PICK slot \in [DOMAIN decisions -> 1..Len(Impacts)] : SlotsOK(slot)
    BY DEF SlotInv
  <2>2. PICK new : new = [i \in DOMAIN decisions' |-> IF i = n THEN h + 1 ELSE slot[i]]
    OBVIOUS
  <2>3. new \in [DOMAIN decisions' -> 1..Len(Impacts)]
    BY <1>6, <1>7, <2>1, <2>2
  <2>4. new[n] = h + 1 /\ \A i \in DOMAIN decisions : new[i] = slot[i]
    BY <1>6, <2>2
  <2>5. \A i \in DOMAIN decisions : decisions[i].run = r => slot[i] <= h /\ slot[i] \in Int
    BY <1>7, <2>1 DEF SlotsOK, r, h
  <2>6. ASSUME NEW i \in DOMAIN decisions', NEW j \in DOMAIN decisions',
               decisions'[i].run = decisions'[j].run, new[i] = new[j]
        PROVE  i = j
    <3>1. CASE i \in DOMAIN decisions /\ j \in DOMAIN decisions
      BY <1>4, <2>1, <2>4, <2>6, <3>1 DEF SlotsOK
    <3>2. ASSUME NEW a \in DOMAIN decisions, decisions[a].run = r PROVE new[a] # new[n]
      BY <1>7, <2>4, <2>5, <3>2
    <3>3. decisions'[n].run = r
      BY <1>3, <1>4
    <3> QED
      BY <1>4, <1>6, <2>6, <3>1, <3>2, <3>3
  <2>7. ASSUME NEW v \in Thread, NEW i \in DOMAIN decisions', AtWork(pc'[v]),
               decisions'[i].run = cyc'[v].run
        PROVE  new[i] <= HandledAt(pc'[v], cyc'[v])
    <3>1. CASE v = w
      <4>1. HandledAt(pc'[v], cyc'[v]) = h + 1
        BY <1>7, <3>1
      <4>2. CASE i = n
        BY <1>7, <2>4, <4>1, <4>2
      <4>3. CASE i \in DOMAIN decisions
        <5>1. decisions[i].run = r
          BY <1>4, <1>7, <2>7, <3>1, <4>3 DEF r
        <5> QED
          BY <1>7, <2>4, <2>5, <4>1, <4>3, <5>1
      <4> QED
        BY <1>6, <4>2, <4>3
    <3>2. CASE v # w
      <4>1. AtWork(pc[v]) /\ pc'[v] = pc[v] /\ cyc'[v] = cyc[v] /\ cyc[v].run # r
        BY <1>7, <2>7, <3>2 DEF RunInv, r
      <4>2. i # n /\ i \in DOMAIN decisions
        BY <1>3, <1>4, <1>6, <2>7, <4>1
      <4> QED
        BY <1>4, <2>1, <2>4, <2>7, <4>1, <4>2 DEF SlotsOK
    <3> QED
      BY <3>1, <3>2
  <2>8. SlotsOK(new)'
    BY <2>6, <2>7 DEF SlotsOK
  <2>9. \A i \in DOMAIN decisions' : decisions'[i].run \in DOMAIN runs'
    BY <1>1, <1>3, <1>4, <1>5, <1>6 DEF SlotInv
  <2> QED
    BY <2>3, <2>8, <2>9 DEF SlotInv
<1> QED
  BY <1>4, <1>5, <1>9, <1>10 DEF n

\* Decisions that have a run and a place in it are not more than there are of both.
LEMMA PairsBound ==
    ASSUME NEW n \in Nat, NEW m \in Nat, NEW k \in Nat,
           NEW run \in [1..n -> 1..m], NEW slot \in [1..n -> 1..k],
           \A i, j \in 1..n : run[i] = run[j] /\ slot[i] = slot[j] => i = j
    PROVE  n <= m * k
<1> DEFINE f == [i \in 1..n |-> <<run[i], slot[i]>>]
           T == (1..m) \X (1..k)
<1>1. \A j \in Nat : IsFiniteSet(1..j) /\ Cardinality(1..j) = j
  BY FS_Interval
<1>2. IsFiniteSet(T) /\ Cardinality(T) = m * k
  <2>1. IsFiniteSet(T) /\ Cardinality(T) = Cardinality(1..m) * Cardinality(1..k)
    <3>1. IsFiniteSet(1..m) /\ IsFiniteSet(1..k)
      BY <1>1
    <3> QED
      BY <3>1, FS_Product
  <2>2. Cardinality(1..m) = m /\ Cardinality(1..k) = k
    BY <1>1
  <2> HIDE DEF T
  <2> QED
    BY <2>1, <2>2
<1>3. f \in Injection(1..n, T)
  BY DEF Injection, IsInjective
<1>4. Cardinality(1..n) <= Cardinality(T)
  BY <1>2, <1>3, FS_Injection
<1> QED
  BY <1>1, <1>2, <1>4

\* So there is room for one more decision wherever one is raised: its place is free.
LEMMA RoomForTheCard ==
    ASSUME PlaceInv, RunInv, SlotInv, StoreInv, ServiceAssumption, Len(runs) <= MaxCycles,
           NEW w \in Thread, RaiseDecision(w)
    PROVE  Len(decisions) < MaxCycles * Len(Impacts)
<1> DEFINE n == Len(decisions) + 1
           r == cyc[w].run
           h == HandledAt(pc[w], cyc[w])
<1>1. /\ n \in Nat /\ MaxCycles \in Nat /\ Len(Impacts) \in Nat
      /\ DOMAIN decisions = 1..Len(decisions) /\ Len(decisions) \in Nat
      /\ DOMAIN runs = 1..Len(runs) /\ Len(runs) \in Nat
  BY StoreSeqs DEF ServiceAssumption
<1>2. PICK slot \in [DOMAIN decisions -> 1..Len(Impacts)] : SlotsOK(slot)
  BY DEF SlotInv
<1>3. AtWork(pc[w]) /\ h + 1 \in 1..Len(Impacts) /\ h \in Int
  BY AtTheAsk, HandledIsInt
<1>4. r \in 1..MaxCycles
  BY <1>1, <1>3 DEF RunInv
<1>5. \A i \in DOMAIN decisions : decisions[i].run \in 1..MaxCycles
  BY <1>1 DEF SlotInv
<1>6. \A i \in DOMAIN decisions : decisions[i].run = r => slot[i] <= h /\ slot[i] \in Int
  BY <1>2, <1>3 DEF SlotsOK
<1>7. /\ 1..n = DOMAIN decisions \cup {n} /\ n \notin DOMAIN decisions
  BY <1>1
<1> HIDE DEF n, r, h
<1> DEFINE run == [i \in 1..n |-> IF i = n THEN r ELSE decisions[i].run]
           new == [i \in 1..n |-> IF i = n THEN h + 1 ELSE slot[i]]
<1>8. run \in [1..n -> 1..MaxCycles] /\ new \in [1..n -> 1..Len(Impacts)]
  BY <1>2, <1>3, <1>4, <1>5, <1>7
<1>9. /\ run[n] = r /\ new[n] = h + 1
      /\ \A i \in DOMAIN decisions : run[i] = decisions[i].run /\ new[i] = slot[i]
  BY <1>7
<1> HIDE DEF run, new
<1>10. ASSUME NEW i \in 1..n, NEW j \in 1..n, run[i] = run[j], new[i] = new[j]
       PROVE  i = j
  <2>1. ASSUME NEW a \in DOMAIN decisions, run[a] = r PROVE new[a] # h + 1
    BY <1>3, <1>6, <1>9, <2>1
  <2>2. CASE i \in DOMAIN decisions /\ j \in DOMAIN decisions
    BY <1>2, <1>9, <1>10, <2>2 DEF SlotsOK
  <2> QED
    BY <1>7, <1>9, <1>10, <2>1, <2>2
<1>11. n <= MaxCycles * Len(Impacts)
  <2>1. \A i, j \in 1..n : run[i] = run[j] /\ new[i] = new[j] => i = j
    BY <1>10
  <2> DEFINE k == Len(Impacts)
  <2>2. n \in Nat /\ MaxCycles \in Nat /\ k \in Nat /\ new \in [1..n -> 1..k]
    BY <1>1, <1>8
  <2> HIDE DEF k
  <2>3. n <= MaxCycles * k
    BY <1>8, <2>1, <2>2, PairsBound
  <2> QED
    BY <2>3 DEF k
<1>12. MaxCycles * Len(Impacts) \in Int /\ Len(decisions) \in Nat
  BY <1>1
<1> QED
  BY <1>11, <1>12 DEF n

-----------------------------------------------------------------------------
(***************************************************************************)
(* Every call a thread makes on the store is one the store allows.         *)
(***************************************************************************)

\* The assumptions of the service are those of the store it uses.
LEMMA StoreAssumed == RecordsP!StoreAssumption
BY ServiceAssumption DEF ServiceAssumption, RecordsP!StoreAssumption

\* The assumptions of the service are those of the trail it writes.
LEMMA TrailAssumed == RecordsP!AuditAssumption
<1>1. MaxCycles \in Nat /\ MaxToolCalls \in Nat /\ MaxAnswers \in Nat /\ Len(Impacts) \in Nat
  BY ServiceAssumption DEF ServiceAssumption
<1> DEFINE a == Len(Impacts)
           b == 1 + 2 * MaxToolCalls
<1>2. a \in Nat /\ b \in Nat
  BY <1>1
<1> HIDE DEF a, b
<1>3. a * b \in Nat
  BY <1>2
<1> DEFINE c == 2 + a * b
<1>4. c \in Nat
  BY <1>3
<1> HIDE DEF c
<1>5. MaxCycles * c \in Nat
  BY <1>1, <1>4
<1>6. MaxCycles * c + MaxAnswers \in Nat
  BY <1>1, <1>5
<1>7. MaxLines \in Nat
  BY <1>6 DEF MaxLines, c, a, b
<1> QED
  BY <1>7 DEF RecordsP!AuditAssumption

\* The store as the service names it is the store the theorems are about.
LEMMA SameStore ==
    ASSUME [Store!StoreNext]_storeVars
    PROVE  [RecordsP!StoreNext]_(RecordsP!storeVars)
<1>1. \A b, k : /\ Store!PendingFor(b, k) = RecordsP!PendingFor(b, k)
                /\ Store!NewestPending(b, k) = RecordsP!NewestPending(b, k)
  BY DEF Store!PendingFor, RecordsP!PendingFor, Store!NewestPending, RecordsP!NewestPending
<1>2. ASSUME NEW t \in Trace, Len(runs) < MaxCycles, Store!CreateRun(t)
      PROVE  RecordsP!StoreNext
  BY <1>2 DEF Store!CreateRun, RecordsP!CreateRun, RecordsP!StoreNext
<1>3. ASSUME NEW r \in DOMAIN runs, Store!CycleStep(r)
      PROVE  RecordsP!StoreNext
  <2>1. ASSUME NEW b \in Booking, NEW k \in Kind, NEW x \in Text, Store!AddDecision(r, b, k, x)
        PROVE  RecordsP!AddDecision(r, b, k, x)
    <3> HIDE DEF Kind
    <3> QED
      BY <1>1, <2>1 DEF Store!AddDecision, RecordsP!AddDecision, Store!RaiseAgain,
           RecordsP!RaiseAgain, Store!RaiseNew, RecordsP!RaiseNew
  <2>2. Store!FinishDone(r) => RecordsP!FinishDone(r)
    BY DEF Store!FinishDone, RecordsP!FinishDone
  <2>3. Store!FinishError(r) => RecordsP!FinishError(r)
    BY DEF Store!FinishError, RecordsP!FinishError
  <2>4. RecordsP!CycleStep(r)
    BY <1>3, <2>1, <2>2, <2>3 DEF Store!CycleStep, RecordsP!CycleStep
  <2> QED
    BY <2>4 DEF RecordsP!StoreNext
<1>4. ASSUME NEW i \in DOMAIN decisions, NEW a \in Store!HostAction,
             NEW x \in Text \cup {NoText}, Store!ResolveDecision(i, a, x)
      PROVE  RecordsP!StoreNext
  <2>1. RecordsP!ResolveDecision(i, a, x)
    BY <1>4 DEF Store!ResolveDecision, RecordsP!ResolveDecision, Store!IsAnswer, RecordsP!IsAnswer
  <2> QED
    BY <2>1 DEF RecordsP!StoreNext, RecordsP!HostAction, Store!HostAction
<1>5. CASE UNCHANGED storeVars
  BY <1>5 DEF storeVars, RecordsP!storeVars
<1> QED
  BY <1>2, <1>3, <1>4, <1>5 DEF Store!StoreNext

\* What the store promises of a step, in the terms of the service.
LEMMA StoreStepKeeps ==
    ASSUME StoreInv, [Store!StoreNext]_storeVars
    PROVE  StoreInv'
BY SameStore, StoreAssumed, TrailAssumed, RecordsP!StoreInvStep DEF StoreInv

\* A card stays, it says what it said, and an answer to it stays.
CardsStay ==
    \A i \in DOMAIN decisions :
        /\ i \in DOMAIN decisions'
        /\ decisions'[i].run = decisions[i].run
        /\ decisions'[i].booking = decisions[i].booking
        /\ decisions'[i].kind = decisions[i].kind
        /\ decisions[i].status # "pending" => decisions'[i] = decisions[i]

\* add_decision appends, and leaves the cards there are as they are.
LEMMA AppendedCardsStay ==
    ASSUME StoreInv, NEW d, decisions' = Append(decisions, d)
    PROVE  CardsStay
BY StoreSeqs, AppendFacts DEF CardsStay

\* resolve_decision changes the status and the final text of one card.
LEMMA ResolveFacts ==
    ASSUME StoreInv, NEW i \in DOMAIN decisions, NEW a \in Store!HostAction, NEW x,
           Store!ResolveDecision(i, a, x)
    PROVE  /\ StoreStill /\ CardsStay /\ UNCHANGED runs
           /\ decisions[i].status = "pending" /\ decisions'[i].status \in {"approved", "edited"}
           /\ \A j \in DOMAIN decisions : j # i => decisions'[j] = decisions[j]
<1> DEFINE s == IF a = "approve" THEN "approved" ELSE "edited"
           f == IF a = "approve" THEN decisions[i].draft ELSE x
<1>1. /\ decisions' = [decisions EXCEPT ![i].status = s, ![i].final = f]
      /\ runs' = runs /\ decisions[i].status = "pending"
  BY DEF Store!ResolveDecision
<1>2. s \in {"approved", "edited"}
  OBVIOUS
<1> HIDE DEF s, f
<1>3. \A j \in DOMAIN decisions : decisions[j] \in RecordsP!Decision
  BY StoreSeqs
<1>4. decisions[i] \in RecordsP!Decision
  BY <1>3
<1>5. /\ DOMAIN decisions' = DOMAIN decisions
      /\ decisions'[i] = [decisions[i] EXCEPT !.status = s, !.final = f]
      /\ \A j \in DOMAIN decisions : j # i => decisions'[j] = decisions[j]
  BY <1>1
<1>6. /\ decisions'[i].status = s /\ decisions'[i].run = decisions[i].run
      /\ decisions'[i].booking = decisions[i].booking /\ decisions'[i].kind = decisions[i].kind
  BY <1>4, <1>5 DEF RecordsP!Decision
<1> QED
  BY <1>1, <1>2, <1>5, <1>6 DEF StoreStill, CardsStay

\* Of the steps of a thread, those that change the store change it as StoreNext says.
LEMMA ThreadUsesStore ==
    ASSUME PlaceInv, CountInv, RunInv, SlotInv, StoreInv, ServiceAssumption,
           NEW w \in Thread, CycleThread(w)
    PROVE  /\ RunInv' /\ SlotInv' /\ CountInv' /\ CardsStay
           /\ Store!StoreNext \/ UNCHANGED storeVars
<1>1. Len(runs) \in Nat /\ PlaceInv'
  BY PlaceStep, StoreSeqs
<1>2. Len(runs) <= cycles /\ cycles <= MaxCycles
  BY <1>1, FS_CardinalityType DEF CountInv, ServiceAssumption
<1>3. CASE OpenRun(w)
  <2>1. RunInv' /\ SlotInv' /\ Len(runs') = Len(runs) + 1
    BY <1>3, OpenRunKeepsRuns
  <2>2. CountInv'
    BY <1>1, <1>3, <2>1, CountStep
  <2>3. Len(runs) < MaxCycles
    <3>1. Opening # {}
      BY <1>3 DEF OpenRun, Opening
    <3>2. IsFiniteSet(Opening) /\ Cardinality(Opening) \in Nat
      BY FS_CardinalityType DEF CountInv
    <3>3. Cardinality(Opening) # 0
      BY <3>1, <3>2, FS_EmptySet
    <3> QED
      BY <1>1, <1>2, <3>2, <3>3 DEF CountInv, ServiceAssumption
  <2>4. cyc[w].trace \in Trace
    <3>1. pc[w] = "open"
      BY <1>3 DEF OpenRun
    <3> QED
      BY <1>1, <1>2, <3>1 DEF PlaceInv, CountInv, Trace, ServiceAssumption
  <2>5. Store!StoreNext
    BY <1>3, <2>3, <2>4 DEF OpenRun, Store!StoreNext
  <2>6. CardsStay
    BY <1>3 DEF OpenRun, Store!CreateRun, CardsStay
  <2> QED
    BY <2>1, <2>2, <2>5, <2>6
<1>4. CASE RaiseDecision(w)
  <2> DEFINE r == cyc[w].run
             b == Head(cyc[w].todo)
             k == Verdict(w)
             x == cyc[w].text
  <2>1. r \in DOMAIN runs /\ runs[r].status = "running" /\ b \in Booking /\ k \in Kind
        /\ x \in Text
    BY <1>4, AtTheAsk DEF RunInv
  <2>2. Store!RaiseAgain(r, b, k) \/ Store!RaiseNew(r, b, k, x)
    BY <1>4 DEF RaiseDecision, Store!AddDecision
  <2>3. /\ pc[w] = "file" /\ Goto(w, "escalated") /\ UNCHANGED cycles
    BY <1>4 DEF RaiseDecision
  <2>4. Len(runs') = Len(runs) => CountInv'
    BY <2>3, CountsNothing DEF Label
  <2>5. ASSUME Store!RaiseAgain(r, b, k)
        PROVE  RunInv' /\ SlotInv' /\ CountInv' /\ CardsStay
    <3>1. StoreStill /\ Len(runs') = Len(runs)
      BY <2>1, <2>5, RaiseAgainIsStill
    <3>2. ThreadsStill
      <4>1. HandledAt(pc[w], cyc[w]) <= HandledAt("escalated", cyc[w])
        BY <1>4, AtTheAsk, HandledIsInt
      <4>2. Puts(w, cyc[w])
        BY <1>4, AtTheAsk DEF PlaceInv, Puts
      <4> QED
        BY <1>4, <4>1, <4>2, AtTheAsk, MovesStill
    <3>3. RunInv' /\ SlotInv'
      BY <1>1, <3>1, <3>2, StillKeepsRuns, StillKeepsSlots
    <3>4. CardsStay
      BY <2>5 DEF Store!RaiseAgain, CardsStay
    <3> QED
      BY <2>4, <3>1, <3>3, <3>4
  <2>6. ASSUME Store!RaiseNew(r, b, k, x)
        PROVE  RunInv' /\ SlotInv' /\ CountInv' /\ CardsStay
    <3>1. RunInv' /\ SlotInv' /\ Len(runs') = Len(runs)
      BY <1>4, <2>6, RaiseNewKeepsRuns
    <3>2. CardsStay
      BY <2>6, AppendedCardsStay DEF Store!RaiseNew
    <3> QED
      BY <2>4, <3>1, <3>2
  <2>7. Len(decisions) < MaxCycles * Len(Impacts)
    BY <1>1, <1>2, <1>4, RoomForTheCard DEF CountInv, ServiceAssumption
  <2>8. Store!CycleStep(r)
    BY <2>1, <2>2, <2>7 DEF Store!CycleStep, Store!AddDecision
  <2>9. Store!StoreNext
    BY <2>1, <2>8 DEF Store!StoreNext
  <2> QED
    BY <2>2, <2>5, <2>6, <2>9
<1>5. CASE FinishRun(w) \/ FinishFailed(w)
  <2>1. RunInv' /\ SlotInv' /\ Len(runs') = Len(runs)
    BY <1>5, FinishKeepsRuns
  <2>2. CountInv'
    <3>1. /\ pc[w] \notin {"queued", "begin", "open"} /\ UNCHANGED cycles
          /\ \E l \in Label \ {"queued", "begin", "open"} : Goto(w, l)
      BY <1>5 DEF FinishRun, FinishFailed, At, Label
    <3> QED
      BY <2>1, <3>1, CountsNothing
  <2>3. cyc[w].run \in DOMAIN runs /\ runs[cyc[w].run].status = "running"
    <3>1. AtWork(pc[w])
      BY <1>5 DEF FinishRun, FinishFailed, At, AtWork
    <3> QED
      BY <3>1 DEF RunInv
  <2>4. Store!CycleStep(cyc[w].run)
    BY <1>5, <2>3 DEF FinishRun, FinishFailed, Store!CycleStep
  <2>5. CardsStay
    BY <1>5 DEF FinishRun, FinishFailed, Store!FinishDone, Store!FinishError, CardsStay
  <2> QED
    BY <2>1, <2>2, <2>3, <2>4, <2>5 DEF Store!StoreNext
<1>6. CASE ~OpenRun(w) /\ ~RaiseDecision(w) /\ ~FinishRun(w) /\ ~FinishFailed(w)
  <2>1. ThreadsStill /\ UNCHANGED storeVars
    BY <1>6, QuietStep
  <2>2. RunInv' /\ SlotInv'
    BY <1>1, <2>1, SameStoreIsStill, StillKeepsRuns, StillKeepsSlots
  <2>3. CardsStay
    BY <2>1 DEF storeVars, CardsStay
  <2>4. CountInv'
    <3>1. runs' = runs
      BY <2>1 DEF storeVars
    <3>2. CASE Acquire(w) \/ Begin(w)
      BY <1>1, <1>6, <3>2, CountStep
    <3>3. CASE ~Acquire(w) /\ ~Begin(w)
      BY <1>6, <3>1, <3>3, CountsNothing, StaysInside
    <3> QED
      BY <3>2, <3>3
  <2> QED
    BY <2>1, <2>2, <2>3, <2>4
<1> QED
  BY <1>3, <1>4, <1>5, <1>6

-----------------------------------------------------------------------------
(***************************************************************************)
(* CycleInv is inductive, and what follows from it.                        *)
(***************************************************************************)

\* The inductive invariant of the cycles, in both deployments.
CycleInv == PlaceInv /\ CountInv /\ RunInv /\ SlotInv /\ StoreInv /\ LoopInv

\* A step that moves no thread and neither opens nor closes a run.
LEMMA ThreadsRest ==
    ASSUME CycleInv, ServiceAssumption, StoreStill, UNCHANGED <<pc, cyc, cycles, runs>>
    PROVE  PlaceInv' /\ CountInv' /\ RunInv' /\ SlotInv'
<1> USE DEF CycleInv
<1>1. PlaceInv'
  BY DEF PlaceInv
<1>2. CountInv'
  <2>1. Waiting' = Waiting /\ Opening' = Opening
    BY DEF Waiting, Opening
  <2> QED
    BY <2>1 DEF CountInv
<1>3. RunInv' /\ SlotInv'
  BY <1>1, NobodyMoves, StillKeepsRuns, StillKeepsSlots
<1> QED
  BY <1>1, <1>2, <1>3

\* A thread that is called to a cycle, by a request, the scheduler or an invocation.
LEMMA CallStep ==
    ASSUME CycleInv, ServiceAssumption, NEW w \in Thread, NEW l \in {"queued", "begin"},
           pc[w] = "idle", Room, Goto(w, l), UNCHANGED <<cyc, cycles, storeVars, loop, answers>>
    PROVE  CycleInv'
<1> USE DEF CycleInv
<1>1. runs' = runs /\ Len(runs) \in Nat
  BY StoreSeqs DEF storeVars
<1>2. ThreadOK(l, cyc[w])
  <2>1. cyc[w] = NoCycle
    BY DEF PlaceInv, ThreadOK
  <2>2. ThreadOK("queued", cyc[w]) /\ ThreadOK("begin", cyc[w])
    BY <2>1 DEF PlaceInv, ThreadOK, Label, NoCycle, BeforeBookings, AtBooking
  <2> QED
    BY <2>2
<1>3. PlaceInv'
  BY <1>2, WalksTo
<1>4. CountInv'
  BY <1>1, RoomIsKept
<1>5. ThreadsStill
  <2>1. ~AtWork(pc[w]) /\ ~AtWork(l) /\ Puts(w, cyc[w])
    BY DEF AtWork, Puts, PlaceInv
  <2> QED
    BY <2>1, MovesStill
<1>6. RunInv' /\ SlotInv'
  BY <1>3, <1>5, SameStoreIsStill, StillKeepsRuns, StillKeepsSlots
<1>7. StoreInv'
  BY StoreStepKeeps
<1>8. LoopInv'
  BY DEF LoopInv, storeVars
<1> QED
  BY <1>3, <1>4, <1>6, <1>7, <1>8

\* The event loop outside of the POST of an answer: the store stays as it is.
LEMMA HandlerKeeps ==
    ASSUME CycleInv, ServiceAssumption, HandlerStep \/ ReadPending
    PROVE  CycleInv' /\ UNCHANGED <<storeVars, pc, cyc, cycles>>
<1> USE DEF CycleInv
<1>1. UNCHANGED <<storeVars, pc, cyc, cycles>>
  BY DEF HandlerStep, ReadPending, AuditAnswer, EmitAnswer, AuditFile, ReadResolved,
         ReadEvents, ReadTrail, Reply
<1>2. PlaceInv' /\ CountInv' /\ RunInv' /\ SlotInv'
  BY <1>1, SameStoreIsStill, ThreadsRest DEF storeVars
<1>3. StoreInv'
  BY <1>1, StoreStepKeeps
<1>4. decisions' = decisions /\ answers' = answers
  BY <1>1 DEF storeVars, HandlerStep, ReadPending, AuditAnswer, EmitAnswer, AuditFile,
              ReadResolved, ReadEvents, ReadTrail, Reply, apiVars
<1>5. LoopInv'
  <2>1. CASE AuditAnswer
    <3> DEFINE a == loop.at
               c == loop.card
    <3>1. a = "answered" /\ loop = [at |-> a, card |-> c]
          /\ loop' = [loop EXCEPT !.at = "audited"]
      BY <2>1 DEF LoopInv, AuditAnswer
    <3> HIDE DEF a, c
    <3>2. loop' = [at |-> "audited", card |-> c]
      BY <3>1
    <3>3. c = loop.card /\ loop'.card = c /\ loop'.at = "audited"
      BY <3>1, <3>2
    <3>4. loop' = [at |-> loop'.at, card |-> loop'.card]
      BY <3>2, <3>3
    <3> QED
      BY <1>4, <2>1, <3>3, <3>4 DEF LoopInv, AuditAnswer
  <2>2. CASE EmitAnswer \/ Reply
    <3>1. loop' = [at |-> "free"]
      BY <2>2 DEF EmitAnswer, Reply
    <3> QED
      BY <1>4, <3>1 DEF LoopInv
  <2>3. CASE AuditFile(EventLoop)
    BY <1>4, <2>3 DEF AuditFile, apiVars, LoopInv
  <2>4. CASE ReadPending
    <3>1. loop' = [at |-> "pending", cards |-> Cards(Store!ListDecisions("pending")),
                   known |-> Len(decisions)]
      BY <2>4 DEF ReadPending
    <3> DEFINE cs == Cards(Store!ListDecisions("pending"))
               k == Len(decisions)
    <3> HIDE DEF cs, k
    <3>2. /\ loop'.at = "pending"
          /\ loop' = [at |-> "pending", cards |-> loop'.cards, known |-> loop'.known]
      BY <3>1 DEF cs, k
    <3> QED
      BY <1>4, <3>2 DEF LoopInv
  <2>5. CASE ReadResolved
    <3>1. loop = [at |-> "pending", cards |-> loop.cards, known |-> loop.known]
      BY <2>5 DEF ReadResolved, LoopInv
    <3>2. loop'.at = "events"
      BY <2>5, <3>1 DEF ReadResolved
    <3> QED
      BY <1>4, <3>2 DEF LoopInv
  <2>6. CASE ReadEvents
    <3>1. loop'.at = "audit"
      BY <2>6 DEF ReadEvents
    <3> QED
      BY <1>4, <3>1 DEF LoopInv
  <2>7. CASE ReadTrail
    <3>1. loop'.at = "reply"
      BY <2>7 DEF ReadTrail
    <3> QED
      BY <1>4, <3>1 DEF LoopInv
  <2> QED
    BY <2>1, <2>2, <2>3, <2>4, <2>5, <2>6, <2>7 DEF HandlerStep
<1> QED
  BY <1>1, <1>2, <1>3, <1>5

\* POST /api/decisions/{id}: at most one card of the store is settled.
LEMMA AnswerKeeps ==
    ASSUME CycleInv, ServiceAssumption, NEW i \in DOMAIN decisions, NEW a \in Store!HostAction,
           NEW x \in Text \cup {NoText}, HostAnswers(i, a, x)
    PROVE  CycleInv' /\ CardsStay /\ (Store!StoreNext \/ UNCHANGED storeVars)
<1> USE DEF CycleInv
<1>1. UNCHANGED <<pc, cyc, cycles>> /\ loop' = [at |-> "answered", card |-> i]
      /\ answers' = answers + 1 /\ answers < MaxAnswers
  BY DEF HostAnswers
<1>2. /\ StoreStill /\ CardsStay /\ UNCHANGED runs
      /\ Store!StoreNext \/ UNCHANGED storeVars
      /\ i \in DOMAIN decisions' /\ decisions'[i].status # "pending"
  <2>1. CASE decisions[i].status = "pending"
    <3>1. Store!ResolveDecision(i, a, x)
      BY <2>1 DEF HostAnswers
    <3>2. /\ StoreStill /\ CardsStay /\ UNCHANGED runs
          /\ decisions'[i].status \in {"approved", "edited"}
      BY <3>1, ResolveFacts
    <3>3. Store!StoreNext
      BY <3>1 DEF Store!StoreNext
    <3> QED
      BY <3>2, <3>3 DEF CardsStay
  <2>2. CASE decisions[i].status # "pending"
    <3>1. UNCHANGED storeVars
      BY <2>2 DEF HostAnswers
    <3> QED
      BY <2>2, <3>1, SameStoreIsStill DEF storeVars, CardsStay
  <2> QED
    BY <2>1, <2>2
<1>3. PlaceInv' /\ CountInv' /\ RunInv' /\ SlotInv'
  BY <1>1, <1>2, ThreadsRest
<1>4. StoreInv'
  BY <1>2, StoreStepKeeps
<1>5. LoopInv'
  <2>1. answers' \in 0..MaxAnswers
    BY <1>1 DEF LoopInv, ServiceAssumption
  <2>2. /\ loop'.at = "answered" /\ loop'.card = i
        /\ loop' = [at |-> loop'.at, card |-> loop'.card]
    BY <1>1
  <2> QED
    BY <1>2, <2>1, <2>2 DEF LoopInv
<1> QED
  BY <1>2, <1>3, <1>4, <1>5

\* A step of a thread.
LEMMA ThreadKeeps ==
    ASSUME CycleInv, ServiceAssumption, NEW w \in Thread, CycleThread(w)
    PROVE  CycleInv' /\ CardsStay /\ (Store!StoreNext \/ UNCHANGED storeVars)
<1> USE DEF CycleInv
<1>1. Len(runs) \in Nat
  BY StoreSeqs
<1>2. PlaceInv'
  BY <1>1, PlaceStep
<1>3. /\ RunInv' /\ SlotInv' /\ CountInv' /\ CardsStay
      /\ Store!StoreNext \/ UNCHANGED storeVars
  BY ThreadUsesStore
<1>4. StoreInv'
  BY <1>3, StoreStepKeeps
<1>5. UNCHANGED <<loop, answers>>
  BY ThreadsLeaveTheLoop
<1>6. LoopInv'
  <2>1. CASE loop.at \in {"answered", "audited"}
    <3>1. loop.card \in DOMAIN decisions' /\ decisions'[loop.card].status # "pending"
      BY <1>3, <2>1 DEF LoopInv, CardsStay
    <3> QED
      BY <1>5, <3>1 DEF LoopInv
  <2>2. CASE loop.at \notin {"answered", "audited"}
    BY <1>5, <2>2 DEF LoopInv
  <2> QED
    BY <2>1, <2>2
<1> QED
  BY <1>2, <1>3, <1>4, <1>6

\* Every step of the service keeps the invariant and uses the store as its module allows.
LEMMA CycleInvStep ==
    ASSUME CycleInv, ServiceAssumption, [Next]_vars
    PROVE  CycleInv' /\ CardsStay /\ (Store!StoreNext \/ UNCHANGED storeVars)
<1>1. ASSUME UNCHANGED storeVars PROVE CardsStay
  BY <1>1 DEF storeVars, CardsStay
<1>2. ASSUME NEW w \in Poster, PostRun(w) PROVE CycleInv' /\ UNCHANGED storeVars
  BY <1>2, CallStep DEF PostRun, Thread, apiVars
<1>3. ASSUME NEW w \in Thread, Invoke(w) PROVE CycleInv' /\ UNCHANGED storeVars
  BY <1>3, CallStep DEF Invoke, apiVars
<1>4. CASE Tick
  <2>1. CycleInv' /\ UNCHANGED storeVars
    BY <1>4, CallStep DEF Tick, Thread, apiVars
  <2> QED
    BY <1>1, <2>1
<1>5. ASSUME NEW w \in Thread, CycleThread(w)
      PROVE  CycleInv' /\ CardsStay /\ (Store!StoreNext \/ UNCHANGED storeVars)
  BY <1>5, ThreadKeeps
<1>6. ASSUME NEW i \in DOMAIN decisions, NEW a \in Store!HostAction,
             NEW x \in Text \cup {NoText}, HostAnswers(i, a, x)
      PROVE  CycleInv' /\ CardsStay /\ (Store!StoreNext \/ UNCHANGED storeVars)
  BY <1>6, AnswerKeeps
<1>7. CASE ReadPending \/ HandlerStep
  BY <1>1, <1>7, HandlerKeeps
<1>8. CASE UNCHANGED vars
  <2>1. UNCHANGED <<storeVars, pc, cyc, cycles, loop, answers>>
    BY <1>8 DEF vars, apiVars
  <2>2. PlaceInv' /\ CountInv' /\ RunInv' /\ SlotInv'
    BY <2>1, SameStoreIsStill, ThreadsRest DEF storeVars
  <2>3. StoreInv'
    BY <2>1, StoreStepKeeps DEF CycleInv
  <2>4. LoopInv'
    BY <2>1 DEF CycleInv, LoopInv, storeVars
  <2> QED
    BY <1>1, <2>1, <2>2, <2>3, <2>4 DEF CycleInv
<1> QED
  BY <1>1, <1>2, <1>3, <1>4, <1>5, <1>6, <1>7, <1>8 DEF Next

\* Nothing has begun.
LEMMA CycleInvInit == Init => CycleInv
<1> SUFFICES ASSUME Init PROVE CycleInv
  OBVIOUS
<1>1. /\ runs = <<>> /\ decisions = <<>> /\ raised = <<>>
      /\ pc = [w \in Thread |-> "idle"] /\ cyc = [w \in Thread |-> NoCycle] /\ cycles = 0
      /\ loop.at \in {"free", "absent"} /\ answers = 0
  BY DEF Init, Store!StoreInit
<1>2. PlaceInv
  <2>1. ThreadOK("idle", NoCycle)
    BY ServiceAssumption DEF ServiceAssumption, ThreadOK, Label, NoCycle, ThreadState,
                             BeforeBookings, AtBooking
  <2>2. NoCycle \in ThreadState /\ "idle" \in Label
    BY <2>1 DEF ThreadOK
  <2> HIDE DEF NoCycle
  <2> QED
    BY <1>1, <2>1, <2>2 DEF PlaceInv
<1>3. CountInv
  <2>1. Waiting = {} /\ Opening = {}
    BY <1>1 DEF Waiting, Opening
  <2> QED
    BY <1>1, <2>1, FS_EmptySet, ServiceAssumption DEF CountInv, ServiceAssumption
<1>4. RunInv
  BY <1>1 DEF RunInv, AtWork
<1>5. SlotInv
  <2>1. DOMAIN decisions = {}
    BY <1>1
  <2>2. PICK slot : slot = [i \in DOMAIN decisions |-> 1]
    OBVIOUS
  <2>3. slot \in [DOMAIN decisions -> 1..Len(Impacts)] /\ SlotsOK(slot)
    BY <2>1, <2>2 DEF SlotsOK
  <2> QED
    BY <2>1, <2>3 DEF SlotInv
<1>6. StoreInv
  BY <1>1, StoreAssumed, TrailAssumed, RecordsP!InitStoreInv DEF StoreInv, RecordsP!StoreInit
<1>7. LoopInv
  BY <1>1, ServiceAssumption DEF LoopInv, ServiceAssumption
<1> QED
  BY <1>2, <1>3, <1>4, <1>5, <1>6, <1>7 DEF CycleInv

\* The places of the threads, their runs and the decisions belong together in every
\* reachable state, in both deployments.
THEOREM CycleInvariant == Spec => []CycleInv
<1>1. CycleInv /\ [Next]_vars => CycleInv'
  BY CycleInvStep, ServiceAssumption
<1> QED
  BY <1>1, CycleInvInit, PTL DEF Spec

\* Threads and event loop call the store only as its module lets callers: in particular a
\* cycle adds to and closes only a run of its own that is running, and no more decisions
\* are recorded than there are cycles times impacts.
THEOREM StoreIsUsedAsSpecified == Spec => StoreUsedAsSpecified
<1>1. Init => Store!StoreInit
  BY DEF Init
<1>2. CycleInv /\ [Next]_vars => [Store!StoreNext]_storeVars
  BY CycleInvStep, ServiceAssumption
<1>3. Spec => [][Store!StoreNext]_storeVars
  BY <1>2, CycleInvariant, PTL DEF Spec
<1> QED
  BY <1>1, <1>3, PTL DEF Spec, StoreUsedAsSpecified, Store!StoreSpec, Store!storeVars, storeVars

\* What is proved of the store alone holds of it in the service: the cards the host sees
\* are a decision desk.
THEOREM ServiceIsADesk == Spec => RecordsP!ImplementsDesk
<1>1. Init => RecordsP!StoreInit
  BY DEF Init, Store!StoreInit, RecordsP!StoreInit
<1>2. CycleInv /\ [Next]_vars => [RecordsP!StoreNext]_(RecordsP!storeVars)
  BY CycleInvStep, ServiceAssumption, SameStore
<1>3. Spec => RecordsP!StoreSpec
  BY <1>1, <1>2, CycleInvariant, PTL DEF Spec, RecordsP!StoreSpec
<1>4. RecordsP!StoreSpec => RecordsP!ImplementsDesk
  BY StoreAssumed, TrailAssumed, RecordsP!StoreIsADesk
<1> QED
  BY <1>3, <1>4, PTL

\* A run record says running exactly while one thread is at work on it.
THEOREM RunsAreWorkedOn == Spec => []RunningIsWorkedOn
<1>1. CycleInv => RunningIsWorkedOn
  <2> SUFFICES ASSUME CycleInv, NEW r \in DOMAIN runs
               PROVE  Cardinality({w \in Thread : Working(w) /\ cyc[w].run = r})
                          = IF runs[r].status = "running" THEN 1 ELSE 0
    BY DEF RunningIsWorkedOn
  <2> DEFINE workers == {w \in Thread : Working(w) /\ cyc[w].run = r}
  <2>1. \A w \in Thread : Working(w) <=> AtWork(pc[w])
    BY DEF Working, InCycle, AtWork
  <2>2. CASE runs[r].status = "running"
    <3>1. PICK w \in Thread : AtWork(pc[w]) /\ cyc[w].run = r
      BY <2>2 DEF CycleInv, RunInv
    <3>2. workers = {w}
      BY <2>1, <3>1 DEF CycleInv, RunInv
    <3>3. Cardinality(workers) = 1
      BY <3>2, FS_Singleton
    <3> QED
      BY <2>2, <3>3
  <2>3. CASE runs[r].status # "running"
    <3>1. workers = {}
      BY <2>1, <2>3 DEF CycleInv, RunInv
    <3>2. Cardinality(workers) = 0
      BY <3>1, FS_EmptySet
    <3> QED
      BY <2>3, <3>2
  <2> QED
    BY <2>2, <2>3
<1> QED
  BY <1>1, CycleInvariant, PTL

-----------------------------------------------------------------------------
(***************************************************************************)
(* The audit trail, with the cycles and the event loop writing to it.      *)
(***************************************************************************)

\* Every line the service writes.
TrailLine == CycleLine \cup OtherLine

\* The trail as the service names it is the trail the theorems are about.
LEMMA SameTrail ==
    /\ \A w, l : Audit!AuditAppend(w, l) <=> RecordsP!AuditAppend(w, l)
    /\ \A w : Audit!WriteLine(w) <=> RecordsP!WriteLine(w)
    /\ \A w : Audit!WriteFails(w) <=> RecordsP!WriteFails(w)
    /\ Audit!AuditInit <=> RecordsP!AuditInit
<1>1. \A w : Audit!NotWriting(w) <=> RecordsP!NotWriting(w)
  BY DEF Audit!NotWriting, RecordsP!NotWriting, Audit!NoEntry, RecordsP!NoEntry
<1>2. ASSUME NEW w, NEW l PROVE Audit!AuditAppend(w, l) <=> RecordsP!AuditAppend(w, l)
  <2>1. Audit!ReturnExisting(w, l) <=> RecordsP!ReturnExisting(w, l)
    BY DEF Audit!ReturnExisting, RecordsP!ReturnExisting, Audit!InMirror, RecordsP!InMirror,
           Audit!auditVars, RecordsP!auditVars
  <2>2. Audit!RecordNew(w, l) <=> RecordsP!RecordNew(w, l)
    BY DEF Audit!RecordNew, RecordsP!RecordNew, Audit!InMirror, RecordsP!InMirror
  <2> QED
    BY <1>1, <2>1, <2>2 DEF Audit!AuditAppend, RecordsP!AuditAppend
<1>3. \A w : Audit!WriteLine(w) <=> RecordsP!WriteLine(w)
  BY <1>1 DEF Audit!WriteLine, RecordsP!WriteLine, Audit!NoEntry, RecordsP!NoEntry
<1>4. \A w : Audit!WriteFails(w) <=> RecordsP!WriteFails(w)
  BY <1>1 DEF Audit!WriteFails, RecordsP!WriteFails, Audit!NoEntry, RecordsP!NoEntry
<1>5. Audit!AuditInit <=> RecordsP!AuditInit
  BY DEF Audit!AuditInit, RecordsP!AuditInit, Audit!NoEntry, RecordsP!NoEntry
<1> QED
  BY <1>2, <1>3, <1>4, <1>5

\* The three ways in which the service touches its trail.
TrailStep ==
    \/ UNCHANGED auditVars
    \/ \E w \in Thread \cup {EventLoop}, l \in TrailLine : Audit!AuditAppend(w, l)
    \/ \E w \in Thread \cup {EventLoop} : Audit!WriteLine(w) \/ Audit!WriteFails(w)

\* The lines a cycle writes are lines the trail knows.
LEMMA ThreadWritesLines ==
    ASSUME CycleInv, ServiceAssumption, NEW w \in Thread, CycleThread(w)
    PROVE  TrailStep
<1>1. /\ ThreadOK(pc[w], cyc[w]) /\ cyc[w].todo \in Seq(Booking)
  BY DEF CycleInv, PlaceInv, ThreadState
<1>2. cyc[w].todo # <<>> => Head(cyc[w].todo) \in Booking
  BY <1>1
<1>3. CASE AuditPolicy(w) \/ AuditFailure(w)
  <2>1. \E l \in {PolicyChanged, CycleFailed} : Audit!AuditAppend(w, l)
    BY <1>3 DEF AuditPolicy, AuditFailure
  <2>2. PolicyChanged \in TrailLine /\ CycleFailed \in TrailLine
    BY DEF TrailLine, CycleLine, OtherLine
  <2> QED
    BY <2>1, <2>2 DEF TrailStep
<1>4. CASE AgentLogs(w) \/ FileQuietly(w) \/ AuditEscalation(w)
  <2> DEFINE b == Head(cyc[w].todo)
  <2>1. b \in Booking
    BY <1>1, <1>2, <1>4 DEF AgentLogs, FileQuietly, AuditEscalation, ThreadOK, AtBooking
  <2>2. CASE AgentLogs(w)
    <3>1. Noted(b) \in TrailLine
      BY <2>1 DEF TrailLine, OtherLine
    <3> QED
      BY <2>2, <3>1 DEF AgentLogs, TrailStep
  <2>3. CASE FileQuietly(w)
    <3>1. HandledQuietly(b) \in TrailLine
      BY <2>1 DEF TrailLine, CycleLine
    <3> QED
      BY <2>3, <3>1 DEF FileQuietly, TrailStep
  <2>4. CASE AuditEscalation(w)
    <3>1. Verdict(w) # Quiet
      BY <1>1, <2>4 DEF AuditEscalation, ThreadOK, Verdict
    <3>2. Verdict(w) \in Kind
      BY <2>1, <3>1 DEF Verdict, Triage, ServiceAssumption, Kind
    <3>3. Escalated(b, Verdict(w)) \in TrailLine
      BY <2>1, <3>2 DEF TrailLine, CycleLine
    <3> QED
      BY <2>4, <3>3 DEF AuditEscalation, TrailStep
  <2> QED
    BY <1>4, <2>2, <2>3, <2>4
<1>5. CASE AuditFile(w)
  BY <1>5 DEF AuditFile, TrailStep
<1>6. CASE ~AuditPolicy(w) /\ ~AuditFailure(w) /\ ~AgentLogs(w) /\ ~FileQuietly(w)
           /\ ~AuditEscalation(w) /\ ~AuditFile(w)
  <2>1. UNCHANGED auditVars
    <3>1. CASE Acquire(w) \/ Release(w) \/ Begin(w) \/ OpenRun(w) \/ EmitStarted(w)
      BY <3>1 DEF Acquire, Release, Begin, OpenRun, EmitStarted
    <3>2. CASE PolicyTool(w) \/ EmitScan(w) \/ BuildAgent(w) \/ EmitTurnStarted(w)
      BY <3>2 DEF PolicyTool, EmitScan, BuildAgent, EmitTurnStarted
    <3>3. CASE AgentTool(w) \/ TurnEnds(w) \/ Drain(w) \/ EmitTriage(w) \/ RaiseDecision(w)
      BY <3>3 DEF AgentTool, TurnEnds, Drain, EmitTriage, RaiseDecision
    <3>4. CASE FinishRun(w) \/ EmitDone(w) \/ Fail(w) \/ FinishFailed(w)
      BY <3>4 DEF FinishRun, EmitDone, Fail, FinishFailed
    <3> QED
      BY <1>6, <3>1, <3>2, <3>3, <3>4 DEF CycleThread
  <2> QED
    BY <2>1 DEF TrailStep
<1> QED
  BY <1>3, <1>4, <1>5, <1>6

\* The line of an answer says what its card says.
LEMMA AnswerLine ==
    ASSUME CycleInv, NEW i \in DOMAIN decisions, decisions[i].status # "pending"
    PROVE  /\ decisions[i].booking \in Booking /\ decisions[i].kind \in Kind
           /\ decisions[i].status \in {"approved", "edited"}
           /\ Answered(decisions[i].booking, decisions[i].kind, decisions[i].status)
                \in TrailLine \ CycleLine
<1>1. decisions[i] \in RecordsP!Decision
  BY StoreSeqs DEF CycleInv
<1>2. /\ decisions[i].booking \in Booking /\ decisions[i].kind \in Kind
      /\ decisions[i].status \in {"approved", "edited"}
  BY <1>1 DEF RecordsP!Decision
<1> DEFINE b == decisions[i].booking
           k == decisions[i].kind
           s == decisions[i].status
<1> HIDE DEF b, k, s
<1>3. b \in Booking /\ k \in Kind /\ s \in {"approved", "edited"}
  BY <1>2 DEF b, k, s
<1>4. Answered(b, k, s) \in OtherLine
  BY <1>3 DEF OtherLine
<1>5. Answered(b, k, s) \notin CycleLine
  <2>1. Answered(b, k, s).action = "host_decision"
    BY DEF Answered
  <2>2. \A l \in CycleLine : l.action # "host_decision"
    <3>1. /\ PolicyChanged.action # "host_decision"
          /\ \A c : HandledQuietly(c).action # "host_decision"
          /\ \A c, d : Escalated(c, d).action # "host_decision"
      BY DEF PolicyChanged, HandledQuietly, Escalated
    <3> QED
      BY <3>1 DEF CycleLine
  <2> QED
    BY <2>1, <2>2
<1> QED
  BY <1>2, <1>4, <1>5 DEF TrailLine, b, k, s

\* Every step of the service touches the trail in one of the three ways.
LEMMA TrailSteps ==
    ASSUME CycleInv, ServiceAssumption, [Next]_vars
    PROVE  TrailStep
<1>1. ASSUME UNCHANGED auditVars PROVE TrailStep
  BY <1>1 DEF TrailStep
<1>2. ASSUME NEW w \in Poster, PostRun(w) PROVE TrailStep
  BY <1>1, <1>2 DEF PostRun
<1>3. ASSUME NEW w \in Thread, Invoke(w) PROVE TrailStep
  BY <1>1, <1>3 DEF Invoke
<1>4. CASE Tick
  BY <1>1, <1>4 DEF Tick
<1>5. ASSUME NEW w \in Thread, CycleThread(w) PROVE TrailStep
  BY <1>5, ThreadWritesLines
<1>6. ASSUME NEW i \in DOMAIN decisions, NEW a \in Store!HostAction,
             NEW x \in Text \cup {NoText}, HostAnswers(i, a, x)
      PROVE  TrailStep
  BY <1>1, <1>6 DEF HostAnswers
<1>7. CASE ReadPending
  BY <1>1, <1>7 DEF ReadPending
<1>8. CASE HandlerStep
  <2>1. CASE AuditAnswer
    <3> DEFINE d == decisions[loop.card]
    <3>1. Audit!AuditAppend(EventLoop, Answered(d.booking, d.kind, d.status))
      BY <2>1 DEF AuditAnswer
    <3>2. loop.card \in DOMAIN decisions /\ decisions[loop.card].status # "pending"
      BY <2>1 DEF AuditAnswer, CycleInv, LoopInv
    <3>3. Answered(d.booking, d.kind, d.status) \in TrailLine
      BY <3>2, AnswerLine
    <3> QED
      BY <3>1, <3>3 DEF TrailStep
  <2>2. CASE AuditFile(EventLoop)
    BY <2>2 DEF AuditFile, TrailStep
  <2>3. CASE EmitAnswer \/ ReadResolved \/ ReadEvents \/ ReadTrail \/ Reply
    BY <1>1, <2>3 DEF EmitAnswer, ReadResolved, ReadEvents, ReadTrail, Reply
  <2> QED
    BY <1>8, <2>1, <2>2, <2>3 DEF HandlerStep
<1>9. CASE UNCHANGED vars
  BY <1>1, <1>9 DEF vars
<1> QED
  BY <1>2, <1>3, <1>4, <1>5, <1>6, <1>7, <1>8, <1>9 DEF Next

\* The two inductive invariants of the trail itself.
TrailInv == RecordsP!MirrorInv /\ RecordsP!AccountInv

\* What is proved of the trail alone is kept by each of the three ways.
LEMMA TrailStepKeeps ==
    ASSUME TrailInv, TrailStep
    PROVE  TrailInv'
<1> USE DEF TrailInv
<1>1. CASE UNCHANGED auditVars
  <2>1. UNCHANGED RecordsP!auditVars
    BY <1>1 DEF auditVars, RecordsP!auditVars
  <2>2. RecordsP!MirrorInv'
    BY <2>1, StoreAssumed, TrailAssumed, RecordsP!MirrorInvInductive
  <2>3. RecordsP!AccountInv'
    BY <2>1, StoreAssumed, TrailAssumed, RecordsP!AccountInvInductive
  <2> QED
    BY <2>2, <2>3
<1>2. ASSUME NEW w \in Thread \cup {EventLoop}, NEW l \in TrailLine, Audit!AuditAppend(w, l)
      PROVE  TrailInv'
  <2>1. RecordsP!AuditAppend(w, l) /\ l \in CycleLine \cup OtherLine
    BY <1>2, SameTrail DEF TrailLine
  <2>2. RecordsP!MirrorInv'
    BY <2>1, StoreAssumed, TrailAssumed, RecordsP!AppendKeepsTypes, RecordsP!AppendKeepsMirror
       DEF RecordsP!MirrorInv
  <2>3. RecordsP!AccountInv'
    <3>1. CASE RecordsP!ReturnExisting(w, l)
      BY <3>1, StoreAssumed, TrailAssumed, RecordsP!AccountInvInductive DEF RecordsP!ReturnExisting
    <3>2. CASE RecordsP!RecordNew(w, l)
      BY <2>1, <3>2, StoreAssumed, TrailAssumed, RecordsP!RecordKeepsAccount
         DEF RecordsP!AuditAppend, RecordsP!MirrorInv
    <3> QED
      BY <2>1, <3>1, <3>2 DEF RecordsP!AuditAppend
  <2> QED
    BY <2>2, <2>3
<1>3. ASSUME NEW w \in Thread \cup {EventLoop}, Audit!WriteLine(w) \/ Audit!WriteFails(w)
      PROVE  TrailInv'
  <2>1. RecordsP!WriteLine(w) \/ RecordsP!WriteFails(w)
    BY <1>3, SameTrail
  <2>2. RecordsP!AuditNext
    BY <2>1 DEF RecordsP!AuditNext
  <2>3. RecordsP!MirrorInv'
    BY <2>2, StoreAssumed, TrailAssumed, RecordsP!MirrorInvInductive
  <2> QED
    BY <2>2, <2>3, StoreAssumed, TrailAssumed, RecordsP!AccountInvInductive
<1> QED
  BY <1>1, <1>2, <1>3 DEF TrailStep

\* The trail of the service is sound, whoever writes to it.
THEOREM TrailInvariant == Spec => []TrailInv
<1>1. Init => TrailInv
  <2> SUFFICES ASSUME Init PROVE TrailInv
    OBVIOUS
  <2>1. RecordsP!AuditInit
    BY SameTrail DEF Init
  <2>2. RecordsP!MirrorInv
    BY <2>1, StoreAssumed, TrailAssumed, RecordsP!MirrorInvInit
  <2>3. RecordsP!AccountInv
    BY <2>1 DEF RecordsP!AuditInit, RecordsP!AccountInv, RecordsP!Apart, RecordsP!OnDisk, RecordsP!Held,
                RecordsP!NotWriting
  <2> QED
    BY <2>2, <2>3 DEF TrailInv
<1>2. CycleInv /\ TrailInv /\ [Next]_vars => TrailInv'
  BY TrailSteps, TrailStepKeeps, ServiceAssumption
<1> QED
  BY <1>1, <1>2, CycleInvariant, PTL DEF Spec

\* In the service too no cycle repeats a line, and no entry is lost or written twice on its
\* way to the file, with the cycles and the event loop writing at once.
THEOREM ServiceTrailIsSound ==
    Spec => [](RecordsP!NoRepeatInMirror /\ RecordsP!EachEntryAccountedFor)
<1>1. TrailInv => RecordsP!NoRepeatInMirror /\ RecordsP!EachEntryAccountedFor
  BY StoreAssumed, TrailAssumed, RecordsP!AccountCounts DEF TrailInv, RecordsP!MirrorInv
<1> QED
  BY <1>1, TrailInvariant, PTL

-----------------------------------------------------------------------------
(***************************************************************************)
(* The cards and the lines that explain them.                              *)
(***************************************************************************)

\* A step of a thread moves that thread alone.
LEMMA OneThreadMoves ==
    ASSUME PlaceInv, NEW w \in Thread, CycleThread(w), NEW v \in Thread, v # w
    PROVE  pc'[v] = pc[v] /\ cyc'[v] = cyc[v]
<1>1. pc \in [Thread -> Label] /\ cyc \in [Thread -> ThreadState]
  BY DEF PlaceInv
<1>2. (pc' = pc \/ \E l : Goto(w, l)) => pc'[v] = pc[v]
  BY <1>1 DEF Goto
<1>3. (cyc' = cyc \/ \E c : Puts(w, c)) => cyc'[v] = cyc[v]
  BY <1>1 DEF Puts
<1>4. CASE Acquire(w) \/ Release(w) \/ Begin(w) \/ OpenRun(w) \/ EmitStarted(w)
  BY <1>2, <1>3, <1>4 DEF Acquire, Release, Begin, OpenRun, EmitStarted, Puts
<1>5. CASE PolicyTool(w) \/ AuditPolicy(w) \/ EmitScan(w) \/ BuildAgent(w)
  BY <1>2, <1>3, <1>5 DEF PolicyTool, ToolBegin, AuditPolicy, EmitScan, BuildAgent, Puts
<1>6. CASE EmitTurnStarted(w) \/ AgentTool(w) \/ AgentLogs(w)
  BY <1>2, <1>3, <1>6 DEF EmitTurnStarted, AgentTool, ToolBegin, AgentLogs, Puts
<1>7. CASE TurnEnds(w) \/ Drain(w)
  <2>1. pc'[v] = pc[v]
    BY <1>2, <1>7 DEF TurnEnds, Drain
  <2>2. cyc' = cyc \/ \E c : Puts(w, c)
    BY <1>7 DEF TurnEnds, Drain, Puts
  <2> QED
    BY <1>3, <2>1, <2>2
<1>8. CASE EmitTriage(w) \/ FileQuietly(w) \/ RaiseDecision(w) \/ AuditEscalation(w)
  BY <1>2, <1>3, <1>8 DEF EmitTriage, FileQuietly, RaiseDecision, AuditEscalation, BookingDone,
                          Puts
<1>9. CASE FinishRun(w) \/ EmitDone(w) \/ Fail(w) \/ AuditFailure(w) \/ FinishFailed(w)
  BY <1>2, <1>3, <1>9 DEF FinishRun, EmitDone, Fail, AuditFailure, FinishFailed
<1>10. CASE AuditFile(w)
  BY <1>10 DEF AuditFile
<1> QED
  BY <1>4, <1>5, <1>6, <1>7, <1>8, <1>9, <1>10 DEF CycleThread

\* After add_decision a thread does nothing before its audit_append; in particular it
\* does not fail there.
LEMMA FromEscalated ==
    ASSUME NEW w \in Thread, pc[w] = "escalated", CycleThread(w)
    PROVE  AuditEscalation(w) \/ (AuditFile(w) /\ UNCHANGED <<pc, cyc>>)
<1>1. ~Acquire(w) /\ ~Release(w) /\ ~Begin(w) /\ ~OpenRun(w) /\ ~EmitStarted(w) /\ ~PolicyTool(w)
      /\ ~AuditPolicy(w) /\ ~EmitScan(w) /\ ~BuildAgent(w)
  BY DEF Acquire, Release, Begin, OpenRun, EmitStarted, PolicyTool, AuditPolicy, EmitScan,
         BuildAgent, At
<1>2. ~EmitTurnStarted(w) /\ ~AgentTool(w) /\ ~AgentLogs(w) /\ ~TurnEnds(w) /\ ~Drain(w)
      /\ ~EmitTriage(w) /\ ~FileQuietly(w) /\ ~RaiseDecision(w)
  BY DEF EmitTurnStarted, AgentTool, AgentLogs, TurnEnds, Drain, EmitTriage, FileQuietly,
         RaiseDecision, At
<1>3. ~FinishRun(w) /\ ~EmitDone(w) /\ ~Fail(w) /\ ~AuditFailure(w) /\ ~FinishFailed(w)
  BY DEF FinishRun, EmitDone, Fail, Raises, AuditFailure, FinishFailed, At
<1> QED
  BY <1>1, <1>2, <1>3 DEF CycleThread, AuditFile

\* Only add_decision puts a card where there was none.
LEMMA OnlyRaisesAdd ==
    ASSUME PlaceInv, ServiceAssumption, NEW w \in Thread, CycleThread(w), ~RaiseDecision(w)
    PROVE  decisions' = decisions
BY QuietStep DEF OpenRun, FinishRun, FinishFailed, Store!CreateRun, Store!FinishDone,
                 Store!FinishError, storeVars

\* The entry an audit_append leaves behind: a new one at the end, or the one it found.
LEMMA AppendedLine ==
    ASSUME TrailInv, NEW w \in Thread \cup {EventLoop}, NEW l \in TrailLine,
           Audit!AuditAppend(w, l)
    PROVE  /\ l \in Lines'
           /\ \/ mirror' = mirror
              \/ \E e : e.line = l /\ mirror' = Append(mirror, e)
           /\ l \notin CycleLine => \E e : e.line = l /\ mirror' = Append(mirror, e)
<1>1. mirror \in Seq(RecordsP!Entry)
  BY DEF TrailInv, RecordsP!MirrorInv, RecordsP!AuditTypeOK
<1>2. CASE Audit!ReturnExisting(w, l)
  <2>1. mirror' = mirror /\ l \in CycleLine /\ \E i \in DOMAIN mirror : mirror[i].line = l
    BY <1>2 DEF Audit!ReturnExisting, Audit!InMirror, Audit!auditVars
  <2> QED
    BY <2>1 DEF Lines
<1>3. CASE Audit!RecordNew(w, l)
  <2> DEFINE e == [id |-> recorded + 1, line |-> l]
  <2>1. mirror' = Append(mirror, e) /\ e.line = l
    BY <1>3 DEF Audit!RecordNew
  <2> HIDE DEF e
  <2>2. /\ Len(mirror) + 1 \in DOMAIN mirror' /\ mirror'[Len(mirror) + 1] = e
    BY <1>1, <2>1, AppendFacts
  <2> QED
    BY <2>1, <2>2 DEF Lines
<1> QED
  BY <1>2, <1>3 DEF Audit!AuditAppend

\* The mirror only grows, by one entry at a time.
LEMMA MirrorOnlyGrows ==
    ASSUME TrailInv, TrailStep
    PROVE  /\ mirror' = mirror \/ \E e : mirror' = Append(mirror, e)
           /\ Lines \subseteq Lines'
<1>1. mirror \in Seq(RecordsP!Entry)
  BY DEF TrailInv, RecordsP!MirrorInv, RecordsP!AuditTypeOK
<1>2. mirror' = mirror \/ \E e : mirror' = Append(mirror, e)
  BY AppendedLine DEF TrailStep, auditVars, Audit!WriteLine, Audit!WriteFails
<1>3. ASSUME NEW e, mirror' = Append(mirror, e) PROVE Lines \subseteq Lines'
  <2>1. \A n \in DOMAIN mirror : n \in DOMAIN mirror' /\ mirror'[n] = mirror[n]
    BY <1>1, <1>3, AppendFacts
  <2> QED
    BY <2>1 DEF Lines
<1>4. mirror' = mirror => Lines \subseteq Lines'
  BY DEF Lines
<1> QED
  BY <1>2, <1>3, <1>4

-----------------------------------------------------------------------------

\* A thread that has raised this ask and not yet recorded it.
OnItsWay(w, b, k) == pc[w] = "escalated" /\ Head(cyc[w].todo) = b /\ Verdict(w) = k

\* A card stays explained, and a new one is explained by the thread that raised it.
LEMMA ExplainedStep ==
    ASSUME CycleInv, TrailInv, ServiceAssumption, CardsAreExplained, [Next]_vars
    PROVE  CardsAreExplained'
<1>1. CardsStay /\ TrailStep /\ PlaceInv
  BY CycleInvStep, TrailSteps DEF CycleInv
<1>2. Lines \subseteq Lines'
  BY <1>1, MirrorOnlyGrows
<1>3. ASSUME NEW i \in DOMAIN decisions
      PROVE  \/ Escalated(decisions[i].booking, decisions[i].kind) \in Lines
             \/ \E w \in Thread : OnItsWay(w, decisions[i].booking, decisions[i].kind)
  BY DEF CardsAreExplained, OnItsWay
<1>4. ASSUME NEW w \in Thread, CycleThread(w), NEW v \in Thread, NEW b, NEW k, OnItsWay(v, b, k)
      PROVE  Escalated(b, k) \in Lines' \/ OnItsWay(v, b, k)'
  <2>1. CASE v # w
    BY <1>1, <1>4, <2>1, OneThreadMoves DEF OnItsWay, Verdict
  <2>2. CASE v = w /\ AuditFile(w) /\ UNCHANGED <<pc, cyc>>
    BY <1>4, <2>2 DEF OnItsWay, Verdict
  <2>3. CASE v = w /\ AuditEscalation(w)
    <3>1. Audit!AuditAppend(w, Escalated(b, k))
      BY <1>4, <2>3 DEF OnItsWay, AuditEscalation
    <3>2. Escalated(b, k) \in TrailLine
      <4>1. ThreadOK(pc[w], cyc[w]) /\ cyc[w].todo \in Seq(Booking) /\ pc[w] = "escalated"
        BY <1>1, <1>4, <2>3 DEF PlaceInv, OnItsWay, ThreadState
      <4>2. b \in Booking
        BY <1>4, <2>3, <4>1 DEF ThreadOK, AtBooking, OnItsWay
      <4>3. k \in Kind
        BY <1>4, <2>3, <4>1, <4>2 DEF ThreadOK, OnItsWay, Verdict, Triage, ServiceAssumption,
                                      Kind
      <4> QED
        BY <4>2, <4>3 DEF TrailLine, CycleLine
    <3> QED
      BY <3>1, <3>2, AppendedLine
  <2> QED
    BY <1>4, <2>1, <2>2, <2>3, FromEscalated DEF OnItsWay
<1>5. ASSUME UNCHANGED <<pc, cyc>>, NEW v \in Thread, NEW b, NEW k, OnItsWay(v, b, k)
      PROVE  OnItsWay(v, b, k)'
  BY <1>5 DEF OnItsWay, Verdict
<1>6. ASSUME NEW w \in Thread, NEW l \in {"queued", "begin"},
             Goto(w, l), pc[w] = "idle", UNCHANGED cyc,
             NEW v \in Thread, NEW b, NEW k, OnItsWay(v, b, k)
      PROVE  OnItsWay(v, b, k)'
  BY <1>1, <1>6 DEF OnItsWay, Verdict, Goto, PlaceInv
<1>7. ASSUME NEW v \in Thread, NEW b, NEW k, OnItsWay(v, b, k)
      PROVE  Escalated(b, k) \in Lines' \/ OnItsWay(v, b, k)'
  <2>1. ASSUME NEW w \in Poster, PostRun(w) PROVE OnItsWay(v, b, k)'
    BY <1>6, <1>7, <2>1 DEF PostRun, Thread
  <2>2. ASSUME NEW w \in Thread, Invoke(w) PROVE OnItsWay(v, b, k)'
    BY <1>6, <1>7, <2>2 DEF Invoke
  <2>3. CASE Tick
    BY <1>6, <1>7, <2>3 DEF Tick, Thread
  <2>4. ASSUME NEW w \in Thread, CycleThread(w)
        PROVE  Escalated(b, k) \in Lines' \/ OnItsWay(v, b, k)'
    BY <1>4, <1>7, <2>4
  <2>5. ASSUME NEW i \in DOMAIN decisions, NEW a \in Store!HostAction,
               NEW x \in Text \cup {NoText}, HostAnswers(i, a, x)
        PROVE  OnItsWay(v, b, k)'
    BY <1>5, <1>7, <2>5 DEF HostAnswers
  <2>6. CASE ReadPending \/ HandlerStep
    BY <1>5, <1>7, <2>6, HandlerKeeps
  <2>7. CASE UNCHANGED vars
    BY <1>5, <1>7, <2>7 DEF vars
  <2> QED
    BY <2>1, <2>2, <2>3, <2>4, <2>5, <2>6, <2>7 DEF Next
<1> DEFINE Soon(w, b, k) == pc'[w] = "escalated" /\ Head(cyc'[w].todo) = b /\ Verdict(w)' = k
<1>8. ASSUME NEW i \in DOMAIN decisions
      PROVE  \/ Escalated(decisions'[i].booking, decisions'[i].kind) \in Lines'
             \/ \E w \in Thread : Soon(w, decisions'[i].booking, decisions'[i].kind)
  BY <1>1, <1>2, <1>3, <1>7 DEF CardsStay, OnItsWay
<1>9. ASSUME NEW i \in DOMAIN decisions', i \notin DOMAIN decisions
      PROVE  \E w \in Thread : Soon(w, decisions'[i].booking, decisions'[i].kind)
  <2>1. ASSUME NEW w \in Thread, RaiseDecision(w)
        PROVE  Soon(w, decisions'[i].booking, decisions'[i].kind)
    <3> DEFINE d == [run |-> cyc[w].run, booking |-> Head(cyc[w].todo), kind |-> Verdict(w),
                     draft |-> cyc[w].text, status |-> "pending", final |-> NoText]
    <3>1. decisions' = Append(decisions, d) \/ decisions' = decisions
      BY <2>1 DEF RaiseDecision, Store!AddDecision, Store!RaiseAgain, Store!RaiseNew
    <3>2. d.booking = Head(cyc[w].todo) /\ d.kind = Verdict(w)
      OBVIOUS
    <3> HIDE DEF d
    <3>3. decisions'[i] = d
      BY <1>9, <3>1, StoreSeqs, AppendFacts DEF CycleInv
    <3>4. pc'[w] = "escalated" /\ cyc' = cyc
      BY <1>1, <2>1 DEF RaiseDecision, Goto, PlaceInv
    <3>5. Verdict(w)' = Verdict(w)
      BY <3>4 DEF Verdict
    <3> QED
      BY <3>2, <3>3, <3>4, <3>5
  <2>2. ASSUME UNCHANGED decisions PROVE FALSE
    BY <1>9, <2>2
  <2>3. ASSUME DOMAIN decisions' = DOMAIN decisions PROVE FALSE
    BY <1>9, <2>3
  <2>4. ASSUME NEW w \in Thread, CycleThread(w)
        PROVE  RaiseDecision(w)
    BY <1>1, <2>2, <2>4, OnlyRaisesAdd
  <2>5. ASSUME NEW j \in DOMAIN decisions, NEW a \in Store!HostAction,
               NEW x \in Text \cup {NoText}, HostAnswers(j, a, x)
        PROVE  FALSE
    <3>1. DOMAIN decisions' = DOMAIN decisions
      BY <2>5, ResolveFacts DEF HostAnswers, storeVars, CycleInv, StoreStill
    <3> QED
      BY <2>3, <3>1
  <2>6. ~HandlerStep /\ ~ReadPending
    BY <2>2, HandlerKeeps DEF storeVars
  <2>7. ~UNCHANGED vars
    BY <2>2 DEF vars, storeVars
  <2>8. ASSUME NEW w \in Poster, PostRun(w) PROVE FALSE
    BY <2>2, <2>8 DEF PostRun, storeVars
  <2>9. ASSUME NEW w \in Thread, Invoke(w) PROVE FALSE
    BY <2>2, <2>9 DEF Invoke, storeVars
  <2>10. ~Tick
    BY <2>2 DEF Tick, storeVars
  <2>11. PICK w \in Thread : CycleThread(w)
    BY <2>5, <2>6, <2>7, <2>8, <2>9, <2>10 DEF Next
  <2> QED
    BY <2>1, <2>4, <2>11
<1> QED
  BY <1>8, <1>9 DEF CardsAreExplained

\* A card the host can see has its reason in the trail, or the thread that raised it is on
\* the way there: no failure, and no other cycle, comes between for good.
THEOREM EveryCardIsExplained == Spec => []CardsAreExplained
<1>1. Init => CardsAreExplained
  BY DEF Init, Store!StoreInit, CardsAreExplained
<1>2. CycleInv /\ TrailInv /\ CardsAreExplained /\ [Next]_vars => CardsAreExplained'
  BY ExplainedStep, ServiceAssumption
<1> QED
  BY <1>1, <1>2, CycleInvariant, TrailInvariant, PTL DEF Spec

-----------------------------------------------------------------------------
(***************************************************************************)
(* The answers of the host and their lines.                                *)
(***************************************************************************)

\* The statuses of an answered card.
Answer == {"approved", "edited"}

\* The cards with this answer.
AnsweredCards(b, k, s) ==
    {i \in DOMAIN decisions : /\ decisions[i].booking = b
                              /\ decisions[i].kind = k
                              /\ decisions[i].status = s}

\* Its lines in the trail.
AnswerLines(b, k, s) == {n \in DOMAIN mirror : mirror[n].line = Answered(b, k, s)}

\* The card whose line the handler has yet to write, if it is one of these.
AnswerInHand(b, k, s) ==
    IF loop.at = "answered" /\ loop.card \in AnsweredCards(b, k, s) THEN 1 ELSE 0

\* The record of one answer to one ask.
OnRecord(b, k, s) ==
    Cardinality(AnsweredCards(b, k, s))
        <= Cardinality(AnswerLines(b, k, s)) + AnswerInHand(b, k, s)

\* AnswersAreOnRecord, ask by ask.
LEMMA RecordIsByAsk ==
    AnswersAreOnRecord <=> \A b \in Booking, k \in Kind, s \in Answer : OnRecord(b, k, s)
BY DEF AnswersAreOnRecord, OnRecord, AnsweredCards, AnswerLines, AnswerInHand, Answer

\* Both are finite.
LEMMA RecordIsFinite ==
    ASSUME StoreInv, TrailInv, NEW b, NEW k, NEW s
    PROVE  /\ IsFiniteSet(AnsweredCards(b, k, s))
           /\ Cardinality(AnsweredCards(b, k, s)) \in Nat
           /\ IsFiniteSet(AnswerLines(b, k, s))
           /\ Cardinality(AnswerLines(b, k, s)) \in Nat
<1>1. DOMAIN decisions = 1..Len(decisions) /\ Len(decisions) \in Nat
  BY StoreSeqs
<1>2. DOMAIN mirror = 1..Len(mirror) /\ Len(mirror) \in Nat
  BY DEF TrailInv, RecordsP!MirrorInv, RecordsP!AuditTypeOK
<1>3. \A n \in Nat : IsFiniteSet(1..n)
  BY FS_Interval
<1>4. IsFiniteSet(DOMAIN decisions) /\ IsFiniteSet(DOMAIN mirror)
  BY <1>1, <1>2, <1>3
<1>5. AnsweredCards(b, k, s) \in SUBSET DOMAIN decisions
      /\ AnswerLines(b, k, s) \in SUBSET DOMAIN mirror
  BY DEF AnsweredCards, AnswerLines
<1>6. IsFiniteSet(AnsweredCards(b, k, s)) /\ IsFiniteSet(AnswerLines(b, k, s))
  BY <1>4, <1>5, FS_Subset
<1> QED
  BY <1>6, FS_CardinalityType

\* The lines of an answer only grow in number.
LEMMA AnswerLinesGrow ==
    ASSUME TrailInv, TrailStep, NEW b, NEW k, NEW s
    PROVE  AnswerLines(b, k, s) \subseteq AnswerLines(b, k, s)'
<1>1. mirror \in Seq(RecordsP!Entry)
  BY DEF TrailInv, RecordsP!MirrorInv, RecordsP!AuditTypeOK
<1>2. CASE mirror' = mirror
  BY <1>2 DEF AnswerLines
<1>3. CASE \E e : mirror' = Append(mirror, e)
  <2>1. \A n \in DOMAIN mirror : n \in DOMAIN mirror' /\ mirror'[n] = mirror[n]
    BY <1>1, <1>3, AppendFacts
  <2> QED
    BY <2>1 DEF AnswerLines
<1> QED
  BY <1>2, <1>3, MirrorOnlyGrows

\* A step after which no card is newly answered, and the handler has no less in hand.
LEMMA RecordRests ==
    ASSUME StoreInv, TrailInv, StoreInv', TrailInv', TrailStep, NEW b, NEW k, NEW s,
           OnRecord(b, k, s),
           AnsweredCards(b, k, s)' = AnsweredCards(b, k, s),
           loop' = loop \/ loop.at # "answered"
    PROVE  OnRecord(b, k, s)'
<1> DEFINE L == AnswerLines(b, k, s)
           M == AnswerLines(b, k, s)'
           C == Cardinality(AnsweredCards(b, k, s))
           D == Cardinality(AnsweredCards(b, k, s))'
           H == AnswerInHand(b, k, s)
           J == AnswerInHand(b, k, s)'
<1>1. L \subseteq M
  BY AnswerLinesGrow
<1>2. IsFiniteSet(M) /\ Cardinality(M) \in Nat /\ Cardinality(L) \in Nat /\ C \in Nat
  <2>1. DOMAIN mirror' = 1..Len(mirror') /\ Len(mirror') \in Nat
    BY DEF TrailInv, RecordsP!MirrorInv, RecordsP!AuditTypeOK
  <2>2. \A n \in Nat : IsFiniteSet(1..n)
    BY FS_Interval
  <2>3. IsFiniteSet(DOMAIN mirror')
    BY <2>1, <2>2
  <2>4. M \in SUBSET DOMAIN mirror'
    BY DEF AnswerLines
  <2>5. IsFiniteSet(M)
    BY <2>3, <2>4, FS_Subset
  <2>6. Cardinality(L) \in Nat /\ C \in Nat
    BY RecordIsFinite
  <2>7. Cardinality(M) \in Nat
    BY <2>5, FS_CardinalityType
  <2> QED
    BY <2>5, <2>6, <2>7
<1>3. Cardinality(L) <= Cardinality(M)
  BY <1>1, <1>2, FS_Subset
<1>4. H \in {0, 1} /\ J \in {0, 1} /\ H <= J
  BY DEF AnswerInHand
<1>5. C <= Cardinality(L) + H
  BY DEF OnRecord
<1>6. D = C
  OBVIOUS
<1> HIDE DEF L, M, C, D, H, J
<1>7. D <= Cardinality(M) + J
  BY <1>2, <1>3, <1>4, <1>5, <1>6
<1> QED
  BY <1>7 DEF OnRecord, M, D, J

\* A thread answers no card.
LEMMA ThreadAnswersNone ==
    ASSUME CycleInv, ServiceAssumption, NEW w \in Thread, CycleThread(w),
           NEW b, NEW k, NEW s \in Answer
    PROVE  AnsweredCards(b, k, s)' = AnsweredCards(b, k, s)
<1>1. CASE decisions' = decisions
  BY <1>1 DEF AnsweredCards
<1>2. CASE RaiseDecision(w)
  <2> DEFINE d == [run |-> cyc[w].run, booking |-> Head(cyc[w].todo), kind |-> Verdict(w),
                   draft |-> cyc[w].text, status |-> "pending", final |-> NoText]
  <2>1. decisions' = Append(decisions, d) \/ decisions' = decisions
    BY <1>2 DEF RaiseDecision, Store!AddDecision, Store!RaiseAgain, Store!RaiseNew
  <2>2. d.status = "pending"
    OBVIOUS
  <2> HIDE DEF d
  <2>3. CASE decisions' = Append(decisions, d)
    <3>1. /\ DOMAIN decisions' = 1..Len(decisions) + 1 /\ DOMAIN decisions = 1..Len(decisions)
          /\ Len(decisions) \in Nat
          /\ \A i \in DOMAIN decisions : decisions'[i] = decisions[i]
          /\ decisions'[Len(decisions) + 1] = d
      BY <2>3, StoreSeqs, AppendFacts DEF CycleInv
    <3>2. \A i \in DOMAIN decisions' : decisions'[i].status = s =>
              i \in DOMAIN decisions /\ decisions'[i] = decisions[i]
      BY <2>2, <3>1 DEF Answer
    <3>3. \A i \in DOMAIN decisions : i \in DOMAIN decisions' /\ decisions'[i] = decisions[i]
      BY <3>1
    <3> QED
      BY <3>2, <3>3 DEF AnsweredCards
  <2> QED
    BY <1>1, <2>1, <2>3
<1> QED
  BY <1>1, <1>2, OnlyRaisesAdd DEF CycleInv

\* POST /api/decisions/{id}: one more card answered, and it is in the hands of the handler.
LEMMA AnswerIsInHand ==
    ASSUME CycleInv, TrailInv, CycleInv', ServiceAssumption,
           NEW i \in DOMAIN decisions, NEW a \in Store!HostAction, NEW x \in Text \cup {NoText},
           HostAnswers(i, a, x), NEW b, NEW k, NEW s \in Answer, OnRecord(b, k, s)
    PROVE  OnRecord(b, k, s)'
<1> DEFINE A == AnsweredCards(b, k, s)
           B == AnsweredCards(b, k, s)'
           L == AnswerLines(b, k, s)
<1>1. /\ loop.at = "free" /\ loop' = [at |-> "answered", card |-> i] /\ mirror' = mirror
  BY DEF HostAnswers, auditVars
<1>2. IsFiniteSet(A) /\ Cardinality(A) \in Nat /\ Cardinality(L) \in Nat
  BY RecordIsFinite DEF CycleInv
<1>3. Cardinality(A) <= Cardinality(L)
  <2>1. AnswerInHand(b, k, s) = 0
    BY <1>1 DEF AnswerInHand
  <2> QED
    BY <1>2, <2>1 DEF OnRecord
<1>4. B = A \/ (B = A \cup {i} /\ i \in B)
  <2>1. CASE decisions[i].status = "pending"
    <3>1. /\ DOMAIN decisions' = DOMAIN decisions
          /\ \A j \in DOMAIN decisions : j # i => decisions'[j] = decisions[j]
      BY <2>1, ResolveFacts DEF HostAnswers, CycleInv, StoreStill
    <3>2. i \notin A
      BY <2>1 DEF AnsweredCards, Answer
    <3> QED
      BY <3>1, <3>2 DEF AnsweredCards
  <2>2. CASE decisions[i].status # "pending"
    BY <2>2 DEF HostAnswers, storeVars, AnsweredCards
  <2> QED
    BY <2>1, <2>2
<1>5. AnswerInHand(b, k, s)' = IF i \in B THEN 1 ELSE 0
  BY <1>1 DEF AnswerInHand
<1>6. AnswerLines(b, k, s)' = L
  BY <1>1 DEF AnswerLines
<1> HIDE DEF A, B, L
<1>7. Cardinality(B) <= Cardinality(L) + (IF i \in B THEN 1 ELSE 0)
  <2>1. CASE B = A
    BY <1>2, <1>3, <2>1
  <2>2. CASE B = A \cup {i} /\ i \in B
    <3>1. Cardinality(B) \in {Cardinality(A), Cardinality(A) + 1}
      BY <1>2, <2>2, FS_AddElement
    <3> QED
      BY <1>2, <1>3, <2>2, <3>1
  <2> QED
    BY <1>4, <2>1, <2>2
<1> QED
  BY <1>5, <1>6, <1>7 DEF OnRecord, B

\* audit_append of the answer: "Host actions always append".
LEMMA AnswerIsWritten ==
    ASSUME CycleInv, TrailInv, TrailInv', ServiceAssumption, AuditAnswer,
           NEW b, NEW k, NEW s, OnRecord(b, k, s)
    PROVE  OnRecord(b, k, s)'
<1> DEFINE c == loop.card
           d == decisions[c]
           l == Answered(d.booking, d.kind, d.status)
           L == AnswerLines(b, k, s)
           M == AnswerLines(b, k, s)'
           A == AnsweredCards(b, k, s)
           H == AnswerInHand(b, k, s)
<1>1. /\ loop.at = "answered" /\ loop' = [loop EXCEPT !.at = "audited"]
      /\ loop = [at |-> loop.at, card |-> c]
      /\ c \in DOMAIN decisions /\ d.status # "pending" /\ decisions' = decisions
      /\ Audit!AuditAppend(EventLoop, l)
  BY DEF AuditAnswer, CycleInv, LoopInv, storeVars
<1>2. l \in TrailLine \ CycleLine
  BY <1>1, AnswerLine
<1>3. PICK e : e.line = l /\ mirror' = Append(mirror, e)
  BY <1>1, <1>2, AppendedLine
<1>4. mirror \in Seq(RecordsP!Entry)
  BY DEF TrailInv, RecordsP!MirrorInv, RecordsP!AuditTypeOK
<1>5. /\ DOMAIN mirror' = 1..Len(mirror) + 1 /\ DOMAIN mirror = 1..Len(mirror)
      /\ Len(mirror) \in Nat
      /\ \A n \in DOMAIN mirror : mirror'[n] = mirror[n]
      /\ mirror'[Len(mirror) + 1] = e
  BY <1>3, <1>4, AppendFacts
<1>6. loop'.at = "audited"
  BY <1>1
<1>7. AnswerInHand(b, k, s)' = 0 /\ AnsweredCards(b, k, s)' = A
  BY <1>1, <1>6 DEF AnswerInHand, AnsweredCards
<1>8. c \in A => l = Answered(b, k, s)
  BY DEF AnsweredCards
<1>9. H = IF c \in A THEN 1 ELSE 0
  BY <1>1 DEF AnswerInHand
<1>10. IsFiniteSet(L) /\ Cardinality(L) \in Nat /\ Cardinality(A) \in Nat
  BY RecordIsFinite DEF CycleInv
<1>11. Cardinality(A) <= Cardinality(L) + H
  BY DEF OnRecord
<1>12. M = IF l = Answered(b, k, s) THEN L \cup {Len(mirror) + 1} ELSE L
  BY <1>3, <1>5 DEF AnswerLines
<1>13. Len(mirror) + 1 \notin L
  BY <1>5 DEF AnswerLines
<1> HIDE DEF l, L, M, A, H, c, d
<1>14. Cardinality(A) <= Cardinality(M)
  <2>1. CASE c \in A
    <3>1. M = L \cup {Len(mirror) + 1}
      BY <1>8, <1>12, <2>1
    <3>2. Cardinality(M) = Cardinality(L) + 1
      BY <1>10, <1>13, <3>1, FS_AddElement
    <3> QED
      BY <1>9, <1>10, <1>11, <2>1, <3>2
  <2>2. CASE c \notin A
    <3>1. Cardinality(M) \in {Cardinality(L), Cardinality(L) + 1}
      BY <1>10, <1>12, FS_AddElement
    <3> QED
      BY <1>9, <1>10, <1>11, <2>2, <3>1
  <2> QED
    BY <2>1, <2>2
<1>15. Cardinality(M) \in Nat
  <2>1. IsFiniteSet(M)
    BY <1>10, <1>12, FS_AddElement
  <2> QED
    BY <2>1, FS_CardinalityType
<1>16. Cardinality(A) <= Cardinality(M) + 0
  BY <1>10, <1>14, <1>15
<1> QED
  BY <1>7, <1>16 DEF OnRecord, M

\* Every step keeps the record of the answers.
LEMMA RecordStep ==
    ASSUME CycleInv, TrailInv, CycleInv', TrailInv', ServiceAssumption, [Next]_vars,
           NEW b, NEW k, NEW s \in Answer, OnRecord(b, k, s)
    PROVE  OnRecord(b, k, s)'
<1>1. TrailStep /\ StoreInv /\ StoreInv'
  BY TrailSteps DEF CycleInv
<1>2. ASSUME UNCHANGED decisions, loop' = loop \/ loop.at # "answered"
      PROVE  OnRecord(b, k, s)'
  <2>1. AnsweredCards(b, k, s)' = AnsweredCards(b, k, s)
    BY <1>2 DEF AnsweredCards
  <2> QED
    BY <1>1, <1>2, <2>1, RecordRests
<1>3. ASSUME NEW w \in Poster, PostRun(w) PROVE OnRecord(b, k, s)'
  BY <1>2, <1>3 DEF PostRun, storeVars, apiVars
<1>4. ASSUME NEW w \in Thread, Invoke(w) PROVE OnRecord(b, k, s)'
  BY <1>2, <1>4 DEF Invoke, storeVars, apiVars
<1>5. CASE Tick
  BY <1>2, <1>5 DEF Tick, storeVars, apiVars
<1>6. ASSUME NEW w \in Thread, CycleThread(w) PROVE OnRecord(b, k, s)'
  BY <1>1, <1>6, ThreadAnswersNone, ThreadsLeaveTheLoop, RecordRests
<1>7. ASSUME NEW i \in DOMAIN decisions, NEW a \in Store!HostAction,
             NEW x \in Text \cup {NoText}, HostAnswers(i, a, x)
      PROVE  OnRecord(b, k, s)'
  BY <1>7, AnswerIsInHand
<1>8. CASE ReadPending
  BY <1>2, <1>8 DEF ReadPending, storeVars
<1>9. CASE HandlerStep
  <2>1. CASE AuditAnswer
    BY <2>1, AnswerIsWritten
  <2>2. CASE ~AuditAnswer
    <3>1. UNCHANGED decisions
      BY <1>9, HandlerKeeps DEF storeVars
    <3>2. loop' = loop \/ loop.at # "answered"
      BY <1>9, <2>2 DEF HandlerStep, EmitAnswer, AuditFile, ReadResolved, ReadEvents, ReadTrail,
                        Reply, apiVars
    <3> QED
      BY <1>2, <3>1, <3>2
  <2> QED
    BY <2>1, <2>2
<1>10. CASE UNCHANGED vars
  BY <1>2, <1>10 DEF vars, storeVars, apiVars
<1> QED
  BY <1>3, <1>4, <1>5, <1>6, <1>7, <1>8, <1>9, <1>10 DEF Next

\* Every answer is in the trail: repeats of an answer are not taken for duplicates, and no
\* line a cycle writes meanwhile displaces one.
THEOREM EveryAnswerIsOnRecord == Spec => []AnswersAreOnRecord
<1>1. Init => AnswersAreOnRecord
  <2> SUFFICES ASSUME Init, NEW b \in Booking, NEW k \in Kind, NEW s \in Answer
               PROVE  OnRecord(b, k, s)
    BY RecordIsByAsk
  <2>1. decisions = <<>> /\ mirror = <<>>
    BY DEF Init, Store!StoreInit, Audit!AuditInit
  <2>2. AnsweredCards(b, k, s) = {} /\ AnswerLines(b, k, s) = {}
    BY <2>1 DEF AnsweredCards, AnswerLines
  <2>3. AnswerInHand(b, k, s) = 0
    BY <2>2 DEF AnswerInHand
  <2> QED
    BY <2>2, <2>3, FS_EmptySet DEF OnRecord
<1>2. CycleInv /\ TrailInv /\ AnswersAreOnRecord /\ CycleInv' /\ TrailInv' /\ [Next]_vars
        => AnswersAreOnRecord'
  <2> SUFFICES ASSUME CycleInv, TrailInv, AnswersAreOnRecord, CycleInv', TrailInv',
                      [Next]_vars, NEW b \in Booking, NEW k \in Kind, NEW s \in Answer
               PROVE  OnRecord(b, k, s)'
    BY DEF AnswersAreOnRecord, OnRecord, AnsweredCards, AnswerLines, AnswerInHand, Answer
  <2>1. OnRecord(b, k, s)
    BY RecordIsByAsk
  <2> QED
    BY <2>1, RecordStep, ServiceAssumption
<1> QED
  BY <1>1, <1>2, CycleInvariant, TrailInvariant, PTL DEF Spec

-----------------------------------------------------------------------------
(***************************************************************************)
(* The tool context of ctx.py and the envelopes tagged from it.            *)
(***************************************************************************)

\* An envelope of a tool carries the trace of the cycle that called it.
OwnEnvelope ==
    {e \in [sequence : Nat, trace : Nat, note : [step : Step, by : Nat]] :
        e.note.step = "tool" => e.trace = e.note.by}

\* Every envelope the ring still has is of that kind.
TaggedRing == seq \in Nat /\ ring \in Seq(OwnEnvelope)

\* The module variables of ctx.py are those of thread w.
Holds(w) ==
    /\ ctxTrace = cyc[w].trace
    /\ ctxCalls = [n \in 1..cyc[w].made |-> cyc[w].trace]

HeldByTheCycle == \A w \in Thread : InCycle(w) /\ pc[w] # "begin" => Holds(w)

\* Nothing is claimed of AgentCore, where cycles overlap.
ContextInv == Service => TaggedRing /\ HeldByTheCycle

\* What emit keeps is what it was given and what was there.
LEMMA EmitTags ==
    ASSUME ServiceAssumption, TaggedRing, NEW t \in Nat, NEW s \in Step, NEW b \in Nat,
           s = "tool" => t = b, Ring!Emit(t, [step |-> s, by |-> b])
    PROVE  TaggedRing'
<1> DEFINE e == [sequence |-> seq + 1, trace |-> t, note |-> [step |-> s, by |-> b]]
<1>1. seq' = seq + 1 /\ ring' = Ring!Trimmed(Append(ring, e))
  BY DEF Ring!Emit
<1>2. e \in OwnEnvelope
  BY DEF OwnEnvelope, TaggedRing
<1> HIDE DEF e
<1> DEFINE r == Append(ring, e)
<1>3. r \in Seq(OwnEnvelope)
  BY <1>2 DEF TaggedRing
<1> HIDE DEF r
<1>4. RING_CAPACITY \in Nat
  BY DEF ServiceAssumption
<1>5. Ring!Trimmed(r) \in Seq(OwnEnvelope)
  <2>1. Len(r) > RING_CAPACITY
          => SubSeq(r, Len(r) - RING_CAPACITY + 1, Len(r)) \in Seq(OwnEnvelope)
    BY <1>3, <1>4
  <2> QED
    BY <1>3, <2>1 DEF Ring!Trimmed
<1> QED
  BY <1>1, <1>5 DEF TaggedRing, r

\* The one thread in its cycle goes on, and the context is its own.
LEMMA ContextGoesOn ==
    ASSUME LockInv, PlaceInv, NEW w \in Thread, InCycle(w), NEW l, NEW c,
           Goto(w, l), Puts(w, c),
           ctxTrace' = c.trace, ctxCalls' = [n \in 1..c.made |-> c.trace]
    PROVE  HeldByTheCycle'
<1>1. \A v \in Thread : v # w => ~InCycle(v)
  BY DEF LockInv, LockTells
<1>2. \A v \in Thread : v # w => pc'[v] = pc[v]
  BY DEF PlaceInv, Goto
<1>3. cyc'[w] = c
  BY DEF PlaceInv, Puts
<1>4. Holds(w)'
  BY <1>3 DEF Holds
<1>5. \A v \in Thread : v # w => ~InCycle(v)'
  BY <1>1, <1>2 DEF InCycle
<1> QED
  BY <1>4, <1>5 DEF HeldByTheCycle

\* So it does where neither the trace nor the calls change.
LEMMA ContextRests ==
    ASSUME LockInv, PlaceInv, HeldByTheCycle, NEW w \in Thread, InCycle(w), pc[w] # "begin",
           NEW l, NEW c, Goto(w, l), Puts(w, c),
           c.trace = cyc[w].trace, c.made = cyc[w].made, UNCHANGED ctxVars
    PROVE  HeldByTheCycle'
BY ContextGoesOn DEF HeldByTheCycle, Holds, ctxVars

\* tool_begin records the call the thread counts.
LEMMA CallIsRecorded ==
    ASSUME LockInv, PlaceInv, HeldByTheCycle, NEW w \in Thread, InCycle(w), pc[w] # "begin",
           NEW l, Goto(w, l), ToolBegin(w)
    PROVE  HeldByTheCycle'
<1> DEFINE m == cyc[w].made
           t == cyc[w].trace
           c == [cyc[w] EXCEPT !.made = m + 1]
<1>1. cyc[w] \in ThreadState
  BY DEF PlaceInv
<1>2. m \in Nat /\ c.made = m + 1 /\ c.trace = t
  BY <1>1 DEF ThreadState
<1>3. Puts(w, c)
  BY DEF ToolBegin, Puts
<1>4. ctxTrace' = t /\ ctxCalls = [n \in 1..m |-> t] /\ ctxCalls' = Append(ctxCalls, t)
  BY DEF ToolBegin, HeldByTheCycle, Holds
<1> HIDE DEF m, t, c
<1>5. [n \in 1..m |-> t] \in Seq({t}) /\ Len([n \in 1..m |-> t]) = m
  BY <1>2
<1>6. Append([n \in 1..m |-> t], t) = [n \in 1 .. m + 1 |-> t]
  BY <1>2, <1>5
<1> QED
  BY <1>2, <1>3, <1>4, <1>6, ContextGoesOn

\* A step of a thread of the service leaves the module variables with the cycle.
LEMMA ThreadHoldsContext ==
    ASSUME ServiceAssumption, LockInv, PlaceInv, HeldByTheCycle,
           NEW w \in Thread, CycleThread(w)
    PROVE  HeldByTheCycle'
<1>1. /\ pc[w] \in Label /\ cyc[w] \in ThreadState /\ ThreadOK(pc[w], cyc[w])
  BY DEF PlaceInv
<1>2. Puts(w, cyc[w]) <=> cyc' = cyc
  BY DEF PlaceInv, Puts
<1>3. CASE Acquire(w)
  <2>1. PICK l \in {"begin", "idle"} : Goto(w, l)
    BY <1>3 DEF Acquire
  <2>2. \A v \in Thread : v # w => pc'[v] = pc[v]
    BY <2>1 DEF PlaceInv, Goto
  <2>3. pc'[w] \in {"begin", "idle"}
    BY <2>1 DEF PlaceInv, Goto
  <2>4. UNCHANGED <<cyc, ctxVars>>
    BY <1>3 DEF Acquire
  <2> QED
    BY <2>2, <2>3, <2>4 DEF HeldByTheCycle, Holds, InCycle, ctxVars
<1>4. CASE Release(w)
  <2>1. \A v \in Thread : v # w => ~InCycle(v)
    BY <1>4 DEF LockInv, LockTells, Release, InCycle
  <2>2. \A v \in Thread : pc'[v] = IF v = w THEN "idle" ELSE pc[v]
    BY <1>4 DEF PlaceInv, Release, Goto
  <2> QED
    BY <2>1, <2>2 DEF HeldByTheCycle, InCycle
<1>5. CASE Begin(w)
  <2> DEFINE n == cycles + 1
             c == [cyc[w] EXCEPT !.trace = n]
  <2>1. cyc[w] = NoCycle
    BY <1>5 DEF Begin, PlaceInv, ThreadOK
  <2>2. Goto(w, "open") /\ Puts(w, c) /\ ctxTrace' = n /\ ctxCalls' = <<>> /\ InCycle(w)
    BY <1>5 DEF Begin, Puts, InCycle
  <2> HIDE DEF n
  <2>3. c.trace = n /\ c.made = 0
    BY <2>1 DEF NoCycle
  <2> HIDE DEF c
  <2>4. [i \in 1..c.made |-> c.trace] = <<>>
    BY <2>3
  <2> QED
    BY <2>2, <2>3, <2>4, ContextGoesOn
<1>6. CASE OpenRun(w)
  <2> DEFINE n == Len(runs) + 1
             c == [cyc[w] EXCEPT !.run = n]
  <2>1. /\ Goto(w, "started") /\ Puts(w, c) /\ UNCHANGED ctxVars
        /\ InCycle(w) /\ pc[w] # "begin"
    BY <1>6 DEF OpenRun, Puts, InCycle
  <2> HIDE DEF n
  <2>2. c.trace = cyc[w].trace /\ c.made = cyc[w].made
    BY <1>1 DEF ThreadState
  <2> QED
    BY <2>1, <2>2, ContextRests
<1>7. CASE PolicyTool(w) \/ AgentTool(w)
  <2>1. InCycle(w) /\ pc[w] # "begin"
    BY <1>7 DEF PolicyTool, AgentTool, At, InCycle
  <2>2. CASE ToolBegin(w) /\ \E l : Goto(w, l)
    BY <2>1, <2>2, CallIsRecorded
  <2>3. CASE UNCHANGED <<cyc, ctxVars>> /\ \E l : Goto(w, l)
    BY <1>2, <2>1, <2>3, ContextRests
  <2> QED
    BY <1>7, <2>2, <2>3 DEF PolicyTool, AgentTool
<1>8. CASE BuildAgent(w)
  <2> DEFINE c == [cyc[w] EXCEPT !.todo = Impacts, !.made = 0]
  <2>1. Goto(w, "next") /\ Puts(w, c) /\ ctxCalls' = <<>> /\ ctxTrace' = ctxTrace
        /\ InCycle(w) /\ pc[w] # "begin"
    BY <1>8 DEF BuildAgent, Puts, InCycle
  <2>2. c.trace = cyc[w].trace /\ c.made = 0
    BY <1>1 DEF ThreadState
  <2> HIDE DEF c
  <2>3. [i \in 1..c.made |-> c.trace] = <<>>
    BY <2>2
  <2>4. ctxTrace' = c.trace
    BY <2>1, <2>2 DEF HeldByTheCycle, Holds
  <2> QED
    BY <2>1, <2>3, <2>4, ContextGoesOn
<1>9. CASE Drain(w)
  <2>1. PICK t \in {"draft_reply", "turnover_checklist"} :
            Puts(w, [cyc[w] EXCEPT !.made = 0, !.turn = t]) /\ \E l : Goto(w, l)
    BY <1>9 DEF Drain, Puts
  <2> DEFINE c == [cyc[w] EXCEPT !.made = 0, !.turn = t]
  <2>2. Puts(w, c) /\ (\E l : Goto(w, l)) /\ ctxCalls' = <<>> /\ ctxTrace' = ctxTrace
        /\ InCycle(w) /\ pc[w] # "begin"
    BY <1>9, <2>1 DEF Drain, InCycle
  <2>3. c.trace = cyc[w].trace /\ c.made = 0
    BY <1>1 DEF ThreadState
  <2> HIDE DEF c
  <2>4. [i \in 1..c.made |-> c.trace] = <<>>
    BY <2>3
  <2>5. ctxTrace' = c.trace
    BY <2>2, <2>3 DEF HeldByTheCycle, Holds
  <2> QED
    BY <2>2, <2>4, <2>5, ContextGoesOn
<1>10. CASE TurnEnds(w)
  <2>1. (\E l : Goto(w, l)) /\ UNCHANGED ctxVars /\ InCycle(w) /\ pc[w] # "begin"
    BY <1>10 DEF TurnEnds, InCycle
  <2>2. CASE UNCHANGED cyc
    BY <1>2, <2>1, <2>2, ContextRests
  <2>3. CASE \E x \in Text : cyc' = [cyc EXCEPT ![w].text = x]
    <3>1. PICK x \in Text : cyc' = [cyc EXCEPT ![w].text = x]
      BY <2>3
    <3> DEFINE c == [cyc[w] EXCEPT !.text = x]
    <3>2. Puts(w, c) /\ c.trace = cyc[w].trace /\ c.made = cyc[w].made
      BY <1>1, <3>1 DEF Puts, ThreadState
    <3> HIDE DEF c
    <3> QED
      BY <2>1, <3>2, ContextRests
  <2> QED
    BY <1>10, <2>2, <2>3 DEF TurnEnds
<1>11. CASE FileQuietly(w) \/ AuditEscalation(w)
  <2> DEFINE c == [cyc[w] EXCEPT !.todo = Tail(@), !.text = NoText]
  <2>1. /\ Goto(w, "next") /\ Puts(w, c) /\ UNCHANGED ctxVars
        /\ InCycle(w) /\ pc[w] # "begin"
    BY <1>11 DEF FileQuietly, AuditEscalation, BookingDone, Puts, InCycle
  <2>2. c.trace = cyc[w].trace /\ c.made = cyc[w].made
    BY <1>1 DEF ThreadState
  <2> HIDE DEF c
  <2> QED
    BY <2>1, <2>2, ContextRests
<1>12. CASE \/ EmitStarted(w) \/ AuditPolicy(w) \/ EmitScan(w) \/ EmitTurnStarted(w)
            \/ AgentLogs(w) \/ EmitTriage(w) \/ RaiseDecision(w)
  <2>1. (\E l : Goto(w, l)) /\ UNCHANGED <<cyc, ctxVars>> /\ InCycle(w) /\ pc[w] # "begin"
    BY <1>12 DEF EmitStarted, AuditPolicy, EmitScan, EmitTurnStarted, AgentLogs, EmitTriage,
                 RaiseDecision, At, InCycle
  <2> QED
    BY <1>2, <2>1, ContextRests
<1>13. CASE FinishRun(w) \/ EmitDone(w) \/ Fail(w) \/ AuditFailure(w) \/ FinishFailed(w)
  <2>1. (\E l : Goto(w, l)) /\ UNCHANGED <<cyc, ctxVars>> /\ InCycle(w) /\ pc[w] # "begin"
    BY <1>13 DEF FinishRun, EmitDone, Fail, Raises, AuditFailure, FinishFailed, At, InCycle
  <2> QED
    BY <1>2, <2>1, ContextRests
<1>14. CASE AuditFile(w)
  BY <1>14 DEF AuditFile, HeldByTheCycle, Holds, InCycle, ctxVars
<1> QED
  BY <1>3, <1>4, <1>5, <1>6, <1>7, <1>8, <1>9, <1>10, <1>11, <1>12, <1>13, <1>14
  DEF CycleThread

\* A step of a thread of the service tags what it emits with its own trace.
LEMMA ThreadTagsOwn ==
    ASSUME ServiceAssumption, PlaceInv, HeldByTheCycle, TaggedRing,
           NEW w \in Thread, CycleThread(w)
    PROVE  TaggedRing'
<1>1. cyc[w].trace \in Nat
  BY DEF PlaceInv, ThreadState
<1>2. ASSUME NEW s \in Step \ {"tool"}, EmitAs(w, s, cyc[w].trace) PROVE TaggedRing'
  BY <1>1, <1>2, EmitTags DEF EmitAs
<1>3. ASSUME InCycle(w), pc[w] # "begin", EmitAs(w, "tool", ctxTrace) PROVE TaggedRing'
  <2>1. ctxTrace = cyc[w].trace
    BY <1>3 DEF HeldByTheCycle, Holds
  <2> QED
    BY <1>1, <1>3, <2>1, EmitTags DEF EmitAs, Step
<1>4. CASE \/ EmitStarted(w) \/ EmitScan(w) \/ EmitTurnStarted(w) \/ TurnEnds(w) \/ EmitTriage(w)
           \/ EmitDone(w) \/ Fail(w)
  <2>1. cyc[w].turn \in {"draft_reply", "turnover_checklist"}
    BY DEF PlaceInv, ThreadState
  <2>2. \E s \in {"cycle", "booking_scan", "triage", "draft_reply", "turnover_checklist"} :
            EmitAs(w, s, cyc[w].trace)
    BY <1>4, <2>1 DEF EmitStarted, EmitScan, EmitTurnStarted, TurnEnds, EmitTriage, EmitDone, Fail
  <2> QED
    BY <1>2, <2>2 DEF Step
<1>5. CASE PolicyTool(w) \/ AgentTool(w)
  <2>1. InCycle(w) /\ pc[w] # "begin"
    BY <1>5 DEF PolicyTool, AgentTool, At, InCycle
  <2>2. EmitAs(w, "tool", ctxTrace)
    BY <1>5 DEF PolicyTool, AgentTool, ToolBegin, ToolEnd
  <2> QED
    BY <1>3, <2>1, <2>2
<1>6. CASE UNCHANGED ringVars
  BY <1>6 DEF ringVars, TaggedRing
<1>7. ASSUME ~EmitStarted(w), ~EmitScan(w), ~EmitTurnStarted(w), ~TurnEnds(w), ~EmitTriage(w),
             ~EmitDone(w), ~Fail(w), ~PolicyTool(w), ~AgentTool(w)
      PROVE  UNCHANGED ringVars
  <2>1. CASE Acquire(w) \/ Release(w) \/ Begin(w) \/ OpenRun(w) \/ AuditPolicy(w)
    BY <2>1 DEF Acquire, Release, Begin, OpenRun, AuditPolicy
  <2>2. CASE BuildAgent(w) \/ AgentLogs(w) \/ Drain(w) \/ FileQuietly(w) \/ RaiseDecision(w)
    BY <2>2 DEF BuildAgent, AgentLogs, Drain, FileQuietly, RaiseDecision
  <2>3. CASE AuditEscalation(w) \/ FinishRun(w) \/ AuditFailure(w) \/ FinishFailed(w)
             \/ AuditFile(w)
    BY <2>3 DEF AuditEscalation, FinishRun, AuditFailure, FinishFailed, AuditFile
  <2> QED
    BY <1>7, <2>1, <2>2, <2>3 DEF CycleThread
<1> QED
  BY <1>4, <1>5, <1>6, <1>7

\* The answer of the host goes out under the trace of the cycle that raised the card.
LEMMA AnswerTagsOwn ==
    ASSUME ServiceAssumption, CycleInv, TaggedRing, EmitAnswer
    PROVE  TaggedRing'
<1> DEFINE i == loop.card
           r == decisions[i].run
           t == runs[r].trace
<1>1. i \in DOMAIN decisions
  BY DEF EmitAnswer, CycleInv, LoopInv
<1>2. r \in DOMAIN runs
  BY <1>1 DEF CycleInv, SlotInv
<1>3. t \in Nat
  <2>1. runs[r] \in RecordsP!Run
    BY <1>2, StoreSeqs DEF CycleInv
  <2> QED
    BY <2>1 DEF RecordsP!Run, Trace
<1>4. Ring!Emit(t, [step |-> "decision_resolved", by |-> t])
  BY DEF EmitAnswer
<1> HIDE DEF t
<1> QED
  BY <1>3, <1>4, EmitTags DEF Step

\* Every step of the service keeps the tool context with the cycle.
LEMMA ContextStep ==
    ASSUME ServiceAssumption, Service, LockInv, CycleInv, TaggedRing, HeldByTheCycle,
           [Next]_vars
    PROVE  TaggedRing' /\ HeldByTheCycle'
<1>1. ASSUME UNCHANGED <<ringVars, ctxVars, cyc, pc>> PROVE TaggedRing' /\ HeldByTheCycle'
  BY <1>1 DEF TaggedRing, HeldByTheCycle, Holds, InCycle, ringVars, ctxVars
<1>2. ASSUME NEW w \in Thread, Goto(w, "queued"), UNCHANGED <<ringVars, ctxVars, cyc>>
      PROVE  TaggedRing' /\ HeldByTheCycle'
  <2>1. \A v \in Thread : pc'[v] = IF v = w THEN "queued" ELSE pc[v]
    BY <1>2 DEF Goto, LockInv
  <2> QED
    BY <1>2, <2>1 DEF TaggedRing, HeldByTheCycle, Holds, InCycle, ringVars, ctxVars
<1>3. ASSUME NEW w \in Poster, PostRun(w) PROVE TaggedRing' /\ HeldByTheCycle'
  BY <1>2, <1>3 DEF PostRun, Thread
<1>4. ASSUME NEW w \in Thread, Invoke(w) PROVE FALSE
  BY <1>4 DEF Invoke
<1>5. CASE Tick
  BY <1>2, <1>5 DEF Tick, Thread
<1>6. ASSUME NEW w \in Thread, CycleThread(w) PROVE TaggedRing' /\ HeldByTheCycle'
  BY <1>6, ThreadHoldsContext, ThreadTagsOwn DEF CycleInv
<1>7. ASSUME NEW i \in DOMAIN decisions, NEW a \in Store!HostAction,
             NEW x \in Text \cup {NoText}, HostAnswers(i, a, x)
      PROVE  TaggedRing' /\ HeldByTheCycle'
  BY <1>1, <1>7 DEF HostAnswers
<1>8. CASE ReadPending
  BY <1>1, <1>8 DEF ReadPending
<1>9. CASE HandlerStep
  <2>1. CASE EmitAnswer
    <3>1. HeldByTheCycle'
      BY <2>1 DEF EmitAnswer, HeldByTheCycle, Holds, InCycle, ctxVars
    <3> QED
      BY <2>1, <3>1, AnswerTagsOwn
  <2>2. CASE AuditAnswer \/ AuditFile(EventLoop)
    BY <1>1, <2>2 DEF AuditAnswer, AuditFile
  <2>3. CASE ReadResolved \/ ReadEvents \/ ReadTrail \/ Reply
    BY <1>1, <2>3 DEF ReadResolved, ReadEvents, ReadTrail, Reply
  <2> QED
    BY <1>9, <2>1, <2>2, <2>3 DEF HandlerStep
<1>10. CASE UNCHANGED vars
  BY <1>1, <1>10 DEF vars
<1> QED
  BY <1>3, <1>4, <1>5, <1>6, <1>7, <1>8, <1>9, <1>10 DEF Next

\* In the service a tool finds in the module variables of ctx.py what its own cycle put
\* there: its envelopes carry the trace of the cycle that called it, and what a turn drains
\* is what that turn called.
THEOREM ContextIsOwn == Spec => []ToolContextIsOwn
<1>1. Init => ContextInv
  <2> SUFFICES ASSUME Init PROVE TaggedRing /\ HeldByTheCycle
    BY DEF ContextInv
  <2>1. seq = 0 /\ ring = <<>>
    BY DEF Init, Ring!RingInit
  <2>2. \A w \in Thread : ~InCycle(w)
    BY DEF Init, InCycle
  <2> QED
    BY <2>1, <2>2 DEF TaggedRing, HeldByTheCycle
<1>2. ServiceInv /\ CycleInv /\ ContextInv /\ [Next]_vars => ContextInv'
  <2> SUFFICES ASSUME ServiceInv, CycleInv, ContextInv, [Next]_vars, Service'
               PROVE  TaggedRing' /\ HeldByTheCycle'
    BY DEF ContextInv
  <2>1. Service
    BY NoLoopNoHandler DEF vars, apiVars, Service
  <2> QED
    BY <2>1, ContextStep, ServiceAssumption DEF ServiceInv, ContextInv
<1>3. ContextInv => ToolContextIsOwn
  <2> SUFFICES ASSUME ContextInv, Service PROVE ToolContextIsOwn
    BY DEF ToolContextIsOwn, ToolTagsAreOwn, ToolCallsAreOwn
  <2>1. ToolTagsAreOwn
    BY DEF ContextInv, TaggedRing, OwnEnvelope, ToolTagsAreOwn
  <2>2. ToolCallsAreOwn
    BY DEF ContextInv, HeldByTheCycle, Holds, ToolCallsAreOwn
  <2> QED
    BY <2>1, <2>2 DEF ToolContextIsOwn
<1> QED
  BY <1>1, <1>2, <1>3, CycleLockInvariant, CycleInvariant, PTL DEF Spec

-----------------------------------------------------------------------------
(***************************************************************************)
(* The state reply, put together from reads with cycles in between.        *)
(***************************************************************************)

\* A card as a reply has it.
Card == [id : Nat, status : {"pending"} \cup Answer]

\* These cards are the decisions with these ids, each once and as it is.
Shows(cards, ids) ==
    /\ cards \in Seq(Card)
    /\ \A n \in DOMAIN cards :
         cards[n].id \in ids /\ cards[n].status = decisions[cards[n].id].status
    /\ \A m, n \in DOMAIN cards : cards[m].id = cards[n].id => m = n
    /\ \A i \in ids : \E n \in DOMAIN cards : cards[n].id = i

Pending(n) == {i \in 1..n : decisions[i].status = "pending"}

\* The reply shows what was answered among the cards it shows, as far as its trail goes back.
TrailTells ==
    Len(loop.trail) < AUDIT_SHOWN =>
        \A i \in 1..loop.known :
            decisions[i].status # "pending" =>
                \E m \in DOMAIN loop.trail :
                    loop.trail[m]
                        = Answered(decisions[i].booking, decisions[i].kind, decisions[i].status)

\* What the handler of GET /api/state has gathered still holds of the store: since it
\* began, cards were added but none was answered.
StateInv ==
    /\ loop.at = "pending" =>
         /\ loop.known \in 0..Len(decisions)
         /\ \A i \in DOMAIN decisions : i > loop.known => decisions[i].status = "pending"
         /\ Shows(loop.cards, Pending(loop.known))
    /\ loop.at \in {"events", "audit", "reply"} =>
         loop.known \in 0..Len(decisions) /\ Shows(loop.cards, 1..loop.known)
    /\ loop.at = "reply" => TrailTells

\* A list of cards that are all different.
LEMMA AsManyAsShown ==
    ASSUME NEW cards, NEW k \in Nat, Shows(cards, 1..k)
    PROVE  Len(cards) = k
<1> DEFINE f == [n \in 1..Len(cards) |-> cards[n].id]
<1>1. Len(cards) \in Nat /\ DOMAIN cards = 1..Len(cards)
  BY DEF Shows
<1>2. /\ f \in [1..Len(cards) -> 1..k]
      /\ \A m, n \in 1..Len(cards) : f[m] = f[n] => m = n
      /\ \A i \in 1..k : \E n \in 1..Len(cards) : f[n] = i
  BY <1>1 DEF Shows
<1> HIDE DEF f
<1>3. f \in Bijection(1..Len(cards), 1..k)
  BY <1>2, Fun_IsBij
<1>4. ExistsBijection(1..Len(cards), 1..k)
  BY <1>3 DEF ExistsBijection
<1>5. Cardinality(1..k) = Len(cards)
  BY <1>1, <1>4, FS_CountingElements
<1>6. Cardinality(1..k) = k
  BY FS_Interval
<1> QED
  BY <1>5, <1>6

\* Two lists that have no decision in common, one after the other.
LEMMA ShowsBoth ==
    ASSUME NEW a, NEW b, NEW S, NEW R, Shows(a, S), Shows(b, R), S \cap R = {}
    PROVE  Shows(a \o b, S \cup R)
<1>1. PICK c : c = a \o b
  OBVIOUS
<1>2. PICK k \in Nat, l \in Nat : k = Len(a) /\ l = Len(b)
  BY DEF Shows
<1>3. /\ c \in Seq(Card) /\ DOMAIN c = 1 .. k + l /\ DOMAIN a = 1..k /\ DOMAIN b = 1..l
      /\ \A n \in 1..k : c[n] = a[n]
      /\ \A n \in 1..l : c[k + n] = b[n]
  BY <1>1, <1>2 DEF Shows
<1>4. \A n \in 1 .. k + l : n \in 1..k \/ (n - k \in 1..l /\ n = k + (n - k))
  OBVIOUS
<1>5. ASSUME NEW n \in DOMAIN c
      PROVE  \/ n \in 1..k /\ c[n].id \in S /\ c[n].id = a[n].id
                /\ c[n].status = decisions[c[n].id].status
             \/ n - k \in 1..l /\ c[n].id \in R /\ c[n].id = b[n - k].id
                /\ c[n].status = decisions[c[n].id].status
  <2>1. CASE n \in 1..k
    BY <1>3, <2>1 DEF Shows
  <2>2. CASE n - k \in 1..l /\ n = k + (n - k)
    <3>1. c[n] = b[n - k] /\ n - k \in DOMAIN b
      BY <1>3, <2>2
    <3> QED
      BY <2>2, <3>1 DEF Shows
  <2> QED
    BY <1>3, <1>4, <2>1, <2>2
<1>6. ASSUME NEW m \in DOMAIN c, NEW n \in DOMAIN c, c[m].id = c[n].id PROVE m = n
  <2>1. CASE m \in 1..k /\ n \in 1..k /\ a[m].id = a[n].id
    BY <1>3, <2>1 DEF Shows
  <2>2. CASE m - k \in 1..l /\ n - k \in 1..l /\ b[m - k].id = b[n - k].id
    <3>1. m - k = n - k
      BY <1>3, <2>2 DEF Shows
    <3> QED
      BY <1>3, <3>1
  <2> QED
    BY <1>5, <1>6, <2>1, <2>2
<1>7. ASSUME NEW i \in S \cup R PROVE \E n \in DOMAIN c : c[n].id = i
  <2>1. CASE i \in S
    <3>1. PICK n \in 1..k : a[n].id = i
      BY <1>3, <2>1 DEF Shows
    <3>2. n \in 1 .. k + l
      OBVIOUS
    <3> QED
      BY <1>3, <3>1, <3>2
  <2>2. CASE i \in R
    <3>1. PICK n \in 1..l : b[n].id = i
      BY <1>3, <2>2 DEF Shows
    <3>2. k + n \in 1 .. k + l
      OBVIOUS
    <3> QED
      BY <1>3, <3>1, <3>2
  <2> QED
    BY <2>1, <2>2
<1> QED
  BY <1>1, <1>3, <1>5, <1>6, <1>7 DEF Shows

\* list_decisions by the name the service has for it.
LEMMA SameSelected == \A s, S : Store!Selected(s, S) = Selected(s, S)
BY DEF Store!Selected, Selected

\* What list_decisions returns, as cards.
LEMMA ListedShows ==
    ASSUME StoreInv, NEW status
    PROVE  Shows(Cards(Store!ListDecisions(status)),
                 {i \in DOMAIN decisions : status \in {"any", decisions[i].status}})
<1> DEFINE r == [n \in 1..Len(decisions) |-> Len(decisions) + 1 - n]
           S == {i \in DOMAIN decisions : status \in {"any", decisions[i].status}}
           q == Selected(r, S)
           cs == Cards(q)
<1>1. Store!ListDecisions(status) = q
  BY SameSelected DEF Store!ListDecisions
<1>2. PICK k \in Nat : k = Len(decisions) /\ DOMAIN decisions = 1..k
  BY StoreSeqs
<1>3. r \in Seq(Nat) /\ Len(r) = k /\ \A n \in 1..k : r[n] = k + 1 - n
  BY <1>2
<1>4. S \subseteq 1..k
  BY <1>2
<1>5. \A i \in DOMAIN decisions : decisions[i].status \in {"pending"} \cup Answer
  <2>1. \A i \in DOMAIN decisions : decisions[i] \in RecordsP!Decision
    BY StoreSeqs
  <2> QED
    BY <2>1 DEF RecordsP!Decision, Answer
<1> HIDE DEF r, S, q
<1>6. q \in Seq(Nat) /\ \E pos : PicksUpTo(r, S, k, q, pos)
  BY <1>3, SelectedFacts DEF q
<1>7. PICK pos : PicksUpTo(r, S, k, q, pos)
  BY <1>6
<1>8. PICK l \in Nat : l = Len(q) /\ DOMAIN q = 1..l
  BY <1>6
<1>9. /\ pos \in [1..l -> 1..k]
      /\ \A n \in 1..l : q[n] \in S /\ q[n] = k + 1 - pos[n]
      /\ \A m, n \in 1..l : m < n => pos[m] < pos[n]
      /\ \A j \in 1..k : r[j] \in S => \E n \in 1..l : pos[n] = j
  BY <1>3, <1>7, <1>8 DEF PicksUpTo
<1>10. /\ DOMAIN cs = 1..l
       /\ \A n \in 1..l : cs[n] = [id |-> q[n], status |-> decisions[q[n]].status]
       /\ cs = [n \in 1..l |-> cs[n]]
  BY <1>8 DEF Cards
<1> HIDE DEF cs
<1>11. cs \in Seq(Card)
  <2>1. \A n \in 1..l : cs[n] \in Card
    <3> SUFFICES ASSUME NEW n \in 1..l PROVE cs[n] \in Card
      OBVIOUS
    <3>1. q[n] \in S /\ q[n] \in Nat /\ q[n] \in DOMAIN decisions
      BY <1>2, <1>4, <1>9
    <3>2. decisions[q[n]].status \in {"pending"} \cup Answer
      BY <1>5, <3>1
    <3> QED
      BY <1>10, <3>1, <3>2 DEF Card
  <2> QED
    BY <1>10, <2>1
<1>12. ASSUME NEW m \in 1..l, NEW n \in 1..l, cs[m].id = cs[n].id PROVE m = n
  <2>1. q[m] = q[n]
    BY <1>10, <1>12
  <2>2. pos[m] \in 1..k /\ pos[n] \in 1..k
    BY <1>9
  <2>3. pos[m] = pos[n]
    BY <1>9, <2>1, <2>2
  <2> QED
    BY <1>9, <2>3
<1>13. ASSUME NEW i \in S PROVE \E n \in 1..l : cs[n].id = i
  <2>1. k + 1 - i \in 1..k /\ r[k + 1 - i] = i
    BY <1>3, <1>4
  <2>2. PICK n \in 1..l : pos[n] = k + 1 - i
    BY <1>9, <2>1
  <2>3. q[n] = i
    BY <1>4, <1>9, <2>2
  <2> QED
    BY <1>10, <2>3
<1>14. \A n \in 1..l : cs[n].id \in S /\ cs[n].status = decisions[cs[n].id].status
  BY <1>9, <1>10
<1>15. Shows(cs, S)
  BY <1>10, <1>11, <1>12, <1>13, <1>14 DEF Shows
<1> QED
  BY <1>1, <1>15 DEF S, cs

\* The cards of a list that are no longer pending.
LEMMA AnsweredOfShown ==
    ASSUME NEW all, NEW S, Shows(all, S)
    PROVE  Shows(Selected(all, {all[n] : n \in {m \in DOMAIN all : all[m].status # "pending"}}),
                 {i \in S : decisions[i].status # "pending"})
<1> DEFINE T == {all[n] : n \in {m \in DOMAIN all : all[m].status # "pending"}}
           q == Selected(all, T)
<1>1. PICK k \in Nat : k = Len(all) /\ DOMAIN all = 1..k
  BY DEF Shows
<1>2. \A n \in 1..k : all[n] \in T <=> all[n].status # "pending"
  BY <1>1
<1> HIDE DEF T, q
<1>3. q \in Seq(Card) /\ \E pos : PicksUpTo(all, T, k, q, pos)
  BY <1>1, SelectedFacts DEF q, Shows
<1>4. PICK pos : PicksUpTo(all, T, k, q, pos)
  BY <1>3
<1>5. PICK l \in Nat : l = Len(q) /\ DOMAIN q = 1..l
  BY <1>3
<1>6. /\ pos \in [1..l -> 1..k]
      /\ \A n \in 1..l : all[pos[n]] \in T /\ q[n] = all[pos[n]]
      /\ \A m, n \in 1..l : m < n => pos[m] < pos[n]
      /\ \A j \in 1..k : all[j] \in T => \E n \in 1..l : pos[n] = j
  BY <1>4, <1>5 DEF PicksUpTo
<1>7. \A n \in 1..l : /\ q[n].id \in S /\ q[n].status = decisions[q[n].id].status
                      /\ q[n].status # "pending"
  BY <1>1, <1>2, <1>6 DEF Shows
<1>8. ASSUME NEW m \in 1..l, NEW n \in 1..l, q[m].id = q[n].id PROVE m = n
  <2>1. pos[m] = pos[n]
    BY <1>1, <1>6, <1>8 DEF Shows
  <2> QED
    BY <1>6, <2>1
<1>9. ASSUME NEW i \in S, decisions[i].status # "pending" PROVE \E n \in 1..l : q[n].id = i
  <2>1. PICK j \in 1..k : all[j].id = i /\ all[j].status = decisions[i].status
    BY <1>1 DEF Shows
  <2>2. PICK n \in 1..l : pos[n] = j
    BY <1>2, <1>6, <1>9, <2>1
  <2> QED
    BY <1>6, <2>1, <2>2
<1>10. PICK R : R = {i \in S : decisions[i].status # "pending"}
  OBVIOUS
<1>11. \A n \in 1..l : q[n].id \in R
  BY <1>7, <1>10
<1>12. \A i \in R : \E n \in 1..l : q[n].id = i
  BY <1>9, <1>10
<1>13. Shows(q, R)
  BY <1>3, <1>5, <1>7, <1>8, <1>11, <1>12 DEF Shows
<1> QED
  BY <1>10, <1>13 DEF q, T

\* What a thread does to the cards: at most one is added, and it is pending.
LEMMA ThreadOnlyAdds ==
    ASSUME CycleInv, ServiceAssumption, NEW w \in Thread, CycleThread(w)
    PROVE  /\ \A i \in DOMAIN decisions : i \in DOMAIN decisions' /\ decisions'[i] = decisions[i]
           /\ \A i \in DOMAIN decisions' \ DOMAIN decisions : decisions'[i].status = "pending"
<1>1. CASE decisions' = decisions
  BY <1>1
<1>2. CASE RaiseDecision(w)
  <2> DEFINE d == [run |-> cyc[w].run, booking |-> Head(cyc[w].todo), kind |-> Verdict(w),
                   draft |-> cyc[w].text, status |-> "pending", final |-> NoText]
  <2>1. decisions' = Append(decisions, d) \/ decisions' = decisions
    BY <1>2 DEF RaiseDecision, Store!AddDecision, Store!RaiseAgain, Store!RaiseNew
  <2>2. d.status = "pending"
    OBVIOUS
  <2> HIDE DEF d
  <2>3. CASE decisions' = Append(decisions, d)
    <3>1. /\ DOMAIN decisions' = 1..Len(decisions) + 1 /\ DOMAIN decisions = 1..Len(decisions)
          /\ Len(decisions) \in Nat
          /\ \A i \in DOMAIN decisions : decisions'[i] = decisions[i]
          /\ decisions'[Len(decisions) + 1] = d
      BY <2>3, StoreSeqs, AppendFacts DEF CycleInv
    <3> QED
      BY <2>2, <3>1
  <2> QED
    BY <1>1, <2>1, <2>3
<1> QED
  BY <1>1, <1>2, OnlyRaisesAdd DEF CycleInv

\* Cards that are as they were are shown as they were.
LEMMA ShowsStill ==
    ASSUME NEW S, \A i \in S : decisions'[i] = decisions[i]
    PROVE  \A cards : Shows(cards, S) => Shows(cards, S)'
<1> SUFFICES ASSUME NEW cards, Shows(cards, S)
             PROVE  Shows(cards, S)'
  OBVIOUS
<1>1. \A n \in DOMAIN cards : cards[n].status = decisions'[cards[n].id].status
  BY DEF Shows
<1> QED
  BY <1>1 DEF Shows

\* Nothing the handler has gathered is outdated by cards that are added.
LEMMA AddedCardsDoNotMatter ==
    ASSUME StoreInv, StoreInv', StateInv, UNCHANGED loop,
           \A i \in DOMAIN decisions : i \in DOMAIN decisions' /\ decisions'[i] = decisions[i],
           \A i \in DOMAIN decisions' \ DOMAIN decisions : decisions'[i].status = "pending"
    PROVE  StateInv'
<1>1. /\ DOMAIN decisions = 1..Len(decisions) /\ Len(decisions) \in Nat
      /\ DOMAIN decisions' = 1..Len(decisions') /\ Len(decisions') \in Nat
  BY StoreSeqs
<1>2. Len(decisions) <= Len(decisions')
  BY <1>1
<1>3. ASSUME loop.known \in 0..Len(decisions)
      PROVE  /\ loop.known \in 0..Len(decisions')
             /\ \A i \in 1..loop.known : i \in DOMAIN decisions /\ decisions'[i] = decisions[i]
  BY <1>1, <1>2, <1>3
<1>4. CASE loop.at = "pending"
  <2>1. /\ loop.known \in 0..Len(decisions)
        /\ \A i \in DOMAIN decisions : i > loop.known => decisions[i].status = "pending"
        /\ Shows(loop.cards, Pending(loop.known))
    BY <1>4 DEF StateInv
  <2>2. PICK P : P = Pending(loop.known)
    OBVIOUS
  <2>3. Pending(loop.known)' = P /\ \A i \in P : decisions'[i] = decisions[i]
    BY <1>3, <2>1, <2>2 DEF Pending
  <2>4. Shows(loop.cards, P)'
    BY <2>1, <2>2, <2>3, ShowsStill
  <2>5. Shows(loop.cards, Pending(loop.known))'
    BY <2>3, <2>4 DEF Shows
  <2>6. \A i \in DOMAIN decisions' : i > loop.known => decisions'[i].status = "pending"
    BY <2>1
  <2> QED
    BY <1>3, <1>4, <2>1, <2>5, <2>6 DEF StateInv
<1>5. CASE loop.at \in {"events", "audit", "reply"}
  <2>1. loop.known \in 0..Len(decisions) /\ Shows(loop.cards, 1..loop.known)
    BY <1>5 DEF StateInv
  <2>2. Shows(loop.cards, 1..loop.known)'
    <3>1. PICK P : P = 1..loop.known
      OBVIOUS
    <3>2. Shows(loop.cards, P)'
      BY <1>3, <2>1, <3>1, ShowsStill
    <3> QED
      BY <3>1, <3>2 DEF Shows
  <2>3. TrailTells => TrailTells'
    BY <1>3, <2>1 DEF TrailTells, Answered
  <2> QED
    BY <1>3, <1>5, <2>1, <2>2, <2>3 DEF StateInv
<1> QED
  BY <1>4, <1>5 DEF StateInv

\* build_state: the pending cards.
LEMMA PendingAreShown ==
    ASSUME CycleInv, ReadPending
    PROVE  StateInv'
<1>1. /\ loop' = [at |-> "pending", cards |-> Cards(Store!ListDecisions("pending")),
                  known |-> Len(decisions)]
      /\ decisions' = decisions
  BY DEF ReadPending, storeVars
<1>2. PICK cs, k : cs = Cards(Store!ListDecisions("pending")) /\ k = Len(decisions)
  OBVIOUS
<1>3. k \in Nat /\ DOMAIN decisions = 1..k
  BY <1>2, StoreSeqs DEF CycleInv
<1>4. loop'.at = "pending" /\ loop'.cards = cs /\ loop'.known = k
  BY <1>1, <1>2
<1>5. {i \in DOMAIN decisions : "pending" \in {"any", decisions[i].status}} = Pending(k)
  BY <1>3 DEF Pending
<1>6. Shows(cs, Pending(k))
  BY <1>2, <1>5, ListedShows DEF CycleInv
<1>7. Shows(loop.cards, Pending(loop.known))'
  BY <1>1, <1>4, <1>6 DEF Shows, Pending
<1>8. k \in 0..Len(decisions) /\ \A i \in DOMAIN decisions : ~(i > k)
  BY <1>2, <1>3
<1> QED
  BY <1>1, <1>4, <1>7, <1>8 DEF StateInv

\* The other cards, read later.
LEMMA AllAreShown ==
    ASSUME CycleInv, StateInv, ReadResolved
    PROVE  StateInv'
<1> DEFINE list == Cards(Store!ListDecisions("any"))
           more == Selected(list, {list[n] : n \in {m \in DOMAIN list : list[m].status # "pending"}})
<1>1. /\ loop.at = "pending" /\ decisions' = decisions
      /\ loop' = [loop EXCEPT !.at = "events", !.cards = loop.cards \o more]
  BY DEF ReadResolved, storeVars
<1>2. PICK all : all = list
  OBVIOUS
<1>3. PICK b : b = more
  OBVIOUS
<1>4. PICK a, k : a = loop.cards /\ k = loop.known
  OBVIOUS
<1>5. /\ loop = [at |-> "pending", cards |-> a, known |-> k]
      /\ k \in 0..Len(decisions) /\ Shows(a, Pending(k))
      /\ \A i \in DOMAIN decisions : i > k => decisions[i].status = "pending"
  BY <1>1, <1>4 DEF CycleInv, LoopInv, StateInv
<1>6. DOMAIN decisions = 1..Len(decisions) /\ Len(decisions) \in Nat
  BY StoreSeqs DEF CycleInv
<1>7. Shows(all, DOMAIN decisions)
  <2>1. {i \in DOMAIN decisions : "any" \in {"any", decisions[i].status}} = DOMAIN decisions
    OBVIOUS
  <2> QED
    BY <1>2, <2>1, ListedShows DEF CycleInv
<1>8. Shows(b, {i \in DOMAIN decisions : decisions[i].status # "pending"})
  BY <1>2, <1>3, <1>7, AnsweredOfShown
<1> HIDE DEF list, more
<1>9. PICK R : R = {i \in DOMAIN decisions : decisions[i].status # "pending"}
  OBVIOUS
<1>10. Pending(k) \cap R = {} /\ Pending(k) \cup R = 1..k
  BY <1>5, <1>6, <1>9 DEF Pending
<1>11. Shows(a \o b, 1..k)
  <2>1. Shows(a \o b, Pending(k) \cup R)
    BY <1>5, <1>8, <1>9, <1>10, ShowsBoth
  <2> QED
    BY <1>10, <2>1
<1>12. PICK c : c = a \o b
  OBVIOUS
<1>13. loop'.at = "events" /\ loop'.cards = c /\ loop'.known = k
  BY <1>1, <1>3, <1>4, <1>5, <1>12
<1>14. Shows(loop.cards, 1..loop.known)'
  <2>1. PICK P : P = 1..k
    OBVIOUS
  <2>2. Shows(c, P)
    BY <1>11, <1>12, <2>1
  <2>3. (loop.cards)' = c /\ (1..loop.known)' = P /\ decisions' = decisions
    BY <1>1, <1>13, <2>1
  <2>4. Shows(loop.cards, 1..loop.known)'
    BY <2>2, <2>3 DEF Shows
  <2> QED
    BY <2>4
<1> QED
  BY <1>1, <1>5, <1>13, <1>14 DEF StateInv

\* A trail that is shown whole has a line for every answer.
LEMMA TrailIsShown ==
    ASSUME CycleInv, TrailInv, AnswersAreOnRecord, ServiceAssumption, StateInv, ReadTrail
    PROVE  StateInv'
<1> DEFINE trail == Audit!AuditRead(AUDIT_SHOWN)
           lines == [n \in DOMAIN trail |-> trail[n].line]
<1>1. /\ loop.at = "audit" /\ decisions' = decisions
      /\ loop' = [at |-> "reply", cards |-> loop.cards, known |-> loop.known,
                  scope |-> loop.scope, newest |-> loop.newest, trail |-> lines]
  BY DEF ReadTrail, storeVars
<1>2. PICK t : t = lines
  OBVIOUS
<1>3. loop'.at = "reply" /\ loop'.cards = loop.cards /\ loop'.known = loop.known /\ loop'.trail = t
  BY <1>1, <1>2
<1>4. loop.known \in 0..Len(decisions) /\ Shows(loop.cards, 1..loop.known)
  BY <1>1 DEF StateInv
<1>5. Shows(loop.cards, 1..loop.known)'
  BY <1>1, <1>3, <1>4 DEF Shows
<1>6. ASSUME Len(t) < AUDIT_SHOWN, NEW i \in 1..loop.known, decisions[i].status # "pending"
      PROVE  \E m \in DOMAIN t :
               t[m] = Answered(decisions[i].booking, decisions[i].kind, decisions[i].status)
  <2>1. PICK b, k, s : b = decisions[i].booking /\ k = decisions[i].kind /\ s = decisions[i].status
    OBVIOUS
  <2>2. i \in DOMAIN decisions
    BY <1>4, StoreSeqs DEF CycleInv
  <2>3. b \in Booking /\ k \in Kind /\ s \in Answer
    <3>1. decisions[i] \in RecordsP!Decision
      BY <2>2, StoreSeqs DEF CycleInv
    <3> QED
      BY <1>6, <2>1, <3>1 DEF RecordsP!Decision, Answer
  <2>4. OnRecord(b, k, s)
    BY <2>3, RecordIsByAsk
  <2>5. i \in AnsweredCards(b, k, s)
    BY <2>1, <2>2 DEF AnsweredCards
  <2>6. AnswerLines(b, k, s) # {}
    <3>1. /\ IsFiniteSet(AnsweredCards(b, k, s)) /\ Cardinality(AnsweredCards(b, k, s)) \in Nat
      BY RecordIsFinite DEF CycleInv
    <3>2. Cardinality(AnsweredCards(b, k, s)) # 0
      BY <2>5, <3>1, FS_EmptySet
    <3>3. AnswerInHand(b, k, s) = 0
      BY <1>1 DEF AnswerInHand
    <3>4. Cardinality(AnswerLines(b, k, s)) # 0
      BY <2>4, <3>1, <3>2, <3>3, RecordIsFinite DEF OnRecord, CycleInv
    <3> QED
      BY <3>4, FS_EmptySet
  <2>7. PICK n \in DOMAIN mirror : mirror[n].line = Answered(b, k, s)
    BY <2>6 DEF AnswerLines
  <2>8. mirror \in Seq(RecordsP!Entry)
    BY DEF TrailInv, RecordsP!MirrorInv, RecordsP!AuditTypeOK
  <2>9. PICK l \in Nat : l = Len(mirror) /\ DOMAIN mirror = 1..l
    BY <2>8
  <2>10. mirror # <<>>
    BY <2>7, <2>9
  <2>11. trail = [j \in 1..(IF l < AUDIT_SHOWN THEN l ELSE AUDIT_SHOWN) |-> mirror[l + 1 - j]]
    BY <2>9, <2>10 DEF Audit!AuditRead
  <2> HIDE DEF trail
  <2>12. AUDIT_SHOWN \in Nat
    BY DEF ServiceAssumption
  <2>13. DOMAIN t = 1..(IF l < AUDIT_SHOWN THEN l ELSE AUDIT_SHOWN)
         /\ t = [j \in DOMAIN t |-> mirror[l + 1 - j].line]
    BY <1>2, <2>11
  <2>14. Len(t) = IF l < AUDIT_SHOWN THEN l ELSE AUDIT_SHOWN
    BY <2>9, <2>12, <2>13
  <2>15. l < AUDIT_SHOWN /\ DOMAIN t = 1..l
    BY <1>6, <2>9, <2>12, <2>13, <2>14
  <2>16. l + 1 - n \in 1..l /\ l + 1 - (l + 1 - n) = n
    BY <2>7, <2>9
  <2>17. t[l + 1 - n] = mirror[n].line
    BY <2>13, <2>15, <2>16
  <2> QED
    BY <2>1, <2>7, <2>15, <2>16, <2>17
<1>7. TrailTells'
  BY <1>1, <1>3, <1>6 DEF TrailTells, Answered
<1> QED
  BY <1>1, <1>3, <1>4, <1>5, <1>7 DEF StateInv

\* Every step keeps what the handler has gathered.
LEMMA StateStep ==
    ASSUME CycleInv, CycleInv', TrailInv, AnswersAreOnRecord, ServiceAssumption, StateInv,
           [Next]_vars
    PROVE  StateInv'
<1> USE DEF CycleInv
<1>1. ASSUME UNCHANGED <<decisions, loop>> PROVE StateInv'
  BY <1>1, AddedCardsDoNotMatter
<1>2. ASSUME loop'.at \in {"free", "answered", "audited"} PROVE StateInv'
  BY <1>2 DEF StateInv
<1>3. ASSUME NEW w \in Poster, PostRun(w) PROVE StateInv'
  BY <1>1, <1>3 DEF PostRun, storeVars, apiVars
<1>4. ASSUME NEW w \in Thread, Invoke(w) PROVE StateInv'
  BY <1>1, <1>4 DEF Invoke, storeVars, apiVars
<1>5. CASE Tick
  BY <1>1, <1>5 DEF Tick, storeVars, apiVars
<1>6. ASSUME NEW w \in Thread, CycleThread(w) PROVE StateInv'
  BY <1>6, ThreadOnlyAdds, ThreadsLeaveTheLoop, AddedCardsDoNotMatter
<1>7. ASSUME NEW i \in DOMAIN decisions, NEW a \in Store!HostAction,
             NEW x \in Text \cup {NoText}, HostAnswers(i, a, x)
      PROVE  StateInv'
  <2>1. loop' = [at |-> "answered", card |-> i]
    BY <1>7 DEF HostAnswers
  <2> QED
    BY <1>2, <2>1
<1>8. CASE ReadPending
  BY <1>8, PendingAreShown
<1>9. CASE AuditAnswer
  <2>1. loop.at = "answered" /\ loop = [at |-> loop.at, card |-> loop.card]
        /\ loop' = [loop EXCEPT !.at = "audited"]
    BY <1>9 DEF AuditAnswer, LoopInv
  <2>2. loop'.at = "audited"
    BY <2>1
  <2> QED
    BY <1>2, <2>2
<1>10. CASE EmitAnswer \/ Reply
  <2>1. loop' = [at |-> "free"]
    BY <1>10 DEF EmitAnswer, Reply
  <2> QED
    BY <1>2, <2>1
<1>11. CASE AuditFile(EventLoop)
  BY <1>1, <1>11 DEF AuditFile, storeVars, apiVars
<1>12. CASE ReadResolved
  BY <1>12, AllAreShown
<1>13. CASE ReadEvents
  <2>1. /\ loop.at = "events" /\ decisions' = decisions
        /\ loop'.at = "audit" /\ loop'.cards = loop.cards /\ loop'.known = loop.known
    BY <1>13 DEF ReadEvents, storeVars
  <2>2. loop.known \in 0..Len(decisions) /\ Shows(loop.cards, 1..loop.known)
    BY <2>1 DEF StateInv
  <2>3. Shows(loop.cards, 1..loop.known)'
    BY <2>1, <2>2 DEF Shows
  <2> QED
    BY <2>1, <2>2, <2>3 DEF StateInv
<1>14. CASE ReadTrail
  BY <1>14, TrailIsShown
<1>15. CASE UNCHANGED vars
  BY <1>1, <1>15 DEF vars, storeVars, apiVars
<1> QED
  BY <1>3, <1>4, <1>5, <1>6, <1>7, <1>8, <1>9, <1>10, <1>11, <1>12, <1>13, <1>14, <1>15
     DEF Next, HandlerStep

\* A state reply of build_state shows every decision there was when it began, once and with
\* the status it has when it leaves, and the line of every answer as far as its trail goes.
THEOREM StateRepliesAreConsistent == Spec => []StateReplyConsistent
<1>1. Init => StateInv
  BY DEF Init, StateInv
<1>2. CycleInv /\ CycleInv' /\ TrailInv /\ AnswersAreOnRecord /\ StateInv /\ [Next]_vars
        => StateInv'
  BY StateStep, ServiceAssumption
<1>3. StateInv => StateReplyConsistent
  <2> SUFFICES ASSUME StateInv, loop.at = "reply"
               PROVE  /\ Len(loop.cards) = loop.known
                      /\ \A i \in 1..loop.known :
                           \E n \in DOMAIN loop.cards :
                               loop.cards[n] = [id |-> i, status |-> decisions[i].status]
                      /\ Len(loop.trail) < AUDIT_SHOWN =>
                           \A n \in DOMAIN loop.cards :
                               LET d == decisions[loop.cards[n].id]
                               IN  d.status # "pending" =>
                                     \E m \in DOMAIN loop.trail :
                                         loop.trail[m] = Answered(d.booking, d.kind, d.status)
    BY DEF StateReplyConsistent
  <2>1. loop.known \in 0..Len(decisions) /\ Shows(loop.cards, 1..loop.known) /\ TrailTells
    BY DEF StateInv
  <2>2. loop.known \in Nat
    BY <2>1
  <2>3. Len(loop.cards) = loop.known
    BY <2>1, <2>2, AsManyAsShown
  <2>4. ASSUME NEW i \in 1..loop.known
        PROVE  \E n \in DOMAIN loop.cards :
                   loop.cards[n] = [id |-> i, status |-> decisions[i].status]
    <3>1. PICK n \in DOMAIN loop.cards : loop.cards[n].id = i
      BY <2>1 DEF Shows
    <3>2. loop.cards[n] \in Card /\ loop.cards[n].status = decisions[i].status
      BY <2>1, <3>1 DEF Shows
    <3> QED
      BY <3>1, <3>2 DEF Card
  <2>5. \A n \in DOMAIN loop.cards : loop.cards[n].id \in 1..loop.known
    BY <2>1 DEF Shows
  <2> QED
    BY <2>1, <2>3, <2>4, <2>5 DEF TrailTells
<1> QED
  BY <1>1, <1>2, <1>3, CycleInvariant, TrailInvariant, EveryAnswerIsOnRecord, PTL DEF Spec
=============================================================================
