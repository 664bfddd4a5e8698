SPECIFICATION Spec
CONSTANTS
    Poster = {p1}
    Scheduler = sched
    EventLoop = loop
    NoThread = NoThread
    Deployments = {"service"}
    Booking = {"b1"}
    Impacts <- OneImpact
    Forced <- ForcedKind
    Quiet = Quiet
    Text = {holding, amount}
    Money = {amount}
    NoText = NoText
    RING_CAPACITY = 3
    AUDIT_SHOWN = 4
    MaxCycles = 2
    MaxToolCalls = 0
    MaxAnswers = 1
    MaxDiskFailures = 0
    StatePolled = TRUE
INVARIANTS
    ScopedToLatestCycle
CHECK_DEADLOCK FALSE
