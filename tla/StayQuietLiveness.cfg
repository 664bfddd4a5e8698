SPECIFICATION Spec
CONSTANTS
    Poster = {p1}
    Scheduler = sched
    EventLoop = loop
    NoThread = NoThread
    Deployments = {"service"}
    Booking = {"b1"}
    Impacts <- OneImpact
    Forced <- ForcedKind
    Quiet = Quiet
    Text = {amount}
    Money = {amount}
    NoText = NoText
    RING_CAPACITY = 1
    AUDIT_SHOWN = 4
    MaxCycles = 2
    MaxToolCalls = 0
    MaxAnswers = 1
    MaxDiskFailures = 0
    StatePolled = TRUE
PROPERTIES
    EveryRunEnds
    CyclesKeepComing
CHECK_DEADLOCK FALSE
