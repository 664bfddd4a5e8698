SPECIFICATION Spec
CONSTANTS
    Poster = {p1}
    Scheduler = sched
    EventLoop = loop
    NoThread = NoThread
    Deployments = {"service"}
    Booking = {"b1", "b2"}
    Impacts <- TwoImpacts
    Forced <- ForcedKind
    Quiet = Quiet
    Text = {holding}
    Money = {}
    NoText = NoText
    RING_CAPACITY = 3
    AUDIT_SHOWN = 4
    MaxCycles = 2
    MaxToolCalls = 1
    MaxAnswers = 0
    MaxDiskFailures = 1
    StatePolled = FALSE
INVARIANTS
    ToolContextIsOwn
    CardsAreExplained
CHECK_DEADLOCK FALSE
