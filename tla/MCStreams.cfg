SPECIFICATION Spec
CONSTANTS
    RingTrace = {t1, t2}
    Note = {step}
    Conn = {c1}
    AllTraces = AllTraces
    RING_CAPACITY = 2
    MaxEmits = 5
    Client = {c1, c2}
    TraceId = {t1, t2}
    NoTrace = NoTrace
    MaxCalls = 2
    MaxPublished = 3
    MaxSubs = 4
    MaxErrors = 2
    Degraded = {2}
INVARIANTS
    RingServesInOrder
    StreamAndSnapshotAgree
    HookIsSound
PROPERTIES
    EventuallySent
    FlushedInTheEnd
CHECK_DEADLOCK FALSE
