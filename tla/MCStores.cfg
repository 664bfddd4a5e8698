SPECIFICATION Spec
CONSTANTS
    Trace = {t1}
    Booking = {a1, a2}
    Kind = {k1}
    Text = {v1, v2}
    NoText = NoText
    MaxRuns = 2
    MaxDecisions = 3
    Writer = {cycle, loop}
    Line = {changed, escalated, answered}
    Repeating = {changed, escalated}
    MaxEntries = 5
    MaxCrashes = 1
    Procs = {a1, a2}
    Keys = {k1}
    Values = {v1, v2}
    Absent = Absent
    Partial = Partial
    Corrupt = Corrupt
    NoIndex = NoIndex
    NoKey = NoKey
    NoValue = NoValue
    MaxOps = 4
    MaxDamage = 1
    MaxFaults = 1
    MaxKills = 1
    Wrappers = {"w1", "w2"}
    Provider <- ProviderOf
    Limits <- Budgets
    Default <- Budget
    Units = {1, 2}
    FailureUnits = 1
    Readers = TRUE
    MaxRecords = 3
    MaxResets = 1
    Threads = {t1}
    Inodes = {i1, i2}
    None = None
    MaxChanges = 5
    MaxRestarts = 3
    MaxBadWrites = 2
SYMMETRY Interchangeable
INVARIANTS
    OnePendingPerAsk
    NoRepeatInMirror
    EachEntryAccountedFor
    NoPartialEntry
    GetTellsTruth
    CrossingsAreHeard
    RecordedStays
PROPERTIES
    ImplementsDesk
    RestartKeepsRecords
CHECK_DEADLOCK FALSE
