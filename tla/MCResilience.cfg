SPECIFICATION MCSpec
CONSTANTS
    Configs <- AllWrappers
    MaxCalls = 2
    Unset = Unset
    Bad = Bad
    Inputs <- MCInputs
INVARIANTS
    KillSwitchSparesProviders
    PrimaryBeforeFallback
    ChainAsConfigured
    LiveValuesChecked
    ResolvesByPrecedence
PROPERTIES
    EveryCallReturns
CHECK_DEADLOCK FALSE
