SPECIFICATION WebSpec
CONSTANTS
    Steps = 2
    MaxKept = 3
    Slot = {"poll"}
    MaxRing = 2
    MaxLongRing = 4
    MaxClicks = 1
    MaxFaults = 1
INVARIANTS
    EnvelopesOnce
PROPERTIES
    HeldIsShown
    CatchesUp
CHECK_DEADLOCK FALSE
