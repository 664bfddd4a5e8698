SPECIFICATION SnapshotSpec
CONSTANTS
    Threads = {t1, t2}
    Inodes = {i1, i2, i3}
    None = None
    MaxChanges = 3
    MaxRestarts = 0
    MaxBadWrites = 0
INVARIANTS
    SnapshotWhole
CHECK_DEADLOCK FALSE
