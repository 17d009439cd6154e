SPECIFICATION Spec
CONSTANTS
    s1 = s1
    Sweepers = {s1}
    RowLimit = 2
    PageSize = 1
    LeaseLength = 2
    MaxTime = 3
    MaxCrashes = 0
    Damages = {"altered", "missing"}
    SnapshotReads = FALSE
INVARIANTS QuarantineNeedsDamage
CHECK_DEADLOCK FALSE
