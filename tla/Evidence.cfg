SPECIFICATION Spec
CONSTANTS
    s1 = s1
    Sweepers = {s1}
    RowLimit = 2
    PageSize = 1
    LeaseLength = 2
    MaxTime = 3
    MaxCrashes = 1
    Damages = {"altered", "missing"}
    SnapshotReads = TRUE
INVARIANTS QuarantineNeedsDamage OutcomeMatchesSeal
PROPERTIES KeepsPromise FinalizationEnds ExpiredRunsAreSealed
CHECK_DEADLOCK FALSE
