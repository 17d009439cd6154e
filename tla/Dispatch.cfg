SPECIFICATION Spec
CONSTANTS
    r1 = r1  r2 = r2  w1 = w1  w2 = w2
    Runs = {r1, r2}
    NoRun = NoRun
    ActorlessRuns = {r2}
    InlineMode = FALSE
    Workers = {w1, w2}
    PageLimits = {1, 2}
    MaxFaults = 1
    MaxClaimErrors = 1
    MaxCrashes = 1
INVARIANTS ExecutedOnce LiveRunsAreAttended
PROPERTIES AcceptedRunEnds
CHECK_DEADLOCK FALSE
