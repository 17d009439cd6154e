SPECIFICATION FairSpec
CONSTANTS
    r1 = r1  r2 = r2  q1 = q1  a1 = a1  a2 = a2
    Runs = {r1, r2}
    Reports = {}
    HoldTypes = {"legal"}
    Appliers = {a1, a2}
    RowsOf <- MCRowsOf
    BatchLimit = 2
    None = None
    MaxHolds = 1
    MaxJobs = 2
    MaxFaults = 0
PROPERTY JobEnds
CHECK_DEADLOCK FALSE
