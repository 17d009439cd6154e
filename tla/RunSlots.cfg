SPECIFICATION Spec
CONSTANTS
    r1 = r1  r2 = r2  ip = ip  mqtt = mqtt  key1 = key1
    user1 = user1  planA = planA  planB = planB  Null = Null
    Runs = {r1, r2}
    Tokens = {t1, t2}
    ProtocolKeys = {ip, mqtt}
    IdempotencyKeys = {key1}
    Auths = {}
    Users = {}
    Plans = {planA}
    Requests <- SlotRequests
    Windows <- NoWindows
    RequiredWindow = 1
    LeaseLength = 2
    LockWait = 1
    MaxTime = 3
    MaxConflicts = 1
    Enforced = TRUE
SYMMETRY RunTokenSymmetry
INVARIANTS SlotsFollowLiveRuns KeyNamesOneRun
PROPERTIES LeaseSeparatesOwnerFromRecovery LapsedLeaseStaysLapsed KeepsPromise
