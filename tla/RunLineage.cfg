SPECIFICATION Spec
CONSTANTS
    r1 = r1  r2 = r2  ip = ip  mqtt = mqtt  key1 = key1
    user1 = user1  planA = planA  planB = planB  Null = Null
    Runs = {r1, r2}
    Tokens = {t1, t2}
    ProtocolKeys = {ip}
    IdempotencyKeys = {}
    Auths = {a1}
    Users = {user1}
    Plans = {planA, planB}
    Requests <- LineageRequests
    Windows <- WindowsOf
    RequiredWindow = 2
    LeaseLength = 1
    LockWait = 0
    MaxTime = 2
    MaxConflicts = 0
    Enforced = TRUE
INVARIANTS ParentsAreSealed ApprovalLineage
PROPERTIES SuccessUnderControl RevocationStopsSuccess
SYMMETRY TokenSymmetry
