CONSTANTS
    a1 = a1
    a2 = a2
    t1 = t1
    t2 = t2
    Attempts = {a1, a2}
    Tokens = {t1}
    TokenOf <- OneToken
    Unlimited = {}
    Jobs <- MCJobs
    Usages <- MCUsages
    InitQuota = 201
    InitToken = 200
    TopUps = {60}
    MaxTopUps = 0
    MaxFails = 0
    RedisEnabled = FALSE
    BatchUpdateEnabled = FALSE
    PreConsumedQuota = 2
    RatioUnit = 2
SPECIFICATION Spec
INVARIANTS ZeroUsageReturnsReservation
CHECK_DEADLOCK FALSE
