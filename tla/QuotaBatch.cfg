CONSTANTS
    a1 = a1
    a2 = a2
    t1 = t1
    t2 = t2
    Attempts = {a1}
    Tokens = {t1}
    TokenOf <- OneToken
    Unlimited = {}
    Jobs <- MCJobs
    Usages <- MCUsages
    InitQuota = 101
    InitToken = 200
    TopUps = {60}
    MaxTopUps = 1
    MaxFails = 1
    RedisEnabled = TRUE
    BatchUpdateEnabled = TRUE
    PreConsumedQuota = 2
    RatioUnit = 2
SPECIFICATION FairSpec
INVARIANTS BatchConserves
PROPERTIES  BatchDrains
