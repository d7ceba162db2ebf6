CONSTANTS
    a1 = a1
    a2 = a2
    t1 = t1
    t2 = t2
    Attempts = {a1, a2}
    Tokens = {t1, t2}
    TokenOf <- TwoTokens
    Unlimited = {t2}
    Jobs <- MCJobs
    Usages <- MCUsages
    InitQuota = 201
    InitToken = 200
    TopUps = {60}
    MaxTopUps = 1
    MaxFails = 1
    RedisEnabled = TRUE
    BatchUpdateEnabled = FALSE
    PreConsumedQuota = 2
    RatioUnit = 2
SPECIFICATION Spec
INVARIANTS BillSettled TokenFollowsUser NoCreditFromNothing BooksAgree
CHECK_DEADLOCK FALSE
