SPECIFICATION AccountSpec
CONSTANTS
    k1 = k1
    k2 = k2
    k3 = k3
    o1 = o1
    o2 = o2
    r1 = r1
    r2 = r2
    c1 = c1
    Orders = {o1, o2}
    Callbacks = {k1, k2}
    Codes = {c1}
    Redeemers = {r1, r2}
    OrderOf <- MCOrderOf
    GatewayNo <- MCGatewayNo
    NodeOf <- MCNodeOf
    CodeOf <- MCCodeOf
    OrderQuota <- MCOrderQuota
    CodeQuota <- MCCodeQuota
    InitQuota = 0
    UsedQuota = 0
    Promotions <- MCPromotions
    InitGroup = "default"
    RowLocks = FALSE
    MaxEdits = 0
    MaxFails = 1
    Users = {1, 2}
    Role <- MCRole
    NewUsers = {2}
    UserForms <- MCUserForms
    Handlers = {1}
    MaxChanges = 0
    CacheNodes = {1}
    MaxRowEdits = 0
    MaxDraws = 0
INVARIANTS
    RedeemedOnce
CHECK_DEADLOCK FALSE
