SPECIFICATION AdmissionSpec
CONSTANTS
    Channels = {1, 2, 3}
    Groups = {"default", "vip"}
    Models = {"m"}
    Types = {"a"}
    Wildcards = {}
    Covers = {}
    DefaultChannelWeight = 1
    Handlers = {h1, sync}
    Syncer = sync
    IsMasterNode = TRUE
    InitRows <- AllEnabled
    Forms <- MCForms
    Tagged = {}
    MaxWrites = 1
    Requests = {1, 2}
    Asked <- MCAsked
    RatioGroups = {"default", "vip"}
    Errors <- MCErrors
    RetryTimes = 1
    RetryTimeOut = 0
    RetryCooldownSeconds = 1
    MaxTime = 1
    Upstream = "m"
    Clients = {1, 2}
    ServerOf <- MCServerOf
    Behind <- MCBehind
    MaxRequestNum = 2
    Duration = 3
    KeyExpiration = 4
    GroupRates = {0, 2, 5}
    Minute = 3
    TokenBurstMultiplier = 2
    MaxClock = 5
    MaxRequests = 6
    MaxLoads = 1
    MaxLost = 1
INVARIANTS
    NoChannelTwice
    RetriesBounded
    BackupBilled
    FreezeHolds
    
CHECK_DEADLOCK FALSE
