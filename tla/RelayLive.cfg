SPECIFICATION LiveSpec
CONSTANTS
    Channels = {1, 2, 3}
    Groups = {"default", "vip"}
    Models = {"m"}
    Types = {"a"}
    Wildcards = {}
    Covers = {}
    DefaultChannelWeight = 1
    Handlers = {h1, sync}
    Syncer = sync
    IsMasterNode = TRUE
    InitRows <- AllEnabled
    Forms <- MCForms
    Tagged = {}
    MaxWrites = 0
    Requests = {1, 2}
    Asked <- SpecificAsked
    RatioGroups = {"default"}
    Errors <- MCErrors
    RetryTimes = 2
    RetryTimeOut = 0
    RetryCooldownSeconds = 0
    MaxTime = 1
    Upstream = "m"
    MaxLines = 2
    MaxTries = 1
    MaxPings = 1
    MaxChoices = 4
    Sessions = {1, 2}
    ConnectTries = 1
    UserQuota = 2
    Price = 1
    MaxUsages = 3
INVARIANTS
    OneEnding
    
    ReservationSettled
    LateWriteOnce
    EventsNested
    

    
CHECK_DEADLOCK FALSE
