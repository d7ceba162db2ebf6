SPECIFICATION Spec
CONSTANTS
    Channels = {1, 2, 3}
    Groups = {"default", "vip"}
    Models = {"m", "up"}
    Types = {"a"}
    Wildcards = {}
    Covers = {}
    DefaultChannelWeight = 1
    Handlers = {h1, sync}
    Syncer = sync
    IsMasterNode = TRUE
    InitRows <- AllEnabled
    Forms <- MCForms
    Tagged = {}
    MaxWrites = 0
    Requests = {1, 2}
    Asked <- MCAsked
    RatioGroups = {"default", "vip"}
    Errors <- MCErrors
    RetryTimes = 2
    RetryTimeOut = 1
    RetryCooldownSeconds = 2
    MaxTime = 3
    Upstream = "up"
PROPERTIES
    FrozenNotUsed
CHECK_DEADLOCK FALSE
