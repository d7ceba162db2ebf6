SPECIFICATION TestSpec
CONSTANTS
    Channels = {1, 2}
    Groups = {"default"}
    Models = {"m"}
    Types = {"a"}
    Wildcards = {}
    Covers = {}
    DefaultChannelWeight = 1
    Handlers = {h1, sync}
    Syncer = sync
    IsMasterNode = TRUE
    InitRows <- MCInitRows
    Forms <- MCForms
    Tagged = {1}
    MaxWrites = 1
    Callers = {k1, k2}
    AutomaticEnableChannelEnabled = TRUE
    AutomaticDisableChannelEnabled = TRUE
    MaxSweeps = 2
    MaxErrors = 1
CHECK_DEADLOCK FALSE
PROPERTY ManualNotRecovered
