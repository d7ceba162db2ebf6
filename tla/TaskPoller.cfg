SPECIFICATION PollSpec
CONSTANTS
    n1 = n1
    Nodes = {n1}
    Tasks = {1, 2, 3}
    NodeOf <- MCNodeOf
    ChannelOf <- MCChannelOf
    NullId = {3}
    Priced = {1, 3}
    ListLimit = 2
    MaxFails = 1
    SubmitRetries = 2
    Jobs = {1, 2}
    Asked <- MCAsked
    Codes = {"ok", "ok 2xx", "busy", "exists", "done", "queued", "refused"}
    Price <- MCPrice
    MaxBusy = 1
    MaxFaults = 1
INVARIANTS
    RefundsJustified
    
    NoneLeftBehind
    SubmissionsSettled
    

    
CHECK_DEADLOCK FALSE
