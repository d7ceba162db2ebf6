SPECIFICATION TablesSpec
CONSTANTS
    Channels = {1, 2, 3}
    Groups = {"g1", "g2"}
    Models = {"gpt-4"}
    Types = {"a", "b"}
    Wildcards = {"gpt*", "gpt-*"}
    Covers <- MCCovers
    DefaultChannelWeight = 1
    RowChoices <- MCRowChoices
    Flags <- MCFlags
    Cooldowns <- MCCooldowns
    Requests <- MCRequests
    Names = {"m", "w*"}
    Patterns = {"w*"}
    PriceForms <- MCPriceForms
    Batches <- MCBatches
    InitTables <- MCInitTables
    Servers = {"s1", "s2"}
    Master = "s1"
    Editors = {1, 2, 3}
    Loop <- MCLoop
    MaxPriceEdits = 2
    MaxPriceFails = 1
INVARIANTS
    NextIsBest
    DrawsFollowWeights
    PricesStand
PROPERTIES
    PricesHeal
CHECK_DEADLOCK FALSE
