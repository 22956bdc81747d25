CONSTANTS
    srcA = srcA
    srcB = srcB
    http = http
    win1 = win1
    win2 = win2
    panel1 = panel1
    panel2 = panel2
    NoConn = NoConn
    Owners = {srcA, http}
    Sources = {srcA}
    HttpSources = {http}
    Clients = {win1}
    SourceId <- DistinctIds
    Names = {"map"}
    LocalIds = {1, 2, 3}
    MaxChannels = 3
    MaxFrames = 1
    HighWater = 0
    LocalIdPolicy <- HubNumbers
    Panels = {panel1, panel2}
    PanelNames <- OneName
    Rates = {0, 10}
    MaxUp = 1
    MaxRestarts = 0
    OwnNamesDistinct = TRUE
SPECIFICATION SessionFairSpec
PROPERTIES
    PanelsServed
CHECK_DEADLOCK FALSE
