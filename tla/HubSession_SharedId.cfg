CONSTANTS
    srcA = srcA
    srcB = srcB
    http = http
    win1 = win1
    win2 = win2
    panel1 = panel1
    panel2 = panel2
    NoConn = NoConn
    Owners = {srcA, srcB}
    Sources = {srcA, srcB}
    HttpSources = {}
    Clients = {win1}
    SourceId <- DistinctIds
    Names = {"map"}
    LocalIds = {1, 2}
    MaxChannels = 2
    MaxFrames = 0
    HighWater = 0
    LocalIdPolicy <- HubNumbers
    Panels = {panel1, panel2}
    PanelNames <- BothNames
    Rates = {0}
    MaxUp = 1
    MaxRestarts = 0
    OwnNamesDistinct = TRUE
SPECIFICATION SessionSpec
INVARIANTS
    BoundIsSubscribed
CHECK_DEADLOCK FALSE
