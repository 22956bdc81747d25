CONSTANTS
    srcA = srcA
    srcB = srcB
    http = http
    win1 = win1
    win2 = win2
    panel1 = panel1
    panel2 = panel2
    NoConn = NoConn
    Owners = {srcA, srcB}
    Sources = {srcA, srcB}
    HttpSources = {}
    Clients = {win1, win2}
    SourceId <- DistinctIds
    Names = {"map"}
    LocalIds = {1, 2}
    MaxChannels = 2
    MaxFrames = 0
    HighWater = 0
    LocalIdPolicy <- HubNumbers
    Panels = {panel1}
    PanelNames <- OneName
    Rates = {0, 10}
    MaxUp = 1
    MaxRestarts = 1
    OwnNamesDistinct = TRUE
SPECIFICATION SessionSpec
INVARIANTS
    BoundIsSubscribed
    DirectoryConverges
CHECK_DEADLOCK FALSE
