CONSTANTS
    srcA = srcA
    srcB = srcB
    http = http
    win1 = win1
    win2 = win2
    panel1 = panel1
    panel2 = panel2
    NoConn = NoConn
    Owners = {srcA, http}
    Sources = {srcA}
    HttpSources = {http}
    Clients = {win1}
    SourceId <- DistinctIds
    Names = {"map"}
    LocalIds = {1, 2}
    MaxChannels = 2
    MaxFrames = 1
    HighWater = 0
    LocalIdPolicy <- HubNumbers
    Panels = {}
    PanelNames <- NoNames
    Rates = {0}
    MaxUp = 1
    MaxRestarts = 0
    OwnNamesDistinct = TRUE
SPECIFICATION SessionSpec
INVARIANTS
    DirectoryConverges
CHECK_DEADLOCK FALSE
