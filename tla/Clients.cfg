CONSTANTS
    ChannelNames = {a, b}
    MaxChannels = 2
    MaxRenames = 1
    MaxHubFrames = 2
    Senders = {s1, s2}
    MaxOutFrames = 3
    MaxPings = 1
    map = map
    scan = scan
    panelA = panelA
    Channels = {map, scan}
    Latched = {map}
    Panels = {panelA}
    Watches <- OnePanel
    Stamps = {1, 3}
    Windows = {0, 2}
    MaxFrames = 3
    Configs = {"p", "q"}
    MaxMoves = 2
    MaxCommits = 2
    MaxEntries = 2
    MaxStops = 1
    DisplayChannels = {"a", "b"}
    LatchedDisplays = {"a"}
    MaxPoints = 2
    MaxDisplayed = 2
    MaxEdits = 3
SPECIFICATION FairSpec
INVARIANTS
    DeliveredOnce
    WholeFrames
    ClosedFdUnused
    OvertakesOnlyOlder
    MonotoneStream
    LatePanelsCurrent
    HeldUntilSent
PROPERTIES
    ConsumerServed
    CloseReturns
    AllDispatched
    JogSettles
    ScreenUpToDate
CHECK_DEADLOCK FALSE
