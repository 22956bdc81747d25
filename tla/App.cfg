CONSTANTS
    Owners = {"connA", "connB", "connC"}
    Names = {"scan", "pose"}
    LocalIds = {1, 2}
    MaxChannels = 3
    SourceId <- SharedSources
    Models = {"arm", "arm2", "cart"}
    LinksOf <- LinkSets
    Arms = {"arm", "arm2"}
    Online = {"arm2"}
    MaxRobotLoads = 3
    DisplayLists = {"arm"}
    MaxPanes = 2
    MaxIds = 3
    MaxLayoutCalls = 2
    Frames = {"odom", "base", "tool"}
    TfChannels = {"tf", "tf2"}
    Shifts = {1}
    TfTimes = {0, 1, 3}
    BufferTime = 2
    MaxTransforms = 3
    MarkerKeys <- Keys
    Within <- KeyPrefixes
    Meshes = {"m1", "m2"}
    MarkerChannels = {"a", "b"}
    LatchedMarkers = {"b"}
    MaxMarkers = 3
    MaxMarkerClock = 1
    PlotChannels = {"b"}
    PlotFields = {"x", "y"}
    LatchedPlots = {"b"}
    Retention = 2
    PlotWindow = 1
    MaxPoints = 2
    MaxSubplots = 2
    MaxPlotMessages = 3
    MaxPlotClock = 3
    MaxPlotEdits = 3
    ViewChannels = {"a", "b"}
    MaxEntries = 3
    MaxRender = 2
    MaxViewed = 4
    MaxViewEdits = 3
    RecordedNames = {"a", "b"}
    MaxFrames = 3
    MaxRecordedIds = 2
    MaxTraffic = 4
    MaxRecordings = 2
    LayoutNames = {"desk", "lab1", "lab2"}
    LayoutFiles = {"desk", "lab_1"}
    FileFor <- SafeNames
    Texts = {"short", "long"}
    TextSize <- Sizes
    StoreWindows = {"w1", "w2"}
    StoreCalls = {"c1", "c2"}
    MaxStoreActs = 4
SPECIFICATION Spec
INVARIANTS
    SharedNameSharesSource
    JogFollowsRobot
    ModelAsAsked
    OwnedOnce
    SavedWhenQuiet
    BuffersSound
    PosesAgree
    MarkersAsPublished
    PlotFaithful
    ShownIsBound
    RecordedFaithfully
    SavedIsKept
PROPERTIES
    PanesStayMounted
    ImageNeverGoesBack
    MapFitted
CHECK_DEADLOCK FALSE
