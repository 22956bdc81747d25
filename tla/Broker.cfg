CONSTANTS
    srcA = srcA
    srcB = srcB
    http = http
    viewer = viewer
    Owners = {srcA, srcB, http}
    Sources = {srcA, srcB}
    HttpSources = {http}
    Clients = {viewer}
    SourceId <- DistinctIds
    Names = {"map"}
    LocalIds = {1, 2}
    MaxChannels = 2
    MaxFrames = 2
    HighWater = 0
    LocalIdPolicy <- OneOfEach
SPECIFICATION Spec
INVARIANTS
    LatchedCacheFaithful
    LatchedReachesSubscriber
CHECK_DEADLOCK FALSE
