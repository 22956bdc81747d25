CONSTANTS
    RecordedNames = {"a", "b"}
    MaxFrames = 3
    MaxRecordedIds = 2
    MaxTraffic = 4
    MaxRecordings = 2
SPECIFICATION RecorderSpec
INVARIANTS
    TopicPerChannel
CHECK_DEADLOCK FALSE
